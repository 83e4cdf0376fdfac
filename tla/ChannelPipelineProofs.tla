----------------------- MODULE ChannelPipelineProofs -----------------------
(***************************************************************************)
(* Proofs about the pipeline, for all names, kinds of handlers, events,    *)
(* pipelines built beforehand, and numbers of calls and contexts.          *)
(*                                                                         *)
(* The list is described by a sequence of contexts f[1], ..., f[k] that no *)
(* variable holds: the invariant PipeInv says that one exists to which the *)
(* pointers (Linked), the map (NamesInv, StaleInv), the rest of the work   *)
(* of the holder of the mutex (WorkOK) and the chains (ChainInv, LinkInv)  *)
(* conform.  Every step inserts, removes or replaces one element of it, or *)
(* leaves it alone.  The properties speak of the walk from head, which     *)
(* meets exactly f[1], ..., f[k] (WalkIs, PrecedesIs).                     *)
(***************************************************************************)
EXTENDS ChannelPipeline, SequenceLemmas

(***************************************************************************)
(* What the holder of the mutex has to do.                                 *)
(***************************************************************************)
LEMMA ConcatAt ==
    ASSUME NEW S, NEW s \in Seq(S), NEW t \in Seq(S), NEW i \in DOMAIN (s \o t)
    PROVE  \/ i \in DOMAIN s /\ (s \o t)[i] = s[i]
           \/ \E j \in DOMAIN t : i = Len(s) + j /\ (s \o t)[i] = t[j]
<1>1. s \o t \in Seq(S) /\ Len(s \o t) = Len(s) + Len(t)
  BY ConcatProperties
<1>2. i \in 1 .. Len(s) + Len(t) /\ Len(s) \in Nat /\ Len(t) \in Nat
  BY <1>1
<1>3. CASE i <= Len(s)
  BY <1>2, <1>3, ConcatProperties
<1>4. CASE i > Len(s)
  <2>1. i - Len(s) \in 1 .. Len(t) /\ i = Len(s) + (i - Len(s))
    BY <1>2, <1>4
  <2>2. (s \o t)[i] = t[i - Len(s)]
    BY <1>2, <1>4, ConcatProperties
  <2> QED
    BY <2>1, <2>2
<1> QED
  BY <1>2, <1>3, <1>4

LEMMA ConcatFrom ==
    ASSUME NEW S, NEW s \in Seq(S), NEW t \in Seq(S)
    PROVE  /\ s \o t \in Seq(S)
           /\ \A i \in DOMAIN s : i \in DOMAIN (s \o t) /\ (s \o t)[i] = s[i]
           /\ \A i \in DOMAIN t : Len(s) + i \in DOMAIN (s \o t) /\ (s \o t)[Len(s) + i] = t[i]
<1>1. s \o t \in Seq(S) /\ Len(s \o t) = Len(s) + Len(t) /\ Len(s) \in Nat /\ Len(t) \in Nat
  BY ConcatProperties
<1>2. ASSUME NEW i \in DOMAIN s
      PROVE  i \in DOMAIN (s \o t) /\ (s \o t)[i] = s[i]
  <2>1. i \in 1 .. Len(s) /\ i \in 1 .. Len(s) + Len(t)
    BY <1>1
  <2> QED
    BY <1>1, <2>1, ConcatProperties
<1>3. ASSUME NEW i \in DOMAIN t
      PROVE  Len(s) + i \in DOMAIN (s \o t) /\ (s \o t)[Len(s) + i] = t[i]
  <2>1. /\ Len(s) + i \in 1 .. Len(s) + Len(t) /\ Len(s) + i > Len(s)
        /\ Len(s) + i - Len(s) = i
    BY <1>1
  <2> QED
    BY <1>1, <2>1, ConcatProperties
<1> QED
  BY <1>1, <1>2, <1>3

LEMMA TailAt ==
    ASSUME NEW S, NEW s \in Seq(S), s # <<>>
    PROVE  /\ Tail(s) \in Seq(S) /\ Head(s) \in S /\ Head(s) = s[1] /\ 1 \in DOMAIN s
           /\ \A i \in DOMAIN Tail(s) : i + 1 \in DOMAIN s /\ i + 1 # 1 /\ Tail(s)[i] = s[i + 1]
           /\ \A i \in DOMAIN s : i # 1 => i - 1 \in DOMAIN Tail(s) /\ Tail(s)[i - 1] = s[i]
<1>a. /\ Tail(s) \in Seq(S) /\ Len(Tail(s)) = Len(s) - 1 /\ Len(s) \in Nat \ {0}
      /\ \A i \in 1 .. Len(Tail(s)) : Tail(s)[i] = s[i + 1]
      /\ Head(s) = s[1] /\ Head(s) \in S
  BY HeadTailProperties, EmptySeq
<1>b. DOMAIN s = 1 .. Len(s) /\ DOMAIN Tail(s) = 1 .. Len(Tail(s))
  BY <1>a
<1>1. \A i \in DOMAIN Tail(s) : i + 1 \in DOMAIN s /\ i + 1 # 1 /\ Tail(s)[i] = s[i + 1]
  BY <1>a, <1>b
<1>2. ASSUME NEW i \in DOMAIN s, i # 1
      PROVE  i - 1 \in DOMAIN Tail(s) /\ Tail(s)[i - 1] = s[i]
  <2>1. i - 1 \in 1 .. Len(Tail(s)) /\ (i - 1) + 1 = i
    BY <1>2, <1>a, <1>b
  <2> QED
    BY <1>a, <1>b, <2>1
<1> QED
  BY <1>a, <1>b, <1>1, <1>2

Adders == {"add", "afterAdd"}
Chained == {"update", "walk"}
Free(w, what) == \A i \in DOMAIN w : w[i].do \notin what

(* A job refers to contexts that exist; one that will be called is in the   *)
(* list L, one that will be deleted is not.                                 *)
JobOK(j, M, L) ==
    /\ j.do \in {"afterAdd", "afterRemove", "delete"} => j.at \in M
    /\ j.do = "walk" => j.at \in L \cup {NULL}
    /\ j.do = "afterAdd" => j.at \in L
    /\ j.do = "delete" => j.at \notin L

(* Chains are rebuilt first, a walk is only ever under way at the front,    *)
(* and at most one handler is on its way into the list.                     *)
WorkOK(w, M, L) ==
    /\ w \in Seq(Jobs)
    /\ \A i \in DOMAIN w : JobOK(w[i], M, L)
    /\ \A i \in DOMAIN w : w[i].do = "walk" => i = 1
    /\ \A i \in DOMAIN w : w[i].do \in Chained => \A j \in DOMAIN w : j < i => w[j].do \in Chained
    /\ \A i, j \in DOMAIN w : w[i].do \in Adders /\ w[j].do \in Adders => i = j

LEMMA WorkTail ==
    ASSUME NEW w, NEW M, NEW L, WorkOK(w, M, L), w # <<>>
    PROVE  /\ WorkOK(Tail(w), M, L) /\ Free(Tail(w), {"walk"})
           /\ Head(w) \in Jobs /\ JobOK(Head(w), M, L)
           /\ Head(w).do \in Adders => Free(Tail(w), Adders)
           /\ Head(w).do \notin Chained => Free(Tail(w), Chained)
<1> DEFINE t == Tail(w)
<1>1. w \in Seq(Jobs)
  BY DEF WorkOK
<1>2. /\ t \in Seq(Jobs) /\ Head(w) \in Jobs /\ Head(w) = w[1] /\ 1 \in DOMAIN w
      /\ \A i \in DOMAIN t : i + 1 \in DOMAIN w /\ i + 1 # 1 /\ t[i] = w[i + 1] /\ i \in Nat
                             /\ i \in Int /\ 1 < i + 1
  BY <1>1, TailAt
<1> HIDE DEF t
<1>3. \A i \in DOMAIN t : JobOK(t[i], M, L) /\ t[i].do # "walk"
  BY <1>2 DEF WorkOK
<1>4. \A i \in DOMAIN t : t[i].do \in Chained => \A j \in DOMAIN t : j < i => t[j].do \in Chained
  <2> SUFFICES ASSUME NEW i \in DOMAIN t, t[i].do \in Chained, NEW j \in DOMAIN t, j < i
               PROVE  t[j].do \in Chained
    OBVIOUS
  <2>1. j + 1 < i + 1 /\ w[i + 1].do \in Chained /\ i + 1 \in DOMAIN w /\ j + 1 \in DOMAIN w
    BY <1>2
  <2>2. w[j + 1].do \in Chained
    BY <2>1 DEF WorkOK
  <2> QED
    BY <1>2, <2>2
<1>5. \A i, j \in DOMAIN t : t[i].do \in Adders /\ t[j].do \in Adders => i = j
  <2> SUFFICES ASSUME NEW i \in DOMAIN t, NEW j \in DOMAIN t, t[i].do \in Adders, t[j].do \in Adders
               PROVE  i = j
    OBVIOUS
  <2>1. i + 1 = j + 1
    BY <1>2 DEF WorkOK
  <2> QED
    BY <1>2, <2>1
<1>6. w[1].do \in Adders => \A i \in DOMAIN t : t[i].do \notin Adders
  BY <1>2 DEF WorkOK
<1>7. w[1].do \notin Chained => \A i \in DOMAIN t : t[i].do \notin Chained
  BY <1>2 DEF WorkOK
<1>8. JobOK(Head(w), M, L)
  BY <1>2 DEF WorkOK
<1>9. WorkOK(t, M, L)
  BY <1>2, <1>3, <1>4, <1>5 DEF WorkOK
<1> QED
  BY <1>2, <1>3, <1>6, <1>7, <1>8, <1>9 DEF t, Free

LEMMA WorkConcat ==
    ASSUME NEW M, NEW L, NEW a, NEW b, WorkOK(a, M, L), WorkOK(b, M, L),
           Free(b, {"walk"}), Free(a, Adders) \/ Free(b, Adders),
           Free(b, Chained) \/ \A i \in DOMAIN a : a[i].do \in Chained
    PROVE  WorkOK(a \o b, M, L)
<1> DEFINE c == a \o b
<1>1. a \in Seq(Jobs) /\ b \in Seq(Jobs)
  BY DEF WorkOK
<1>2. c \in Seq(Jobs) /\ Len(a) \in Nat /\ DOMAIN a = 1 .. Len(a) /\ DOMAIN b = 1 .. Len(b)
      /\ Len(b) \in Nat
  BY <1>1, ConcatProperties
<1>3. \A i \in DOMAIN c :
          \/ i \in DOMAIN a /\ c[i] = a[i]
          \/ \E j \in DOMAIN b : i = Len(a) + j /\ c[i] = b[j]
  BY <1>1, ConcatAt
<1> HIDE DEF c
<1>4. \A i \in DOMAIN c : JobOK(c[i], M, L)
  BY <1>3 DEF WorkOK
<1>5. \A i \in DOMAIN c : c[i].do = "walk" => i = 1
  BY <1>3 DEF WorkOK, Free
<1>6. ASSUME NEW i \in DOMAIN c, c[i].do \in Chained, NEW j \in DOMAIN c, j < i
      PROVE  c[j].do \in Chained
  <2>1. CASE i \in DOMAIN a /\ c[i] = a[i]
    <3>1. j \in DOMAIN a /\ c[j] = a[j]
      BY <1>2, <1>3, <1>6, <2>1
    <3> QED
      BY <1>6, <2>1, <3>1 DEF WorkOK
  <2>2. CASE \E m \in DOMAIN b : i = Len(a) + m /\ c[i] = b[m]
    <3>1. PICK m \in DOMAIN b : i = Len(a) + m /\ c[i] = b[m]
      BY <2>2
    <3>2. \A x \in DOMAIN a : a[x].do \in Chained
      BY <1>6, <3>1 DEF Free
    <3>3. CASE j \in DOMAIN a /\ c[j] = a[j]
      BY <3>2, <3>3
    <3>4. CASE \E n \in DOMAIN b : j = Len(a) + n /\ c[j] = b[n]
      <4>1. PICK n \in DOMAIN b : j = Len(a) + n /\ c[j] = b[n]
        BY <3>4
      <4>2. n < m
        BY <1>2, <1>6, <3>1, <4>1
      <4> QED
        BY <1>6, <3>1, <4>1, <4>2 DEF WorkOK
    <3> QED
      BY <1>3, <3>3, <3>4
  <2> QED
    BY <1>3, <2>1, <2>2
<1>7. ASSUME NEW i \in DOMAIN c, NEW j \in DOMAIN c, c[i].do \in Adders, c[j].do \in Adders
      PROVE  i = j
  <2>1. CASE Free(a, Adders)
    <3>1. PICK m \in DOMAIN b : i = Len(a) + m /\ c[i] = b[m]
      BY <1>3, <1>7, <2>1 DEF Free
    <3>2. PICK n \in DOMAIN b : j = Len(a) + n /\ c[j] = b[n]
      BY <1>3, <1>7, <2>1 DEF Free
    <3> QED
      BY <1>7, <3>1, <3>2 DEF WorkOK
  <2>2. CASE Free(b, Adders)
    BY <1>3, <1>7, <2>2 DEF Free, WorkOK
  <2> QED
    BY <2>1, <2>2
<1>8. WorkOK(c, M, L)
  BY <1>2, <1>4, <1>5, <1>6, <1>7 DEF WorkOK
<1> QED
  BY <1>8 DEF c

LEMMA FreeConcat ==
    ASSUME NEW S, NEW a \in Seq(S), NEW b \in Seq(S), NEW what, Free(a, what), Free(b, what)
    PROVE  Free(a \o b, what)
BY ConcatAt DEF Free

(***************************************************************************)
(* The list: the contexts f[1], ..., f[k], without repetition, linked both *)
(* ways between hd and tl.                                                 *)
(***************************************************************************)
Linked(cx, md, hd, tl, k, f) ==
    /\ k \in 0 .. md /\ f \in [1 .. k -> 1 .. md]
    /\ \A i, j \in 1 .. k : f[i] = f[j] => i = j
    /\ hd = (IF k = 0 THEN NULL ELSE f[1])
    /\ tl = (IF k = 0 THEN NULL ELSE f[k])
    /\ \A i \in 1 .. k : /\ cx[f[i]].next = (IF i = k THEN NULL ELSE f[i + 1])
                         /\ cx[f[i]].prev = (IF i = 1 THEN NULL ELSE f[i - 1])
Members(k, f) == {f[i] : i \in 1 .. k}

LEMMA ContextTypes ==
    ASSUME NEW r \in Contexts
    PROVE  /\ r.name \in Names /\ r.kind \in Kinds /\ r.next \in Ptrs /\ r.prev \in Ptrs
           /\ r.link \in [Directions -> Ptrs]
BY DEF Contexts

(* The contexts of cx, except that p's next is x and q's prev is y. *)
Relinked(cx, p, x, q, y) ==
    /\ cx \in [1 .. made -> Contexts]
    /\ \A i \in 1 .. made :
          /\ cx[i].name = ctx[i].name /\ cx[i].kind = ctx[i].kind /\ cx[i].link = ctx[i].link
          /\ cx[i].next = (IF i = p THEN x ELSE ctx[i].next)
          /\ cx[i].prev = (IF i = q THEN y ELSE ctx[i].prev)

WithEnds(p, x, q, y) ==
    [i \in 1 .. made |-> [ctx[i] EXCEPT !.next = IF i = p THEN x ELSE @,
                                        !.prev = IF i = q THEN y ELSE @]]

LEMMA Relink ==
    ASSUME ctx \in [1 .. made -> Contexts], NEW x \in Ptrs, NEW y \in Ptrs, NEW p, NEW q
    PROVE  Relinked(WithEnds(p, x, q, y), p, x, q, y)
<1> DEFINE new(i) == [ctx[i] EXCEPT !.next = IF i = p THEN x ELSE @,
                                    !.prev = IF i = q THEN y ELSE @]
<1>1. ASSUME NEW i \in 1 .. made
      PROVE  /\ new(i) \in Contexts
             /\ new(i).name = ctx[i].name /\ new(i).kind = ctx[i].kind /\ new(i).link = ctx[i].link
             /\ new(i).next = (IF i = p THEN x ELSE ctx[i].next)
             /\ new(i).prev = (IF i = q THEN y ELSE ctx[i].prev)
  <2>1. PICK r \in Contexts : r = ctx[i]
    OBVIOUS
  <2>2. PICK a \in Ptrs : a = IF i = p THEN x ELSE r.next
    BY <2>1, ContextTypes
  <2>3. PICK b \in Ptrs : b = IF i = q THEN y ELSE r.prev
    BY <2>1, ContextTypes
  <2>4. PICK z : z = [r EXCEPT !.next = a, !.prev = b]
    OBVIOUS
  <2>5. /\ z \in Contexts /\ z.next = a /\ z.prev = b
        /\ z.name = r.name /\ z.kind = r.kind /\ z.link = r.link
    BY <2>4 DEF Contexts
  <2>6. new(i) = z
    <3>1. (IF i = p THEN x ELSE ctx[i].next) = a /\ (IF i = q THEN y ELSE ctx[i].prev) = b
      BY <2>1, <2>2, <2>3
    <3> QED
      BY <2>1, <2>4, <3>1, Zenon
  <2> HIDE DEF new
  <2> QED
    BY <2>1, <2>2, <2>3, <2>5, <2>6
<1> HIDE DEF new
<1>2. Relinked([i \in 1 .. made |-> new(i)], p, x, q, y)
  BY <1>1 DEF Relinked
<1> QED
  BY <1>2 DEF new, WithEnds

LEMMA NewContextType ==
    ASSUME NEW n \in Names, NEW kind \in Kinds, NEW p \in Ptrs, NEW nx \in Ptrs
    PROVE  LET r == NewContext(n, kind, p, nx)
           IN  /\ r \in Contexts /\ r.name = n /\ r.kind = kind /\ r.next = nx /\ r.prev = p
               /\ \A d \in Directions : r.link[d] = NULL
BY DEF NewContext, Contexts, Ptrs

LEMMA LinkedInIs ==
    ASSUME ctx \in [1 .. made -> Contexts], NEW c \in Ptrs, NEW p, NEW nx
    PROVE  Relinked(LinkedIn(c, p, nx), p, c, nx, c)
<1>1. LinkedIn(c, p, nx) = WithEnds(p, c, nx, c)
  BY DEF LinkedIn, WithEnds
<1> QED
  BY <1>1, Relink

(* A context is made after those of cx. *)
LEMMA AppendContext ==
    ASSUME made \in Nat, NEW cx \in [1 .. made -> Contexts], NEW r \in Contexts
    PROVE  /\ Append(cx, r) \in [1 .. made + 1 -> Contexts]
           /\ \A i \in 1 .. made : Append(cx, r)[i] = cx[i]
           /\ Append(cx, r)[made + 1] = r
<1>1. cx \in Seq(Contexts) /\ Len(cx) = made
  <2>1. cx \in Seq(Contexts)
    BY SeqDef
  <2>2. DOMAIN cx = 1 .. Len(cx) /\ Len(cx) \in Nat
    BY <2>1, LenProperties
  <2>3. 1 .. Len(cx) = 1 .. made
    BY <2>2
  <2>4. Len(cx) = made
    BY <2>2, <2>3
  <2> QED
    BY <2>1, <2>4
<1>2. Append(cx, r) \in Seq(Contexts) /\ Len(Append(cx, r)) = made + 1
  BY <1>1, AppendProperties
<1>3. Append(cx, r) \in [1 .. made + 1 -> Contexts]
  <2>1. PICK z \in Seq(Contexts) : z = Append(cx, r) /\ Len(z) = made + 1
    BY <1>2
  <2>2. z \in [1 .. Len(z) -> Contexts]
    BY LenProperties
  <2> QED
    BY <2>1, <2>2
<1> QED
  BY <1>1, <1>3, AppendProperties

(* A context c in the place after q contexts. *)
InsertedAt(k, f, q, c) ==
    [i \in 1 .. k + 1 |-> IF i <= q THEN f[i] ELSE IF i = q + 1 THEN c ELSE f[i - 1]]

(* The place after q contexts is between p and nx. *)
Between(k, f, q, p, nx) ==
    /\ q \in 0 .. k
    /\ p = (IF q = 0 THEN NULL ELSE f[q])
    /\ nx = (IF q = k THEN NULL ELSE f[q + 1])

(* The new context in cx, the others as in cy. *)
Extended(cx, cy, p, nx) ==
    /\ \A i \in 1 .. made : cx[i] = cy[i]
    /\ cx[made + 1].prev = p /\ cx[made + 1].next = nx

NewHead(p) == IF p = NULL THEN made + 1 ELSE head
NewTail(nx) == IF nx = NULL THEN made + 1 ELSE tail

LEMMA InsertLinked ==
    ASSUME made \in Nat, NEW k, NEW f, Linked(ctx, made, head, tail, k, f),
           NEW q, NEW p, NEW nx, Between(k, f, q, p, nx),
           NEW cy, Relinked(cy, p, made + 1, nx, made + 1),
           NEW cx, Extended(cx, cy, p, nx)
    PROVE  /\ Linked(cx, made + 1, NewHead(p), NewTail(nx), k + 1, InsertedAt(k, f, q, made + 1))
           /\ Members(k + 1, InsertedAt(k, f, q, made + 1)) = Members(k, f) \cup {made + 1}
<1>z. /\ q \in 0 .. k /\ p = (IF q = 0 THEN NULL ELSE f[q])
      /\ nx = (IF q = k THEN NULL ELSE f[q + 1])
  BY DEF Between
<1>y. (\A i \in 1 .. made : cx[i] = cy[i]) /\ cx[made + 1].prev = p /\ cx[made + 1].next = nx
  BY DEF Extended
<1> DEFINE c == made + 1
           g == InsertedAt(k, f, q, c)
<1>0. k \in 0 .. made /\ f \in [1 .. k -> 1 .. made]
  BY DEF Linked
<1>a. k \in Nat /\ q \in Nat /\ q <= k /\ k <= made /\ \A i \in 1 .. k : f[i] \in 1 .. made
  BY <1>0, <1>z
<1>1. g \in [1 .. k + 1 -> 1 .. c]
  BY <1>a DEF InsertedAt
<1>2. /\ \A i \in 1 .. k + 1 : g[i] = IF i <= q THEN f[i] ELSE IF i = q + 1 THEN c ELSE f[i - 1]
  BY DEF InsertedAt
<1> HIDE DEF g
<1>3. \A i, j \in 1 .. k + 1 : g[i] = g[j] => i = j
  <2> SUFFICES ASSUME NEW i \in 1 .. k + 1, NEW j \in 1 .. k + 1, g[i] = g[j]
               PROVE  i = j
    OBVIOUS
  <2>1. \A x \in 1 .. k + 1 : \/ x <= q /\ x \in 1 .. k /\ g[x] = f[x]
                              \/ x = q + 1 /\ g[x] = c
                              \/ x > q + 1 /\ x - 1 \in 1 .. k /\ g[x] = f[x - 1]
    BY <1>2, <1>a
  <2>2. \A x \in 1 .. k : f[x] # c
    BY <1>a
  <2>3. \A x, y \in 1 .. k : f[x] = f[y] => x = y
    BY DEF Linked
  <2> QED
    BY <2>1, <2>2, <2>3, <1>a
<1>4. ASSUME NEW i \in 1 .. k + 1
      PROVE  /\ cx[g[i]].next = (IF i = k + 1 THEN NULL ELSE g[i + 1])
             /\ cx[g[i]].prev = (IF i = 1 THEN NULL ELSE g[i - 1])
  <2>0. ASSUME NEW x \in 1 .. k
        PROVE  /\ f[x] \in 1 .. made /\ f[x] # NULL /\ cx[f[x]] = cy[f[x]]
               /\ cx[f[x]].next = (IF x = q THEN c ELSE IF x = k THEN NULL ELSE f[x + 1])
               /\ cx[f[x]].prev = (IF x = q + 1 THEN c ELSE IF x = 1 THEN NULL ELSE f[x - 1])
    <3>1. f[x] \in 1 .. made /\ f[x] # NULL
      BY <1>a DEF NULL
    <3>2. f[x] = p <=> x = q
      BY <1>a, <1>z, <3>1 DEF Linked
    <3>3. f[x] = nx <=> x = q + 1
      BY <1>a, <1>z, <3>1 DEF Linked
    <3>4. /\ cy[f[x]].next = (IF f[x] = p THEN c ELSE ctx[f[x]].next)
          /\ cy[f[x]].prev = (IF f[x] = nx THEN c ELSE ctx[f[x]].prev)
      BY <3>1 DEF Relinked
    <3>5. /\ ctx[f[x]].next = (IF x = k THEN NULL ELSE f[x + 1])
          /\ ctx[f[x]].prev = (IF x = 1 THEN NULL ELSE f[x - 1])
      BY DEF Linked
    <3> QED
      BY <1>y, <3>1, <3>2, <3>3, <3>4, <3>5
  <2>1. CASE i <= q
    <3>1. i \in 1 .. k /\ g[i] = f[i]
      BY <1>2, <1>a, <2>1
    <3>2. g[i + 1] = IF i = q THEN c ELSE f[i + 1]
      BY <1>2, <1>a, <2>1
    <3>3. i # 1 => g[i - 1] = f[i - 1]
      BY <1>2, <1>a, <2>1
    <3> QED
      BY <1>a, <2>0, <2>1, <3>1, <3>2, <3>3
  <2>2. CASE i = q + 1
    <3>1. g[i] = c
      BY <1>2, <1>a, <2>2
    <3>2. q # k => g[i + 1] = f[q + 1]
      BY <1>2, <1>a, <2>2
    <3>3. q # 0 => g[i - 1] = f[q]
      BY <1>2, <1>a, <2>2
    <3> QED
      BY <1>a, <1>y, <1>z, <2>2, <3>1, <3>2, <3>3
  <2>3. CASE i > q + 1
    <3>1. i - 1 \in 1 .. k /\ g[i] = f[i - 1]
      BY <1>2, <1>a, <2>3
    <3>2. i # k + 1 => g[i + 1] = f[i]
      BY <1>2, <1>a, <2>3
    <3>3. g[i - 1] = IF i = q + 2 THEN c ELSE f[i - 2]
      BY <1>2, <1>a, <2>3
    <3>4. cx[f[i - 1]].next = (IF i - 1 = k THEN NULL ELSE f[i])
      BY <1>a, <2>0, <2>3, <3>1
    <3>5. cx[f[i - 1]].prev = (IF i = q + 2 THEN c ELSE f[i - 2])
      BY <1>a, <2>0, <2>3, <3>1
    <3> QED
      BY <1>a, <2>3, <3>1, <3>2, <3>3, <3>4, <3>5
  <2> QED
    BY <1>a, <2>1, <2>2, <2>3
<1>5. (IF p = NULL THEN c ELSE head) = g[1]
  BY <1>a, <1>z, <1>2 DEF Linked, NULL
<1>6. (IF nx = NULL THEN c ELSE tail) = g[k + 1]
  BY <1>a, <1>z, <1>2 DEF Linked, NULL
<1>7. Members(k + 1, g) = Members(k, f) \cup {c}
  <2>1. \A i \in 1 .. k + 1 : g[i] \in Members(k, f) \cup {c}
    BY <1>2, <1>a DEF Members
  <2>2. g[q + 1] = c /\ q + 1 \in 1 .. k + 1
    BY <1>2, <1>a
  <2>3. ASSUME NEW i \in 1 .. k
        PROVE  \E j \in 1 .. k + 1 : g[j] = f[i]
    <3>1. CASE i <= q
      BY <1>2, <1>a, <3>1
    <3>2. CASE i > q
      <4>1. i + 1 \in 1 .. k + 1 /\ g[i + 1] = f[i]
        BY <1>2, <1>a, <3>2
      <4> QED
        BY <4>1
    <3> QED
      BY <1>a, <3>1, <3>2
  <2> QED
    BY <2>1, <2>2, <2>3 DEF Members
<1>8. k + 1 \in 0 .. c /\ k + 1 # 0
  BY <1>a
<1> QED
  BY <1>1, <1>3, <1>4, <1>5, <1>6, <1>7, <1>8 DEF Linked, g, NewHead, NewTail

(* The place p is given up. *)
HeadWithout(c) == IF c = head THEN ctx[c].next ELSE head
TailWithout(c) == IF c = tail THEN ctx[c].prev ELSE tail
RemovedAt(k, f, p) == [i \in 1 .. k - 1 |-> IF i < p THEN f[i] ELSE f[i + 1]]

LEMMA UnlinkLinked ==
    ASSUME made \in Nat, NEW k, NEW f, Linked(ctx, made, head, tail, k, f),
           NEW p \in 1 .. k, NEW cx,
           Relinked(cx, ctx[f[p]].prev, ctx[f[p]].next, ctx[f[p]].next, ctx[f[p]].prev)
    PROVE  /\ Linked(cx, made, HeadWithout(f[p]), TailWithout(f[p]), k - 1, RemovedAt(k, f, p))
           /\ Members(k - 1, RemovedAt(k, f, p)) = Members(k, f) \ {f[p]}
<1> DEFINE g == RemovedAt(k, f, p)
<1>0. k \in 0 .. made /\ f \in [1 .. k -> 1 .. made]
  BY DEF Linked
<1>a. k \in Nat /\ k >= 1 /\ p \in Nat /\ k <= made /\ \A i \in 1 .. k : f[i] \in 1 .. made /\ f[i] # 0
  BY <1>0
<1>b. \A i, j \in 1 .. k : f[i] = f[j] => i = j
  BY DEF Linked
<1>1. g \in [1 .. k - 1 -> 1 .. made]
  BY <1>a DEF RemovedAt
<1>2. \A i \in 1 .. k - 1 : g[i] = IF i < p THEN f[i] ELSE f[i + 1]
  BY DEF RemovedAt
<1> HIDE DEF g
<1>3. \A i, j \in 1 .. k - 1 : g[i] = g[j] => i = j
  BY <1>a, <1>b, <1>2
<1>c. PICK pr : pr = ctx[f[p]].prev
  OBVIOUS
<1>d. PICK nx : nx = ctx[f[p]].next
  OBVIOUS
<1>e. pr = (IF p = 1 THEN NULL ELSE f[p - 1]) /\ nx = (IF p = k THEN NULL ELSE f[p + 1])
  BY <1>c, <1>d DEF Linked
<1>f. Relinked(cx, pr, nx, nx, pr)
  BY <1>c, <1>d
<1>4. ASSUME NEW x \in 1 .. k, x # p
      PROVE  /\ cx[f[x]].next = (IF x = p - 1 THEN nx ELSE IF x = k THEN NULL ELSE f[x + 1])
             /\ cx[f[x]].prev = (IF x = p + 1 THEN pr ELSE IF x = 1 THEN NULL ELSE f[x - 1])
  <2>1. f[x] \in 1 .. made /\ f[x] # NULL
    BY <1>a DEF NULL
  <2>2. f[x] = pr <=> x = p - 1
    BY <1>a, <1>b, <1>e, <2>1
  <2>3. f[x] = nx <=> x = p + 1
    BY <1>a, <1>b, <1>e, <2>1
  <2>4. /\ cx[f[x]].next = (IF f[x] = pr THEN nx ELSE ctx[f[x]].next)
        /\ cx[f[x]].prev = (IF f[x] = nx THEN pr ELSE ctx[f[x]].prev)
    BY <1>f, <2>1 DEF Relinked
  <2>5. /\ ctx[f[x]].next = (IF x = k THEN NULL ELSE f[x + 1])
        /\ ctx[f[x]].prev = (IF x = 1 THEN NULL ELSE f[x - 1])
    BY DEF Linked
  <2> QED
    BY <2>2, <2>3, <2>4, <2>5
<1>5. ASSUME NEW i \in 1 .. k - 1
      PROVE  /\ cx[g[i]].next = (IF i = k - 1 THEN NULL ELSE g[i + 1])
             /\ cx[g[i]].prev = (IF i = 1 THEN NULL ELSE g[i - 1])
  <2>1. CASE i < p
    <3>1. i \in 1 .. k /\ i # p /\ i # p + 1 /\ i # k /\ g[i] = f[i]
      BY <1>2, <1>a, <2>1
    <3>2. i # k - 1 => g[i + 1] = IF i = p - 1 THEN f[p + 1] ELSE f[i + 1]
      BY <1>2, <1>a, <2>1
    <3>3. i # 1 => g[i - 1] = f[i - 1]
      BY <1>2, <1>a, <2>1
    <3>4. i = k - 1 => p = k
      BY <1>a, <2>1
    <3> QED
      BY <1>a, <1>4, <1>e, <2>1, <3>1, <3>2, <3>3, <3>4
  <2>2. CASE i >= p
    <3>1. i + 1 \in 1 .. k /\ i + 1 # p /\ i + 1 # p - 1 /\ i + 1 # 1 /\ g[i] = f[i + 1]
      BY <1>2, <1>a, <2>2
    <3>2. i # k - 1 => g[i + 1] = f[i + 2]
      BY <1>2, <1>a, <2>2
    <3>3. i # 1 => g[i - 1] = IF i = p THEN f[p - 1] ELSE f[i]
      BY <1>2, <1>a, <2>2
    <3>4. cx[f[i + 1]].next = (IF i + 1 = k THEN NULL ELSE f[i + 2])
      BY <1>a, <1>4, <3>1
    <3>5. cx[f[i + 1]].prev = (IF i = p THEN pr ELSE f[i])
      BY <1>a, <1>4, <3>1
    <3> QED
      BY <1>a, <1>e, <2>2, <3>1, <3>2, <3>3, <3>4, <3>5
  <2> QED
    BY <1>a, <2>1, <2>2
<1>6. (IF f[p] = head THEN nx ELSE head) = (IF k - 1 = 0 THEN NULL ELSE g[1])
  <2>1. k # 0 /\ head = f[1] /\ (f[p] = head <=> p = 1)
    BY <1>a, <1>b DEF Linked
  <2> QED
    BY <1>2, <1>a, <1>e, <2>1
<1>7. (IF f[p] = tail THEN pr ELSE tail) = (IF k - 1 = 0 THEN NULL ELSE g[k - 1])
  <2>1. k # 0 /\ tail = f[k] /\ (f[p] = tail <=> p = k)
    BY <1>a, <1>b DEF Linked
  <2> QED
    BY <1>2, <1>a, <1>e, <2>1
<1>8. Members(k - 1, g) = Members(k, f) \ {f[p]}
  <2>1. \A i \in 1 .. k - 1 : g[i] \in Members(k, f) /\ g[i] # f[p]
    BY <1>2, <1>a, <1>b DEF Members
  <2>2. ASSUME NEW i \in 1 .. k, i # p
        PROVE  \E j \in 1 .. k - 1 : g[j] = f[i]
    <3>1. CASE i < p
      <4>1. i \in 1 .. k - 1 /\ g[i] = f[i]
        BY <1>2, <1>a, <3>1
      <4> QED
        BY <4>1
    <3>2. CASE i > p
      <4>1. i - 1 \in 1 .. k - 1 /\ g[i - 1] = f[i]
        BY <1>2, <1>a, <3>2
      <4> QED
        BY <4>1
    <3> QED
      BY <1>a, <2>2, <3>1, <3>2
  <2> QED
    BY <2>1, <2>2 DEF Members
<1>9. k - 1 \in 0 .. made
  BY <1>a
<1>10. Linked(cx, made, IF f[p] = head THEN nx ELSE head,
              IF f[p] = tail THEN pr ELSE tail, k - 1, g)
  BY <1>1, <1>3, <1>5, <1>6, <1>7, <1>9 DEF Linked
<1> QED
  BY <1>c, <1>d, <1>8, <1>10 DEF g, HeadWithout, TailWithout

(* The context c takes the place p. *)
ReplacedAt(k, f, p, c) == [i \in 1 .. k |-> IF i = p THEN c ELSE f[i]]

LEMMA ReplaceLinked ==
    ASSUME made \in Nat, NEW k, NEW f, Linked(ctx, made, head, tail, k, f),
           NEW p \in 1 .. k, p # 1, p # k, NEW cy,
           Relinked(cy, ctx[f[p]].prev, made + 1, ctx[f[p]].next, made + 1),
           NEW cx, Extended(cx, cy, ctx[f[p]].prev, ctx[f[p]].next)
    PROVE  /\ Linked(cx, made + 1, head, tail, k, ReplacedAt(k, f, p, made + 1))
           /\ Members(k, ReplacedAt(k, f, p, made + 1)) = (Members(k, f) \ {f[p]}) \cup {made + 1}
<1>z. /\ \A i \in 1 .. made : cx[i] = cy[i]
      /\ cx[made + 1].prev = ctx[f[p]].prev /\ cx[made + 1].next = ctx[f[p]].next
  BY DEF Extended
<1> DEFINE c == made + 1
           g == ReplacedAt(k, f, p, c)
<1>0. k \in 0 .. made /\ f \in [1 .. k -> 1 .. made]
  BY DEF Linked
<1>a. k \in Nat /\ 1 < p /\ p < k /\ p \in Nat /\ k <= made
      /\ \A i \in 1 .. k : f[i] \in 1 .. made /\ f[i] # 0 /\ f[i] # c
  BY <1>0
<1>b. \A i, j \in 1 .. k : f[i] = f[j] => i = j
  BY DEF Linked
<1>1. g \in [1 .. k -> 1 .. c]
  BY <1>a DEF ReplacedAt
<1>2. \A i \in 1 .. k : g[i] = IF i = p THEN c ELSE f[i]
  BY DEF ReplacedAt
<1> HIDE DEF g
<1>3. \A i, j \in 1 .. k : g[i] = g[j] => i = j
  BY <1>a, <1>b, <1>2
<1>c. PICK pr : pr = ctx[f[p]].prev
  OBVIOUS
<1>d. PICK nx : nx = ctx[f[p]].next
  OBVIOUS
<1>e. pr = f[p - 1] /\ nx = f[p + 1]
  BY <1>a, <1>c, <1>d DEF Linked
<1>f. Relinked(cy, pr, c, nx, c)
  BY <1>c, <1>d
<1>4. ASSUME NEW x \in 1 .. k, x # p
      PROVE  /\ cx[f[x]].next = (IF x = p - 1 THEN c ELSE IF x = k THEN NULL ELSE f[x + 1])
             /\ cx[f[x]].prev = (IF x = p + 1 THEN c ELSE IF x = 1 THEN NULL ELSE f[x - 1])
  <2>1. f[x] \in 1 .. made
    BY <1>a
  <2>2. f[x] = pr <=> x = p - 1
    BY <1>a, <1>b, <1>e
  <2>3. f[x] = nx <=> x = p + 1
    BY <1>a, <1>b, <1>e
  <2>4. /\ cy[f[x]].next = (IF f[x] = pr THEN c ELSE ctx[f[x]].next)
        /\ cy[f[x]].prev = (IF f[x] = nx THEN c ELSE ctx[f[x]].prev)
    BY <1>f, <2>1 DEF Relinked
  <2>5. /\ ctx[f[x]].next = (IF x = k THEN NULL ELSE f[x + 1])
        /\ ctx[f[x]].prev = (IF x = 1 THEN NULL ELSE f[x - 1])
    BY DEF Linked
  <2>6. cx[f[x]] = cy[f[x]]
    BY <1>z, <2>1
  <2> QED
    BY <2>2, <2>3, <2>4, <2>5, <2>6
<1>5. ASSUME NEW i \in 1 .. k
      PROVE  /\ cx[g[i]].next = (IF i = k THEN NULL ELSE g[i + 1])
             /\ cx[g[i]].prev = (IF i = 1 THEN NULL ELSE g[i - 1])
  <2>1. CASE i = p
    <3>1. g[i] = c /\ g[i + 1] = f[p + 1] /\ g[i - 1] = f[p - 1] /\ i # k /\ i # 1
      BY <1>2, <1>a, <2>1
    <3> QED
      BY <1>c, <1>d, <1>e, <1>z, <3>1
  <2>2. CASE i # p
    <3>1. g[i] = f[i] /\ (i # k => g[i + 1] = IF i = p - 1 THEN c ELSE f[i + 1])
          /\ (i # 1 => g[i - 1] = IF i = p + 1 THEN c ELSE f[i - 1])
      BY <1>2, <1>a, <2>2
    <3>2. (i = p - 1 => i # k) /\ (i = p + 1 => i # 1)
      BY <1>a
    <3> QED
      BY <1>4, <2>2, <3>1, <3>2
  <2> QED
    BY <2>1, <2>2
<1>6. head = g[1] /\ tail = g[k] /\ k # 0 /\ k \in 0 .. c
  BY <1>2, <1>a DEF Linked
<1>7. Members(k, g) = (Members(k, f) \ {f[p]}) \cup {c}
  <2>1. \A i \in 1 .. k : g[i] \in (Members(k, f) \ {f[p]}) \cup {c}
    BY <1>2, <1>b DEF Members
  <2>2. g[p] = c
    BY <1>2
  <2>3. \A i \in 1 .. k : f[i] # f[p] => g[i] = f[i]
    BY <1>2
  <2> QED
    BY <2>1, <2>2, <2>3 DEF Members
<1> QED
  BY <1>1, <1>3, <1>5, <1>6, <1>7 DEF Linked, g

(***************************************************************************)
(* The walk from head meets f[1], ..., f[k] and then NULL.                 *)
(***************************************************************************)
WalkStep(w, n) ==
    IF n = 0 THEN head ELSE IF w[n - 1] = NULL THEN NULL ELSE ctx[w[n - 1]].next

LEMMA WalkUnfolds ==
    ASSUME NEW w, w = [n \in Steps |-> WalkStep(w, n)]
    PROVE  Walk = [n \in Steps |-> WalkStep(Walk, n)]
<1>1. Walk = CHOOSE at : at = [n \in Steps |-> WalkStep(at, n)]
  BY DEF Walk, WalkStep
<1>2. \E at : at = [n \in Steps |-> WalkStep(at, n)]
  OBVIOUS
<1> QED
  BY <1>1, <1>2

LEMMA WalkIs ==
    ASSUME made \in Nat, NEW k, NEW f, Linked(ctx, made, head, tail, k, f)
    PROVE  /\ \A n \in Steps : Walk[n] = IF n < k THEN f[n + 1] ELSE NULL
           /\ Listed = Members(k, f)
<1> DEFINE w == [n \in Steps |-> IF n < k THEN f[n + 1] ELSE NULL]
<1>0. k \in 0 .. made /\ f \in [1 .. k -> 1 .. made]
  BY DEF Linked
<1>a. k \in Nat /\ k <= made /\ \A i \in 1 .. k : f[i] \in 1 .. made /\ f[i] # NULL
  BY <1>0 DEF NULL
<1>b. \A n \in Steps : n \in Nat /\ n <= made /\ (n # 0 => n - 1 \in Steps)
  BY DEF Steps
<1>1. ASSUME NEW n \in Steps
      PROVE  w[n] = WalkStep(w, n)
  <2>1. CASE n = 0
    BY <1>a, <2>1 DEF Linked, WalkStep
  <2>2. CASE n # 0 /\ n - 1 < k
    <3>1. n - 1 \in Steps /\ n \in 1 .. k /\ w[n - 1] = f[n]
      BY <1>a, <1>b, <2>2
    <3>2. ctx[f[n]].next = IF n = k THEN NULL ELSE f[n + 1]
      BY <3>1 DEF Linked
    <3>3. w[n] = IF n = k THEN NULL ELSE f[n + 1]
      BY <1>a, <3>1
    <3> QED
      BY <1>a, <2>2, <3>1, <3>2, <3>3 DEF WalkStep
  <2>3. CASE n # 0 /\ ~(n - 1 < k)
    <3>1. n - 1 \in Steps /\ w[n - 1] = NULL /\ w[n] = NULL
      BY <1>a, <1>b, <2>3
    <3> QED
      BY <2>3, <3>1 DEF WalkStep
  <2> QED
    BY <2>1, <2>2, <2>3
<1>2. w = [n \in Steps |-> WalkStep(w, n)]
  <2> DEFINE v == [n \in Steps |-> WalkStep(w, n)]
  <2>1. \A n \in Steps : w[n] = v[n]
    BY <1>1
  <2>2. w = v
    <3> HIDE DEF WalkStep
    <3> QED
      BY <2>1
  <2> QED
    BY <2>2
<1>3. \A n \in Steps : w[n] = IF n < k THEN f[n + 1] ELSE NULL
  OBVIOUS
<1> HIDE DEF w
<1>4. Walk = [n \in Steps |-> WalkStep(Walk, n)]
  BY <1>2, WalkUnfolds
<1>5. \A n \in Steps : Walk[n] = WalkStep(Walk, n)
  <2> DEFINE v == [n \in Steps |-> WalkStep(Walk, n)]
  <2>1. \A n \in Steps : v[n] = WalkStep(Walk, n)
    OBVIOUS
  <2>2. Walk = v
    BY <1>4
  <2> HIDE DEF v
  <2> QED
    BY <2>1, <2>2
<1> DEFINE T == {n \in Nat : Walk[n] = w[n]}
<1>6. \A n \in 0 .. made : n \in T
  <2>1. 0 \in T
    BY <1>1, <1>5 DEF WalkStep, Steps
  <2>2. ASSUME NEW n \in 0 .. made - 1, n \in T
        PROVE  n + 1 \in T
    <3>1. n \in Steps /\ n + 1 \in Steps /\ n + 1 # 0 /\ n + 1 - 1 = n /\ n + 1 \in Nat
      BY DEF Steps
    <3>2. WalkStep(Walk, n + 1) = WalkStep(w, n + 1)
      BY <2>2, <3>1 DEF WalkStep
    <3> QED
      BY <1>1, <1>5, <3>1, <3>2
  <2> HIDE DEF T
  <2> QED
    BY <2>1, <2>2, UpTo
<1>7. \A n \in Steps : Walk[n] = IF n < k THEN f[n + 1] ELSE NULL
  BY <1>3, <1>6 DEF Steps
<1>8. Listed = Members(k, f)
  <2>1. ASSUME NEW i \in 1 .. k
        PROVE  \E n \in Steps : Walk[n] = f[i] /\ f[i] # NULL
    <3>1. i - 1 \in Steps /\ i - 1 < k /\ (i - 1) + 1 = i
      BY <1>a DEF Steps
    <3> QED
      BY <1>7, <1>a, <3>1
  <2>2. ASSUME NEW n \in Steps, Walk[n] # NULL
        PROVE  \E i \in 1 .. k : Walk[n] = f[i]
    <3>1. n < k /\ n + 1 \in 1 .. k
      BY <1>7, <1>a, <1>b, <2>2
    <3> QED
      BY <1>7, <3>1
  <2> QED
    BY <2>1, <2>2 DEF Listed, Members
<1> QED
  BY <1>7, <1>8

(***************************************************************************)
(* The inductive invariant.                                                *)
(***************************************************************************)

(* Events of the direction come to c, f[i], before d, f[j]. *)
Ahead(k, f, c, d, dir) ==
    \E i, j \in 1 .. k : f[i] = c /\ f[j] = d /\ IF dir = "up" THEN i < j ELSE j < i

Handlers(k, f, cx, dir) == {c \in Members(k, f) : dir \in cx[c].kind}

(* A chain that starts at h leads through the contexts of X in order. *)
Chain(X, k, f, cx, h, dir) ==
    /\ X = {} \/ (h \in X /\ \A d \in X \ {h} : Ahead(k, f, h, d, dir))
    /\ \A c, d \in X :
          /\ Ahead(k, f, c, d, dir)
          /\ ~\E b \in X : Ahead(k, f, c, b, dir) /\ Ahead(k, f, b, d, dir)
          => cx[c].link[dir] = d

Pending(w, dir) == \E i \in DOMAIN w : w[i].do \in Chained /\ w[i].dir = dir
Walking(w, dir) == w # <<>> /\ Head(w).do = "walk" /\ Head(w).dir = dir

(* The handlers that the walk, now at context a, has passed. *)
Walked(a, k, f, cx, dir) ==
    {c \in Handlers(k, f, cx, dir) : a = NULL \/ Ahead(k, f, a, c, dir)}

(* A chain that nobody has to rebuild is complete, and the one that is      *)
(* being rebuilt is complete as far as the walk has come.                   *)
ChainInv(k, f, cx, ch, w) ==
    \A dir \in Directions :
        /\ ~Pending(w, dir) => Chain(Handlers(k, f, cx, dir), k, f, cx, ch[dir], dir)
        /\ Walking(w, dir) =>
              LET X == Walked(Head(w).at, k, f, cx, dir)
              IN  Chain(X, k, f, cx, ch[dir], dir) /\ (X = {} => ch[dir] = NULL)

(* A link between two contexts of the list leads forward. *)
LinkInv(k, f, cx) ==
    \A c, d \in Members(k, f), dir \in Directions :
        cx[c].link[dir] = d => Ahead(k, f, c, d, dir)

(* The links, the heads of the chains and the events refer to contexts that *)
(* have been made, and no context is linked with itself.                    *)
KnownLinks(cx, md) ==
    \A c \in 1 .. md, dir \in Directions : cx[c].link[dir] \in 0 .. md /\ cx[c].link[dir] # c
KnownHeads(ch, md) == \A dir \in Directions : ch[dir] \in 0 .. md
KnownEvents(ev, md) ==
    \A e \in Events : ev[e].state = "active" => ev[e].at \in 1 .. md /\ ev[e].from # ev[e].at

(* The map has the names of the list, all different. *)
NamesInv(L, cx, map) ==
    /\ \A n \in Names : map[n] # NULL <=> \E c \in L : cx[c].name = n
    /\ \A c, d \in L : cx[c].name = cx[d].name => c = d
    /\ \A n \in Names : map[n] \in L => cx[map[n]].name = n

(* The context c is about to be deleted: an exception does not get past the *)
(* catch clause before it.                                                  *)
Guarded(w, c) ==
    \E i \in DOMAIN w :
        /\ i # 1 /\ w[i].do = "delete" /\ w[i].at = c /\ w[i - 1].do = "catch"
        /\ \A j \in DOMAIN w : w[j].do = "catch" => j = i - 1
Dying(w, c) == Guarded(w, c) \/ (w # <<>> /\ Head(w).do = "delete" /\ Head(w).at = c)

(* The map refers to contexts of the list, except for a name that replace   *)
(* has left with the old context.                                           *)
StaleInv(L, map, fr, w) ==
    \A n \in Names : map[n] \in {NULL} \cup fr \cup L \/ Dying(w, map[n])

ListInv(k, f) ==
    /\ Linked(ctx, made, head, tail, k, f)
    /\ freed \subseteq 1 .. made /\ freed \cap Members(k, f) = {}
    /\ NamesInv(Members(k, f), ctx, name2ctx)
    /\ StaleInv(Members(k, f), name2ctx, freed, work)
    /\ WorkOK(work, 1 .. made, Members(k, f))
    /\ KnownLinks(ctx, made) /\ KnownHeads(chainHead, made) /\ KnownEvents(event, made)
    /\ LinkInv(k, f, ctx)
    /\ ChainInv(k, f, ctx, chainHead, work)

PipeInv == TypeOK /\ \E k, f : ListInv(k, f)

(***************************************************************************)
(* The order of the list.                                                  *)
(***************************************************************************)
Distinct(k, f) == k \in Nat /\ \A i, j \in 1 .. k : f[i] = f[j] => i = j

LEMMA LinkedDistinct ==
    ASSUME NEW cx, NEW md \in Nat, NEW hd, NEW tl, NEW k, NEW f, Linked(cx, md, hd, tl, k, f)
    PROVE  Distinct(k, f) /\ k <= md /\ k \in Nat /\ \A i \in 1 .. k : f[i] \in 1 .. md
BY DEF Linked, Distinct

LEMMA AheadIs ==
    ASSUME NEW k, NEW f, Distinct(k, f), NEW i \in 1 .. k, NEW j \in 1 .. k, NEW dir
    PROVE  Ahead(k, f, f[i], f[j], dir) <=> IF dir = "up" THEN i < j ELSE j < i
<1>1. \A x, y \in 1 .. k : f[x] = f[i] /\ f[y] = f[j] => x = i /\ y = j
  BY DEF Distinct
<1> QED
  BY <1>1 DEF Ahead

LEMMA AheadOrders ==
    ASSUME NEW k, NEW f, Distinct(k, f), NEW dir, NEW c \in Members(k, f), NEW d \in Members(k, f)
    PROVE  /\ ~Ahead(k, f, c, c, dir)
           /\ ~(Ahead(k, f, c, d, dir) /\ Ahead(k, f, d, c, dir))
           /\ c # d => Ahead(k, f, c, d, dir) \/ Ahead(k, f, d, c, dir)
<1>1. PICK i \in 1 .. k : f[i] = c
  BY DEF Members
<1>2. PICK j \in 1 .. k : f[j] = d
  BY DEF Members
<1>3. /\ Ahead(k, f, c, d, dir) <=> IF dir = "up" THEN i < j ELSE j < i
      /\ Ahead(k, f, d, c, dir) <=> IF dir = "up" THEN j < i ELSE i < j
      /\ Ahead(k, f, c, c, dir) <=> IF dir = "up" THEN i < i ELSE i < i
  BY <1>1, <1>2, AheadIs
<1>4. i \in Nat /\ j \in Nat
  BY DEF Distinct
<1> QED
  BY <1>1, <1>2, <1>3, <1>4

(* A context leaves or enters: the order of those that stay is the same. *)
LEMMA OrderKept ==
    ASSUME NEW k, NEW f, Distinct(k, f), NEW m, NEW g, Distinct(m, g),
           NEW P \in SUBSET (1 .. k), NEW s \in [P -> 1 .. m], \A i \in P : g[s[i]] = f[i],
           \A i, j \in P : i < j => s[i] < s[j],
           NEW i \in P, NEW j \in P, NEW dir
    PROVE  Ahead(m, g, f[i], f[j], dir) <=> Ahead(k, f, f[i], f[j], dir)
<1>1. i \in 1 .. k /\ j \in 1 .. k /\ s[i] \in 1 .. m /\ s[j] \in 1 .. m
  OBVIOUS
<1>2. s[i] < s[j] <=> i < j
  <2>1. i \in Nat /\ j \in Nat /\ s[i] \in Nat /\ s[j] \in Nat
    BY <1>1 DEF Distinct
  <2>2. (i < j => s[i] < s[j]) /\ (j < i => s[j] < s[i]) /\ (i = j => s[i] = s[j])
    OBVIOUS
  <2> QED
    BY <2>1, <2>2
<1>3. s[j] < s[i] <=> j < i
  <2>1. i \in Nat /\ j \in Nat /\ s[i] \in Nat /\ s[j] \in Nat
    BY <1>1 DEF Distinct
  <2>2. (i < j => s[i] < s[j]) /\ (j < i => s[j] < s[i]) /\ (i = j => s[i] = s[j])
    OBVIOUS
  <2> QED
    BY <2>1, <2>2
<1>4. Ahead(k, f, f[i], f[j], dir) <=> IF dir = "up" THEN i < j ELSE j < i
  BY <1>1, AheadIs
<1>5. Ahead(m, g, g[s[i]], g[s[j]], dir) <=> IF dir = "up" THEN s[i] < s[j] ELSE s[j] < s[i]
  BY <1>1, AheadIs
<1>6. g[s[i]] = f[i] /\ g[s[j]] = f[j]
  OBVIOUS
<1> QED
  BY <1>2, <1>3, <1>4, <1>5, <1>6

LEMMA InsertOrder ==
    ASSUME NEW k, NEW f, Distinct(k, f), NEW q \in 0 .. k, NEW c,
           Distinct(k + 1, InsertedAt(k, f, q, c)),
           NEW x \in Members(k, f), NEW y \in Members(k, f), NEW dir
    PROVE  Ahead(k + 1, InsertedAt(k, f, q, c), x, y, dir) <=> Ahead(k, f, x, y, dir)
<1> DEFINE g == InsertedAt(k, f, q, c)
           s == [i \in 1 .. k |-> IF i <= q THEN i ELSE i + 1]
<1>a. k \in Nat
  BY DEF Distinct
<1>1. s \in [1 .. k -> 1 .. k + 1]
  BY <1>a
<1>2. \A i \in 1 .. k : g[s[i]] = f[i]
  BY <1>a DEF InsertedAt
<1>3. \A i, j \in 1 .. k : i < j => s[i] < s[j]
  BY <1>a
<1>4. PICK i \in 1 .. k : f[i] = x
  BY DEF Members
<1>5. PICK j \in 1 .. k : f[j] = y
  BY DEF Members
<1> HIDE DEF s, g
<1>6. Distinct(k + 1, g)
  BY DEF g
<1>7. Ahead(k + 1, g, f[i], f[j], dir) <=> Ahead(k, f, f[i], f[j], dir)
  BY <1>1, <1>2, <1>3, <1>6, OrderKept
<1> QED
  BY <1>4, <1>5, <1>7 DEF g

LEMMA RemoveOrder ==
    ASSUME NEW k, NEW f, Distinct(k, f), NEW p \in 1 .. k,
           Distinct(k - 1, RemovedAt(k, f, p)),
           NEW x \in Members(k, f) \ {f[p]}, NEW y \in Members(k, f) \ {f[p]}, NEW dir
    PROVE  Ahead(k - 1, RemovedAt(k, f, p), x, y, dir) <=> Ahead(k, f, x, y, dir)
<1> DEFINE g == RemovedAt(k, f, p)
           P == (1 .. k) \ {p}
           s == [i \in P |-> IF i < p THEN i ELSE i - 1]
<1>a. k \in Nat
  BY DEF Distinct
<1>1. s \in [P -> 1 .. k - 1]
  BY <1>a
<1>2. \A i \in P : g[s[i]] = f[i]
  BY <1>a DEF RemovedAt
<1>3. \A i, j \in P : i < j => s[i] < s[j]
  BY <1>a
<1>4. PICK i \in P : f[i] = x
  BY DEF Members
<1>5. PICK j \in P : f[j] = y
  BY DEF Members
<1>0. P \in SUBSET (1 .. k)
  OBVIOUS
<1> HIDE DEF s, g, P
<1>6. Distinct(k - 1, g)
  BY DEF g
<1>7. Ahead(k - 1, g, f[i], f[j], dir) <=> Ahead(k, f, f[i], f[j], dir)
  BY <1>0, <1>1, <1>2, <1>3, <1>6, OrderKept
<1> QED
  BY <1>4, <1>5, <1>7 DEF g

LEMMA ReplaceOrder ==
    ASSUME NEW k, NEW f, Distinct(k, f), NEW p \in 1 .. k, NEW c,
           Distinct(k, ReplacedAt(k, f, p, c)),
           NEW x \in Members(k, f) \ {f[p]}, NEW y \in Members(k, f) \ {f[p]}, NEW dir
    PROVE  Ahead(k, ReplacedAt(k, f, p, c), x, y, dir) <=> Ahead(k, f, x, y, dir)
<1> DEFINE g == ReplacedAt(k, f, p, c)
           P == (1 .. k) \ {p}
           s == [i \in P |-> i]
<1>1. s \in [P -> 1 .. k] /\ \A i \in P : s[i] = i
  OBVIOUS
<1>2. \A i \in P : g[s[i]] = f[i]
  BY <1>1 DEF ReplacedAt
<1>4. PICK i \in P : f[i] = x
  BY DEF Members
<1>5. PICK j \in P : f[j] = y
  BY DEF Members
<1>0. P \in SUBSET (1 .. k)
  OBVIOUS
<1> HIDE DEF s, g, P
<1>3. \A a, b \in P : a < b => s[a] < s[b]
  BY <1>1
<1>6. Distinct(k, g)
  BY DEF g
<1>7. Ahead(k, g, f[i], f[j], dir) <=> Ahead(k, f, f[i], f[j], dir)
  BY <1>0, <1>1, <1>2, <1>3, <1>6, OrderKept
<1> QED
  BY <1>4, <1>5, <1>7 DEF g

LEMMA PrecedesIs ==
    ASSUME made \in Nat, NEW k, NEW f, Linked(ctx, made, head, tail, k, f),
           NEW c \in Members(k, f), NEW d \in Members(k, f), NEW dir
    PROVE  Precedes(c, d, dir) <=> Ahead(k, f, c, d, dir)
<1>a. Distinct(k, f) /\ k <= made /\ \A i \in 1 .. k : f[i] \in 1 .. made
  BY LinkedDistinct
<1>b. k \in Nat /\ \A i \in 1 .. k : f[i] # NULL
  BY <1>a DEF Distinct, NULL
<1>1. ASSUME NEW i \in 1 .. k
      PROVE  Place(f[i]) = i - 1
  <2>1. i - 1 \in Steps /\ i - 1 < k /\ (i - 1) + 1 = i
    BY <1>a, <1>b DEF Steps
  <2>2. \A n \in Steps : Walk[n] = IF n < k THEN f[n + 1] ELSE NULL
    BY WalkIs
  <2>3. Walk[i - 1] = f[i]
    BY <2>1, <2>2
  <2>4. ASSUME NEW n \in Steps, Walk[n] = f[i]
        PROVE  n = i - 1
    <3>1. n \in Nat /\ n < k /\ f[n + 1] = f[i]
      BY <1>b, <2>2, <2>4 DEF Steps
    <3>2. n + 1 \in 1 .. k
      BY <1>b, <3>1
    <3>3. n + 1 = i
      BY <1>a, <3>1, <3>2 DEF Distinct
    <3> QED
      BY <3>1, <3>3
  <2> QED
    BY <2>1, <2>3, <2>4 DEF Place
<1>2. PICK i \in 1 .. k : f[i] = c
  BY DEF Members
<1>3. PICK j \in 1 .. k : f[j] = d
  BY DEF Members
<1>4. Place(c) = i - 1 /\ Place(d) = j - 1
  BY <1>1, <1>2, <1>3
<1>5. Precedes(c, d, dir) <=> IF dir = "up" THEN i < j ELSE j < i
  BY <1>4, <1>b DEF Precedes
<1>6. Ahead(k, f, c, d, dir) <=> IF dir = "up" THEN i < j ELSE j < i
  BY <1>a, <1>2, <1>3, AheadIs
<1> QED
  BY <1>5, <1>6

(* The walk starts at the last context that events of the direction reach ..*)
LEMMA AgainstStart ==
    ASSUME made \in Nat, NEW k, NEW f, Linked(ctx, made, head, tail, k, f), NEW dir
    PROVE  /\ Against(NULL, dir) \in Members(k, f) \cup {NULL}
           /\ Against(NULL, dir) = NULL => Members(k, f) = {}
           /\ \A d \in Members(k, f) : ~Ahead(k, f, Against(NULL, dir), d, dir)
<1>a. Distinct(k, f) /\ \A i \in 1 .. k : f[i] \in 1 .. made
  BY LinkedDistinct
<1>b. k \in Nat /\ \A i \in 1 .. k : f[i] # NULL
  BY <1>a DEF Distinct, NULL
<1>1. CASE k = 0
  <2>1. Members(k, f) = {}
    BY <1>1 DEF Members
  <2>2. head = NULL /\ tail = NULL
    BY <1>1 DEF Linked
  <2> QED
    BY <2>1, <2>2 DEF Against
<1>2. CASE k # 0
  <2>1. 1 \in 1 .. k /\ k \in 1 .. k /\ head = f[1] /\ tail = f[k]
    BY <1>b, <1>2 DEF Linked
  <2>2. PICK a \in 1 .. k : Against(NULL, dir) = f[a] /\ a = IF dir = "up" THEN k ELSE 1
    BY <2>1 DEF Against
  <2>3. ASSUME NEW d \in Members(k, f)
        PROVE  ~Ahead(k, f, f[a], d, dir)
    <3>1. PICK j \in 1 .. k : f[j] = d
      BY DEF Members
    <3>2. Ahead(k, f, f[a], f[j], dir) <=> IF dir = "up" THEN a < j ELSE j < a
      BY <1>a, AheadIs
    <3> QED
      BY <1>b, <2>2, <3>1, <3>2
  <2> QED
    BY <1>b, <2>2, <2>3 DEF Members
<1> QED
  BY <1>1, <1>2

(* ... and goes from each to the one before it. *)
LEMMA AgainstStep ==
    ASSUME made \in Nat, NEW k, NEW f, Linked(ctx, made, head, tail, k, f), NEW dir,
           NEW c \in Members(k, f)
    PROVE  /\ Against(c, dir) \in Members(k, f) \cup {NULL}
           /\ \A d \in Members(k, f) :
                 (d = c \/ Ahead(k, f, c, d, dir))
                    <=> (Against(c, dir) = NULL \/ Ahead(k, f, Against(c, dir), d, dir))
<1>a. Distinct(k, f) /\ \A i \in 1 .. k : f[i] \in 1 .. made
  BY LinkedDistinct
<1>b. k \in Nat /\ \A i \in 1 .. k : f[i] # NULL
  BY <1>a DEF Distinct, NULL
<1>1. PICK i \in 1 .. k : f[i] = c
  BY DEF Members
<1>2. /\ ctx[c].next = (IF i = k THEN NULL ELSE f[i + 1])
      /\ ctx[c].prev = (IF i = 1 THEN NULL ELSE f[i - 1])
  BY <1>1 DEF Linked
<1>3. c # NULL
  BY <1>1, <1>b
<1>4. Against(c, dir) = IF dir = "up" THEN (IF i = 1 THEN NULL ELSE f[i - 1])
                                      ELSE (IF i = k THEN NULL ELSE f[i + 1])
  BY <1>2, <1>3 DEF Against
<1>5. CASE i = IF dir = "up" THEN 1 ELSE k
  <2>1. Against(c, dir) = NULL
    BY <1>4, <1>5
  <2>2. ASSUME NEW d \in Members(k, f), d # c
        PROVE  Ahead(k, f, c, d, dir)
    <3>1. PICK j \in 1 .. k : f[j] = d
      BY DEF Members
    <3>2. Ahead(k, f, f[i], f[j], dir) <=> IF dir = "up" THEN i < j ELSE j < i
      BY <1>a, AheadIs
    <3>3. i # j
      BY <1>1, <2>2, <3>1
    <3> QED
      BY <1>1, <1>5, <1>b, <3>1, <3>2, <3>3
  <2> QED
    BY <2>1, <2>2
<1>6. CASE i # IF dir = "up" THEN 1 ELSE k
  <2>1. PICK a \in 1 .. k : Against(c, dir) = f[a] /\ a = IF dir = "up" THEN i - 1 ELSE i + 1
    BY <1>4, <1>6, <1>b
  <2>2. ASSUME NEW d \in Members(k, f)
        PROVE  (d = c \/ Ahead(k, f, c, d, dir)) <=> Ahead(k, f, f[a], d, dir)
    <3>1. PICK j \in 1 .. k : f[j] = d
      BY DEF Members
    <3>2. Ahead(k, f, f[i], f[j], dir) <=> IF dir = "up" THEN i < j ELSE j < i
      BY <1>a, AheadIs
    <3>3. Ahead(k, f, f[a], f[j], dir) <=> IF dir = "up" THEN a < j ELSE j < a
      BY <1>a, AheadIs
    <3>4. d = c <=> i = j
      BY <1>1, <1>a, <3>1 DEF Distinct
    <3>5. i \in Nat /\ j \in Nat /\ a \in Nat
      BY <1>b
    <3> QED
      BY <1>1, <2>1, <3>1, <3>2, <3>3, <3>4, <3>5
  <2> QED
    BY <1>b, <2>1, <2>2 DEF Members
<1> QED
  BY <1>5, <1>6

(***************************************************************************)
(* The chains, when the list changes and when a walk goes on.              *)
(***************************************************************************)
LEMMA ChainSame ==
    ASSUME NEW X, NEW k, NEW f, NEW m, NEW g, NEW cx, NEW cy, NEW h, NEW dir,
           Chain(X, k, f, cx, h, dir),
           \A c, d \in X : Ahead(m, g, c, d, dir) <=> Ahead(k, f, c, d, dir),
           \A c \in X : cy[c].link[dir] = cx[c].link[dir]
    PROVE  Chain(X, m, g, cy, h, dir)
<1>1. X = {} \/ (h \in X /\ \A d \in X \ {h} : Ahead(m, g, h, d, dir))
  BY DEF Chain
<1>2. ASSUME NEW c \in X, NEW d \in X, Ahead(m, g, c, d, dir),
             ~\E b \in X : Ahead(m, g, c, b, dir) /\ Ahead(m, g, b, d, dir)
      PROVE  cy[c].link[dir] = d
  <2>1. /\ Ahead(k, f, c, d, dir)
        /\ ~\E b \in X : Ahead(k, f, c, b, dir) /\ Ahead(k, f, b, d, dir)
    BY <1>2
  <2>2. cx[c].link[dir] = d
    BY <2>1 DEF Chain
  <2> QED
    BY <2>2
<1> QED
  BY <1>1, <1>2 DEF Chain

(* The walk meets c, which comes before all it has passed. *)
LEMMA ChainGrows ==
    ASSUME NEW k, NEW f, Distinct(k, f), NEW dir, NEW c \in Members(k, f),
           NEW X, X \subseteq Members(k, f), \A d \in X : Ahead(k, f, c, d, dir),
           NEW cx, NEW cy, NEW h, Chain(X, k, f, cx, h, dir),
           \A d \in X : cy[d].link[dir] = cx[d].link[dir],
           X # {} => cy[c].link[dir] = h
    PROVE  Chain(X \cup {c}, k, f, cy, c, dir)
<1> DEFINE Y == X \cup {c}
<1>1. c \in Y /\ \A d \in Y \ {c} : Ahead(k, f, c, d, dir)
  OBVIOUS
<1>2. ASSUME NEW a \in Y, NEW d \in Y, Ahead(k, f, a, d, dir),
             ~\E b \in Y : Ahead(k, f, a, b, dir) /\ Ahead(k, f, b, d, dir)
      PROVE  cy[a].link[dir] = d
  <2>a. a \in Members(k, f) /\ d \in Members(k, f)
    OBVIOUS
  <2>1. d \in X
    <3>1. SUFFICES ASSUME d = c PROVE FALSE
      OBVIOUS
    <3>2. a # c
      BY <1>2, <2>a, <3>1, AheadOrders
    <3>3. Ahead(k, f, c, a, dir)
      BY <3>2
    <3> QED
      BY <1>2, <2>a, <3>1, <3>3, AheadOrders
  <2>2. CASE a = c
    <3>1. h \in X /\ \A b \in X \ {h} : Ahead(k, f, h, b, dir)
      BY <2>1 DEF Chain
    <3>2. d = h
      <4>1. Ahead(k, f, c, h, dir)
        BY <3>1
      <4>2. ~Ahead(k, f, h, d, dir)
        BY <1>2, <2>2, <3>1, <4>1
      <4> QED
        BY <2>1, <3>1, <4>2
    <3> QED
      BY <2>1, <2>2, <3>2
  <2>3. CASE a # c
    <3>1. a \in X
      BY <2>3
    <3>2. cx[a].link[dir] = d
      BY <1>2, <2>1, <3>1 DEF Chain
    <3> QED
      BY <3>1, <3>2
  <2> QED
    BY <2>2, <2>3
<1> QED
  BY <1>1, <1>2 DEF Chain

(* What inserting, unlinking and replacing have in common: the contexts     *)
(* that were there keep their names, kinds, links and order, and the one    *)
(* that may be new, md + 1, is linked with none.                            *)
Reshaped(cx, md, k, f, cy, m, g) ==
    /\ Members(m, g) \subseteq Members(k, f) \cup {md + 1}
    /\ Members(k, f) \subseteq 1 .. md
    /\ \A c \in 1 .. md :
          cy[c].name = cx[c].name /\ cy[c].kind = cx[c].kind /\ cy[c].link = cx[c].link
    /\ md + 1 \in Members(m, g) => \A dir \in Directions : cy[md + 1].link[dir] = NULL
    /\ \A c, d \in Members(k, f) \cap Members(m, g), dir \in Directions :
          Ahead(m, g, c, d, dir) <=> Ahead(k, f, c, d, dir)

LEMMA ReshapedLinks ==
    ASSUME NEW md \in Nat, NEW cx, NEW k, NEW f, NEW cy, NEW m, NEW g,
           Reshaped(cx, md, k, f, cy, m, g), LinkInv(k, f, cx), KnownLinks(cx, md)
    PROVE  LinkInv(m, g, cy)
<1> SUFFICES ASSUME NEW c \in Members(m, g), NEW d \in Members(m, g), NEW dir \in Directions,
                    cy[c].link[dir] = d
             PROVE  Ahead(m, g, c, d, dir)
  BY DEF LinkInv
<1>1. \A x \in Members(m, g) : x # NULL
  BY DEF Reshaped, NULL
<1>2. c \in Members(k, f)
  BY <1>1 DEF Reshaped
<1>3. c \in 1 .. md /\ cx[c].link[dir] = d
  BY <1>2 DEF Reshaped
<1>4. d \in 0 .. md
  BY <1>3 DEF KnownLinks
<1>5. d # md + 1
  BY <1>4
<1>6. d \in Members(k, f)
  BY <1>5 DEF Reshaped
<1>7. Ahead(k, f, c, d, dir)
  BY <1>2, <1>3, <1>6 DEF LinkInv
<1> QED
  BY <1>2, <1>6, <1>7 DEF Reshaped

LEMMA ReshapedKnown ==
    ASSUME NEW md \in Nat, NEW m2 \in {md, md + 1}, NEW cx, NEW k, NEW f, NEW cy, NEW m, NEW g,
           Reshaped(cx, md, k, f, cy, m, g), KnownLinks(cx, md),
           m2 = md + 1 => md + 1 \in Members(m, g)
    PROVE  KnownLinks(cy, m2)
<1> SUFFICES ASSUME NEW c \in 1 .. m2, NEW dir \in Directions
             PROVE  cy[c].link[dir] \in 0 .. m2 /\ cy[c].link[dir] # c
  BY DEF KnownLinks
<1>1. CASE c \in 1 .. md
  <2>1. cy[c].link[dir] = cx[c].link[dir]
    BY <1>1 DEF Reshaped
  <2>2. cx[c].link[dir] \in 0 .. md /\ cx[c].link[dir] # c
    BY <1>1 DEF KnownLinks
  <2> QED
    BY <2>1, <2>2
<1>2. CASE c \notin 1 .. md
  <2>1. c = md + 1 /\ m2 = md + 1 /\ c # 0 /\ 0 \in 0 .. m2
    BY <1>2
  <2>2. cy[c].link[dir] = 0
    BY <2>1 DEF Reshaped, NULL
  <2> QED
    BY <2>1, <2>2
<1> QED
  BY <1>1, <1>2

LEMMA ReshapedChain ==
    ASSUME NEW md \in Nat, NEW cx, NEW k, NEW f, NEW cy, NEW m, NEW g,
           Reshaped(cx, md, k, f, cy, m, g), NEW dir \in Directions, NEW h,
           Handlers(m, g, cy, dir) = Handlers(k, f, cx, dir),
           Chain(Handlers(k, f, cx, dir), k, f, cx, h, dir)
    PROVE  Chain(Handlers(m, g, cy, dir), m, g, cy, h, dir)
<1> DEFINE X == Handlers(k, f, cx, dir)
<1>1. \A c \in X : c \in Members(k, f) \cap Members(m, g) /\ c \in 1 .. md
  BY DEF Handlers, Reshaped
<1>2. \A c, d \in X : Ahead(m, g, c, d, dir) <=> Ahead(k, f, c, d, dir)
  BY <1>1 DEF Reshaped
<1>3. \A c \in X : cy[c].link[dir] = cx[c].link[dir]
  BY <1>1 DEF Reshaped
<1> HIDE DEF X
<1>4. Chain(X, m, g, cy, h, dir)
  BY <1>2, <1>3, ChainSame DEF X
<1> QED
  BY <1>4 DEF X

(***************************************************************************)
(* The work, when the list changes or an exception is thrown.              *)
(***************************************************************************)
LEMMA OneJob ==
    ASSUME NEW j \in Jobs
    PROVE  /\ <<j>> \in Seq(Jobs) /\ DOMAIN <<j>> = {1} /\ <<j>>[1] = j /\ Len(<<j>>) = 1
OBVIOUS

LEMMA JobTypes ==
    /\ \A d \in Directions : [do |-> "update", dir |-> d, at |-> NULL] \in Jobs
    /\ \A d \in Directions, c \in Ptrs : [do |-> "walk", dir |-> d, at |-> c] \in Jobs
    /\ \A c \in Ctxs : /\ [do |-> "afterAdd", at |-> c] \in Jobs
                       /\ [do |-> "afterRemove", at |-> c] \in Jobs
                       /\ [do |-> "delete", at |-> c] \in Jobs
    /\ \A b \in BOOLEAN : [do |-> "catch", after |-> b] \in Jobs
    /\ \A b \in BOOLEAN, n \in Names, k \in Kinds :
          [do |-> "add", first |-> b, name |-> n, kind |-> k] \in Jobs
BY DEF Jobs, Ptrs

LEMMA OneJobWork ==
    ASSUME NEW M, NEW L, NEW j \in Jobs, JobOK(j, M, L)
    PROVE  WorkOK(<<j>>, M, L)
<1>1. /\ <<j>> \in Seq(Jobs) /\ DOMAIN <<j>> = {1} /\ <<j>>[1] = j
  BY OneJob
<1>2. PICK s \in Seq(Jobs) : s = <<j>>
  BY <1>1
<1>3. DOMAIN s = {1} /\ s[1] = j
  BY <1>1, <1>2
<1>4. WorkOK(s, M, L)
  <2>1. \A a, b \in DOMAIN s : a = b /\ ~(b < a)
    BY <1>3
  <2> QED
    BY <1>3, <2>1 DEF WorkOK
<1> QED
  BY <1>2, <1>4

LEMMA NoWork ==
    ASSUME NEW M, NEW L
    PROVE  WorkOK(<<>>, M, L) /\ \A what : Free(<<>>, what)
BY DEF WorkOK, Free

LEMMA FreeMore ==
    ASSUME NEW w, NEW A, NEW B, B \subseteq A, Free(w, A)
    PROVE  Free(w, B)
BY DEF Free

LEMMA UpdatesWork ==
    ASSUME NEW kind, kind \subseteq Directions, NEW M, NEW L
    PROVE  /\ WorkOK(Updates(kind), M, L) /\ Updates(kind) \in Seq(Jobs)
           /\ \A i \in DOMAIN Updates(kind) : Updates(kind)[i].do = "update"
           /\ \A dir \in kind : Pending(Updates(kind), dir)
<1> DEFINE J(d) == [do |-> "update", dir |-> d, at |-> NULL]
           U(d) == IF d \in kind THEN <<J(d)>> ELSE <<>>
<1>0. J("up") \in Jobs /\ J("down") \in Jobs
  BY JobTypes DEF Directions
<1>1. ASSUME NEW d \in Directions
      PROVE  /\ U(d) \in Seq(Jobs) /\ WorkOK(U(d), M, L)
             /\ \A i \in DOMAIN U(d) : U(d)[i] = J(d)
             /\ d \in kind => 1 \in DOMAIN U(d)
  <2>1. J(d) \in Jobs
    BY JobTypes
  <2>2. JobOK(J(d), M, L)
    BY DEF JobOK
  <2>3. CASE d \in kind
    <3>1. PICK j \in Jobs : j = J(d) /\ JobOK(j, M, L)
      BY <2>1, <2>2
    <3>2. U(d) = <<j>>
      BY <2>3, <3>1
    <3> HIDE DEF J, U
    <3> QED
      BY <3>1, <3>2, OneJob, OneJobWork
  <2>4. CASE d \notin kind
    <3>1. U(d) = <<>>
      BY <2>4
    <3> HIDE DEF J, U
    <3> QED
      BY <2>4, <3>1, NoWork DEF WorkOK
  <2> QED
    BY <2>3, <2>4
<1>2. PICK a : a = U("up")
  OBVIOUS
<1>3. PICK b : b = U("down")
  OBVIOUS
<1>4. Updates(kind) = a \o b
  BY <1>2, <1>3 DEF Updates
<1>5. \A d \in Directions : J(d).do = "update" /\ J(d).dir = d
  OBVIOUS
<1>6. /\ a \in Seq(Jobs) /\ WorkOK(a, M, L) /\ \A i \in DOMAIN a : a[i] = J("up")
      /\ "up" \in kind => 1 \in DOMAIN a
  <2> HIDE DEF J, U
  <2> QED
    BY <1>1, <1>2 DEF Directions
<1>7. /\ b \in Seq(Jobs) /\ WorkOK(b, M, L) /\ \A i \in DOMAIN b : b[i] = J("down")
      /\ "down" \in kind => 1 \in DOMAIN b
  <2> HIDE DEF J, U
  <2> QED
    BY <1>1, <1>3 DEF Directions
<1> HIDE DEF J, U
<1>8. /\ \A i \in DOMAIN a : a[i].do = "update" /\ a[i].dir = "up"
      /\ \A i \in DOMAIN b : b[i].do = "update" /\ b[i].dir = "down"
  BY <1>5, <1>6, <1>7 DEF Directions
<1>9. Free(a, Adders) /\ Free(b, Adders) /\ Free(b, {"walk"})
      /\ \A i \in DOMAIN a : a[i].do \in Chained
  BY <1>8 DEF Free, Adders, Chained
<1>10. WorkOK(a \o b, M, L)
  BY <1>6, <1>7, <1>9, WorkConcat
<1>11. \A i \in DOMAIN (a \o b) : (a \o b)[i].do = "update"
  BY <1>6, <1>7, <1>8, ConcatAt
<1>12. "up" \in kind => Pending(a \o b, "up")
  BY <1>6, <1>7, <1>8, ConcatFrom DEF Pending, Chained
<1>13. "down" \in kind => Pending(a \o b, "down")
  <2>1. SUFFICES ASSUME "down" \in kind PROVE Pending(a \o b, "down")
    OBVIOUS
  <2>2. 1 \in DOMAIN b
    BY <1>7, <2>1
  <2>3. Len(a) + 1 \in DOMAIN (a \o b) /\ (a \o b)[Len(a) + 1] = b[1]
    BY <1>6, <1>7, <2>2, ConcatFrom
  <2>4. b[1].do \in Chained /\ b[1].dir = "down"
    BY <1>8, <2>2 DEF Chained
  <2> QED
    BY <2>3, <2>4 DEF Pending
<1>14. a \o b \in Seq(Jobs)
  BY <1>6, <1>7, ConcatFrom
<1> QED
  BY <1>4, <1>10, <1>11, <1>12, <1>13, <1>14 DEF Directions

LEMMA WorkMoved ==
    ASSUME NEW w, NEW M, NEW L, WorkOK(w, M, L), NEW M2, NEW L2, M \subseteq M2,
           L2 \cap M \subseteq L,
           L \subseteq L2 \/ (Free(w, {"walk"}) /\ Free(w, Adders))
    PROVE  WorkOK(w, M2, L2)
<1>1. ASSUME NEW i \in DOMAIN w
      PROVE  JobOK(w[i], M2, L2)
  <2>1. JobOK(w[i], M, L)
    BY DEF WorkOK
  <2>2. L \subseteq L2 \/ (w[i].do # "walk" /\ w[i].do # "afterAdd")
    BY DEF Free, Adders
  <2> QED
    BY <2>1, <2>2 DEF JobOK
<1> QED
  BY <1>1 DEF WorkOK

(* A suffix of the work, after the catch clause m. *)
LEMMA WorkSuffix ==
    ASSUME NEW w, NEW M, NEW L, WorkOK(w, M, L), NEW m \in DOMAIN w
    PROVE  LET s == SubSeq(w, m + 1, Len(w))
           IN  /\ WorkOK(s, M, L)
               /\ \A what : Free(w, what) => Free(s, what)
               /\ m + 1 \in DOMAIN w => s # <<>> /\ Head(s) = w[m + 1]
<1> DEFINE s == SubSeq(w, m + 1, Len(w))
<1>1. w \in Seq(Jobs)
  BY DEF WorkOK
<1>2. Len(w) \in Nat /\ DOMAIN w = 1 .. Len(w) /\ m \in 1 .. Len(w)
  BY <1>1
<1>3. s \in Seq(Jobs) /\ Len(s) = Len(w) - m /\ \A i \in 1 .. Len(s) : s[i] = w[m + i]
  <2>1. m + 1 \in 1 .. Len(w) + 1 /\ Len(w) \in m .. Len(w)
    BY <1>2
  <2>2. \A i \in 1 .. Len(s) : s[i] = w[(m + 1) + i - 1]
    BY <1>1, <1>2, <2>1, SubSeqProperties
  <2>3. Len(s) = Len(w) - m /\ s \in Seq(Jobs)
    BY <1>1, <1>2, <2>1, SubSeqProperties
  <2>4. \A i \in 1 .. Len(s) : (m + 1) + i - 1 = m + i
    BY <1>2, <2>3
  <2> HIDE DEF s
  <2> QED
    BY <2>2, <2>3, <2>4
<1>4. \A i \in DOMAIN s : /\ i \in Nat /\ m + i \in DOMAIN w /\ s[i] = w[m + i] /\ m + i # 1
                          /\ \A j \in DOMAIN s : (j < i => m + j < m + i) /\ (m + i = m + j => i = j)
  BY <1>2, <1>3
<1>5. m + 1 \in DOMAIN w => 1 \in DOMAIN s /\ s[1] = w[m + 1]
  BY <1>2, <1>3
<1> HIDE DEF s
<1>6. WorkOK(s, M, L)
  <2>1. \A i \in DOMAIN s : JobOK(s[i], M, L)
    BY <1>4 DEF WorkOK
  <2>2. \A i \in DOMAIN s : s[i].do # "walk"
    BY <1>4 DEF WorkOK
  <2>3. ASSUME NEW i \in DOMAIN s, s[i].do \in Chained, NEW j \in DOMAIN s, j < i
        PROVE  s[j].do \in Chained
    <3>1. m + j < m + i /\ w[m + i].do \in Chained /\ m + i \in DOMAIN w /\ m + j \in DOMAIN w
      BY <1>4, <2>3
    <3>2. w[m + j].do \in Chained
      BY <3>1 DEF WorkOK
    <3> QED
      BY <1>4, <3>2
  <2>4. ASSUME NEW i \in DOMAIN s, NEW j \in DOMAIN s, s[i].do \in Adders, s[j].do \in Adders
        PROVE  i = j
    <3>1. m + i = m + j
      BY <1>4, <2>4 DEF WorkOK
    <3> QED
      BY <1>4, <3>1
  <2> QED
    BY <1>3, <2>1, <2>2, <2>3, <2>4 DEF WorkOK
<1>7. \A what : Free(w, what) => Free(s, what)
  BY <1>4 DEF Free
<1>8. m + 1 \in DOMAIN w => s # <<>> /\ Head(s) = w[m + 1]
  BY <1>3, <1>5
<1> QED
  BY <1>6, <1>7, <1>8 DEF s

LEMMA PendingConcat ==
    ASSUME NEW S, NEW a \in Seq(S), NEW b \in Seq(S), NEW dir
    PROVE  /\ Pending(a, dir) => Pending(a \o b, dir)
           /\ Pending(b, dir) => Pending(a \o b, dir)
<1>1. Pending(a, dir) => Pending(a \o b, dir)
  BY ConcatFrom DEF Pending
<1>2. ASSUME Pending(b, dir)
      PROVE  Pending(a \o b, dir)
  <2>1. PICK i \in DOMAIN b : b[i].do \in Chained /\ b[i].dir = dir
    BY <1>2 DEF Pending
  <2>2. Len(a) + i \in DOMAIN (a \o b) /\ (a \o b)[Len(a) + i] = b[i]
    BY ConcatFrom
  <2> QED
    BY <2>1, <2>2 DEF Pending
<1> QED
  BY <1>1, <1>2

LEMMA FreeNotPending ==
    ASSUME NEW w, Free(w, Chained), NEW dir
    PROVE  ~Pending(w, dir)
BY DEF Free, Pending

LEMMA FreeNotWalking ==
    ASSUME NEW S, NEW w \in Seq(S), Free(w, {"walk"}), NEW dir
    PROVE  ~Walking(w, dir)
<1>1. SUFFICES ASSUME w # <<>>, Head(w).do = "walk" PROVE FALSE
  BY DEF Walking
<1>2. Head(w) = w[1] /\ 1 \in DOMAIN w
  BY <1>1, TailAt
<1> QED
  BY <1>1, <1>2 DEF Free

LEMMA GuardedTail ==
    ASSUME NEW S, NEW w \in Seq(S), NEW c, Guarded(w, c)
    PROVE  /\ w # <<>>
           /\ Head(w).do # "catch" => Guarded(Tail(w), c)
           /\ Head(w).do = "catch" => Dying(Tail(w), c)
<1> DEFINE t == Tail(w)
<1>1. PICK i \in DOMAIN w : /\ i # 1 /\ w[i].do = "delete" /\ w[i].at = c /\ w[i - 1].do = "catch"
                            /\ \A j \in DOMAIN w : w[j].do = "catch" => j = i - 1
  BY DEF Guarded
<1>2. w # <<>> /\ Len(w) \in Nat /\ DOMAIN w = 1 .. Len(w)
  BY <1>1
<1>3. i \in Nat /\ i - 1 \in DOMAIN w /\ i >= 2
  BY <1>1, <1>2
<1>4. /\ t \in Seq(S) /\ Head(w) = w[1] /\ 1 \in DOMAIN w
      /\ \A j \in DOMAIN t : j + 1 \in DOMAIN w /\ j + 1 # 1 /\ t[j] = w[j + 1] /\ j \in Nat
      /\ \A j \in DOMAIN w : j # 1 => j - 1 \in DOMAIN t /\ t[j - 1] = w[j]
  BY <1>2, TailAt
<1> HIDE DEF t
<1>5. i - 1 \in DOMAIN t /\ t[i - 1] = w[i]
  BY <1>1, <1>4
<1>6. CASE Head(w).do # "catch"
  <2>1. i - 1 # 1
    BY <1>1, <1>4, <1>6
  <2>2. (i - 1) - 1 \in DOMAIN t /\ t[(i - 1) - 1] = w[i - 1]
    BY <1>3, <1>4, <2>1
  <2>3. ASSUME NEW j \in DOMAIN t, t[j].do = "catch"
        PROVE  j = (i - 1) - 1
    <3>1. j + 1 \in DOMAIN w /\ w[j + 1].do = "catch" /\ j \in Nat
      BY <1>4, <2>3
    <3>2. j + 1 = i - 1
      BY <1>1, <3>1
    <3> QED
      BY <1>3, <3>1, <3>2
  <2>4. Guarded(t, c)
    BY <1>1, <1>5, <2>1, <2>2, <2>3 DEF Guarded
  <2> QED
    BY <1>2, <1>6, <2>4 DEF t
<1>7. CASE Head(w).do = "catch"
  <2>1. i - 1 = 1
    BY <1>1, <1>4, <1>7
  <2>2. 1 \in DOMAIN t /\ t[1] = w[i]
    BY <1>5, <2>1
  <2>3. t # <<>>
    BY <2>2
  <2>4. Head(t) = t[1]
    BY <1>4, <2>3, TailAt
  <2>5. Dying(t, c)
    BY <1>1, <2>2, <2>3, <2>4 DEF Dying
  <2> QED
    BY <1>2, <1>7, <2>5 DEF t
<1> QED
  BY <1>6, <1>7

LEMMA GuardedConcat ==
    ASSUME NEW S, NEW a \in Seq(S), NEW b \in Seq(S), NEW c, Guarded(b, c), Free(a, {"catch"})
    PROVE  Guarded(a \o b, c)
<1> DEFINE w == a \o b
<1>1. PICK i \in DOMAIN b : /\ i # 1 /\ b[i].do = "delete" /\ b[i].at = c /\ b[i - 1].do = "catch"
                            /\ \A j \in DOMAIN b : b[j].do = "catch" => j = i - 1
  BY DEF Guarded
<1>2. Len(b) \in Nat /\ DOMAIN b = 1 .. Len(b) /\ Len(a) \in Nat
  OBVIOUS
<1>3. i \in Nat /\ i - 1 \in DOMAIN b /\ i >= 2
  BY <1>1, <1>2
<1>4. /\ \A x \in DOMAIN b : Len(a) + x \in DOMAIN w /\ w[Len(a) + x] = b[x]
      /\ \A x \in DOMAIN w : \/ x \in DOMAIN a /\ w[x] = a[x]
                             \/ \E y \in DOMAIN b : x = Len(a) + y /\ w[x] = b[y]
  BY ConcatAt, ConcatFrom
<1> HIDE DEF w
<1>5. PICK l \in Nat : l = Len(a)
  BY <1>2
<1>6. l + i \in DOMAIN w /\ w[l + i] = b[i] /\ l + i # 1
  BY <1>1, <1>3, <1>4, <1>5
<1>7. l + (i - 1) \in DOMAIN w /\ w[l + (i - 1)] = b[i - 1] /\ l + (i - 1) = (l + i) - 1
  BY <1>3, <1>4, <1>5
<1>8. \A j \in DOMAIN w : w[j].do = "catch" => j = (l + i) - 1
  BY <1>1, <1>3, <1>4, <1>5 DEF Free
<1>9. Guarded(w, c)
  BY <1>1, <1>6, <1>7, <1>8 DEF Guarded
<1> QED
  BY <1>9 DEF w

LEMMA DyingKnown ==
    ASSUME NEW w, NEW M, NEW L, WorkOK(w, M, L), NEW c, Dying(w, c)
    PROVE  c \in M /\ c \notin L /\ w # <<>>
<1>1. w \in Seq(Jobs)
  BY DEF WorkOK
<1>2. \E i \in DOMAIN w : w[i].do = "delete" /\ w[i].at = c
  BY <1>1, TailAt DEF Dying, Guarded
<1>3. \A i \in DOMAIN w : JobOK(w[i], M, L)
  BY DEF WorkOK
<1>4. c \in M /\ c \notin L
  BY <1>2, <1>3 DEF JobOK
<1>5. w # <<>>
  BY <1>2
<1> QED
  BY <1>4, <1>5

(* An exception: what is guarded is still deleted. *)
LEMMA GuardedSuffix ==
    ASSUME NEW w, NEW M, NEW L, WorkOK(w, M, L), NEW c, Guarded(w, c),
           NEW m \in DOMAIN w, w[m].do = "catch"
    PROVE  Dying(SubSeq(w, m + 1, Len(w)), c)
<1> DEFINE s == SubSeq(w, m + 1, Len(w))
<1>0. w \in Seq(Jobs)
  BY DEF WorkOK
<1>1. PICK i \in DOMAIN w : /\ i # 1 /\ w[i].do = "delete" /\ w[i].at = c /\ w[i - 1].do = "catch"
                            /\ \A j \in DOMAIN w : w[j].do = "catch" => j = i - 1
  BY DEF Guarded
<1>2. m = i - 1 /\ m + 1 = i
  BY <1>0, <1>1
<1>3. s # <<>> /\ Head(s) = w[m + 1]
  BY <1>1, <1>2, WorkSuffix
<1> HIDE DEF s
<1>4. Dying(s, c)
  BY <1>1, <1>2, <1>3 DEF Dying
<1> QED
  BY <1>4 DEF s

LEMMA PrefixWork ==
    ASSUME NEW kind, kind \subseteq Directions, NEW M, NEW L, NEW u, u = Updates(kind) \/ u = <<>>,
           NEW s, WorkOK(s, M, L), Free(s, Chained), Free(s, {"catch"}),
           NEW r, WorkOK(r, M, L), Free(r, Chained), Free(s, Adders) \/ Free(r, Adders)
    PROVE  /\ WorkOK((u \o s) \o r, M, L)
           /\ \A dir : ~Walking((u \o s) \o r, dir)
           /\ u = Updates(kind) => \A dir \in kind : Pending((u \o s) \o r, dir)
           /\ \A x : Guarded(r, x) => Guarded((u \o s) \o r, x)
<1>0. s \in Seq(Jobs) /\ r \in Seq(Jobs)
  BY DEF WorkOK
<1>1. WorkOK(u, M, L) /\ u \in Seq(Jobs) /\ \A i \in DOMAIN u : u[i].do = "update"
  <2>1. CASE u = Updates(kind)
    BY <2>1, UpdatesWork
  <2>2. CASE u = <<>>
    BY <2>2, NoWork DEF WorkOK
  <2> QED
    BY <2>1, <2>2
<1>2. u = Updates(kind) => \A dir \in kind : Pending(u, dir)
  BY UpdatesWork
<1>3. /\ Free(u, Adders) /\ Free(u, {"walk"}) /\ Free(u, {"catch"})
      /\ \A i \in DOMAIN u : u[i].do \in Chained
  BY <1>1 DEF Free, Adders, Chained
<1>4. Free(s, {"walk"}) /\ Free(r, {"walk"})
  BY FreeMore DEF Chained
<1>5. PICK v : v = u \o s
  OBVIOUS
<1>6. v \in Seq(Jobs) /\ WorkOK(v, M, L)
  <2>1. WorkOK(u \o s, M, L)
    BY <1>1, <1>3, <1>4, WorkConcat
  <2> QED
    BY <1>5, <2>1 DEF WorkOK
<1>7. Free(v, {"walk"}) /\ Free(v, {"catch"})
  BY <1>0, <1>1, <1>3, <1>4, <1>5, FreeConcat
<1>8. Free(s, Adders) => Free(v, Adders)
  BY <1>0, <1>1, <1>3, <1>5, FreeConcat
<1>9. WorkOK(v \o r, M, L)
  BY <1>4, <1>6, <1>8, WorkConcat
<1>10. v \o r \in Seq(Jobs) /\ Free(v \o r, {"walk"})
  BY <1>0, <1>4, <1>6, <1>7, <1>9, FreeConcat DEF WorkOK
<1>11. \A dir : ~Walking(v \o r, dir)
  BY <1>10, FreeNotWalking
<1>12. \A dir : Pending(u, dir) => Pending(v \o r, dir)
  BY <1>0, <1>1, <1>5, <1>6, PendingConcat
<1>13. \A x : Guarded(r, x) => Guarded(v \o r, x)
  BY <1>0, <1>6, <1>7, GuardedConcat
<1> QED
  BY <1>2, <1>5, <1>9, <1>11, <1>12, <1>13

LEMMA KindDirections ==
    ASSUME NEW kind \in Kinds
    PROVE  kind \subseteq Directions
BY PipelineAssumption

(***************************************************************************)
(* The changes of the list preserve the invariant.                         *)
(***************************************************************************)
LEMMA InsertKeeps ==
    ASSUME TypeOK, NEW k, NEW f, ListInv(k, f), NEW n \in Names, NEW kind \in Kinds,
           NEW q, NEW p, NEW nx, Between(k, f, q, p, nx),
           NEW rest, WorkOK(rest, 1 .. made, Members(k, f)),
           Free(rest, Chained), Free(rest, Adders), Free(work, Chained),
           \A x : Dying(work, x) => Guarded(rest, x),
           Insert(n, kind, p, nx, rest), calls' \in 0 .. MaxCalls
    PROVE  PipeInv'
<1>A. PICK c : c = made + 1
  OBVIOUS
<1>B. PICK g : g = InsertedAt(k, f, q, c)
  OBVIOUS
<1>C. PICK L : L = Members(k, f)
  OBVIOUS
<1>D. PICK L2 : L2 = Members(k + 1, g)
  OBVIOUS
<1>a. made \in Nat /\ made < MaxCtx /\ MaxCtx \in Nat /\ made' = c /\ c \in Ctxs /\ c \in Ptrs
      /\ c # 0 /\ c \in Nat /\ c = made + 1
  BY <1>A, PipelineAssumption DEF TypeOK, Insert, Ctxs, Ptrs
<1>b. Linked(ctx, made, head, tail, k, f)
  BY DEF ListInv
<1>c. Distinct(k, f) /\ k <= made /\ k \in Nat /\ \A i \in 1 .. k : f[i] \in 1 .. made /\ f[i] \in Ptrs
  <2>1. Distinct(k, f) /\ k <= made /\ \A i \in 1 .. k : f[i] \in 1 .. made
    BY <1>a, <1>b, LinkedDistinct
  <2>2. 1 .. made \subseteq Ptrs
    BY <1>a DEF Ptrs, Ctxs
  <2> QED
    BY <2>1, <2>2 DEF Distinct
<1>d. p \in Ptrs /\ nx \in Ptrs /\ q \in 0 .. k
  BY <1>c DEF Ptrs, Between
<1>e. ctx \in [1 .. made -> Contexts]
  BY DEF TypeOK
<1>f. PICK cy : cy = LinkedIn(c, p, nx)
  OBVIOUS
<1>g. Relinked(cy, p, c, nx, c)
  BY <1>a, <1>e, <1>f, LinkedInIs
<1>h. PICK r : r = NewContext(n, kind, p, nx)
  OBVIOUS
<1>i. r \in Contexts /\ r.name = n /\ r.kind = kind /\ r.next = nx /\ r.prev = p
      /\ \A d \in Directions : r.link[d] = NULL
  BY <1>d, <1>h, NewContextType
<1>j. PICK cz : cz = ctx'
  OBVIOUS
<1>k. cz = Append(cy, r)
  BY <1>A, <1>f, <1>h, <1>j DEF Insert
<1>l. cy \in [1 .. made -> Contexts]
  BY <1>g DEF Relinked
<1>1. cz \in [1 .. c -> Contexts] /\ (\A i \in 1 .. made : cz[i] = cy[i]) /\ cz[c] = r
  BY <1>A, <1>a, <1>i, <1>k, <1>l, AppendContext
<1>2. /\ Linked(cz, c, NewHead(p), NewTail(nx), k + 1, g)
      /\ L2 = L \cup {c}
  <2>1. Relinked(cy, p, made + 1, nx, made + 1) /\ Extended(cz, cy, p, nx)
    BY <1>A, <1>g, <1>i, <1>1 DEF Extended
  <2>2. /\ Linked(cz, made + 1, NewHead(p), NewTail(nx), k + 1, InsertedAt(k, f, q, made + 1))
        /\ Members(k + 1, InsertedAt(k, f, q, made + 1)) = Members(k, f) \cup {made + 1}
    BY <1>a, <1>b, <2>1, InsertLinked
  <2> QED
    BY <1>A, <1>B, <1>C, <1>D, <2>2
<1>3. Linked(cz, made', head', tail', k + 1, g)
  BY <1>a, <1>2 DEF Insert, NewHead, NewTail
<1>4. Distinct(k + 1, g)
  BY <1>a, <1>2, LinkedDistinct
<1>5. L \subseteq 1 .. made /\ c \notin L
  BY <1>A, <1>C, <1>a, <1>c DEF Members
<1>6. \A x, y \in L, dir \in Directions : Ahead(k + 1, g, x, y, dir) <=> Ahead(k, f, x, y, dir)
  BY <1>B, <1>C, <1>c, <1>d, <1>4, InsertOrder
<1>7. \A x \in 1 .. made : cz[x].name = ctx[x].name /\ cz[x].kind = ctx[x].kind
                           /\ cz[x].link = ctx[x].link
  BY <1>1, <1>g DEF Relinked
<1>8. Reshaped(ctx, made, k, f, cz, k + 1, g)
  BY <1>A, <1>C, <1>D, <1>1, <1>2, <1>5, <1>6, <1>7, <1>i DEF Reshaped
<1>9. LinkInv(k + 1, g, cz) /\ KnownLinks(cz, c)
  <2>1. LinkInv(k, f, ctx) /\ KnownLinks(ctx, made)
    BY DEF ListInv
  <2>2. c \in Members(k + 1, g)
    BY <1>D, <1>2
  <2> QED
    BY <1>A, <1>a, <1>8, <2>1, <2>2, ReshapedLinks, ReshapedKnown
<1>10. freed' \subseteq 1 .. made' /\ freed' \cap L2 = {}
  <2>1. freed' = freed /\ freed \subseteq 1 .. made /\ freed \cap L = {}
    BY <1>C DEF Insert, ListInv
  <2> QED
    BY <1>A, <1>a, <1>2, <2>1
<1>m. name2ctx' = [name2ctx EXCEPT ![n] = c] /\ name2ctx[n] = NULL /\ name2ctx \in [Names -> Ptrs]
  BY <1>A DEF Insert, TypeOK
<1>11. NamesInv(L2, cz, name2ctx')
  <2>1. NamesInv(L, ctx, name2ctx)
    BY <1>C DEF ListInv
  <2>2. \A x \in L : cz[x].name = ctx[x].name /\ ctx[x].name # n
    BY <1>5, <1>7, <1>m, <2>1 DEF NamesInv
  <2>3. cz[c].name = n
    BY <1>1, <1>i
  <2>4. ASSUME NEW m \in Names
        PROVE  name2ctx'[m] # NULL <=> \E x \in L2 : cz[x].name = m
    <3>1. CASE m = n
      BY <1>2, <1>a, <1>m, <2>3, <3>1 DEF NULL
    <3>2. CASE m # n
      <4>1. name2ctx'[m] = name2ctx[m]
        BY <1>m, <3>2
      <4> QED
        BY <1>2, <2>1, <2>2, <2>3, <3>2, <4>1 DEF NamesInv
    <3> QED
      BY <3>1, <3>2
  <2>5. \A x, y \in L2 : cz[x].name = cz[y].name => x = y
    BY <1>2, <2>1, <2>2, <2>3 DEF NamesInv
  <2>6. ASSUME NEW m \in Names, name2ctx'[m] \in L2
        PROVE  cz[name2ctx'[m]].name = m
    <3>1. CASE m = n
      BY <1>m, <2>3, <3>1
    <3>2. CASE m # n
      <4>1. name2ctx'[m] = name2ctx[m]
        BY <1>m, <3>2
      <4>2. name2ctx[m] \in {NULL} \cup freed \cup L \/ Dying(work, name2ctx[m])
        BY <1>C DEF ListInv, StaleInv
      <4>3. Dying(work, name2ctx[m]) => name2ctx[m] \in 1 .. made
        BY DyingKnown DEF ListInv
      <4>4. name2ctx[m] # c
        BY <1>a, <1>5, <4>2, <4>3 DEF ListInv, NULL
      <4> QED
        BY <1>2, <2>1, <2>2, <2>6, <4>1, <4>4 DEF NamesInv
    <3> QED
      BY <3>1, <3>2
  <2> QED
    BY <2>4, <2>5, <2>6 DEF NamesInv
<1> DEFINE s == <<[do |-> "afterAdd", at |-> c]>>
<1>n. PICK u : u = IF head = NULL THEN <<>> ELSE Updates(kind)
  OBVIOUS
<1>o. work' = (u \o s) \o rest
  BY <1>A, <1>n DEF Insert
<1>p. WorkOK(s, 1 .. c, L2) /\ Free(s, Chained) /\ Free(s, {"catch"})
  <2>1. PICK j : j = [do |-> "afterAdd", at |-> c]
    OBVIOUS
  <2>2. j \in Jobs /\ j.do = "afterAdd" /\ j.at = c
    BY <1>a, <2>1, JobTypes
  <2>3. JobOK(j, 1 .. c, L2)
    BY <1>2, <1>a, <2>2 DEF JobOK
  <2>4. s = <<j>>
    BY <2>1
  <2> QED
    BY <2>2, <2>3, <2>4, OneJobWork, OneJob DEF Free, Chained
<1>q. WorkOK(rest, 1 .. c, L2)
  <2>1. 1 .. made \subseteq 1 .. c /\ L2 \cap (1 .. made) \subseteq L /\ L \subseteq L2
    BY <1>A, <1>2, <1>a
  <2>2. WorkOK(rest, 1 .. made, L)
    BY <1>C
  <2> QED
    BY <2>1, <2>2, WorkMoved
<1> HIDE DEF s
<1>12. /\ WorkOK(work', 1 .. c, L2)
       /\ \A dir : ~Walking(work', dir)
       /\ u = Updates(kind) => \A dir \in kind : Pending(work', dir)
       /\ \A x : Guarded(rest, x) => Guarded(work', x)
  <2>1. kind \subseteq Directions
    BY KindDirections
  <2> QED
    <3>1. u = Updates(kind) \/ u = <<>>
      BY <1>n
    <3>2. /\ WorkOK((u \o s) \o rest, 1 .. c, L2)
          /\ \A dir : ~Walking((u \o s) \o rest, dir)
          /\ u = Updates(kind) => \A dir \in kind : Pending((u \o s) \o rest, dir)
          /\ \A x : Guarded(rest, x) => Guarded((u \o s) \o rest, x)
      BY <1>p, <1>q, <2>1, <3>1, PrefixWork
    <3> QED
      BY <1>o, <3>2
<1>13. StaleInv(L2, name2ctx', freed', work')
  <2> SUFFICES ASSUME NEW m \in Names
               PROVE  name2ctx'[m] \in {NULL} \cup freed' \cup L2 \/ Dying(work', name2ctx'[m])
    BY DEF StaleInv
  <2>1. CASE m = n
    BY <1>2, <1>m, <2>1
  <2>2. CASE m # n
    <3>1. name2ctx'[m] = name2ctx[m] /\ freed' = freed
      BY <1>m, <2>2 DEF Insert
    <3>2. name2ctx[m] \in {NULL} \cup freed \cup L \/ Dying(work, name2ctx[m])
      BY <1>C DEF ListInv, StaleInv
    <3>3. Dying(work, name2ctx[m]) => Dying(work', name2ctx[m])
      BY <1>12 DEF Dying
    <3> QED
      BY <1>2, <3>1, <3>2, <3>3
  <2> QED
    BY <2>1, <2>2
<1>r. /\ chainHead' \in [Directions -> Ptrs]
      /\ \A d \in Directions :
            chainHead'[d] = IF head = NULL /\ d \in kind THEN c ELSE chainHead[d]
  BY <1>A, <1>a DEF Insert, TypeOK
<1>14. KnownHeads(chainHead', c)
  <2>1. \A d \in Directions : chainHead[d] \in 0 .. made
    BY DEF ListInv, KnownHeads
  <2> QED
    BY <1>a, <1>r, <2>1 DEF KnownHeads
<1>15. KnownEvents(event', c)
  <2>1. event' = event /\ KnownEvents(event, made)
    BY DEF Insert, ListInv
  <2> QED
    BY <1>a, <2>1 DEF KnownEvents
<1>16. ChainInv(k + 1, g, cz, chainHead', work')
  <2> SUFFICES ASSUME NEW dir \in Directions, ~Pending(work', dir)
               PROVE  Chain(Handlers(k + 1, g, cz, dir), k + 1, g, cz, chainHead'[dir], dir)
    BY <1>12 DEF ChainInv
  <2>1. Chain(Handlers(k, f, ctx, dir), k, f, ctx, chainHead[dir], dir)
    BY FreeNotPending DEF ListInv, ChainInv
  <2>2. CASE dir \in kind
    <3>1. head = NULL
      BY <1>n, <1>12, <2>2
    <3>2. L = {}
      <4>1. k = 0
        BY <1>b, <1>c, <3>1 DEF Linked, NULL
      <4> QED
        BY <1>C, <4>1 DEF Members
    <3>3. Handlers(k + 1, g, cz, dir) = {c}
      BY <1>D, <1>1, <1>2, <1>i, <2>2, <3>2 DEF Handlers
    <3>4. chainHead'[dir] = c
      BY <1>r, <2>2, <3>1
    <3>5. ~Ahead(k + 1, g, c, c, dir)
      BY <1>D, <1>2, <1>4, AheadOrders
    <3> QED
      BY <3>3, <3>4, <3>5 DEF Chain
  <2>3. CASE dir \notin kind
    <3>1. Handlers(k + 1, g, cz, dir) = Handlers(k, f, ctx, dir)
      BY <1>C, <1>D, <1>1, <1>2, <1>5, <1>7, <1>i, <2>3 DEF Handlers
    <3>2. chainHead'[dir] = chainHead[dir]
      BY <1>r, <2>3
    <3> QED
      BY <1>a, <1>8, <2>1, <3>1, <3>2, ReshapedChain
  <2> QED
    BY <2>2, <2>3
<1>17. ListInv(k + 1, g)'
  <2>1. WorkOK(work', 1 .. made', L2) /\ KnownLinks(cz, made')
    BY <1>a, <1>9, <1>12
  <2>2. KnownHeads(chainHead', made') /\ KnownEvents(event', made')
    BY <1>a, <1>14, <1>15
  <2> QED
    BY <1>3, <1>9, <1>10, <1>11, <1>13, <1>16, <1>D, <1>j, <2>1, <2>2 DEF ListInv
<1>18. TypeOK'
  <2>1. made' \in 0 .. MaxCtx /\ ctx' \in [1 .. made' -> Contexts]
    BY <1>1, <1>a, <1>j
  <2>2. head' \in Ptrs /\ tail' \in Ptrs /\ name2ctx' \in [Names -> Ptrs]
    BY <1>a, <1>m DEF TypeOK, Insert
  <2>3. work' \in Seq(Jobs)
    BY <1>12 DEF WorkOK
  <2>4. UNCHANGED <<freed, event, attached, fault>>
    BY DEF Insert
  <2> QED
    BY <1>r, <2>1, <2>2, <2>3, <2>4 DEF TypeOK
<1> QED
  BY <1>17, <1>18 DEF PipeInv

LEMMA PtrsOf ==
    ASSUME TypeOK, NEW c \in 1 .. made
    PROVE  /\ made \in Nat /\ made <= MaxCtx /\ c \in Ctxs /\ c \in Ptrs /\ c # NULL
           /\ ctx[c] \in Contexts /\ ctx[c].next \in Ptrs /\ ctx[c].prev \in Ptrs
           /\ ctx[c].kind \in Kinds /\ ctx[c].kind \subseteq Directions /\ ctx[c].name \in Names
<1>1. made \in 0 .. MaxCtx /\ MaxCtx \in Nat /\ ctx \in [1 .. made -> Contexts]
  BY PipelineAssumption DEF TypeOK
<1>2. ctx[c] \in Contexts
  BY <1>1
<1>3. /\ ctx[c].next \in Ptrs /\ ctx[c].prev \in Ptrs /\ ctx[c].kind \in Kinds
      /\ ctx[c].name \in Names
  BY <1>2, ContextTypes
<1>4. made \in Nat /\ made <= MaxCtx /\ c \in Ctxs /\ c \in Ptrs /\ c # NULL
  BY <1>1 DEF Ctxs, Ptrs, NULL
<1> QED
  BY <1>2, <1>3, <1>4, KindDirections

LEMMA UnlinkKeeps ==
    ASSUME TypeOK, NEW k, NEW f, ListInv(k, f), NEW p \in 1 .. k, NEW c, c = f[p],
           NEW rest, WorkOK(rest, 1 .. made, Members(k, f) \ {c}),
           Free(rest, Chained), Free(work, Chained),
           \A x : Dying(work, x) => Guarded(rest, x),
           Unlink(c, rest), calls' \in 0 .. MaxCalls
    PROVE  PipeInv'
<1>A. PICK g : g = RemovedAt(k, f, p)
  OBVIOUS
<1>B. PICK L : L = Members(k, f)
  OBVIOUS
<1>C. PICK L2 : L2 = Members(k - 1, g)
  OBVIOUS
<1>D. PICK cz : cz = ctx'
  OBVIOUS
<1>b. Linked(ctx, made, head, tail, k, f)
  BY DEF ListInv
<1>a. made \in Nat /\ made' = made
  <2>1. made \in Nat
    BY PipelineAssumption DEF TypeOK
  <2>2. made' = made
    BY DEF Unlink
  <2> QED
    BY <2>1, <2>2
<1>c. Distinct(k, f) /\ k <= made /\ k \in Nat /\ \A i \in 1 .. k : f[i] \in 1 .. made
  BY <1>a, <1>b, LinkedDistinct
<1>d. c \in 1 .. made /\ c \in L
  BY <1>B, <1>c DEF Members
<1>e. /\ c \in Ctxs /\ c # NULL /\ ctx[c].next \in Ptrs /\ ctx[c].prev \in Ptrs
      /\ ctx[c].kind \subseteq Directions /\ ctx[c].name \in Names
  BY <1>d, PtrsOf
<1>1. Relinked(cz, ctx[c].prev, ctx[c].next, ctx[c].next, ctx[c].prev)
  <2>1. cz = WithEnds(ctx[c].prev, ctx[c].next, ctx[c].next, ctx[c].prev)
    BY <1>D DEF Unlink, WithEnds
  <2>2. ctx \in [1 .. made -> Contexts]
    BY DEF TypeOK
  <2> QED
    BY <1>e, <2>1, <2>2, Relink
<1>2. Linked(cz, made, HeadWithout(c), TailWithout(c), k - 1, g) /\ L2 = L \ {c}
  BY <1>A, <1>B, <1>C, <1>a, <1>b, <1>1, UnlinkLinked
<1>3. Linked(cz, made', head', tail', k - 1, g)
  BY <1>a, <1>2 DEF Unlink, HeadWithout, TailWithout
<1>4. Distinct(k - 1, g)
  BY <1>a, <1>2, LinkedDistinct
<1>5. L \subseteq 1 .. made
  BY <1>B, <1>c DEF Members
<1>6. \A x, y \in L2, dir \in Directions : Ahead(k - 1, g, x, y, dir) <=> Ahead(k, f, x, y, dir)
  BY <1>A, <1>B, <1>2, <1>c, <1>4, RemoveOrder
<1>7. \A x \in 1 .. made : cz[x].name = ctx[x].name /\ cz[x].kind = ctx[x].kind
                           /\ cz[x].link = ctx[x].link
  BY <1>1 DEF Relinked
<1>8. Reshaped(ctx, made, k, f, cz, k - 1, g)
  <2>1. made + 1 \notin L2
    BY <1>2, <1>5, <1>a
  <2> QED
    BY <1>B, <1>C, <1>2, <1>5, <1>6, <1>7, <2>1 DEF Reshaped
<1>9. LinkInv(k - 1, g, cz) /\ KnownLinks(cz, made)
  <2>1. LinkInv(k, f, ctx) /\ KnownLinks(ctx, made)
    BY DEF ListInv
  <2>2. made # made + 1
    BY <1>a
  <2> QED
    BY <1>a, <1>8, <2>1, <2>2, ReshapedLinks, ReshapedKnown
<1>10. freed' \subseteq 1 .. made' /\ freed' \cap L2 = {}
  BY <1>B, <1>2 DEF Unlink, ListInv
<1>m. /\ name2ctx' \in [Names -> Ptrs]
      /\ \A m \in Names : name2ctx'[m] = IF head = tail \/ m = ctx[c].name THEN NULL ELSE name2ctx[m]
  <2>1. name2ctx' = Erased(c) /\ name2ctx \in [Names -> Ptrs]
    BY DEF Unlink, TypeOK
  <2> QED
    BY <2>1, <1>e DEF Erased, Ptrs
<1>n. head = tail => L = {c}
  <2>1. head = tail => k = 1
    BY <1>b, <1>c DEF Linked
  <2> QED
    BY <1>B, <1>c, <2>1 DEF Members
<1>11. NamesInv(L2, cz, name2ctx')
  <2>1. NamesInv(L, ctx, name2ctx)
    BY <1>B DEF ListInv
  <2>2. \A x \in L : cz[x].name = ctx[x].name
    BY <1>5, <1>7
  <2>3. \A x \in L2 : x \in L /\ ctx[x].name # ctx[c].name
    BY <1>2, <1>d, <2>1 DEF NamesInv
  <2>4. ASSUME NEW m \in Names
        PROVE  name2ctx'[m] # NULL <=> \E x \in L2 : cz[x].name = m
    <3>1. CASE head = tail
      BY <1>2, <1>m, <1>n, <3>1
    <3>2. CASE head # tail /\ m = ctx[c].name
      BY <1>m, <2>2, <2>3, <3>2
    <3>3. CASE head # tail /\ m # ctx[c].name
      <4>1. name2ctx'[m] = name2ctx[m]
        BY <1>m, <3>3
      <4> QED
        BY <1>2, <2>1, <2>2, <3>3, <4>1 DEF NamesInv
    <3> QED
      BY <3>1, <3>2, <3>3
  <2>5. \A x, y \in L2 : cz[x].name = cz[y].name => x = y
    BY <2>1, <2>2, <2>3 DEF NamesInv
  <2>6. ASSUME NEW m \in Names, name2ctx'[m] \in L2
        PROVE  cz[name2ctx'[m]].name = m
    <3>1. NULL \notin L2
      BY <1>2, <1>5 DEF NULL
    <3>2. name2ctx'[m] = name2ctx[m]
      BY <1>m, <2>6, <3>1
    <3> QED
      BY <2>1, <2>2, <2>3, <2>6, <3>2 DEF NamesInv
  <2> QED
    BY <2>4, <2>5, <2>6 DEF NamesInv
<1>o. PICK a : a = [do |-> "afterRemove", at |-> c]
  OBVIOUS
<1>p. PICK d : d = [do |-> "delete", at |-> c]
  OBVIOUS
<1>q. a \in Jobs /\ a.do = "afterRemove" /\ a.at = c /\ d \in Jobs /\ d.do = "delete" /\ d.at = c
  BY <1>e, <1>o, <1>p, JobTypes
<1> DEFINE s == <<a, d>>
<1>r. WorkOK(s, 1 .. made, L2) /\ Free(s, Chained) /\ Free(s, {"catch"}) /\ Free(s, Adders)
  <2>1. s \in Seq(Jobs) /\ DOMAIN s = {1, 2} /\ s[1] = a /\ s[2] = d
    BY <1>q
  <2>2. JobOK(a, 1 .. made, L2) /\ JobOK(d, 1 .. made, L2)
    BY <1>2, <1>d, <1>q DEF JobOK
  <2> HIDE DEF s
  <2>3. \A i \in DOMAIN s : s[i].do \in {"afterRemove", "delete"} /\ JobOK(s[i], 1 .. made, L2)
    BY <1>q, <2>1, <2>2
  <2> QED
    BY <2>1, <2>3 DEF WorkOK, Free, Chained, Adders
<1>s. PICK u : u = Updates(ctx[c].kind)
  OBVIOUS
<1>t. work' = (u \o s) \o rest
  BY <1>o, <1>p, <1>s DEF Unlink
<1>u. WorkOK(rest, 1 .. made, L2)
  BY <1>B, <1>2
<1> HIDE DEF s
<1>12. /\ WorkOK(work', 1 .. made, L2)
       /\ \A dir : ~Walking(work', dir)
       /\ \A dir \in ctx[c].kind : Pending(work', dir)
       /\ \A x : Guarded(rest, x) => Guarded(work', x)
  <2>1. /\ WorkOK((u \o s) \o rest, 1 .. made, L2)
        /\ \A dir : ~Walking((u \o s) \o rest, dir)
        /\ u = Updates(ctx[c].kind) => \A dir \in ctx[c].kind : Pending((u \o s) \o rest, dir)
        /\ \A x : Guarded(rest, x) => Guarded((u \o s) \o rest, x)
    BY <1>e, <1>r, <1>s, <1>u, PrefixWork
  <2> QED
    BY <1>s, <1>t, <2>1
<1>13. StaleInv(L2, name2ctx', freed', work')
  <2> SUFFICES ASSUME NEW m \in Names, name2ctx'[m] # NULL
               PROVE  name2ctx'[m] \in freed' \cup L2 \/ Dying(work', name2ctx'[m])
    BY DEF StaleInv
  <2>1. name2ctx'[m] = name2ctx[m] /\ m # ctx[c].name /\ freed' = freed
    BY <1>m DEF Unlink
  <2>2. name2ctx[m] \in {NULL} \cup freed \cup L \/ Dying(work, name2ctx[m])
    BY <1>B DEF ListInv, StaleInv
  <2>3. name2ctx[m] # c
    BY <1>B, <1>d, <2>1 DEF ListInv, NamesInv
  <2>4. Dying(work, name2ctx[m]) => Dying(work', name2ctx[m])
    BY <1>12 DEF Dying
  <2> QED
    BY <1>2, <2>1, <2>2, <2>3, <2>4
<1>14. chainHead' = chainHead /\ event' = event
  BY DEF Unlink
<1>15. ChainInv(k - 1, g, cz, chainHead', work')
  <2> SUFFICES ASSUME NEW dir \in Directions, ~Pending(work', dir)
               PROVE  Chain(Handlers(k - 1, g, cz, dir), k - 1, g, cz, chainHead'[dir], dir)
    BY <1>12 DEF ChainInv
  <2>1. Chain(Handlers(k, f, ctx, dir), k, f, ctx, chainHead[dir], dir)
    BY FreeNotPending DEF ListInv, ChainInv
  <2>2. dir \notin ctx[c].kind
    BY <1>12
  <2>3. Handlers(k - 1, g, cz, dir) = Handlers(k, f, ctx, dir)
    BY <1>B, <1>C, <1>2, <1>5, <1>7, <2>2 DEF Handlers
  <2> QED
    BY <1>a, <1>8, <1>14, <2>1, <2>3, ReshapedChain
<1>16. ListInv(k - 1, g)'
  <2>1. WorkOK(work', 1 .. made', L2) /\ KnownLinks(cz, made')
    BY <1>a, <1>9, <1>12
  <2>2. KnownHeads(chainHead', made') /\ KnownEvents(event', made')
    BY <1>a, <1>14 DEF ListInv
  <2> QED
    BY <1>3, <1>9, <1>10, <1>11, <1>13, <1>15, <1>C, <1>D, <2>1, <2>2 DEF ListInv
<1>17. TypeOK'
  <2>1. made' \in 0 .. MaxCtx /\ ctx' \in [1 .. made' -> Contexts]
    BY <1>1, <1>a, <1>D DEF Relinked, TypeOK
  <2>2. head' \in Ptrs /\ tail' \in Ptrs
    BY <1>e DEF TypeOK, Unlink
  <2>3. work' \in Seq(Jobs)
    BY <1>12 DEF WorkOK
  <2>4. UNCHANGED <<freed, chainHead, event, attached, fault>>
    BY DEF Unlink
  <2> QED
    BY <1>m, <2>1, <2>2, <2>3, <2>4 DEF TypeOK
<1> QED
  BY <1>16, <1>17 DEF PipeInv

(* remove: the only handler, or one of several. *)
LEMMA RemoveKeeps ==
    ASSUME TypeOK, NEW k, NEW f, ListInv(k, f), NEW c \in Members(k, f),
           NEW rest, WorkOK(rest, 1 .. made, Members(k, f) \ {c}),
           Free(rest, Chained), Free(rest, Adders), Free(work, Chained),
           \A x : Dying(work, x) => Guarded(rest, x),
           Remove(c, rest), calls' \in 0 .. MaxCalls
    PROVE  PipeInv'
<1>a. made \in Nat /\ MaxCtx \in Nat /\ made <= MaxCtx
  BY PipelineAssumption DEF TypeOK
<1>b. Linked(ctx, made, head, tail, k, f)
  BY DEF ListInv
<1>c. Distinct(k, f) /\ k <= made /\ k \in Nat /\ \A i \in 1 .. k : f[i] \in 1 .. made
  BY <1>a, <1>b, LinkedDistinct
<1>1. c \notin freed
  BY DEF ListInv
<1>2. CASE head # tail
  <2>1. Unlink(c, rest)
    BY <1>1, <1>2 DEF Remove
  <2>2. PICK p \in 1 .. k : c = f[p]
    BY DEF Members
  <2> QED
    BY <2>1, <2>2, UnlinkKeeps
<1>3. CASE head = tail
  <2>1. /\ head' = NULL /\ tail' = NULL /\ name2ctx' = [n \in Names |-> NULL]
        /\ freed' = freed \cup {c} /\ work' = rest
        /\ UNCHANGED <<ctx, made, chainHead, event, attached, fault>>
    BY <1>1, <1>3 DEF Remove
  <2>2. c \in 1 .. made
    BY <1>c DEF Members
  <2>3. Members(k, f) = {c}
    <3>1. k = 1
      BY <1>b, <1>c, <1>3 DEF Linked, Members
    <3> QED
      BY <3>1 DEF Members
  <2>4. PICK g : g \in [1 .. 0 -> 1 .. made]
    <3>1. [i \in 1 .. 0 |-> 1] \in [1 .. 0 -> 1 .. made]
      OBVIOUS
    <3> QED
      BY <3>1
  <2>5. Members(0, g) = {}
    BY DEF Members
  <2>6. Linked(ctx', made', head', tail', 0, g)
    BY <1>a, <2>1, <2>4 DEF Linked
  <2>7. freed' \subseteq 1 .. made' /\ freed' \cap Members(0, g) = {}
    BY <2>1, <2>2, <2>5 DEF ListInv
  <2>8. NamesInv(Members(0, g), ctx', name2ctx')
    BY <2>1, <2>5 DEF NamesInv
  <2>9. StaleInv(Members(0, g), name2ctx', freed', work')
    BY <2>1 DEF StaleInv
  <2>10. WorkOK(work', 1 .. made', Members(0, g))
    BY <2>1, <2>3, <2>5
  <2>11. KnownLinks(ctx', made') /\ KnownHeads(chainHead', made') /\ KnownEvents(event', made')
    BY <2>1 DEF ListInv
  <2>12. LinkInv(0, g, ctx')
    BY <2>5 DEF LinkInv
  <2>13. ChainInv(0, g, ctx', chainHead', work')
    <3>1. \A dir : ~Walking(work', dir)
      <4>1. rest \in Seq(Jobs)
        BY DEF WorkOK
      <4>2. Free(rest, {"walk"})
        BY FreeMore DEF Chained
      <4> QED
        BY <2>1, <4>1, <4>2, FreeNotWalking
    <3>2. \A dir : Handlers(0, g, ctx', dir) = {}
      BY <2>5 DEF Handlers
    <3> QED
      BY <3>1, <3>2 DEF ChainInv, Chain
  <2>14. ListInv(0, g)'
    BY <2>6, <2>7, <2>8, <2>9, <2>10, <2>11, <2>12, <2>13 DEF ListInv
  <2>15. TypeOK'
    <3>1. work' \in Seq(Jobs)
      BY <2>1 DEF WorkOK
    <3>2. freed' \subseteq Ctxs
      BY <1>a, <2>1, <2>2 DEF TypeOK, Ctxs
    <3>3. head' \in Ptrs /\ tail' \in Ptrs /\ name2ctx' \in [Names -> Ptrs]
      BY <2>1 DEF Ptrs
    <3> QED
      BY <2>1, <3>1, <3>2, <3>3 DEF TypeOK
  <2> QED
    BY <2>14, <2>15 DEF PipeInv
<1> QED
  BY <1>2, <1>3

(* replace of a handler in the middle; the map may keep the old context. *)
LEMMA ReplaceKeeps ==
    ASSUME TypeOK, NEW k, NEW f, ListInv(k, f), NEW c \in Members(k, f),
           NEW n \in Names, NEW kind \in Kinds, work = <<>>,
           ReplaceMiddle(c, n, kind), calls' \in 0 .. MaxCalls
    PROVE  PipeInv'
<1>A. PICK p \in 1 .. k : c = f[p]
  BY DEF Members
<1>E. PICK new : new = made + 1
  OBVIOUS
<1>F. PICK g : g = ReplacedAt(k, f, p, new)
  OBVIOUS
<1>B. PICK L : L = Members(k, f)
  OBVIOUS
<1>C. PICK L2 : L2 = Members(k, g)
  OBVIOUS
<1>D. PICK cz : cz = ctx'
  OBVIOUS
<1>b. Linked(ctx, made, head, tail, k, f)
  BY DEF ListInv
<1>v. c \notin freed /\ c \notin {head, tail}
  BY DEF ListInv, ReplaceMiddle
<1>w. PICK pr : pr = ctx[c].prev
  OBVIOUS
<1>x. PICK nx : nx = ctx[c].next
  OBVIOUS
<1>y. /\ made < MaxCtx /\ made' = new /\ (n # ctx[c].name => name2ctx[n] = NULL)
      /\ ctx' = Append(LinkedIn(new, pr, nx), NewContext(n, kind, pr, nx))
      /\ name2ctx' = IF n = ctx[c].name THEN name2ctx
                     ELSE [name2ctx EXCEPT ![ctx[c].name] = NULL, ![n] = new]
      /\ \E thrown \in BOOLEAN :
            work' = Updates(kind \cup ctx[c].kind)
                       \o <<[do |-> "afterAdd", at |-> new], [do |-> "catch", after |-> thrown],
                            [do |-> "delete", at |-> c]>>
      /\ UNCHANGED <<head, tail, freed, chainHead, event, attached, fault>>
  BY <1>E, <1>v, <1>w, <1>x DEF ReplaceMiddle
<1>a. /\ made \in Nat /\ MaxCtx \in Nat /\ made <= MaxCtx /\ new \in Nat /\ new # 0
      /\ new \in Ctxs /\ new \in Ptrs /\ new \in 1 .. new
  BY <1>E, <1>y, PipelineAssumption DEF TypeOK, Ctxs, Ptrs
<1>c. Distinct(k, f) /\ k <= made /\ k \in Nat /\ \A i \in 1 .. k : f[i] \in 1 .. made
  BY <1>a, <1>b, LinkedDistinct
<1>d. c \in 1 .. made /\ c \in L /\ p # 1 /\ p # k
  BY <1>A, <1>B, <1>b, <1>c, <1>v DEF Members, Linked
<1>e. /\ c \in Ctxs /\ c # NULL /\ pr \in Ptrs /\ nx \in Ptrs
      /\ ctx[c].kind \subseteq Directions /\ ctx[c].name \in Names
  BY <1>d, <1>w, <1>x, PtrsOf
<1>f. PICK cy : cy = LinkedIn(new, pr, nx)
  OBVIOUS
<1>g. Relinked(cy, pr, new, nx, new) /\ cy \in [1 .. made -> Contexts]
  <2>1. ctx \in [1 .. made -> Contexts]
    BY DEF TypeOK
  <2>2. Relinked(cy, pr, new, nx, new)
    BY <1>a, <1>f, <2>1, LinkedInIs
  <2> QED
    BY <2>2 DEF Relinked
<1>h. PICK r : r = NewContext(n, kind, pr, nx)
  OBVIOUS
<1>i. r \in Contexts /\ r.name = n /\ r.kind = kind /\ r.next = nx /\ r.prev = pr
      /\ \A d \in Directions : r.link[d] = NULL
  BY <1>e, <1>h, NewContextType
<1>1. cz \in [1 .. new -> Contexts] /\ (\A i \in 1 .. made : cz[i] = cy[i]) /\ cz[new] = r
  <2>1. cz = Append(cy, r)
    BY <1>D, <1>f, <1>h, <1>y
  <2> QED
    BY <1>E, <1>a, <1>g, <1>i, <2>1, AppendContext
<1>2. Linked(cz, new, head, tail, k, g) /\ L2 = (L \ {c}) \cup {new}
  <2>1. Relinked(cy, ctx[f[p]].prev, made + 1, ctx[f[p]].next, made + 1)
    BY <1>A, <1>E, <1>g, <1>w, <1>x
  <2>2. Extended(cz, cy, ctx[f[p]].prev, ctx[f[p]].next)
    BY <1>A, <1>E, <1>i, <1>w, <1>x, <1>1 DEF Extended
  <2>3. /\ Linked(cz, made + 1, head, tail, k, ReplacedAt(k, f, p, made + 1))
        /\ Members(k, ReplacedAt(k, f, p, made + 1)) = (Members(k, f) \ {f[p]}) \cup {made + 1}
    BY <1>a, <1>b, <1>d, <2>1, <2>2, ReplaceLinked
  <2> QED
    BY <1>A, <1>B, <1>C, <1>E, <1>F, <2>3
<1>4. Distinct(k, g)
  BY <1>a, <1>2, LinkedDistinct
<1>5. L \subseteq 1 .. made /\ new \notin L /\ NULL \notin L2 /\ new # c
  BY <1>B, <1>E, <1>2, <1>a, <1>c, <1>d DEF Members, NULL
<1>6. \A x, y \in L \ {c}, dir \in Directions : Ahead(k, g, x, y, dir) <=> Ahead(k, f, x, y, dir)
  BY <1>A, <1>B, <1>F, <1>c, <1>4, ReplaceOrder
<1>7. \A x \in 1 .. made : cz[x].name = ctx[x].name /\ cz[x].kind = ctx[x].kind
                           /\ cz[x].link = ctx[x].link
  BY <1>1, <1>g DEF Relinked
<1>8. Reshaped(ctx, made, k, f, cz, k, g)
  <2>1. Members(k, f) \cap Members(k, g) \subseteq L \ {c}
    BY <1>B, <1>C, <1>2, <1>5
  <2>2. Members(k, g) \subseteq Members(k, f) \cup {made + 1} /\ Members(k, f) \subseteq 1 .. made
    BY <1>B, <1>C, <1>E, <1>2, <1>5
  <2>3. \A dir \in Directions : cz[made + 1].link[dir] = NULL
    BY <1>E, <1>1, <1>i
  <2> QED
    BY <1>6, <1>7, <2>1, <2>2, <2>3 DEF Reshaped
<1>9. LinkInv(k, g, cz) /\ KnownLinks(cz, new)
  <2>1. LinkInv(k, f, ctx) /\ KnownLinks(ctx, made)
    BY DEF ListInv
  <2>2. made + 1 \in Members(k, g) /\ new \in {made, made + 1}
    BY <1>C, <1>E, <1>2
  <2> QED
    BY <1>E, <1>a, <1>8, <2>1, <2>2, ReshapedLinks, ReshapedKnown
<1>10. freed' \subseteq 1 .. made' /\ freed' \cap L2 = {}
  <2>1. freed' = freed /\ freed \subseteq 1 .. made /\ freed \cap L = {} /\ made' = new
    BY <1>B, <1>y DEF ListInv
  <2> QED
    BY <1>E, <1>2, <1>a, <2>1
<1>m. /\ name2ctx \in [Names -> Ptrs] /\ name2ctx' \in [Names -> Ptrs]
      /\ n = ctx[c].name => name2ctx' = name2ctx
      /\ n # ctx[c].name => /\ name2ctx[n] = NULL /\ name2ctx'[n] = new
                            /\ name2ctx'[ctx[c].name] = NULL
      /\ \A m \in Names : m # n /\ m # ctx[c].name => name2ctx'[m] = name2ctx[m]
  <2>1. name2ctx \in [Names -> Ptrs]
    BY DEF TypeOK
  <2> QED
    BY <1>a, <1>e, <1>y, <2>1 DEF Ptrs
<1>n. \A m \in Names : name2ctx[m] \in {NULL} \cup freed \cup L /\ name2ctx[m] # new
  <2>1. \A m \in Names : ~Dying(work, name2ctx[m])
    BY DyingKnown DEF ListInv
  <2>2. \A m \in Names : name2ctx[m] \in {NULL} \cup freed \cup L
    BY <1>B, <2>1 DEF ListInv, StaleInv
  <2>3. freed \subseteq 1 .. made /\ new \notin 1 .. made /\ new # NULL
    BY <1>E, <1>a DEF ListInv, NULL
  <2> QED
    BY <1>5, <2>2, <2>3
<1>o. /\ NamesInv(L, ctx, name2ctx) /\ cz[new].name = n
      /\ \A x \in L : cz[x].name = ctx[x].name /\ (x # c => ctx[x].name # ctx[c].name)
      /\ \A x \in L \ {c} : ctx[x].name # n
  <2>1. NamesInv(L, ctx, name2ctx)
    BY <1>B DEF ListInv
  <2>2. \A x \in L : cz[x].name = ctx[x].name /\ (x # c => ctx[x].name # ctx[c].name)
    BY <1>5, <1>7, <1>d, <2>1 DEF NamesInv
  <2>3. \A x \in L \ {c} : ctx[x].name # n
    BY <1>m, <2>1, <2>2 DEF NamesInv
  <2> QED
    BY <1>1, <1>i, <2>1, <2>2, <2>3
<1>11. NamesInv(L2, cz, name2ctx')
  <2>4. ASSUME NEW m \in Names
        PROVE  name2ctx'[m] # NULL <=> \E x \in L2 : cz[x].name = m
    <3>1. CASE m = n
      <4>1. name2ctx'[m] # NULL
        BY <1>m, <1>a, <1>d, <1>o, <3>1 DEF NamesInv, NULL
      <4> QED
        BY <1>2, <1>o, <3>1, <4>1
    <3>2. CASE m # n /\ m = ctx[c].name
      <4>1. name2ctx'[m] = NULL
        BY <1>m, <3>2
      <4> QED
        BY <1>2, <1>o, <3>2, <4>1
    <3>3. CASE m # n /\ m # ctx[c].name
      <4>1. name2ctx'[m] = name2ctx[m]
        BY <1>m, <3>3
      <4> QED
        BY <1>2, <1>o, <3>3, <4>1 DEF NamesInv
    <3> QED
      BY <3>1, <3>2, <3>3
  <2>5. \A x, y \in L2 : cz[x].name = cz[y].name => x = y
    BY <1>2, <1>o DEF NamesInv
  <2>6. ASSUME NEW m \in Names, name2ctx'[m] \in L2
        PROVE  cz[name2ctx'[m]].name = m
    <3>1. CASE name2ctx'[m] = new
      BY <1>m, <1>n, <1>o, <1>e, <3>1, <1>a DEF NULL
    <3>2. CASE name2ctx'[m] # new
      <4>1. name2ctx'[m] = name2ctx[m] /\ name2ctx[m] \in L
        BY <1>2, <1>5, <1>m, <2>6, <3>2
      <4> QED
        BY <1>o, <4>1 DEF NamesInv
    <3> QED
      BY <3>1, <3>2
  <2> QED
    BY <2>4, <2>5, <2>6 DEF NamesInv
<1>p. PICK thrown \in BOOLEAN :
         work' = Updates(kind \cup ctx[c].kind)
                       \o <<[do |-> "afterAdd", at |-> new], [do |-> "catch", after |-> thrown],
                            [do |-> "delete", at |-> c]>>
  BY <1>y
<1>q. PICK ja : ja = [do |-> "afterAdd", at |-> new]
  OBVIOUS
<1>r. PICK jc : jc = [do |-> "catch", after |-> thrown]
  OBVIOUS
<1>s. PICK jd : jd = [do |-> "delete", at |-> c]
  OBVIOUS
<1>t. /\ ja \in Jobs /\ ja.do = "afterAdd" /\ ja.at = new /\ jc \in Jobs /\ jc.do = "catch"
      /\ jd \in Jobs /\ jd.do = "delete" /\ jd.at = c
  BY <1>a, <1>e, <1>q, <1>r, <1>s, JobTypes
<1> DEFINE s == <<ja, jc, jd>>
<1>u. WorkOK(s, 1 .. new, L2) /\ s \in Seq(Jobs) /\ Free(s, Chained) /\ Guarded(s, c)
  <2>1. s \in Seq(Jobs) /\ DOMAIN s = {1, 2, 3} /\ s[1] = ja /\ s[2] = jc /\ s[3] = jd
    BY <1>t
  <2>2. /\ JobOK(ja, 1 .. new, L2) /\ JobOK(jc, 1 .. new, L2) /\ JobOK(jd, 1 .. new, L2)
    BY <1>E, <1>2, <1>5, <1>a, <1>d, <1>t DEF JobOK
  <2> HIDE DEF s
  <2>3. \A i \in DOMAIN s : /\ s[i].do \in {"afterAdd", "catch", "delete"}
                            /\ JobOK(s[i], 1 .. new, L2)
                            /\ s[i].do = "afterAdd" => i = 1
                            /\ s[i].do = "catch" => i = 3 - 1
    BY <1>t, <2>1, <2>2
  <2>4. WorkOK(s, 1 .. new, L2)
    BY <2>1, <2>3 DEF WorkOK, Chained, Adders
  <2>5. Free(s, Chained)
    BY <2>3 DEF Free, Chained
  <2>6. 3 \in DOMAIN s /\ s[3 - 1].do = "catch" /\ s[3].do = "delete" /\ s[3].at = c /\ 3 # 1
    BY <1>t, <2>1
  <2>7. Guarded(s, c)
    BY <2>3, <2>6 DEF Guarded
  <2> QED
    BY <2>1, <2>4, <2>5, <2>7
<1>z. PICK u : u = Updates(kind \cup ctx[c].kind)
  OBVIOUS
<1> HIDE DEF s
<1>G. work' = u \o s
  BY <1>p, <1>q, <1>r, <1>s, <1>z DEF s
<1>H. /\ WorkOK(u, 1 .. new, L2) /\ u \in Seq(Jobs)
      /\ \A i \in DOMAIN u : u[i].do = "update"
      /\ \A dir \in kind \cup ctx[c].kind : Pending(u, dir)
  <2>1. kind \cup ctx[c].kind \subseteq Directions
    BY <1>e, KindDirections
  <2> QED
    BY <1>z, <2>1, UpdatesWork
<1>12. /\ WorkOK(work', 1 .. new, L2)
       /\ \A dir : ~Walking(work', dir)
       /\ \A dir \in kind \cup ctx[c].kind : Pending(work', dir)
       /\ Guarded(work', c)
  <2>1. /\ Free(u, Adders) /\ Free(u, {"walk"}) /\ Free(u, {"catch"})
        /\ \A i \in DOMAIN u : u[i].do \in Chained
    BY <1>H DEF Free, Adders, Chained
  <2>2. Free(s, {"walk"})
    BY <1>u, FreeMore DEF Chained
  <2>3. WorkOK(u \o s, 1 .. new, L2)
    BY <1>H, <1>u, <2>1, <2>2, WorkConcat
  <2>4. Free(u \o s, {"walk"}) /\ u \o s \in Seq(Jobs)
    BY <1>H, <1>u, <2>1, <2>2, FreeConcat, ConcatFrom
  <2>5. \A dir : ~Walking(u \o s, dir)
    BY <2>4, FreeNotWalking
  <2>6. \A dir \in kind \cup ctx[c].kind : Pending(u \o s, dir)
    BY <1>H, <1>u, PendingConcat
  <2>7. Guarded(u \o s, c)
    BY <1>H, <1>u, <2>1, GuardedConcat
  <2> QED
    BY <1>G, <2>3, <2>5, <2>6, <2>7
<1>13. StaleInv(L2, name2ctx', freed', work')
  <2> SUFFICES ASSUME NEW m \in Names
               PROVE  name2ctx'[m] \in {NULL} \cup freed' \cup L2 \/ Dying(work', name2ctx'[m])
    BY DEF StaleInv
  <2>0. freed' = freed /\ Dying(work', c)
    BY <1>y, <1>12 DEF Dying
  <2>1. CASE name2ctx'[m] = name2ctx[m]
    BY <1>2, <1>n, <2>0, <2>1
  <2>2. CASE name2ctx'[m] # name2ctx[m]
    BY <1>2, <1>m, <2>2
  <2> QED
    BY <2>1, <2>2
<1>14. chainHead' = chainHead /\ event' = event
  BY <1>y
<1>15. ChainInv(k, g, cz, chainHead', work')
  <2> SUFFICES ASSUME NEW dir \in Directions, ~Pending(work', dir)
               PROVE  Chain(Handlers(k, g, cz, dir), k, g, cz, chainHead'[dir], dir)
    BY <1>12 DEF ChainInv
  <2>0. ~Pending(work, dir)
    BY DEF Pending
  <2>1. Chain(Handlers(k, f, ctx, dir), k, f, ctx, chainHead[dir], dir)
    BY <2>0 DEF ListInv, ChainInv
  <2>2. dir \notin ctx[c].kind /\ dir \notin kind
    BY <1>12
  <2>3. Handlers(k, g, cz, dir) = Handlers(k, f, ctx, dir)
    BY <1>B, <1>C, <1>1, <1>2, <1>5, <1>7, <1>i, <2>2 DEF Handlers
  <2> QED
    BY <1>a, <1>8, <1>14, <2>1, <2>3, ReshapedChain
<1>16. ListInv(k, g)'
  <2>1. WorkOK(work', 1 .. made', L2) /\ KnownLinks(cz, made') /\ Linked(cz, made', head', tail', k, g)
    BY <1>2, <1>9, <1>12, <1>y
  <2>2. KnownHeads(chainHead', made') /\ KnownEvents(event', made')
    <3>1. KnownHeads(chainHead, made) /\ KnownEvents(event, made)
      BY DEF ListInv
    <3>2. 0 .. made \subseteq 0 .. new /\ 1 .. made \subseteq 1 .. new /\ made' = new
      BY <1>E, <1>a, <1>y
    <3> QED
      BY <1>14, <3>1, <3>2 DEF KnownHeads, KnownEvents
  <2> QED
    BY <1>9, <1>10, <1>11, <1>13, <1>15, <1>C, <1>D, <2>1, <2>2 DEF ListInv
<1>17. TypeOK'
  <2>1. made' \in 0 .. MaxCtx /\ ctx' \in [1 .. made' -> Contexts]
    BY <1>1, <1>a, <1>D, <1>E, <1>y
  <2>3. work' \in Seq(Jobs)
    BY <1>12 DEF WorkOK
  <2> QED
    BY <1>m, <1>y, <2>1, <2>3 DEF TypeOK
<1> QED
  BY <1>16, <1>17 DEF PipeInv

(***************************************************************************)
(* The steps that leave the list as it is.                                 *)
(***************************************************************************)
LEMMA EventKeeps ==
    ASSUME TypeOK, NEW k, NEW f, ListInv(k, f), UNCHANGED <<list, freed, chainHead, work>>,
           event' \in [Events -> EventType], KnownEvents(event', made),
           attached' \in BOOLEAN, calls' \in 0 .. MaxCalls,
           fault' \in {"none", "useAfterFree", "doubleFree"}
    PROVE  PipeInv'
<1>1. ListInv(k, f)'
  BY DEF ListInv, list
<1>2. TypeOK'
  BY DEF TypeOK, list
<1> QED
  BY <1>1, <1>2 DEF PipeInv

LEMMA FailsKeeps ==
    ASSUME TypeOK, NEW k, NEW f, ListInv(k, f), calls' \in 0 .. MaxCalls,
           NEW what \in {"useAfterFree", "doubleFree"}, Fails(what)
    PROVE  PipeInv'
<1>1. /\ UNCHANGED <<list, freed, chainHead, work>> /\ event' = event /\ attached' = attached
      /\ fault' = what
  BY DEF Fails
<1>2. event' \in [Events -> EventType] /\ KnownEvents(event', made) /\ attached' \in BOOLEAN
  BY <1>1 DEF TypeOK, ListInv
<1> QED
  BY <1>1, <1>2, EventKeeps

LEMMA WorkKeeps ==
    ASSUME TypeOK, NEW k, NEW f, ListInv(k, f),
           UNCHANGED <<list, chainHead, event, attached, fault>>, calls' \in 0 .. MaxCalls,
           WorkOK(work', 1 .. made, Members(k, f)), Free(work, Chained), Free(work', Chained),
           freed \subseteq freed', freed' \subseteq 1 .. made, freed' \cap Members(k, f) = {},
           \A x : Dying(work, x) => Dying(work', x) \/ x \in freed'
    PROVE  PipeInv'
<1>0. /\ ctx' = ctx /\ made' = made /\ head' = head /\ tail' = tail /\ name2ctx' = name2ctx
      /\ chainHead' = chainHead /\ event' = event
  BY DEF list
<1>a. made \in Nat /\ MaxCtx \in Nat /\ made <= MaxCtx /\ work' \in Seq(Jobs)
  BY PipelineAssumption DEF TypeOK, WorkOK
<1>1. StaleInv(Members(k, f), name2ctx', freed', work')
  <2>1. StaleInv(Members(k, f), name2ctx, freed, work)
    BY DEF ListInv
  <2> QED
    BY <1>0, <2>1 DEF StaleInv
<1>2. ChainInv(k, f, ctx', chainHead', work')
  <2>1. \A dir : ~Walking(work', dir)
    <3>1. Free(work', {"walk"})
      BY FreeMore DEF Chained
    <3> QED
      BY <1>a, <3>1, FreeNotWalking
  <2>2. \A dir : ~Pending(work, dir)
    BY FreeNotPending
  <2> QED
    BY <1>0, <2>1, <2>2 DEF ListInv, ChainInv
<1>3. ListInv(k, f)'
  BY <1>0, <1>1, <1>2 DEF ListInv
<1>4. TypeOK'
  <2>1. freed' \subseteq Ctxs
    BY <1>a DEF Ctxs
  <2> QED
    BY <1>0, <1>a, <2>1 DEF TypeOK
<1> QED
  BY <1>3, <1>4 DEF PipeInv

(* What the holder of the mutex has left when it is not at a chain. *)
LEMMA HolderAt ==
    ASSUME TypeOK, NEW k, NEW f, ListInv(k, f), NEW what, IsNext(what), what \notin Chained
    PROVE  /\ calls' \in 0 .. MaxCalls /\ work # <<>> /\ work \in Seq(Jobs)
           /\ Head(work) \in Jobs /\ Head(work).do = what
           /\ JobOK(Head(work), 1 .. made, Members(k, f))
           /\ WorkOK(Tail(work), 1 .. made, Members(k, f))
           /\ Free(work, Chained) /\ Free(Tail(work), Chained)
           /\ what \in Adders => Free(Tail(work), Adders)
           /\ what \notin {"catch", "delete"} => \A x : Dying(work, x) => Guarded(Tail(work), x)
<1>1. work # <<>> /\ Head(work).do = what /\ calls' = calls
  BY DEF IsNext
<1>2. WorkOK(work, 1 .. made, Members(k, f)) /\ work \in Seq(Jobs)
  BY DEF ListInv, WorkOK
<1>3. /\ Head(work) \in Jobs /\ JobOK(Head(work), 1 .. made, Members(k, f))
      /\ WorkOK(Tail(work), 1 .. made, Members(k, f)) /\ Free(Tail(work), Chained)
      /\ what \in Adders => Free(Tail(work), Adders)
  BY <1>1, <1>2, WorkTail
<1>4. Free(work, Chained)
  <2>1. \A i \in DOMAIN work : i # 1 => i - 1 \in DOMAIN Tail(work) /\ Tail(work)[i - 1] = work[i]
    BY <1>1, <1>2, TailAt
  <2>2. Head(work) = work[1]
    BY <1>1, <1>2, TailAt
  <2> QED
    BY <1>1, <1>3, <2>1, <2>2 DEF Free
<1>5. what \notin {"catch", "delete"} => \A x : Dying(work, x) => Guarded(Tail(work), x)
  BY <1>1, <1>2, GuardedTail DEF Dying
<1> QED
  BY <1>1, <1>2, <1>3, <1>4, <1>5 DEF TypeOK

LEMMA TailKeeps ==
    ASSUME TypeOK, NEW k, NEW f, ListInv(k, f), NEW what,
           IsNext(what), what \in {"afterAdd", "afterRemove", "catch"},
           Continue(Tail(work)), UNCHANGED <<list, freed, chainHead>>
    PROVE  PipeInv'
<1>0. what \notin Chained /\ what # "delete"
  BY DEF Chained
<1>1. /\ work # <<>> /\ work \in Seq(Jobs) /\ Head(work).do = what /\ calls' \in 0 .. MaxCalls
      /\ WorkOK(Tail(work), 1 .. made, Members(k, f))
      /\ Free(work, Chained) /\ Free(Tail(work), Chained)
  BY <1>0, HolderAt
<1>2. work' = Tail(work) /\ UNCHANGED <<event, attached, fault>> /\ freed' = freed
  BY DEF Continue
<1>3. \A x : Dying(work, x) => Dying(Tail(work), x)
  BY <1>0, <1>1, GuardedTail DEF Dying
<1>4. UNCHANGED <<list, chainHead, event, attached, fault>>
  BY <1>2
<1>5. freed \subseteq 1 .. made /\ freed \cap Members(k, f) = {}
  BY DEF ListInv
<1> QED
  BY <1>1, <1>2, <1>3, <1>4, <1>5, WorkKeeps

LEMMA UnwindKeeps ==
    ASSUME TypeOK, NEW k, NEW f, ListInv(k, f), NEW what,
           IsNext(what), what \in {"afterAdd", "afterRemove", "add"}, Unwind
    PROVE  PipeInv'
<1>0. what \notin Chained /\ what \notin {"delete", "catch"}
  BY DEF Chained
<1>1. /\ work # <<>> /\ work \in Seq(Jobs) /\ Head(work).do = what /\ calls' \in 0 .. MaxCalls
      /\ Free(work, Chained)
  BY <1>0, HolderAt
<1>a. WorkOK(work, 1 .. made, Members(k, f))
  BY DEF ListInv
<1> DEFINE catches == {i \in DOMAIN work : work[i].do = "catch"}
           first == CHOOSE i \in catches : \A j \in catches : i <= j
<1>2. CASE catches # {} /\ work[first].after
  <2>1. Fails("useAfterFree")
    BY <1>2 DEF Unwind
  <2> QED
    BY <1>1, <2>1, FailsKeeps
<1>3. CASE ~(catches # {} /\ work[first].after)
  <2>1. /\ Continue(IF catches = {} THEN <<>> ELSE SubSeq(work, first + 1, Len(work)))
        /\ UNCHANGED <<list, freed, chainHead>>
    BY <1>3 DEF Unwind
  <2>2. /\ UNCHANGED <<list, chainHead, event, attached, fault>> /\ freed' = freed
        /\ work' = IF catches = {} THEN <<>> ELSE SubSeq(work, first + 1, Len(work))
    BY <2>1 DEF Continue
  <2>3. freed \subseteq 1 .. made /\ freed \cap Members(k, f) = {}
    BY DEF ListInv
  <2>4. CASE catches = {}
    <3>1. work' = <<>>
      BY <2>2, <2>4
    <3>2. WorkOK(work', 1 .. made, Members(k, f)) /\ Free(work', Chained)
      BY <3>1, NoWork
    <3>3. \A x : ~Dying(work, x)
      <4>1. SUFFICES ASSUME NEW x, Guarded(work, x) PROVE FALSE
        BY <1>0, <1>1 DEF Dying
      <4>2. PICK i \in DOMAIN work : i # 1 /\ work[i - 1].do = "catch"
        BY <4>1 DEF Guarded
      <4>3. i - 1 \in DOMAIN work
        BY <1>1, <4>2
      <4> QED
        BY <2>4, <4>2, <4>3
    <3> HIDE DEF catches, first
    <3> QED
      BY <1>1, <2>2, <2>3, <3>2, <3>3, WorkKeeps
  <2>5. CASE catches # {}
    <3>1. first \in catches
      <4>1. catches \subseteq Nat
        BY <1>1
      <4>2. \E i \in catches : \A j \in catches : i <= j
        <5> HIDE DEF catches
        <5> QED
          BY <2>5, <4>1, LeastNumber
      <4> HIDE DEF catches
      <4> QED
        BY <4>2
    <3>2. first \in DOMAIN work /\ work[first].do = "catch"
      BY <3>1
    <3>3. work' = SubSeq(work, first + 1, Len(work))
      BY <2>2, <2>5
    <3> HIDE DEF catches, first
    <3>4. PICK m : m = first
      OBVIOUS
    <3>5. WorkOK(work', 1 .. made, Members(k, f)) /\ Free(work', Chained)
      BY <1>1, <1>a, <3>2, <3>3, <3>4, WorkSuffix
    <3>6. \A x : Dying(work, x) => Dying(work', x)
      BY <1>0, <1>1, <1>a, <3>2, <3>3, <3>4, GuardedSuffix DEF Dying
    <3> QED
      BY <1>1, <2>2, <2>3, <3>5, <3>6, WorkKeeps
  <2> QED
    BY <2>4, <2>5
<1> QED
  BY <1>2, <1>3

LEMMA DeleteKeeps ==
    ASSUME TypeOK, NEW k, NEW f, ListInv(k, f), Delete
    PROVE  PipeInv'
<1>0. IsNext("delete") /\ "delete" \notin Chained
  BY DEF Delete, Chained
<1>1. /\ work # <<>> /\ work \in Seq(Jobs) /\ Head(work).do = "delete" /\ calls' \in 0 .. MaxCalls
      /\ JobOK(Head(work), 1 .. made, Members(k, f))
      /\ WorkOK(Tail(work), 1 .. made, Members(k, f))
      /\ Free(work, Chained) /\ Free(Tail(work), Chained)
  BY <1>0, HolderAt
<1>2. PICK c : c = Head(work).at
  OBVIOUS
<1>3. CASE c \in freed
  <2>1. Fails("doubleFree")
    BY <1>2, <1>3 DEF Delete
  <2> QED
    BY <1>1, <2>1, FailsKeeps
<1>4. CASE c \notin freed
  <2>1. /\ freed' = freed \cup {c} /\ work' = Tail(work)
        /\ UNCHANGED <<list, chainHead, event, attached, fault>>
    BY <1>2, <1>4 DEF Delete, Continue
  <2>2. c \in 1 .. made /\ c \notin Members(k, f)
    BY <1>1, <1>2 DEF JobOK
  <2>3. freed \subseteq freed' /\ freed' \subseteq 1 .. made /\ freed' \cap Members(k, f) = {}
    BY <2>1, <2>2 DEF ListInv
  <2>4. \A x : Dying(work, x) => Dying(Tail(work), x) \/ x \in freed'
    BY <1>1, <1>2, <2>1, GuardedTail DEF Dying
  <2> QED
    BY <1>1, <2>1, <2>3, <2>4, WorkKeeps
<1> QED
  BY <1>3, <1>4

(***************************************************************************)
(* The chains are rebuilt.                                                 *)
(***************************************************************************)
WalkOn(w, dir, c) == <<[do |-> "walk", dir |-> dir, at |-> c]>> \o Tail(w)

LEMMA WalkOnWork ==
    ASSUME NEW w, NEW M, NEW L, WorkOK(w, M, L), w # <<>>, Head(w).do \in Chained,
           NEW dir \in Directions, NEW c \in Ptrs, c \in L \cup {NULL},
           NEW v, v = WalkOn(w, dir, c)
    PROVE  /\ WorkOK(v, M, L) /\ v # <<>> /\ Head(v).do = "walk" /\ Head(v).dir = dir /\ Head(v).at = c
           /\ Pending(v, dir)
           /\ \A d : Pending(Tail(w), d) => Pending(v, d)
           /\ \A x : Dying(w, x) => Dying(v, x)
<1>1. PICK j : j = [do |-> "walk", dir |-> dir, at |-> c]
  OBVIOUS
<1>2. j \in Jobs /\ j.do = "walk" /\ j.dir = dir /\ j.at = c
  BY <1>1, JobTypes
<1>3. JobOK(j, M, L)
  BY <1>2 DEF JobOK
<1>4. PICK a : a = <<j>>
  OBVIOUS
<1>5. a \in Seq(Jobs) /\ DOMAIN a = {1} /\ a[1] = j /\ Len(a) = 1 /\ WorkOK(a, M, L)
  BY <1>2, <1>3, <1>4, OneJob, OneJobWork
<1>6. v = a \o Tail(w)
  BY <1>1, <1>4 DEF WalkOn
<1>7. Free(a, Adders) /\ Free(a, {"catch"}) /\ \A i \in DOMAIN a : a[i].do \in Chained
  BY <1>2, <1>5 DEF Free, Adders, Chained
<1>8. WorkOK(Tail(w), M, L) /\ Free(Tail(w), {"walk"})
  BY WorkTail
<1>9. WorkOK(v, M, L) /\ Tail(w) \in Seq(Jobs) /\ w \in Seq(Jobs)
  <2>1. WorkOK(a \o Tail(w), M, L)
    BY <1>5, <1>7, <1>8, WorkConcat
  <2> QED
    BY <1>6, <1>8, <2>1 DEF WorkOK
<1>10. 1 \in DOMAIN v /\ v[1] = j /\ v \in Seq(Jobs)
  BY <1>5, <1>6, <1>9, ConcatFrom
<1>11. v # <<>> /\ Head(v) = j
  BY <1>10
<1>12. Pending(v, dir)
  BY <1>2, <1>10 DEF Pending, Chained
<1>13. \A d : Pending(Tail(w), d) => Pending(v, d)
  BY <1>5, <1>6, <1>9, PendingConcat
<1>14. ASSUME NEW x, Dying(w, x)
       PROVE  Dying(v, x)
  <2>1. Guarded(w, x)
    BY <1>14 DEF Dying, Chained
  <2>2. Guarded(Tail(w), x)
    BY <1>9, <2>1, GuardedTail DEF Chained
  <2> QED
    BY <1>5, <1>6, <1>7, <1>9, <2>2, GuardedConcat DEF Dying
<1> QED
  BY <1>2, <1>9, <1>11, <1>12, <1>13, <1>14

(* Which chains are left to rebuild. *)
LEMMA PendingTail ==
    ASSUME NEW S, NEW w \in Seq(S), w # <<>>, NEW d, Pending(w, d),
           Head(w).do \in Chained => Head(w).dir # d
    PROVE  Pending(Tail(w), d)
<1>1. PICK i \in DOMAIN w : w[i].do \in Chained /\ w[i].dir = d
  BY DEF Pending
<1>2. Head(w) = w[1]
  BY TailAt
<1>3. i # 1
  BY <1>1, <1>2
<1>4. i - 1 \in DOMAIN Tail(w) /\ Tail(w)[i - 1] = w[i]
  BY <1>3, TailAt
<1> QED
  BY <1>1, <1>4 DEF Pending

LEMMA DirType ==
    ASSUME NEW j \in Jobs, j.do \in Chained
    PROVE  j.dir \in Directions /\ j.at \in Ptrs
BY DEF Jobs, Chained

LEMMA UpdateListKeeps ==
    ASSUME TypeOK, NEW k, NEW f, ListInv(k, f), UpdateList
    PROVE  PipeInv'
<1>a. /\ work # <<>> /\ Head(work).do = "update" /\ calls' = calls
  BY DEF UpdateList, IsNext
<1>b. WorkOK(work, 1 .. made, Members(k, f)) /\ work \in Seq(Jobs)
  BY DEF ListInv, WorkOK
<1>c. Head(work) \in Jobs
  BY <1>a, <1>b, TailAt
<1>d. PICK dir : dir = Head(work).dir
  OBVIOUS
<1>e. dir \in Directions /\ Head(work).do \in Chained /\ "update" \in Chained
  BY <1>a, <1>c, <1>d, DirType DEF Chained
<1>f. made \in Nat /\ Linked(ctx, made, head, tail, k, f) /\ MaxCtx \in Nat /\ made <= MaxCtx
  BY PipelineAssumption DEF TypeOK, ListInv
<1>g. PICK c : c = Against(NULL, dir)
  OBVIOUS
<1>h. /\ c \in Members(k, f) \cup {NULL} /\ (c = NULL => Members(k, f) = {})
      /\ \A d \in Members(k, f) : ~Ahead(k, f, c, d, dir)
  BY <1>f, <1>g, AgainstStart
<1>i. c \in Ptrs
  <2>0. \A x \in 1 .. k : f[x] \in 1 .. made
    BY <1>f, LinkedDistinct
  <2>1. Members(k, f) \subseteq 1 .. made
    BY <2>0 DEF Members
  <2> QED
    BY <1>f, <1>h, <2>1 DEF Ptrs, Ctxs
<1>j. /\ chainHead' = [chainHead EXCEPT ![dir] = NULL]
      /\ work' = WalkOn(work, dir, c)
      /\ UNCHANGED <<list, freed, event, attached, fault>>
  BY <1>d, <1>g DEF UpdateList, Continue, WalkOn
<1>k. PICK w : w = work'
  OBVIOUS
<1>1. /\ WorkOK(w, 1 .. made, Members(k, f)) /\ w # <<>>
      /\ Head(w).do = "walk" /\ Head(w).dir = dir /\ Head(w).at = c
      /\ Pending(w, dir)
      /\ \A d : Pending(Tail(work), d) => Pending(w, d)
      /\ \A x : Dying(work, x) => Dying(w, x)
  BY <1>a, <1>b, <1>e, <1>h, <1>i, <1>j, <1>k, WalkOnWork
<1>2. /\ chainHead' \in [Directions -> Ptrs]
      /\ \A d \in Directions : chainHead'[d] = IF d = dir THEN NULL ELSE chainHead[d]
  BY <1>e, <1>j DEF TypeOK, Ptrs
<1>3. StaleInv(Members(k, f), name2ctx', freed', w)
  BY <1>1, <1>j DEF ListInv, StaleInv, list
<1>4. KnownHeads(chainHead', made')
  <2>1. \A d \in Directions : chainHead[d] \in 0 .. made
    BY DEF ListInv, KnownHeads
  <2>2. NULL \in 0 .. made /\ made' = made
    BY <1>f, <1>j DEF NULL, list
  <2> QED
    BY <1>2, <2>1, <2>2 DEF KnownHeads
<1>5. ChainInv(k, f, ctx, chainHead', w)
  <2> SUFFICES ASSUME NEW d \in Directions
               PROVE  /\ ~Pending(w, d) => Chain(Handlers(k, f, ctx, d), k, f, ctx, chainHead'[d], d)
                      /\ Walking(w, d) =>
                            LET X == Walked(Head(w).at, k, f, ctx, d)
                            IN  Chain(X, k, f, ctx, chainHead'[d], d) /\ (X = {} => chainHead'[d] = NULL)
    BY DEF ChainInv
  <2>1. ASSUME ~Pending(w, d)
        PROVE  Chain(Handlers(k, f, ctx, d), k, f, ctx, chainHead'[d], d)
    <3>1. d # dir
      BY <1>1, <2>1
    <3>2. ~Pending(work, d)
      BY <1>1, <1>a, <1>b, <1>d, <2>1, <3>1, PendingTail
    <3>3. Chain(Handlers(k, f, ctx, d), k, f, ctx, chainHead[d], d)
      BY <3>2 DEF ListInv, ChainInv
    <3> QED
      BY <1>2, <3>1, <3>3
  <2>2. ASSUME Walking(w, d)
        PROVE  LET X == Walked(Head(w).at, k, f, ctx, d)
               IN  Chain(X, k, f, ctx, chainHead'[d], d) /\ (X = {} => chainHead'[d] = NULL)
    <3>1. d = dir
      BY <1>1, <2>2 DEF Walking
    <3>2. Walked(c, k, f, ctx, dir) = {}
      BY <1>h DEF Walked, Handlers
    <3>3. Walked(Head(w).at, k, f, ctx, d) = {}
      BY <1>1, <3>1, <3>2
    <3>4. chainHead'[d] = NULL
      BY <1>2, <3>1
    <3> QED
      BY <3>3, <3>4 DEF Chain
  <2> QED
    BY <2>1, <2>2
<1>6. ListInv(k, f)'
  <2>1. /\ ctx' = ctx /\ made' = made /\ head' = head /\ tail' = tail /\ name2ctx' = name2ctx
        /\ freed' = freed /\ event' = event /\ work' = w
    BY <1>j, <1>k DEF list
  <2> QED
    BY <1>1, <1>3, <1>4, <1>5, <2>1 DEF ListInv
<1>7. TypeOK'
  <2>1. work' \in Seq(Jobs)
    BY <1>1, <1>k DEF WorkOK
  <2> QED
    BY <1>2, <1>a, <1>j, <2>1 DEF TypeOK, list
<1> QED
  BY <1>6, <1>7 DEF PipeInv

(* A link of context c is set to h. *)
LinkSet(cz, c, dir, h) ==
    /\ cz \in [1 .. made -> Contexts]
    /\ \A x \in 1 .. made :
          /\ cz[x].name = ctx[x].name /\ cz[x].kind = ctx[x].kind
          /\ cz[x].next = ctx[x].next /\ cz[x].prev = ctx[x].prev
          /\ \A d \in Directions :
                cz[x].link[d] = IF x = c /\ d = dir THEN h ELSE ctx[x].link[d]

LEMMA LinkSetIs ==
    ASSUME ctx \in [1 .. made -> Contexts], NEW c \in 1 .. made, NEW dir \in Directions,
           NEW h \in Ptrs
    PROVE  LinkSet([ctx EXCEPT ![c].link[dir] = h], c, dir, h)
<1>1. PICK r : r = ctx[c]
  OBVIOUS
<1>2. r \in Contexts /\ r.link \in [Directions -> Ptrs]
  BY <1>1, ContextTypes
<1>3. PICK l : l = [r.link EXCEPT ![dir] = h]
  OBVIOUS
<1>4. /\ l \in [Directions -> Ptrs]
      /\ \A d \in Directions : l[d] = IF d = dir THEN h ELSE r.link[d]
  BY <1>2, <1>3
<1>5. PICK q : q = [r EXCEPT !.link = l]
  OBVIOUS
<1>6. /\ q \in Contexts /\ q.link = l /\ q.name = r.name /\ q.kind = r.kind
      /\ q.next = r.next /\ q.prev = r.prev
  BY <1>2, <1>4, <1>5 DEF Contexts
<1>7. PICK cz : cz = [ctx EXCEPT ![c] = q]
  OBVIOUS
<1>8. [ctx EXCEPT ![c].link[dir] = h] = cz
  BY <1>1, <1>3, <1>5, <1>7
<1>9. cz \in [1 .. made -> Contexts] /\ cz[c] = q /\ \A x \in 1 .. made : x # c => cz[x] = ctx[x]
  BY <1>6, <1>7
<1>10. LinkSet(cz, c, dir, h)
  BY <1>1, <1>4, <1>6, <1>9 DEF LinkSet
<1> QED
  BY <1>8, <1>10

LEMMA WalkOnKeeps ==
    ASSUME TypeOK, NEW k, NEW f, ListInv(k, f), calls' = calls, work # <<>>,
           Head(work).do = "walk", NEW dir, dir = Head(work).dir,
           NEW c, c = Head(work).at, c # NULL,
           work' = WalkOn(work, dir, Against(c, dir)),
           NEW cz, cz = ctx', NEW h, LinkSet(cz, c, dir, h),
           dir \notin ctx[c].kind =>
              /\ h = ctx[c].link[dir]
              /\ \A d \in Directions : chainHead'[d] = chainHead[d],
           dir \in ctx[c].kind =>
              /\ h = IF chainHead[dir] = NULL THEN ctx[c].link[dir] ELSE chainHead[dir]
              /\ \A d \in Directions : chainHead'[d] = IF d = dir THEN c ELSE chainHead[d],
           chainHead' \in [Directions -> Ptrs],
           UNCHANGED <<made, head, tail, name2ctx, freed, event, attached, fault>>
    PROVE  PipeInv'
<1>b. WorkOK(work, 1 .. made, Members(k, f)) /\ work \in Seq(Jobs)
  BY DEF ListInv, WorkOK
<1>c. Head(work) \in Jobs /\ JobOK(Head(work), 1 .. made, Members(k, f)) /\ Free(Tail(work), {"walk"})
  BY <1>b, WorkTail
<1>d. dir \in Directions /\ Head(work).do \in Chained /\ "walk" \in Chained
  BY <1>c, DirType DEF Chained
<1>e. made \in Nat /\ Linked(ctx, made, head, tail, k, f) /\ MaxCtx \in Nat /\ made <= MaxCtx
  BY PipelineAssumption DEF TypeOK, ListInv
<1>f. Distinct(k, f) /\ k \in Nat /\ \A i \in 1 .. k : f[i] \in 1 .. made
  BY <1>e, LinkedDistinct
<1>g. PICK L : L = Members(k, f)
  OBVIOUS
<1>h. L \subseteq 1 .. made /\ NULL \notin L
  BY <1>f, <1>g DEF Members, NULL
<1>i. c \in L /\ c \in 1 .. made
  BY <1>c, <1>g, <1>h DEF JobOK
<1>j. PICK b : b = Against(c, dir)
  OBVIOUS
<1>k. /\ b \in L \cup {NULL}
      /\ \A d \in L : (d = c \/ Ahead(k, f, c, d, dir)) <=> (b = NULL \/ Ahead(k, f, b, d, dir))
  BY <1>e, <1>g, <1>i, <1>j, AgainstStep
<1>l. b \in Ptrs
  BY <1>e, <1>h, <1>k DEF Ptrs, Ctxs
<1>m. PICK w : w = work'
  OBVIOUS
<1>1. /\ WorkOK(w, 1 .. made, L) /\ w # <<>>
      /\ Head(w).do = "walk" /\ Head(w).dir = dir /\ Head(w).at = b
      /\ Pending(w, dir)
      /\ \A d : Pending(Tail(work), d) => Pending(w, d)
      /\ \A x : Dying(work, x) => Dying(w, x)
  BY <1>b, <1>d, <1>g, <1>j, <1>k, <1>l, <1>m, WalkOnWork
<1> DEFINE X == Walked(c, k, f, ctx, dir)
           Y == Walked(b, k, f, cz, dir)
<1>2. Chain(X, k, f, ctx, chainHead[dir], dir) /\ (X = {} => chainHead[dir] = NULL)
  <2>1. Walking(work, dir)
    BY DEF Walking
  <2> QED
    BY <1>d, <2>1 DEF ListInv, ChainInv
<1>3. \A d \in X : d \in L /\ Ahead(k, f, c, d, dir) /\ d \in 1 .. made /\ d # c
  <2>1. \A d \in X : d \in L /\ Ahead(k, f, c, d, dir)
    BY <1>g DEF Walked, Handlers
  <2>2. ~Ahead(k, f, c, c, dir)
    BY <1>f, <1>g, <1>i, AheadOrders
  <2> QED
    BY <1>h, <2>1, <2>2
<1>4. Y = IF dir \in ctx[c].kind THEN X \cup {c} ELSE X
  <2>1. \A d \in L : cz[d].kind = ctx[d].kind
    BY <1>h DEF LinkSet
  <2>2. \A d : d \in Y <=> d \in L /\ dir \in ctx[d].kind /\ (b = NULL \/ Ahead(k, f, b, d, dir))
    BY <1>g, <2>1 DEF Walked, Handlers
  <2>3. \A d : d \in X <=> d \in L /\ dir \in ctx[d].kind /\ Ahead(k, f, c, d, dir)
    BY <1>g DEF Walked, Handlers
  <2> HIDE DEF X, Y
  <2>4. \A d : d \in Y <=> d \in L /\ dir \in ctx[d].kind /\ (d = c \/ Ahead(k, f, c, d, dir))
    BY <1>k, <2>2
  <2> QED
    BY <1>i, <2>3, <2>4
<1> HIDE DEF X, Y
<1>5. X # {} => chainHead[dir] \in X /\ chainHead[dir] # NULL
  BY <1>2, <1>3, <1>h DEF Chain
<1>6. /\ Chain(Y, k, f, cz, chainHead'[dir], dir) /\ (Y = {} => chainHead'[dir] = NULL)
  <2>0. \A d \in X : cz[d].link[dir] = ctx[d].link[dir]
    BY <1>3, <1>d DEF LinkSet
  <2>1. CASE dir \in ctx[c].kind
    <3>1. chainHead'[dir] = c /\ Y = X \cup {c}
      BY <1>4, <1>d, <2>1
    <3>2. X # {} => cz[c].link[dir] = chainHead[dir]
      BY <1>5, <1>d, <1>i, <2>1 DEF LinkSet
    <3>3. X \subseteq Members(k, f) /\ \A d \in X : Ahead(k, f, c, d, dir)
      BY <1>3, <1>g
    <3>4. Chain(X \cup {c}, k, f, cz, c, dir)
      BY <1>2, <1>f, <1>g, <1>i, <2>0, <3>2, <3>3, ChainGrows
    <3> QED
      BY <3>1, <3>4
  <2>2. CASE dir \notin ctx[c].kind
    <3>1. chainHead'[dir] = chainHead[dir] /\ Y = X
      BY <1>4, <1>d, <2>2
    <3>2. Chain(X, k, f, cz, chainHead[dir], dir)
      BY <1>2, <2>0, ChainSame
    <3> QED
      BY <1>2, <3>1, <3>2
  <2> QED
    BY <2>1, <2>2
<1>7. ChainInv(k, f, cz, chainHead', w)
  <2> SUFFICES ASSUME NEW d \in Directions
               PROVE  /\ ~Pending(w, d) => Chain(Handlers(k, f, cz, d), k, f, cz, chainHead'[d], d)
                      /\ Walking(w, d) =>
                            LET Z == Walked(Head(w).at, k, f, cz, d)
                            IN  Chain(Z, k, f, cz, chainHead'[d], d) /\ (Z = {} => chainHead'[d] = NULL)
    BY DEF ChainInv
  <2>1. ASSUME ~Pending(w, d)
        PROVE  Chain(Handlers(k, f, cz, d), k, f, cz, chainHead'[d], d)
    <3>1. d # dir
      BY <1>1, <2>1
    <3>2. ~Pending(work, d)
      BY <1>1, <1>b, <2>1, <3>1, PendingTail
    <3>3. Chain(Handlers(k, f, ctx, d), k, f, ctx, chainHead[d], d)
      BY <3>2 DEF ListInv, ChainInv
    <3>4. \A x \in L : cz[x].kind = ctx[x].kind /\ cz[x].link[d] = ctx[x].link[d]
      BY <1>h, <3>1 DEF LinkSet
    <3>5. Handlers(k, f, cz, d) = Handlers(k, f, ctx, d)
      BY <1>g, <3>4 DEF Handlers
    <3>6. \A x \in Handlers(k, f, ctx, d) : cz[x].link[d] = ctx[x].link[d]
      BY <1>g, <3>4 DEF Handlers
    <3>7. Chain(Handlers(k, f, ctx, d), k, f, cz, chainHead[d], d)
      BY <3>3, <3>6, ChainSame
    <3>8. chainHead'[d] = chainHead[d]
      BY <3>1
    <3> QED
      BY <3>5, <3>7, <3>8
  <2>2. ASSUME Walking(w, d)
        PROVE  LET Z == Walked(Head(w).at, k, f, cz, d)
               IN  Chain(Z, k, f, cz, chainHead'[d], d) /\ (Z = {} => chainHead'[d] = NULL)
    <3>1. d = dir /\ Head(w).at = b
      BY <1>1, <2>2 DEF Walking
    <3> QED
      BY <1>6, <3>1 DEF Y
  <2> QED
    BY <2>1, <2>2
<1>8. h = ctx[c].link[dir] \/ (h \in L /\ Ahead(k, f, c, h, dir) /\ h # c)
  <2>1. CASE dir \notin ctx[c].kind \/ chainHead[dir] = NULL
    BY <2>1
  <2>2. CASE dir \in ctx[c].kind /\ chainHead[dir] # NULL
    BY <1>2, <1>3, <1>5, <2>2
  <2> QED
    BY <2>1, <2>2
<1>9. LinkInv(k, f, cz)
  <2> SUFFICES ASSUME NEW x \in L, NEW y \in L, NEW d \in Directions, cz[x].link[d] = y
               PROVE  Ahead(k, f, x, y, d)
    BY <1>g DEF LinkInv
  <2>1. ctx[x].link[d] = y => Ahead(k, f, x, y, d)
    BY <1>g DEF ListInv, LinkInv
  <2>2. y = IF x = c /\ d = dir THEN h ELSE ctx[x].link[d]
    BY <1>h DEF LinkSet
  <2> QED
    BY <1>8, <2>1, <2>2
<1>10. KnownLinks(cz, made)
  <2> SUFFICES ASSUME NEW x \in 1 .. made, NEW d \in Directions
               PROVE  cz[x].link[d] \in 0 .. made /\ cz[x].link[d] # x
    BY DEF KnownLinks
  <2>1. ctx[x].link[d] \in 0 .. made /\ ctx[x].link[d] # x
    BY DEF ListInv, KnownLinks
  <2>2. cz[x].link[d] = IF x = c /\ d = dir THEN h ELSE ctx[x].link[d]
    BY DEF LinkSet
  <2>3. L \subseteq 0 .. made
    BY <1>e, <1>h
  <2> QED
    BY <1>8, <2>1, <2>2, <2>3
<1>11. KnownHeads(chainHead', made)
  <2>1. \A d \in Directions : chainHead[d] \in 0 .. made
    BY DEF ListInv, KnownHeads
  <2>2. c \in 0 .. made
    BY <1>i, <1>e
  <2> QED
    BY <2>1, <2>2 DEF KnownHeads
<1>12. Linked(cz, made, head, tail, k, f)
  <2>1. \A i \in 1 .. k : cz[f[i]].next = ctx[f[i]].next /\ cz[f[i]].prev = ctx[f[i]].prev
    BY <1>f DEF LinkSet
  <2> QED
    BY <1>e, <2>1 DEF Linked
<1>13. NamesInv(L, cz, name2ctx)
  <2>1. \A x \in L : cz[x].name = ctx[x].name
    BY <1>h DEF LinkSet
  <2>2. NamesInv(L, ctx, name2ctx)
    BY <1>g DEF ListInv
  <2> QED
    BY <2>1, <2>2 DEF NamesInv
<1>14. StaleInv(L, name2ctx, freed, w)
  BY <1>1, <1>g DEF ListInv, StaleInv
<1>15. ListInv(k, f)'
  <2>1. freed \subseteq 1 .. made /\ freed \cap L = {} /\ KnownEvents(event, made)
    BY <1>g DEF ListInv
  <2> QED
    BY <1>1, <1>7, <1>9, <1>10, <1>11, <1>12, <1>13, <1>14, <1>g, <1>m, <2>1 DEF ListInv
<1>16. TypeOK'
  <2>1. work' \in Seq(Jobs)
    BY <1>1, <1>m DEF WorkOK
  <2>2. ctx' \in [1 .. made' -> Contexts]
    BY DEF LinkSet
  <2> QED
    BY <2>1, <2>2 DEF TypeOK
<1> QED
  BY <1>15, <1>16 DEF PipeInv

LEMMA UpdateWalkKeeps ==
    ASSUME TypeOK, NEW k, NEW f, ListInv(k, f), UpdateWalk
    PROVE  PipeInv'
<1>a. work # <<>> /\ Head(work).do = "walk" /\ calls' = calls
  BY DEF UpdateWalk, IsNext
<1>b. WorkOK(work, 1 .. made, Members(k, f)) /\ work \in Seq(Jobs)
  BY DEF ListInv, WorkOK
<1>c. /\ Head(work) \in Jobs /\ JobOK(Head(work), 1 .. made, Members(k, f))
      /\ Free(Tail(work), {"walk"}) /\ WorkOK(Tail(work), 1 .. made, Members(k, f))
  BY <1>a, <1>b, WorkTail
<1>d. PICK dir : dir = Head(work).dir
  OBVIOUS
<1>e. PICK c : c = Head(work).at
  OBVIOUS
<1>f. dir \in Directions /\ c \in Members(k, f) \cup {NULL}
  <2>1. Head(work).do \in Chained
    BY <1>a DEF Chained
  <2> QED
    BY <1>a, <1>c, <1>d, <1>e, <2>1, DirType DEF JobOK
<1>g. UNCHANGED <<made, head, tail, name2ctx, freed>>
  BY DEF UpdateWalk
<1>1. CASE c = NULL
  <2>1. work' = Tail(work) /\ UNCHANGED <<event, attached, fault, ctx, chainHead>>
    BY <1>1, <1>e DEF UpdateWalk, Continue
  <2>2. Tail(work) \in Seq(Jobs)
    BY <1>c DEF WorkOK
  <2>3. \A d : ~Walking(Tail(work), d)
    BY <1>c, <2>2, FreeNotWalking
  <2>4. \A x : Dying(work, x) => Dying(Tail(work), x)
    BY <1>a, <1>b, GuardedTail DEF Dying
  <2>5. ASSUME NEW d \in Directions, ~Pending(Tail(work), d)
        PROVE  Chain(Handlers(k, f, ctx, d), k, f, ctx, chainHead[d], d)
    <3>1. CASE d = dir
      <4>1. Walking(work, d)
        BY <1>a, <1>d, <3>1 DEF Walking
      <4>2. Chain(Walked(Head(work).at, k, f, ctx, d), k, f, ctx, chainHead[d], d)
        BY <4>1 DEF ListInv, ChainInv
      <4>3. Walked(Head(work).at, k, f, ctx, d) = Handlers(k, f, ctx, d)
        BY <1>1, <1>e DEF Walked
      <4> QED
        BY <4>2, <4>3
    <3>2. CASE d # dir
      <4>1. ~Pending(work, d)
        BY <1>a, <1>b, <1>d, <2>5, <3>2, PendingTail
      <4> QED
        BY <4>1 DEF ListInv, ChainInv
    <3> QED
      BY <3>1, <3>2
  <2>6. ChainInv(k, f, ctx, chainHead, Tail(work))
    BY <2>3, <2>5 DEF ChainInv
  <2>7. StaleInv(Members(k, f), name2ctx, freed, Tail(work))
    BY <2>4 DEF ListInv, StaleInv
  <2>8. ListInv(k, f)'
    BY <1>c, <1>g, <2>1, <2>6, <2>7 DEF ListInv
  <2>9. TypeOK'
    BY <1>a, <1>g, <2>1, <2>2 DEF TypeOK
  <2> QED
    BY <2>8, <2>9 DEF PipeInv
<1>2. CASE c # NULL
  <2>1. /\ IF dir \in ctx[c].kind
           THEN /\ chainHead' = [chainHead EXCEPT ![dir] = c]
                /\ ctx' = IF chainHead[dir] = NULL THEN ctx
                          ELSE [ctx EXCEPT ![c].link[dir] = chainHead[dir]]
           ELSE UNCHANGED <<ctx, chainHead>>
        /\ work' = WalkOn(work, dir, Against(c, dir)) /\ UNCHANGED <<event, attached, fault>>
    BY <1>2, <1>d, <1>e DEF UpdateWalk, Continue, WalkOn
  <2>2. made \in Nat /\ Linked(ctx, made, head, tail, k, f) /\ MaxCtx \in Nat /\ made <= MaxCtx
    BY PipelineAssumption DEF TypeOK, ListInv
  <2>3. \A i \in 1 .. k : f[i] \in 1 .. made
    BY <2>2, LinkedDistinct
  <2>4. c \in 1 .. made /\ c \in Ptrs
    BY <1>2, <1>f, <2>2, <2>3 DEF Members, Ptrs, Ctxs
  <2>5. ctx \in [1 .. made -> Contexts] /\ chainHead \in [Directions -> Ptrs]
    BY DEF TypeOK
  <2>6. ctx[c].link \in [Directions -> Ptrs]
    BY <2>4, <2>5, ContextTypes
  <2>7. chainHead[dir] \in Ptrs
    BY <1>f, <2>5
  <2>8. LinkSet(ctx, c, dir, ctx[c].link[dir])
    BY <2>5 DEF LinkSet
  <2>9. LinkSet([ctx EXCEPT ![c].link[dir] = chainHead[dir]], c, dir, chainHead[dir])
    BY <1>f, <2>4, <2>5, <2>7, LinkSetIs
  <2>10. PICK h : h = IF dir \notin ctx[c].kind \/ chainHead[dir] = NULL THEN ctx[c].link[dir]
                      ELSE chainHead[dir]
    OBVIOUS
  <2>11. LinkSet(ctx', c, dir, h)
    <3>1. CASE dir \notin ctx[c].kind \/ chainHead[dir] = NULL
      <4>1. ctx' = ctx /\ h = ctx[c].link[dir]
        BY <2>1, <2>10, <3>1
      <4> QED
        BY <2>8, <4>1
    <3>2. CASE dir \in ctx[c].kind /\ chainHead[dir] # NULL
      <4>1. ctx' = [ctx EXCEPT ![c].link[dir] = chainHead[dir]] /\ h = chainHead[dir]
        BY <2>1, <2>10, <3>2
      <4> QED
        BY <2>9, <4>1
    <3> QED
      BY <3>1, <3>2
  <2>12. dir \notin ctx[c].kind =>
            h = ctx[c].link[dir] /\ \A d \in Directions : chainHead'[d] = chainHead[d]
    BY <2>1, <2>10
  <2>13. dir \in ctx[c].kind =>
              /\ h = IF chainHead[dir] = NULL THEN ctx[c].link[dir] ELSE chainHead[dir]
              /\ \A d \in Directions : chainHead'[d] = IF d = dir THEN c ELSE chainHead[d]
    BY <2>1, <2>5, <2>10
  <2>14. chainHead' \in [Directions -> Ptrs]
    BY <2>1, <2>4, <2>5
  <2>15. UNCHANGED <<made, head, tail, name2ctx, freed, event, attached, fault>>
    BY <1>g, <2>1
  <2>16. PICK cz : cz = ctx'
    OBVIOUS
  <2>17. LinkSet(cz, c, dir, h)
    BY <2>11, <2>16
  <2>18. work' = WalkOn(work, dir, Against(c, dir))
    BY <2>1
  <2> QED
    BY <1>2, <1>a, <1>d, <1>e, <2>12, <2>13, <2>14, <2>15, <2>16, <2>17, <2>18, WalkOnKeeps
<1> QED
  BY <1>1, <1>2

(***************************************************************************)
(* The other steps of the holder of the mutex.                             *)
(***************************************************************************)
LEMMA AfterAddThrowsKeeps ==
    ASSUME TypeOK, NEW k, NEW f, ListInv(k, f), AfterAddThrows
    PROVE  PipeInv'
<1>0. IsNext("afterAdd") /\ "afterAdd" \notin Chained /\ "afterAdd" \in Adders
  BY DEF AfterAddThrows, Chained, Adders
<1>1. /\ calls' \in 0 .. MaxCalls /\ Head(work).do = "afterAdd"
      /\ JobOK(Head(work), 1 .. made, Members(k, f))
      /\ WorkOK(Tail(work), 1 .. made, Members(k, f))
      /\ Free(work, Chained) /\ Free(Tail(work), Chained) /\ Free(Tail(work), Adders)
      /\ \A x : Dying(work, x) => Guarded(Tail(work), x)
  BY <1>0, HolderAt
<1>2. CASE Unwind
  BY <1>0, <1>2, UnwindKeeps
<1>3. CASE Remove(Head(work).at, Tail(work))
  <2>1. PICK c : c = Head(work).at
    OBVIOUS
  <2>2. c \in Members(k, f)
    BY <1>1, <2>1 DEF JobOK
  <2>3. WorkOK(Tail(work), 1 .. made, Members(k, f) \ {c})
    <3>1. Free(Tail(work), {"walk"})
      BY <1>1, FreeMore DEF Chained
    <3> QED
      BY <1>1, <3>1, WorkMoved
  <2>4. Remove(c, Tail(work))
    BY <1>3, <2>1
  <2> QED
    BY <1>1, <2>2, <2>3, <2>4, RemoveKeeps
<1> QED
  BY <1>2, <1>3 DEF AfterAddThrows

(* The places of addFirst and addLast. *)
LEMMA Ends ==
    ASSUME made \in Nat, NEW k, NEW f, Linked(ctx, made, head, tail, k, f)
    PROVE  Between(k, f, 0, NULL, head) /\ Between(k, f, k, tail, NULL)
<1>1. k \in Nat
  BY LinkedDistinct
<1> QED
  BY <1>1 DEF Between, Linked

LEMMA AddAgainKeeps ==
    ASSUME TypeOK, NEW k, NEW f, ListInv(k, f), AddAgain
    PROVE  PipeInv'
<1>0. IsNext("add") /\ "add" \notin Chained /\ "add" \in Adders
  BY DEF AddAgain, Chained, Adders
<1>1. /\ calls' \in 0 .. MaxCalls /\ Head(work) \in Jobs /\ Head(work).do = "add"
      /\ WorkOK(Tail(work), 1 .. made, Members(k, f))
      /\ Free(work, Chained) /\ Free(Tail(work), Chained) /\ Free(Tail(work), Adders)
      /\ \A x : Dying(work, x) => Guarded(Tail(work), x)
  BY <1>0, HolderAt
<1>2. CASE Unwind
  BY <1>0, <1>2, UnwindKeeps
<1>3. CASE Insert(Head(work).name, Head(work).kind, IF Head(work).first THEN NULL ELSE tail,
                  IF Head(work).first THEN head ELSE NULL, Tail(work))
  <2>1. PICK j : j = Head(work)
    OBVIOUS
  <2>2. j.name \in Names /\ j.kind \in Kinds /\ j.first \in BOOLEAN
    BY <1>1, <2>1 DEF Jobs
  <2>3. PICK n : n = j.name
    OBVIOUS
  <2>4. PICK kind : kind = j.kind
    OBVIOUS
  <2>5. made \in Nat /\ Linked(ctx, made, head, tail, k, f)
    BY PipelineAssumption DEF TypeOK, ListInv
  <2>6. Between(k, f, 0, NULL, head) /\ Between(k, f, k, tail, NULL)
    BY <2>5, Ends
  <2>7. Insert(n, kind, NULL, head, Tail(work)) \/ Insert(n, kind, tail, NULL, Tail(work))
    BY <1>3, <2>1, <2>2, <2>3, <2>4
  <2> QED
    BY <1>1, <2>2, <2>3, <2>4, <2>6, <2>7, InsertKeeps
<1> QED
  BY <1>2, <1>3 DEF AddAgain

LEMMA HolderKeeps ==
    ASSUME TypeOK, NEW k, NEW f, ListInv(k, f), Holder
    PROVE  PipeInv'
<1>1. CASE UpdateList
  BY <1>1, UpdateListKeeps
<1>2. CASE UpdateWalk
  BY <1>2, UpdateWalkKeeps
<1>3. CASE AfterAdd
  BY <1>3, TailKeeps DEF AfterAdd
<1>4. CASE AfterAddThrows
  BY <1>4, AfterAddThrowsKeeps
<1>5. CASE AfterRemove
  <2>1. IsNext("afterRemove")
    BY <1>5 DEF AfterRemove
  <2>2. CASE Continue(Tail(work)) /\ UNCHANGED <<list, freed, chainHead>>
    BY <2>1, <2>2, TailKeeps
  <2>3. CASE Unwind
    BY <2>1, <2>3, UnwindKeeps
  <2> QED
    BY <1>5, <2>2, <2>3 DEF AfterRemove
<1>6. CASE AddAgain
  BY <1>6, AddAgainKeeps
<1>7. CASE Delete
  BY <1>7, DeleteKeeps
<1>8. CASE LeaveCatch
  BY <1>8, TailKeeps DEF LeaveCatch
<1> QED
  BY <1>1, <1>2, <1>3, <1>4, <1>5, <1>6, <1>7, <1>8 DEF Holder

(***************************************************************************)
(* The events.                                                             *)
(***************************************************************************)
LEMMA PassKeeps ==
    ASSUME TypeOK, NEW k, NEW f, ListInv(k, f), calls' = calls,
           NEW e \in Events, NEW dir \in Directions, NEW exception \in BOOLEAN,
           NEW from \in Ptrs, NEW c \in 0 .. made, c # NULL => from # c,
           Pass(e, dir, exception, from, c)
    PROVE  PipeInv'
<1>a. made \in Nat /\ MaxCtx \in Nat /\ made <= MaxCtx /\ calls' \in 0 .. MaxCalls
  BY PipelineAssumption DEF TypeOK
<1>1. CASE c \in freed
  BY <1>1, <1>a, FailsKeeps DEF Pass
<1>2. CASE c \notin freed
  <2>1. PICK r : r = IF c = NULL THEN NoEvent("done")
                     ELSE [state |-> "active", dir |-> dir, exception |-> exception,
                           at |-> c, from |-> from]
    OBVIOUS
  <2>2. /\ event' = [event EXCEPT ![e] = r]
        /\ UNCHANGED <<list, freed, chainHead, work, attached, fault>>
    BY <1>2, <2>1 DEF Pass
  <2>3. c \in Ptrs /\ (c # NULL => c \in 1 .. made)
    BY <1>a DEF Ptrs, Ctxs, NULL
  <2>4. r \in EventType /\ (r.state = "active" => r.at \in 1 .. made /\ r.from # r.at)
    <3>1. CASE c = NULL
      BY <2>1, <3>1 DEF NoEvent, EventType, Directions, Ptrs
    <3>2. CASE c # NULL
      BY <2>1, <2>3, <3>2 DEF EventType
    <3> QED
      BY <3>1, <3>2
  <2>5. event \in [Events -> EventType] /\ KnownEvents(event, made)
    BY DEF TypeOK, ListInv
  <2>6. event' \in [Events -> EventType]
    BY <2>2, <2>4, <2>5
  <2>7. KnownEvents(event', made)
    BY <2>2, <2>4, <2>5 DEF KnownEvents
  <2>8. attached' \in BOOLEAN /\ fault' \in {"none", "useAfterFree", "doubleFree"}
    BY <2>2 DEF TypeOK
  <2> QED
    BY <1>a, <2>2, <2>6, <2>7, <2>8, EventKeeps
<1> QED
  BY <1>1, <1>2

LEMMA EventsKeep ==
    ASSUME TypeOK, NEW k, NEW f, ListInv(k, f), NEW e \in Events,
           Handle(e) \/ \E dir \in Directions : Send(e, dir)
    PROVE  PipeInv'
<1>a. /\ made \in Nat /\ MaxCtx \in Nat /\ made <= MaxCtx /\ NULL \in 0 .. made /\ NULL \in Ptrs
      /\ calls \in 0 .. MaxCalls
  BY PipelineAssumption DEF TypeOK, NULL, Ptrs
<1>b. event[e] \in EventType /\ event \in [Events -> EventType]
  BY DEF TypeOK
<1>c. event[e].dir \in Directions /\ event[e].exception \in BOOLEAN
  BY <1>b DEF EventType
<1>d. \A d \in Directions : chainHead[d] \in 0 .. made
  BY DEF ListInv, KnownHeads
<1>e. ASSUME Pass(e, "up", TRUE, NULL, chainHead["up"]), calls' = calls
      PROVE  PipeInv'
  <2>1. "up" \in Directions /\ chainHead["up"] \in 0 .. made
    BY <1>d DEF Directions
  <2> QED
    BY <1>a, <1>e, <2>1, PassKeeps
<1>1. CASE Forward(e)
  <2>1. event[e].state = "active" /\ calls' = calls
    BY <1>1 DEF Forward
  <2>2. PICK c : c = event[e].at
    OBVIOUS
  <2>3. c \in 1 .. made
    BY <2>1, <2>2 DEF ListInv, KnownEvents
  <2>4. CASE c \in freed
    <3>1. Fails("useAfterFree") /\ calls' \in 0 .. MaxCalls
      BY <1>1, <1>a, <2>1, <2>2, <2>4 DEF Forward
    <3> QED
      BY <3>1, FailsKeeps
  <2>6. CASE Pass(e, "up", TRUE, NULL, chainHead["up"])
    BY <1>e, <2>1, <2>6
  <2>5. CASE Pass(e, event[e].dir, event[e].exception, c, ctx[c].link[event[e].dir])
    <3>2. /\ ctx[c].link[event[e].dir] \in 0 .. made
          /\ ctx[c].link[event[e].dir] # c
      BY <1>c, <2>3 DEF ListInv, KnownLinks
    <3>3. c \in Ptrs
      BY <2>3, PtrsOf
    <3> QED
      BY <1>c, <2>1, <2>5, <3>2, <3>3, PassKeeps
  <2> QED
    BY <1>1, <2>2, <2>4, <2>5, <2>6 DEF Forward, SinkThrows
<1>2. CASE Consume(e)
  <2>1. /\ event' = [event EXCEPT ![e] = NoEvent("done")]
        /\ UNCHANGED <<list, freed, chainHead, work, attached, calls, fault>>
    BY <1>2 DEF Consume
  <2>2. NoEvent("done") \in EventType /\ NoEvent("done").state = "done"
    BY <1>a DEF NoEvent, EventType, Directions
  <2>3. event' \in [Events -> EventType]
    BY <1>b, <2>1, <2>2
  <2>4. KnownEvents(event', made)
    <3>1. KnownEvents(event, made)
      BY DEF ListInv
    <3> QED
      BY <1>b, <2>1, <2>2, <3>1 DEF KnownEvents
  <2>5. attached' \in BOOLEAN /\ calls' \in 0 .. MaxCalls /\ fault' \in {"none", "useAfterFree", "doubleFree"}
    BY <2>1 DEF TypeOK
  <2> QED
    BY <2>1, <2>3, <2>4, <2>5, EventKeeps
<1>3. CASE Throw(e)
  <2>1. calls' = calls
    BY <1>3 DEF Throw
  <2>2. CASE Fails("useAfterFree")
    BY <1>a, <2>1, <2>2, FailsKeeps
  <2>3. CASE Pass(e, event[e].dir, event[e].exception, NULL, NULL)
    BY <1>a, <1>c, <2>1, <2>3, PassKeeps
  <2>4. CASE Pass(e, "up", TRUE, NULL, chainHead["up"])
    BY <1>e, <2>1, <2>4
  <2> QED
    BY <1>3, <2>2, <2>3, <2>4 DEF Throw
<1>4. CASE \E dir \in Directions : Send(e, dir)
  <2>1. PICK dir \in Directions : Send(e, dir)
    BY <1>4
  <2>2. /\ calls' = calls
        /\ \/ Pass(e, dir, FALSE, NULL, chainHead[dir])
           \/ Pass(e, "up", TRUE, NULL, chainHead["up"])
    BY <2>1 DEF Send, SinkThrows
  <2> QED
    BY <1>a, <1>d, <1>e, <2>2, PassKeeps
<1> QED
  BY <1>1, <1>2, <1>3, <1>4 DEF Handle

(***************************************************************************)
(* The operations.                                                         *)
(***************************************************************************)
LEMMA EnterAt ==
    ASSUME TypeOK, NEW k, NEW f, ListInv(k, f), Enter
    PROVE  /\ calls' \in 0 .. MaxCalls /\ work = <<>> /\ made \in Nat
           /\ Linked(ctx, made, head, tail, k, f)
           /\ Free(work, Chained) /\ Free(<<>>, Chained) /\ Free(<<>>, Adders)
           /\ \A M, L : WorkOK(<<>>, M, L)
           /\ \A x : ~Dying(work, x)
           /\ \A c \in Listed \cup Mapped : c \in freed \/ c \in Members(k, f)
           /\ Listed = Members(k, f)
<1>1. work = <<>> /\ calls' = calls + 1 /\ calls < MaxCalls
  BY DEF Enter
<1>2. made \in Nat /\ Linked(ctx, made, head, tail, k, f) /\ MaxCalls \in Nat /\ calls \in 0 .. MaxCalls
  BY PipelineAssumption DEF TypeOK, ListInv
<1>3. calls' \in 0 .. MaxCalls
  BY <1>1, <1>2
<1>4. (\A M, L : WorkOK(<<>>, M, L)) /\ \A what : Free(<<>>, what)
  BY NoWork
<1>5. \A x : ~Dying(work, x)
  BY <1>1 DEF Dying, Guarded
<1>6. Listed = Members(k, f)
  BY <1>2, WalkIs
<1>7. ASSUME NEW c \in Mapped
      PROVE  c \in freed \/ c \in Members(k, f)
  <2>1. PICK n \in Names : name2ctx[n] = c
    BY DEF Mapped
  <2>2. c # NULL
    BY PipelineAssumption DEF Mapped, Ctxs, NULL
  <2> QED
    BY <1>5, <2>1, <2>2 DEF ListInv, StaleInv
<1> QED
  BY <1>1, <1>2, <1>3, <1>4, <1>5, <1>6, <1>7

(* The places of addBefore and addAfter. *)
LEMMA Besides ==
    ASSUME made \in Nat, NEW k, NEW f, Linked(ctx, made, head, tail, k, f), NEW p \in 1 .. k
    PROVE  /\ Between(k, f, p - 1, ctx[f[p]].prev, f[p])
           /\ Between(k, f, p, f[p], ctx[f[p]].next)
<1>1. k \in Nat
  BY LinkedDistinct
<1>2. /\ ctx[f[p]].next = (IF p = k THEN NULL ELSE f[p + 1])
      /\ ctx[f[p]].prev = (IF p = 1 THEN NULL ELSE f[p - 1])
  BY DEF Linked
<1>3. p - 1 \in 0 .. k /\ p \in 0 .. k /\ p # 0 /\ p - 1 # k /\ p - 1 + 1 = p /\ (p - 1 = 0 <=> p = 1)
  BY <1>1
<1> QED
  BY <1>2, <1>3 DEF Between

LEMMA OperationKeeps ==
    ASSUME TypeOK, NEW k, NEW f, ListInv(k, f), Operation
    PROVE  PipeInv'
<1>1. ASSUME NEW n \in Names, NEW kind \in Kinds, AddFirst(n, kind) \/ AddLast(n, kind)
      PROVE  PipeInv'
  <2>0. Enter
    BY <1>1 DEF AddFirst, AddLast
  <2>1. Insert(n, kind, NULL, head, <<>>) \/ Insert(n, kind, tail, NULL, <<>>)
    BY <1>1 DEF AddFirst, AddLast
  <2>2. Between(k, f, 0, NULL, head) /\ Between(k, f, k, tail, NULL)
    BY <2>0, EnterAt, Ends
  <2> QED
    BY <2>0, <2>1, <2>2, EnterAt, InsertKeeps
<1>2. ASSUME NEW n \in Names, NEW kind \in Kinds, NEW base \in Mapped,
             AddBefore(base, n, kind) \/ AddAfter(base, n, kind)
      PROVE  PipeInv'
  <2>0. Enter
    BY <1>2 DEF AddBefore, AddAfter
  <2>1. CASE base \in freed
    <3>1. Fails("useAfterFree")
      BY <1>2, <2>1 DEF AddBefore, AddAfter
    <3> QED
      BY <2>0, <3>1, EnterAt, FailsKeeps
  <2>2. CASE base \notin freed
    <3>1. base \in Members(k, f)
      BY <2>0, <2>2, EnterAt
    <3>2. PICK p \in 1 .. k : base = f[p]
      BY <3>1 DEF Members
    <3>3. PICK b : b = ctx[base].prev
      OBVIOUS
    <3>4. PICK a : a = ctx[base].next
      OBVIOUS
    <3>5. Between(k, f, p - 1, b, base) /\ Between(k, f, p, base, a)
      BY <2>0, <3>2, <3>3, <3>4, EnterAt, Besides
    <3>6. Insert(n, kind, b, base, <<>>) \/ Insert(n, kind, base, a, <<>>)
      BY <1>2, <2>2, <3>3, <3>4 DEF AddBefore, AddAfter
    <3> QED
      BY <2>0, <3>5, <3>6, EnterAt, InsertKeeps
  <2> QED
    BY <2>1, <2>2
<1>3. ASSUME NEW n \in Names, NEW kind \in Kinds, NEW c \in Listed \cup Mapped,
             ReplaceEnd(c, n, kind)
      PROVE  PipeInv'
  <2>0. Enter /\ c \in {head, tail}
    BY <1>3 DEF ReplaceEnd
  <2>1. c \in Members(k, f)
    <3>0. made \in Nat /\ Linked(ctx, made, head, tail, k, f) /\ Listed = Members(k, f)
      BY <2>0, EnterAt
    <3>1. k \in Nat /\ \A i \in 1 .. k : f[i] \in 1 .. made
      BY <3>0, LinkedDistinct
    <3>2. c # NULL
      <4>1. NULL \notin Listed
        BY DEF Listed
      <4>2. NULL \notin Mapped
        BY PipelineAssumption DEF Mapped, Ctxs, NULL
      <4> QED
        BY <4>1, <4>2
    <3> QED
      BY <2>0, <3>0, <3>1, <3>2 DEF Linked, Members
  <2>2. PICK p \in 1 .. k : c = f[p]
    BY <2>1 DEF Members
  <2>3. PICK ja : ja = [do |-> "add", first |-> (c = head), name |-> n, kind |-> kind]
    OBVIOUS
  <2>4. PICK jd : jd = [do |-> "delete", at |-> c]
    OBVIOUS
  <2>5. c \in 1 .. made /\ c \in Ctxs
    <3>0. made \in Nat /\ Linked(ctx, made, head, tail, k, f)
      BY <2>0, EnterAt
    <3>1. c \in 1 .. made
      BY <2>2, <3>0, LinkedDistinct
    <3> QED
      BY <3>1, PtrsOf
  <2>6. ja \in Jobs /\ ja.do = "add" /\ jd \in Jobs /\ jd.do = "delete" /\ jd.at = c
    BY <2>3, <2>4, <2>5, JobTypes
  <2> DEFINE r == <<ja, jd>>
  <2>7. r \in Seq(Jobs) /\ DOMAIN r = {1, 2} /\ r[1] = ja /\ r[2] = jd
    BY <2>6
  <2>8. Unlink(c, r)
    BY <1>3, <2>3, <2>4 DEF ReplaceEnd
  <2> HIDE DEF r
  <2>9. JobOK(ja, 1 .. made, Members(k, f) \ {c}) /\ JobOK(jd, 1 .. made, Members(k, f) \ {c})
    BY <2>5, <2>6 DEF JobOK
  <2>10. \A i \in DOMAIN r : /\ JobOK(r[i], 1 .. made, Members(k, f) \ {c})
                             /\ r[i].do \in {"add", "delete"} /\ (r[i].do = "add" => i = 1)
    BY <2>6, <2>7, <2>9
  <2>11. WorkOK(r, 1 .. made, Members(k, f) \ {c}) /\ Free(r, Chained)
    BY <2>7, <2>10 DEF WorkOK, Free, Chained, Adders
  <2> QED
    BY <2>0, <2>2, <2>8, <2>11, EnterAt, UnlinkKeeps
<1>4. ASSUME NEW n \in Names, NEW kind \in Kinds, NEW c \in Listed \cup Mapped,
             ReplaceMiddle(c, n, kind)
      PROVE  PipeInv'
  <2>0. Enter
    BY <1>4 DEF ReplaceMiddle
  <2>1. CASE c \in freed
    <3>1. Fails("useAfterFree")
      BY <1>4, <2>1 DEF ReplaceMiddle
    <3> QED
      BY <2>0, <3>1, EnterAt, FailsKeeps
  <2>2. CASE c \notin freed
    <3>1. c \in Members(k, f)
      BY <2>0, <2>2, EnterAt
    <3> QED
      BY <1>4, <2>0, <3>1, EnterAt, ReplaceKeeps
  <2> QED
    BY <2>1, <2>2
<1>5. ASSUME NEW c \in Listed \cup Mapped, RemoveHandler(c)
      PROVE  PipeInv'
  <2>0. Enter /\ Remove(c, <<>>)
    BY <1>5 DEF RemoveHandler
  <2>1. CASE c \in freed
    <3>1. Fails("useAfterFree")
      BY <2>0, <2>1 DEF Remove
    <3> QED
      BY <2>0, <3>1, EnterAt, FailsKeeps
  <2>2. CASE c \notin freed
    <3>1. c \in Members(k, f)
      BY <2>0, <2>2, EnterAt
    <3> QED
      BY <2>0, <3>1, EnterAt, RemoveKeeps
  <2> QED
    BY <2>1, <2>2
<1>6. CASE RemoveFirst \/ RemoveLast
  <2>0. Enter /\ head # NULL
    BY <1>6 DEF RemoveFirst, RemoveLast
  <2>1. made \in Nat /\ Linked(ctx, made, head, tail, k, f)
    BY <2>0, EnterAt
  <2>2. k \in Nat /\ k # 0 /\ head = f[1] /\ tail = f[k]
    BY <2>0, <2>1 DEF Linked
  <2>3. 1 \in 1 .. k /\ k \in 1 .. k
    BY <2>2
  <2>4. PICK hd : hd = head
    OBVIOUS
  <2>5. PICK tl : tl = tail
    OBVIOUS
  <2>6. Unlink(hd, <<>>) \/ Unlink(tl, <<>>)
    BY <1>6, <2>4, <2>5 DEF RemoveFirst, RemoveLast
  <2> QED
    BY <2>0, <2>2, <2>3, <2>4, <2>5, <2>6, EnterAt, UnlinkKeeps
<1> QED
  BY <1>1, <1>2, <1>3, <1>4, <1>5, <1>6 DEF Operation

(***************************************************************************)
(* The pipeline that is built before it is shared: the list is 1, ..., n.  *)
(***************************************************************************)
Comes(i, j, dir) == IF dir = "up" THEN i < j ELSE j < i
Later(b, i, dir) == {j \in DOMAIN b : dir \in b[j].kind /\ Comes(i, j, dir)}

LEMMA FollowerIs ==
    ASSUME NEW n \in Nat, NEW b, DOMAIN b = 1 .. n, NEW i, NEW dir \in Directions
    PROVE  \/ Later(b, i, dir) = {} /\ Follower(b, i, dir) = NULL
           \/ /\ Follower(b, i, dir) \in Later(b, i, dir)
              /\ \A j \in Later(b, i, dir) :
                    j = Follower(b, i, dir) \/ Comes(Follower(b, i, dir), j, dir)
<1> DEFINE L == Later(b, i, dir)
<1>1. Follower(b, i, dir) = IF L = {} THEN NULL
                            ELSE CHOOSE j \in L : \A k \in L : IF dir = "up" THEN j <= k ELSE k <= j
  BY DEF Follower, Later, Comes
<1>2. L \subseteq 1 .. n
  BY DEF Later
<1> HIDE DEF L
<1>3. CASE L = {}
  BY <1>1, <1>3 DEF L
<1>4. CASE L # {}
  <2>1. \E j \in L : \A k \in L : IF dir = "up" THEN j <= k ELSE k <= j
    <3>1. CASE dir = "up"
      <4>1. L \subseteq Nat
        BY <1>2
      <4>2. PICK j \in L : \A k \in L : j <= k
        BY <1>4, <4>1, LeastNumber
      <4> QED
        BY <3>1, <4>2
    <3>2. CASE dir # "up"
      <4> DEFINE T == {n - j : j \in L}
      <4>0. \A j \in L : n - j \in Nat
        BY <1>2
      <4>1. T \subseteq Nat /\ T # {}
        BY <1>4, <4>0, Zenon
      <4> HIDE DEF T
      <4>2. PICK m \in T : \A x \in T : m <= x
        BY <4>1, LeastNumber
      <4>3. PICK j \in L : m = n - j
        BY <4>2 DEF T
      <4>4. ASSUME NEW x \in L PROVE x <= j
        <5>1. n - x \in T
          BY DEF T
        <5>2. n - j <= n - x
          BY <4>2, <4>3, <5>1
        <5>3. x \in 1 .. n /\ j \in 1 .. n
          BY <1>2
        <5> QED
          BY <5>2, <5>3
      <4> QED
        BY <3>2, <4>4
    <3> QED
      BY <3>1, <3>2
  <2>2. PICK h : h = Follower(b, i, dir)
    OBVIOUS
  <2>3. h \in L /\ \A k \in L : IF dir = "up" THEN h <= k ELSE k <= h
    BY <1>1, <1>4, <2>1, <2>2
  <2>4. \A j \in L : j = h \/ Comes(h, j, dir)
    <3> SUFFICES ASSUME NEW j \in L, j # h
                 PROVE  Comes(h, j, dir)
      OBVIOUS
    <3>1. j \in 1 .. n /\ h \in 1 .. n
      BY <1>2, <2>3
    <3> QED
      BY <2>3, <3>1 DEF Comes
  <2> QED
    BY <2>2, <2>3, <2>4 DEF L
<1> QED
  BY <1>3, <1>4

LEMMA InitKeeps == Init => PipeInv
<1> SUFFICES ASSUME Init
             PROVE  PipeInv
  OBVIOUS
<1> USE DEF NULL
<1>1. PICK b \in Built :
         /\ made = Len(b)
         /\ ctx = [i \in DOMAIN b |->
                     [name |-> b[i].name, kind |-> b[i].kind, prev |-> i - 1,
                      next |-> IF i = Len(b) THEN NULL ELSE i + 1,
                      link |-> [d \in Directions |-> Follower(b, i, d)]]]
         /\ freed = {}
         /\ head = (IF b = <<>> THEN NULL ELSE 1)
         /\ tail = Len(b)
         /\ chainHead = [d \in Directions |-> Follower(b, IF d = "up" THEN 0 ELSE Len(b) + 1, d)]
         /\ name2ctx = [n \in Names |-> IF \E i \in DOMAIN b : b[i].name = n
                                        THEN CHOOSE i \in DOMAIN b : b[i].name = n ELSE NULL]
         /\ work = <<>>
         /\ event = [e \in Events |-> NoEvent("unsent")]
         /\ attached = FALSE
         /\ calls = 0
         /\ fault = "none"
  BY Zenon DEF Init
<1>2. PICK n : n = Len(b)
  OBVIOUS
<1>3. /\ b \in Seq([name : Names, kind : Kinds]) /\ n \in Nat /\ MaxCtx \in Nat /\ MaxCalls \in Nat
      /\ DOMAIN b = 1 .. n /\ n <= MaxCtx /\ (b = <<>> <=> n = 0)
      /\ \A i, j \in 1 .. n : b[i].name = b[j].name => i = j
  <2>1. /\ b \in Seq([name : Names, kind : Kinds]) /\ Len(b) <= MaxCtx
        /\ \A i, j \in DOMAIN b : b[i].name = b[j].name => i = j
        /\ MaxCtx \in Nat /\ MaxCalls \in Nat
    BY PipelineAssumption
  <2>2. DOMAIN b = 1 .. n /\ n \in Nat /\ (b = <<>> <=> n = 0)
    BY <1>2, <2>1, LenProperties, EmptySeq
  <2> QED
    BY <1>2, <2>1, <2>2
<1>4. \A i \in 1 .. n : b[i].name \in Names /\ b[i].kind \in Kinds
  <2>1. b \in [1 .. n -> [name : Names, kind : Kinds]]
    BY <1>2, <1>3, LenProperties
  <2> QED
    BY <2>1
<1>5. \A i, d : d \in Directions => Follower(b, i, d) \in 0 .. n
  <2> SUFFICES ASSUME NEW i, NEW d \in Directions
               PROVE  Follower(b, i, d) \in 0 .. n
    OBVIOUS
  <2>1. Later(b, i, d) \subseteq 1 .. n
    BY <1>3 DEF Later
  <2>2. Follower(b, i, d) = NULL \/ Follower(b, i, d) \in Later(b, i, d)
    BY <1>3, FollowerIs
  <2> QED
    BY <1>3, <2>1, <2>2
<1>6. \A i \in 1 .. n : Follower(b, i, "up") # i /\ Follower(b, i, "down") # i
  <2> SUFFICES ASSUME NEW i \in 1 .. n, NEW d \in {"up", "down"}
               PROVE  Follower(b, i, d) # i
    OBVIOUS
  <2>1. Follower(b, i, d) = NULL \/ Follower(b, i, d) \in Later(b, i, d)
    BY <1>3, FollowerIs DEF Directions
  <2>2. i \notin Later(b, i, d)
    BY <1>3 DEF Later, Comes
  <2> QED
    BY <1>3, <2>1, <2>2
<1> DEFINE f == [i \in 1 .. n |-> i]
<1>7. Members(n, f) = 1 .. n /\ \A i \in 1 .. n : f[i] = i
  BY DEF Members
<1>8. Distinct(n, f)
  BY <1>3 DEF Distinct
<1>9. f \in [1 .. n -> 1 .. n]
  OBVIOUS
<1> HIDE DEF f
<1>10. \A c, d \in 1 .. n, dir \in Directions : Ahead(n, f, c, d, dir) <=> Comes(c, d, dir)
  <2> SUFFICES ASSUME NEW c \in 1 .. n, NEW d \in 1 .. n, NEW dir \in Directions
               PROVE  Ahead(n, f, c, d, dir) <=> Comes(c, d, dir)
    OBVIOUS
  <2>1. Ahead(n, f, f[c], f[d], dir) <=> Comes(c, d, dir)
    BY <1>8, AheadIs DEF Comes
  <2> QED
    BY <1>7, <2>1
<1>11. \A c \in 1 .. n : /\ ctx[c].name = b[c].name /\ ctx[c].kind = b[c].kind
                         /\ ctx[c].prev = c - 1 /\ ctx[c].next = (IF c = n THEN NULL ELSE c + 1)
                         /\ ctx[c].link = [d \in Directions |-> Follower(b, c, d)]
  BY <1>1, <1>2, <1>3
<1>x. \A c \in 1 .. n, dir \in Directions : ctx[c].link[dir] = Follower(b, c, dir)
  BY <1>11
<1>12. made = n /\ tail = n /\ head = (IF n = 0 THEN NULL ELSE 1) /\ freed = {} /\ work = <<>>
  BY <1>1, <1>2, <1>3
<1>13. Linked(ctx, made, head, tail, n, f)
  <2>1. n \in 0 .. made /\ f \in [1 .. n -> 1 .. made]
    BY <1>3, <1>9, <1>12
  <2>2. \A i, j \in 1 .. n : f[i] = f[j] => i = j
    BY <1>7
  <2>3. head = (IF n = 0 THEN NULL ELSE f[1]) /\ tail = (IF n = 0 THEN NULL ELSE f[n])
    BY <1>3, <1>7, <1>12
  <2>4. ASSUME NEW i \in 1 .. n
        PROVE  /\ ctx[f[i]].next = (IF i = n THEN NULL ELSE f[i + 1])
               /\ ctx[f[i]].prev = (IF i = 1 THEN NULL ELSE f[i - 1])
    <3>1. f[i] = i /\ (i # n => f[i + 1] = i + 1) /\ (i # 1 => f[i - 1] = i - 1)
      BY <1>3, <1>7
    <3>2. ctx[i].prev = i - 1 /\ ctx[i].next = (IF i = n THEN NULL ELSE i + 1)
      BY <1>11
    <3> QED
      BY <3>1, <3>2
  <2> QED
    BY <2>1, <2>2, <2>3, <2>4 DEF Linked
<1>14. NamesInv(Members(n, f), ctx, name2ctx)
  <2>1. ASSUME NEW x \in Names
        PROVE  /\ (\E i \in 1 .. n : b[i].name = x) => /\ name2ctx[x] \in 1 .. n
                                                       /\ b[name2ctx[x]].name = x
               /\ ~(\E i \in 1 .. n : b[i].name = x) => name2ctx[x] = NULL
    <3>1. name2ctx[x] = IF \E i \in 1 .. n : b[i].name = x
                        THEN CHOOSE i \in 1 .. n : b[i].name = x ELSE NULL
      BY <1>1, <1>3
    <3> QED
      BY <3>1
  <2>2. NULL \notin 1 .. n
    BY <1>3
  <2> QED
    <3>1. \A c \in 1 .. n : ctx[c].name = b[c].name
      BY <1>11
    <3>2. \A x \in Names : name2ctx[x] # NULL <=> \E c \in 1 .. n : ctx[c].name = x
      BY <2>1, <2>2, <3>1
    <3>3. \A c, d \in 1 .. n : ctx[c].name = ctx[d].name => c = d
      BY <1>3, <3>1
    <3>4. \A x \in Names : name2ctx[x] \in 1 .. n => ctx[name2ctx[x]].name = x
      BY <2>1, <2>2, <3>1
    <3> QED
      BY <1>7, <3>2, <3>3, <3>4 DEF NamesInv
<1>15. StaleInv(Members(n, f), name2ctx, freed, work)
  BY <1>1, <1>3, <1>7 DEF StaleInv
<1>16. WorkOK(work, 1 .. made, Members(n, f))
  BY <1>12, NoWork
<1>17. KnownLinks(ctx, made) /\ KnownHeads(chainHead, made)
  <2>1. KnownLinks(ctx, made)
    BY <1>5, <1>6, <1>x, <1>12 DEF KnownLinks, Directions
  <2>2. KnownHeads(chainHead, made)
    BY <1>1, <1>5, <1>12 DEF KnownHeads
  <2> QED
    BY <2>1, <2>2
<1>18. KnownEvents(event, made)
  BY <1>1 DEF KnownEvents, NoEvent
<1>19. LinkInv(n, f, ctx)
  <2> SUFFICES ASSUME NEW c \in 1 .. n, NEW d \in 1 .. n, NEW dir \in Directions,
                      ctx[c].link[dir] = d
               PROVE  Ahead(n, f, c, d, dir)
    BY <1>7 DEF LinkInv
  <2>1. d = Follower(b, c, dir) /\ d # NULL
    BY <1>x
  <2>2. d \in Later(b, c, dir)
    BY <1>3, <2>1, FollowerIs
  <2>3. Comes(c, d, dir)
    BY <2>2 DEF Later
  <2> QED
    BY <1>10, <2>3
<1>20. ChainInv(n, f, ctx, chainHead, work)
  <2> SUFFICES ASSUME NEW dir \in Directions
               PROVE  Chain(Handlers(n, f, ctx, dir), n, f, ctx, chainHead[dir], dir)
    <3>1. \A dir : ~Walking(work, dir)
      BY <1>12 DEF Walking
    <3> QED
      BY <3>1 DEF ChainInv
  <2> DEFINE X == Handlers(n, f, ctx, dir)
  <2>1. X = {c \in 1 .. n : dir \in b[c].kind}
    BY <1>7, <1>11 DEF Handlers
  <2> HIDE DEF X
  <2>2. PICK s : s = IF dir = "up" THEN 0 ELSE n + 1
    OBVIOUS
  <2>3. Later(b, s, dir) = X
    <3>1. \A j \in 1 .. n : Comes(s, j, dir)
      BY <1>3, <2>2 DEF Comes
    <3> QED
      BY <1>3, <2>1, <3>1 DEF Later
  <2>4. PICK h : h = Follower(b, s, dir)
    OBVIOUS
  <2>5. chainHead[dir] = h
    BY <1>1, <1>2, <2>2, <2>4
  <2>6. X = {} \/ (h \in X /\ \A d \in X \ {h} : Comes(h, d, dir))
    BY <1>3, <2>3, <2>4, FollowerIs
  <2>7. X = {} \/ (h \in X /\ \A d \in X \ {h} : Ahead(n, f, h, d, dir))
    BY <1>10, <2>1, <2>6
  <2>8. ASSUME NEW c \in X, NEW d \in X, Ahead(n, f, c, d, dir),
               ~\E z \in X : Ahead(n, f, c, z, dir) /\ Ahead(n, f, z, d, dir)
        PROVE  ctx[c].link[dir] = d
    <3>1. PICK e : e = Follower(b, c, dir)
      OBVIOUS
    <3>2. ctx[c].link[dir] = e /\ c \in 1 .. n /\ d \in 1 .. n
      BY <1>x, <2>1, <3>1
    <3>3. d \in Later(b, c, dir)
      BY <1>3, <1>10, <2>1, <2>8, <3>2 DEF Later
    <3>4. e \in Later(b, c, dir) /\ (d = e \/ Comes(e, d, dir))
      BY <1>3, <3>1, <3>3, FollowerIs
    <3>5. e \in X /\ Comes(c, e, dir)
      BY <1>3, <2>1, <3>4 DEF Later
    <3>6. Ahead(n, f, c, e, dir)
      BY <1>10, <2>1, <3>2, <3>5
    <3>7. ~Comes(e, d, dir)
      BY <1>10, <2>1, <2>8, <3>2, <3>5, <3>6
    <3> QED
      BY <3>2, <3>4, <3>7
  <2>9. Chain(X, n, f, ctx, h, dir)
    BY <2>7, <2>8 DEF Chain
  <2> QED
    BY <2>5, <2>9 DEF X
<1>21. ListInv(n, f)
  <2>1. freed \subseteq 1 .. made /\ freed \cap Members(n, f) = {}
    BY <1>12
  <2> QED
    BY <2>1, <1>13, <1>14, <1>15, <1>16, <1>17, <1>18, <1>19, <1>20 DEF ListInv
<1>22. TypeOK
  <2>0. \A p \in 0 .. n : p \in Ptrs
    BY <1>3 DEF Ptrs, Ctxs
  <2>1. ctx \in [1 .. made -> Contexts]
    <3>1. ASSUME NEW i \in 1 .. n
          PROVE  [name |-> b[i].name, kind |-> b[i].kind, prev |-> i - 1,
                  next |-> IF i = Len(b) THEN NULL ELSE i + 1,
                  link |-> [d \in Directions |-> Follower(b, i, d)]] \in Contexts
      <4>1. PICK p : p = i - 1
        OBVIOUS
      <4>2. PICK x : x = IF i = Len(b) THEN NULL ELSE i + 1
        OBVIOUS
      <4>3. PICK l : l = [d \in Directions |-> Follower(b, i, d)]
        OBVIOUS
      <4>4. p \in Ptrs /\ x \in Ptrs
        BY <1>2, <1>3, <2>0, <4>1, <4>2
      <4>5. l \in [Directions -> Ptrs]
        BY <1>5, <2>0, <4>3
      <4>6. [name |-> b[i].name, kind |-> b[i].kind, prev |-> p, next |-> x, link |-> l] \in Contexts
        BY <1>4, <4>4, <4>5 DEF Contexts
      <4> QED
        BY <4>1, <4>2, <4>3, <4>6
    <3> QED
      BY <1>1, <1>3, <1>12, <3>1
  <2>2. made \in 0 .. MaxCtx /\ freed \subseteq Ctxs /\ head \in Ptrs /\ tail \in Ptrs
    BY <1>3, <1>12, <2>0
  <2>3. chainHead \in [Directions -> Ptrs]
    BY <1>1, <1>5, <2>0
  <2>4. name2ctx \in [Names -> Ptrs]
    <3>1. name2ctx = [x \in Names |-> name2ctx[x]]
      BY <1>1
    <3>2. \A x \in Names : name2ctx[x] \in 0 .. n
      BY <1>1, <1>3
    <3> QED
      BY <2>0, <3>1, <3>2
  <2>5. NoEvent("unsent") \in EventType
    BY <1>3, <2>0 DEF NoEvent, EventType, Directions
  <2>6. event \in [Events -> EventType]
    BY <1>1, <2>5
  <2>7. work \in Seq(Jobs) /\ calls \in 0 .. MaxCalls
    BY <1>1, <1>3
  <2> QED
    BY <1>1, <2>1, <2>2, <2>3, <2>4, <2>6, <2>7 DEF TypeOK
<1> QED
  BY <1>21, <1>22 DEF PipeInv

(***************************************************************************)
(* The theorems.                                                           *)
(***************************************************************************)
LEMMA NextKeeps ==
    ASSUME PipeInv, [Next]_vars
    PROVE  PipeInv'
<1>1. TypeOK /\ \E k, f : ListInv(k, f)
  BY DEF PipeInv
<1>2. PICK k, f : ListInv(k, f)
  BY <1>1
<1>3. CASE Operation
  BY <1>1, <1>2, <1>3, OperationKeeps
<1>4. CASE Holder
  BY <1>1, <1>2, <1>4, HolderKeeps
<1>5. CASE Attach \/ UNCHANGED vars
  <2>1. UNCHANGED <<list, freed, chainHead, work, event, calls, fault>> /\ attached' \in BOOLEAN
    BY <1>1, <1>5 DEF Attach, vars, TypeOK
  <2>2. /\ event' \in [Events -> EventType] /\ KnownEvents(event', made)
        /\ calls' \in 0 .. MaxCalls /\ fault' \in {"none", "useAfterFree", "doubleFree"}
    BY <1>1, <1>2, <2>1 DEF TypeOK, ListInv
  <2> QED
    BY <1>1, <1>2, <2>1, <2>2, EventKeeps
<1>6. CASE \E e \in Events : Handle(e) \/ \E dir \in Directions : Send(e, dir)
  BY <1>1, <1>2, <1>6, EventsKeep
<1> QED
  BY <1>3, <1>4, <1>5, <1>6 DEF Next

LEMMA PipelineInvariant == Spec => []PipeInv
<1>1. PipeInv /\ [Next]_vars => PipeInv'
  BY NextKeeps
<1> QED
  BY InitKeeps, <1>1, PTL DEF Spec

(* Every pointer of the pipeline is NULL or a context that was made, and a  *)
(* constructor leaves no link uninitialised, whatever the handlers throw.   *)
THEOREM TypeCorrect == Spec => []TypeOK
<1>1. PipeInv => TypeOK
  BY DEF PipeInv
<1> QED
  BY PipelineInvariant, <1>1, PTL

LEMMA MirroredIfLinked == PipeInv => ListMirrored
<1> SUFFICES ASSUME PipeInv
             PROVE  ListMirrored
  OBVIOUS
<1>1. PICK k, f : ListInv(k, f)
  BY DEF PipeInv
<1>2. made \in Nat /\ Linked(ctx, made, head, tail, k, f)
  BY <1>1, PipelineAssumption DEF PipeInv, TypeOK, ListInv
<1>3. /\ \A n \in Steps : Walk[n] = IF n < k THEN f[n + 1] ELSE NULL
      /\ Listed = Members(k, f)
  BY <1>2, WalkIs
<1>4. /\ k \in Nat /\ \A i \in 1 .. k : f[i] \in 1 .. made /\ f[i] # NULL
      /\ \A i, j \in 1 .. k : f[i] = f[j] => i = j
  BY <1>2, LinkedDistinct DEF Distinct, NULL
<1>5. head = (IF k = 0 THEN NULL ELSE f[1]) /\ tail = (IF k = 0 THEN NULL ELSE f[k])
  BY <1>2 DEF Linked
<1>6. head = NULL <=> tail = NULL
  <2>1. k # 0 => 1 \in 1 .. k /\ k \in 1 .. k
    BY <1>4
  <2> QED
    BY <1>4, <1>5, <2>1
<1>7. ASSUME NEW m \in Steps, NEW n \in Steps, Walk[m] = Walk[n], Walk[m] # NULL
      PROVE  m = n
  <2>1. m < k /\ n < k /\ f[m + 1] = f[n + 1]
    BY <1>3, <1>7
  <2>2. m \in Nat /\ n \in Nat /\ m + 1 \in 1 .. k /\ n + 1 \in 1 .. k
    BY <1>4, <2>1 DEF Steps
  <2>3. m + 1 = n + 1
    BY <1>4, <2>1, <2>2
  <2> QED
    BY <2>2, <2>3
<1>8. Listed \cap freed = {}
  BY <1>1, <1>3 DEF ListInv
<1>9. ASSUME NEW c \in Listed
      PROVE  /\ ctx[c].prev = NULL <=> c = head
             /\ ctx[c].next = NULL <=> c = tail
             /\ ctx[c].next # NULL => ctx[ctx[c].next].prev = c
  <2>1. PICK i \in 1 .. k : c = f[i]
    BY <1>3 DEF Members
  <2>2. /\ ctx[c].next = (IF i = k THEN NULL ELSE f[i + 1])
        /\ ctx[c].prev = (IF i = 1 THEN NULL ELSE f[i - 1])
    BY <1>2, <2>1 DEF Linked
  <2>3. k # 0 /\ 1 \in 1 .. k /\ k \in 1 .. k /\ head = f[1] /\ tail = f[k]
    BY <1>4, <1>5
  <2>4. /\ c = head <=> i = 1
        /\ c = tail <=> i = k
    BY <1>4, <2>1, <2>3
  <2>5. i # 1 => i - 1 \in 1 .. k
    BY <1>4
  <2>6. i # k => i + 1 \in 1 .. k /\ i + 1 # 1 /\ i + 1 - 1 = i
    BY <1>4
  <2>7. i # k => ctx[f[i + 1]].prev = f[i]
    BY <1>2, <2>6 DEF Linked
  <2> QED
    BY <1>4, <2>1, <2>2, <2>4, <2>5, <2>6, <2>7
<1> QED
  BY <1>6, <1>7, <1>8, <1>9 DEF ListMirrored

(* The list that the holder of the mutex keeps is at every step the same in *)
(* both directions, without repetition, and has no deleted context in it.   *)
THEOREM ListStaysMirrored == Spec => []ListMirrored
BY PipelineInvariant, MirroredIfLinked, PTL

LEMMA NamesIfLinked == PipeInv => NamesMatchList
<1> SUFFICES ASSUME PipeInv
             PROVE  NamesMatchList
  OBVIOUS
<1>1. PICK k, f : ListInv(k, f)
  BY DEF PipeInv
<1>2. made \in Nat /\ Linked(ctx, made, head, tail, k, f)
  BY <1>1, PipelineAssumption DEF PipeInv, TypeOK, ListInv
<1>3. Listed = Members(k, f)
  BY <1>2, WalkIs
<1> QED
  BY <1>1, <1>3 DEF ListInv, NamesInv, NamesMatchList

(* The map has exactly the names of the list, all different, so that        *)
(* checkDuplicateName refuses what is in the list and nothing else.         *)
THEOREM NamesStayMapped == Spec => []NamesMatchList
BY PipelineInvariant, NamesIfLinked, PTL

LEMMA ChainsIfLinked == PipeInv => ChainsCoverList
<1> SUFFICES ASSUME PipeInv, work = <<>>, NEW dir \in Directions,
                    NEW c \in Listed, dir \in ctx[c].kind
             PROVE  LET members == {x \in Listed : dir \in ctx[x].kind}
                    IN  /\ (\A d \in members \ {c} : Precedes(c, d, dir)) => chainHead[dir] = c
                        /\ \A d \in members :
                              /\ Precedes(c, d, dir)
                              /\ ~\E b \in members : Precedes(c, b, dir) /\ Precedes(b, d, dir)
                              => ctx[c].link[dir] = d
  BY DEF ChainsCoverList
<1> DEFINE X == {x \in Listed : dir \in ctx[x].kind}
<1>1. PICK k, f : ListInv(k, f)
  BY DEF PipeInv
<1>2. made \in Nat /\ Linked(ctx, made, head, tail, k, f)
  BY <1>1, PipelineAssumption DEF PipeInv, TypeOK, ListInv
<1>3. Listed = Members(k, f) /\ Distinct(k, f)
  BY <1>2, WalkIs, LinkedDistinct
<1>4. X = Handlers(k, f, ctx, dir)
  BY <1>3 DEF Handlers
<1>5. ~Pending(work, dir)
  BY DEF Pending
<1>6. Chain(X, k, f, ctx, chainHead[dir], dir)
  BY <1>1, <1>4, <1>5 DEF ListInv, ChainInv
<1>7. c \in X /\ \A x \in X : x \in Members(k, f)
  BY <1>3
<1> HIDE DEF X
<1>8. \A x, y \in X : Precedes(x, y, dir) <=> Ahead(k, f, x, y, dir)
  BY <1>2, <1>7, PrecedesIs
<1>9. ASSUME \A d \in X \ {c} : Precedes(c, d, dir)
      PROVE  chainHead[dir] = c
  <2>1. PICK h : h = chainHead[dir]
    OBVIOUS
  <2>2. h \in X /\ \A d \in X \ {h} : Ahead(k, f, h, d, dir)
    BY <1>6, <1>7, <2>1 DEF Chain
  <2>3. c # h => Ahead(k, f, h, c, dir) /\ Ahead(k, f, c, h, dir)
    BY <1>7, <1>8, <1>9, <2>2
  <2> QED
    BY <1>3, <1>7, <2>1, <2>2, <2>3, AheadOrders
<1>10. ASSUME NEW d \in X, Precedes(c, d, dir),
              ~\E b \in X : Precedes(c, b, dir) /\ Precedes(b, d, dir)
       PROVE  ctx[c].link[dir] = d
  BY <1>6, <1>7, <1>8, <1>10 DEF Chain
<1> QED
  BY <1>9, <1>10 DEF X

(* Whenever the mutex is free, an event that is sent meets every handler of *)
(* its direction in the order of the list: init, updateUpstreamList and     *)
(* updateDownstreamList keep the chains complete through every addition,    *)
(* removal and replacement, the ones whose handlers throw included.         *)
THEOREM ChainsCover == Spec => []ChainsCoverList
BY PipelineInvariant, ChainsIfLinked, PTL

LEMMA EventStep ==
    ASSUME PipeInv, Next, NEW e \in Events, event[e].state = "active",
           event'[e].state = "active", event'[e].from = event[e].at
    PROVE  /\ event[e].at \in 1 .. made
           /\ event'[e].at = ctx[event[e].at].link[event[e].dir]
<1>1. PICK k, f : ListInv(k, f)
  BY DEF PipeInv
<1>2. event[e].at \in 1 .. made /\ event[e].from # event[e].at
  BY <1>1 DEF ListInv, KnownEvents
<1>3. event[e].at # NULL
  BY <1>2 DEF NULL
<1>4. event \in [Events -> EventType]
  BY DEF PipeInv, TypeOK
<1>5. event'[e] # event[e]
  BY <1>2
<1>6. event' # event
  BY <1>5
<1>7. ~Operation
  <2>1. ~(\E what : Fails(what)) /\ ~(\E n, kind, p, nx, rest : Insert(n, kind, p, nx, rest))
    BY <1>6 DEF Fails, Insert
  <2>2. ~(\E c, rest : Unlink(c, rest)) /\ ~(\E c, rest : Remove(c, rest))
    BY <1>6, <2>1 DEF Unlink, Remove
  <2>3. ~(\E c, n, kind : ReplaceMiddle(c, n, kind))
    BY <1>6, <2>1 DEF ReplaceMiddle
  <2> QED
    BY <2>1, <2>2, <2>3 DEF Operation, AddFirst, AddLast, AddBefore, AddAfter, RemoveHandler,
                            RemoveFirst, RemoveLast, ReplaceEnd
<1>8. ~Holder
  <2>1. ~(\E what : Fails(what)) /\ ~(\E n, kind, p, nx, rest : Insert(n, kind, p, nx, rest))
    BY <1>6 DEF Fails, Insert
  <2>2. ~(\E c, rest : Remove(c, rest)) /\ ~(\E w : Continue(w))
    BY <1>6, <2>1 DEF Unlink, Remove, Continue
  <2>3. ~Unwind
    BY <2>1, <2>2 DEF Unwind
  <2> QED
    BY <2>1, <2>2, <2>3 DEF Holder, UpdateList, UpdateWalk, AfterAdd, AfterAddThrows, AfterRemove,
                            AddAgain, Delete, LeaveCatch
<1>9. ~Attach
  BY <1>6 DEF Attach
<1>10. PICK x \in Events : Handle(x) \/ \E dir \in Directions : Send(x, dir)
  BY <1>7, <1>8, <1>9 DEF Next
<1>11. ASSUME NEW dir, NEW exception, NEW from, NEW c, Pass(x, dir, exception, from, c)
       PROVE  x = e /\ event'[e].at = c /\ event'[e].from = from
  <2>1. c \notin freed
    BY <1>6, <1>11 DEF Pass, Fails
  <2>2. PICK r : r = IF c = NULL THEN NoEvent("done")
                     ELSE [state |-> "active", dir |-> dir, exception |-> exception,
                           at |-> c, from |-> from]
    OBVIOUS
  <2>3. event' = [event EXCEPT ![x] = r]
    BY <1>11, <2>1, <2>2 DEF Pass
  <2>4. x = e
    BY <1>4, <1>5, <2>3
  <2>5. event'[e] = r
    BY <1>4, <2>3, <2>4
  <2>6. c # NULL
    BY <2>2, <2>5 DEF NoEvent
  <2> QED
    BY <2>2, <2>4, <2>5, <2>6
<1>12. ASSUME NEW dir, NEW exception, NEW c PROVE ~Pass(x, dir, exception, NULL, c)
  BY <1>3, <1>11
<1>13. ~Throw(x) /\ ~\E dir \in Directions : Send(x, dir)
  BY <1>6, <1>12 DEF Throw, Send, SinkThrows, Fails
<1>14. ~Consume(x)
  <2> SUFFICES ASSUME Consume(x) PROVE FALSE
    OBVIOUS
  <2>1. event' = [event EXCEPT ![x] = NoEvent("done")]
    BY DEF Consume
  <2>2. x = e
    BY <1>4, <1>5, <2>1
  <2> QED
    BY <1>4, <2>1, <2>2 DEF NoEvent
<1>15. Forward(x)
  BY <1>10, <1>13, <1>14 DEF Handle
<1>16. PICK c : c = event[x].at
  OBVIOUS
<1>17. Pass(x, event[x].dir, event[x].exception, c, ctx[c].link[event[x].dir])
  BY <1>6, <1>12, <1>15, <1>16 DEF Forward, SinkThrows, Fails
<1>18. x = e /\ event'[e].at = ctx[c].link[event[x].dir]
  BY <1>11, <1>17
<1> QED
  BY <1>2, <1>16, <1>18

LEMMA StepForward ==
    ASSUME PipeInv, Next, NEW e \in Events, event[e].state = "active",
           event'[e].state = "active", event'[e].from = event[e].at,
           {event[e].at, event'[e].at} \subseteq Listed
    PROVE  Precedes(event[e].at, event'[e].at, event[e].dir)
<1>1. PICK k, f : ListInv(k, f)
  BY DEF PipeInv
<1>2. made \in Nat /\ Linked(ctx, made, head, tail, k, f)
  BY <1>1, PipelineAssumption DEF PipeInv, TypeOK, ListInv
<1>3. Listed = Members(k, f)
  BY <1>2, WalkIs
<1>4. event[e].dir \in Directions
  BY DEF PipeInv, TypeOK, EventType
<1>5. PICK c : c = event[e].at
  OBVIOUS
<1>6. PICK d : d = event'[e].at
  OBVIOUS
<1>7. c \in Members(k, f) /\ d \in Members(k, f)
  BY <1>3, <1>5, <1>6
<1>8. ctx[c].link[event[e].dir] = d
  BY <1>5, <1>6, EventStep
<1>9. Ahead(k, f, c, d, event[e].dir)
  BY <1>1, <1>4, <1>7, <1>8 DEF ListInv, LinkInv
<1>10. Precedes(c, d, event[e].dir)
  BY <1>2, <1>7, <1>9, PrecedesIs
<1> QED
  BY <1>5, <1>6, <1>10

(* sendUpstream and sendDownstream follow the chains without the mutex: an  *)
(* event that passes from one listed handler to another moves in its own    *)
(* direction, also between the steps of an update of the chains.            *)
THEOREM EventsForward == Spec => EventsMoveForward
<1> DEFINE Moves == \A e \in Events :
               /\ event[e].state = "active" /\ event'[e].state = "active"
               /\ event'[e].from = event[e].at
               /\ {event[e].at, event'[e].at} \subseteq Listed
               => Precedes(event[e].at, event'[e].at, event[e].dir)
<1>1. PipeInv /\ [Next]_vars => [Moves]_vars
  BY StepForward
<1>2. Spec => [][Moves]_vars
  <2> HIDE DEF Moves
  <2> QED
    BY PipelineInvariant, <1>1, PTL DEF Spec
<1> QED
  BY <1>2 DEF EventsMoveForward, Moves
=============================================================================
