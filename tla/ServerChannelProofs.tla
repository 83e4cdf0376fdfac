------------------------ MODULE ServerChannelProofs ------------------------
(***************************************************************************)
(* Proofs about ServerChannel, for every size of the pool and any number   *)
(* of servers and accepted channels.                                       *)
(*                                                                         *)
(*   - LoopInv, inductive together with TypeOK: a channel belongs to the   *)
(*     server it was accepted for, the loop of a server is in one place    *)
(*     (an accept that is pending, or a channel that is being started),    *)
(*     and the loop of a listening server is in some place;                *)
(*   - LateInv: what a loop may still do after its server was closed;      *)
(*   - OrderInv: the events that a channel of the acceptor's thread has    *)
(*     fired, given how far start() is.                                    *)
(***************************************************************************)
EXTENDS ServerChannel, SequenceLemmas

(* An unused channel is chosen for the next connection. *)
LEMMA FreshUnused ==
    ASSUME Unused # {}
    PROVE  Fresh \in Children /\ children[Fresh].st = "none"
<1>1. Unused \subseteq Nat
  BY ServerAssumption DEF Unused, Children
<1>2. \E c \in Unused : \A d \in Unused : c <= d
  BY <1>1, LeastNumber
<1>3. Fresh \in Unused
  BY <1>2 DEF Fresh
<1> QED
  BY <1>3 DEF Unused

(* The round robin over the pool. *)
LEMMA IndexInPool ==
    ASSUME NEW n \in Nat
    PROVE  n % PoolSize \in 0 .. PoolSize - 1
BY ServerAssumption

(* The accept that AcceptNext hands to asio. *)
NewAccept(s, st) == [server |-> s, child |-> Fresh, st |-> st]

(* What AcceptNext does, without the updates of records. *)
LEMMA AcceptNextFacts ==
    ASSUME TypeOK, NEW s, AcceptNext(s, children, accepts)
    PROVE  /\ Fresh \in Children /\ children[Fresh].st = "none"
           /\ children' = [children EXCEPT ![Fresh] = NewChild(s)]
           /\ \E st \in {"busy", "err"} :
                 /\ accepts' = accepts \cup {NewAccept(s, st)}
                 /\ st = "busy" <=> acceptor' = "listening"
           /\ nextIndex' \in 0 .. PoolSize - 1
<1>1. nextIndex + 1 \in Nat
  BY ServerAssumption DEF TypeOK
<1>2. nextIndex' \in 0 .. PoolSize - 1
  BY <1>1, IndexInPool DEF AcceptNext, NextIndex
<1>4. children' = [children EXCEPT ![Fresh] = NewChild(s)]
  BY DEF AcceptNext
<1>5. \E st \in {"busy", "err"} :
                 /\ accepts' = accepts \cup {NewAccept(s, st)}
                 /\ st = "busy" <=> acceptor' = "listening"
  BY DEF AcceptNext, NewAccept
<1> QED
  BY <1>2, <1>4, <1>5, FreshUnused DEF AcceptNext

-----------------------------------------------------------------------------
(***************************************************************************)
(* The accept loop.  A server's loop is in one place at a time: an accept  *)
(* is pending, or handleAccept starts the channel it was for.              *)
(***************************************************************************)
InLoop(s) == boss # Idle /\ children[boss.child].server = s

(* Whom the channels belong to. *)
ChildInv ==
    /\ tracked = {}
    /\ Len(servers) <= MaxServers
    /\ caller = "failed" => servers # <<>>
    /\ \A c \in Children : IF children[c].st = "none" THEN children[c] = NoChild
                           ELSE children[c].server \in 1 .. Len(servers)
    /\ boss # Idle => children[boss.child].st \notin {"none", "waiting"}

(* One place at a time. *)
PlaceInv ==
    /\ \A a \in accepts : /\ children[a.child].st = "waiting"
                          /\ children[a.child].server = a.server
                          /\ ~InLoop(a.server)
    /\ \A a, b \in accepts : a.server = b.server => a = b

(* The loop of the server that was bound last goes on. *)
ArmedInv ==
    /\ acceptor = "listening" =>
          \/ fault \/ Len(servers) \in broken \/ InLoop(Len(servers))
          \/ \E a \in accepts : a.server = Len(servers)
    /\ acceptor # "listening" => \A a \in accepts : a.st # "busy"
    /\ acceptor = "listening" => servers # <<>>

LoopInv == ChildInv /\ PlaceInv /\ ArmedInv

LEMMA InitLoop == Init => TypeOK /\ LoopInv
<1> SUFFICES ASSUME Init PROVE TypeOK /\ LoopInv
  OBVIOUS
<1>1. TypeOK
  <2>1. NoChild \in ChildType
    BY ServerAssumption DEF NoChild, ChildType
  <2>2. 1 % PoolSize \in 0 .. PoolSize - 1
    BY IndexInPool
  <2>3. children \in [Children -> ChildType]
    BY <2>1 DEF Init
  <2> QED
    BY <2>1, <2>2, <2>3, EmptySeq DEF Init, TypeOK
<1>2. LoopInv
  BY ServerAssumption DEF Init, LoopInv, ChildInv, PlaceInv, ArmedInv, NoChild
<1> QED
  BY <1>1, <1>2

(* With an empty map closeServerChannel leaves the channels as they are. *)
LEMMA NothingTracked ==
    ASSUME TypeOK, tracked = {}
    PROVE  ClosedAndDeleted(children) = children
BY DEF ClosedAndDeleted, TypeOK

(* The types, action by action. *)
LEMMA TypeAccept ==
    ASSUME TypeOK, LoopInv, NEW s \in Servers, AcceptNext(s, children, accepts)
    PROVE  /\ children' \in [Children -> ChildType]
           /\ accepts' \subseteq AcceptType
           /\ nextIndex' \in 0 .. PoolSize - 1
<1>1. NewChild(s) \in ChildType
  BY ServerAssumption DEF NewChild, ChildType, TypeOK, Servers
<1>2. \A st \in {"busy", "err"} : NewAccept(s, st) \in AcceptType
  BY AcceptNextFacts DEF NewAccept, AcceptType
<1> QED
  BY <1>1, <1>2, AcceptNextFacts DEF TypeOK

(* An accept that goes on as another: the same loop, another state. *)
SameLoop(a, b) == b.server = a.server /\ b.child = a.child

(* What closeServerChannel does to the loops. *)
LEMMA CloseFacts ==
    ASSUME TypeOK, ChildInv, NEW s \in DOMAIN servers, closeServerChannel(s)
    PROVE  /\ children' = children /\ tracked' = {} /\ acceptor' = "closed"
           /\ servers' \in Seq({"open", "closed"}) /\ Len(servers') = Len(servers)
           /\ accepts' \subseteq AcceptType
           /\ \A b \in accepts' : b.st # "busy" /\
                 \E a \in accepts : SameLoop(a, b) /\ b = [a EXCEPT !.st = b.st]
                                      /\ b.st = IF a.st = "busy" THEN "err" ELSE a.st
<1>1. children' = children /\ tracked' = {} /\ acceptor' = "closed"
  BY NothingTracked DEF closeServerChannel, ChildInv
<1>2. servers' \in Seq({"open", "closed"}) /\ Len(servers') = Len(servers)
  <2>1. servers \in Seq({"open", "closed"}) /\ servers' = [servers EXCEPT ![s] = "closed"]
    BY DEF TypeOK, closeServerChannel
  <2> QED
    BY <2>1, ExceptSeq
<1>3. ASSUME NEW b \in accepts'
      PROVE  /\ b \in AcceptType /\ b.st # "busy"
             /\ \E a \in accepts : SameLoop(a, b) /\ b = [a EXCEPT !.st = b.st]
                                      /\ b.st = IF a.st = "busy" THEN "err" ELSE a.st
  <2>1. PICK a \in accepts : b = [a EXCEPT !.st = IF a.st = "busy" THEN "err" ELSE a.st]
    BY <1>3 DEF closeServerChannel
  <2>2. a \in AcceptType
    BY DEF TypeOK
  <2>3. b \in AcceptType /\ SameLoop(a, b)
    BY <2>1, <2>2 DEF AcceptType, SameLoop
  <2>4. b.st = IF a.st = "busy" THEN "err" ELSE a.st
    BY <2>1, <2>2 DEF AcceptType
  <2> QED
    BY <2>1, <2>3, <2>4
<1> QED
  BY <1>1, <1>2, <1>3

LEMMA LastEventsTyped ==
    ASSUME NEW st
    PROVE  LastEvents(st) \in Seq(ChildEvents)
<1>1. /\ <<"closed">> \in Seq(ChildEvents)
      /\ <<"disconnected", "unbound", "closed">> \in Seq(ChildEvents)
  BY DEF ChildEvents
<1> QED
  BY <1>1 DEF LastEvents

(* An address is kept, and the channel tells that it is bound; nothing else *)
(* of the channel changes.                                                  *)
LEMMA CachingFacts ==
    ASSUME children \in [Children -> ChildType], NEW c \in Children, NEW which \in Addresses
    PROVE  LET cs == Caching(children, c, which)
           IN  /\ cs \in [Children -> ChildType]
               /\ cs[c].st = children[c].st /\ cs[c].server = children[c].server
               /\ cs[c].service = children[c].service /\ cs[c].events = children[c].events
               /\ \A d \in Children \ {c} : cs[d] = children[d]
<1> DEFINE k == children[c].cached \cup {which}
           r == [children[c] EXCEPT !.cached = k]
<1>1. k \in SUBSET Addresses /\ children[c] \in ChildType
  BY DEF ChildType
<1>2. Caching(children, c, which) = [children EXCEPT ![c] = r]
  BY DEF Caching
<1> HIDE DEF k
<1>3. /\ r \in ChildType
      /\ r.st = children[c].st /\ r.server = children[c].server
      /\ r.service = children[c].service /\ r.events = children[c].events
  BY <1>1 DEF ChildType
<1> HIDE DEF r
<1> QED
  BY <1>2, <1>3

LEMMA BoundFacts ==
    ASSUME children \in [Children -> ChildType], NEW c \in Children,
           children' = [Caching(children, c, "local") EXCEPT ![c].events = Append(@, "bound")]
    PROVE  /\ children' \in [Children -> ChildType]
           /\ children'[c].st = children[c].st /\ children'[c].server = children[c].server
           /\ children'[c].service = children[c].service
           /\ children'[c].events = Append(children[c].events, "bound")
           /\ \A d \in Children \ {c} : children'[d] = children[d]
<1>a. "local" \in Addresses /\ "bound" \in ChildEvents
  BY DEF Addresses, ChildEvents
<1>1. PICK cs \in [Children -> ChildType] :
        /\ cs = Caching(children, c, "local")
        /\ cs[c].st = children[c].st /\ cs[c].server = children[c].server
        /\ cs[c].service = children[c].service /\ cs[c].events = children[c].events
        /\ \A d \in Children \ {c} : cs[d] = children[d]
  BY <1>a, CachingFacts
<1>2. PICK e : e = Append(cs[c].events, "bound")
  OBVIOUS
<1>3. children' = [cs EXCEPT ![c].events = e]
  BY <1>1, <1>2
<1>4. cs[c].events \in Seq(ChildEvents)
  BY DEF ChildType
<1>5. e \in Seq(ChildEvents)
  BY <1>a, <1>2, <1>4
<1>6. children' \in [Children -> ChildType]
  BY <1>3, <1>5 DEF ChildType
<1> DEFINE r == [cs[c] EXCEPT !.events = e]
<1>8. /\ r.st = cs[c].st /\ r.server = cs[c].server
      /\ r.service = cs[c].service /\ r.events = e
  BY DEF ChildType
<1>9. children' = [cs EXCEPT ![c] = r]
  BY <1>3
<1> HIDE DEF r
<1>7. /\ children'[c].st = cs[c].st /\ children'[c].server = cs[c].server
      /\ children'[c].service = cs[c].service /\ children'[c].events = e
      /\ \A d \in Children \ {c} : children'[d] = cs[d]
  BY <1>8, <1>9
<1> QED
  BY <1>1, <1>2, <1>6, <1>7

LEMMA TypeStep ==
    ASSUME TypeOK, LoopInv, [Next]_vars
    PROVE  TypeOK'
<1>a. /\ servers \in Seq({"open", "closed"}) /\ Len(servers) \in Nat
      /\ children \in [Children -> ChildType] /\ accepts \subseteq AcceptType
      /\ boss \in {Idle} \cup [at : Steps, child : Children]
      /\ Len(servers) <= MaxServers
  BY DEF TypeOK, LoopInv, ChildInv
<1>b. ASSUME boss.at \in Steps
      PROVE  /\ boss # Idle /\ boss \in [at : Steps, child : Children]
             /\ children[boss.child].server \in Servers
  <2>1. boss # Idle /\ boss \in [at : Steps, child : Children]
    BY <1>a, <1>b DEF Idle, Steps
  <2>2. children[boss.child].server \in 1 .. Len(servers)
    BY <2>1 DEF LoopInv, ChildInv
  <2> QED
    BY <1>a, <2>1, <2>2, ServerAssumption DEF Servers
<1>c. ASSUME NEW c \in Children, NEW st \in {"open", "connected", "closed", "deleted"}
      PROVE  [children EXCEPT ![c].st = st] \in [Children -> ChildType]
  BY <1>a DEF ChildType
<1>d. ASSUME NEW c \in Children, NEW e \in Seq(ChildEvents)
      PROVE  [children EXCEPT ![c].events = e] \in [Children -> ChildType]
  BY <1>a DEF ChildType
<1>1. CASE Bind
  <2>1. Len(servers) + 1 \in Servers
    BY <1>1, <1>a, ServerAssumption DEF Bind, MayBind, Servers
  <2>2. Append(servers, "open") \in Seq({"open", "closed"})
    BY <1>a
  <2> QED
    BY <1>1, <2>1, <2>2, TypeAccept DEF Bind, TypeOK
<1>2. CASE BindFails \/ BindNoBoss
  <2>1. \A x \in {"open", "closed"} : Append(servers, x) \in Seq({"open", "closed"})
    BY <1>a
  <2>2. BindNoBoss => children' = children
    BY NothingTracked DEF BindNoBoss, LoopInv, ChildInv
  <2> QED
    BY <1>2, <2>1, <2>2 DEF BindFails, BindNoBoss, TypeOK
<1>3. CASE BindCleansUp
  <2>1. Len(servers) \in DOMAIN servers
    BY <1>3, <1>a DEF BindCleansUp, LoopInv, ChildInv
  <2> QED
    BY <1>3, <2>1, CloseFacts DEF BindCleansUp, TypeOK, LoopInv
<1>4. ASSUME NEW s \in DOMAIN servers, CloseServer(s)
      PROVE  TypeOK'
  BY <1>4, <1>a, CloseFacts DEF CloseServer, TypeOK, LoopInv
<1>5. ASSUME NEW a \in accepts, NEW st \in {"ok", "err"}, AcceptDone(a, st)
      PROVE  TypeOK'
  <2>1. [a EXCEPT !.st = st] \in AcceptType
    BY <1>5, <1>a DEF AcceptType
  <2> QED
    BY <1>5, <2>1 DEF AcceptDone, TypeOK, serving
<1>6. ASSUME NEW a \in accepts, HandleAcceptError(a)
      PROVE  TypeOK'
  <2>1. a.child \in Children /\ a.server \in Servers
    BY <1>a DEF AcceptType
  <2> QED
    BY <1>6, <1>c, <2>1 DEF HandleAcceptError, TypeOK, serving
<1>7. ASSUME NEW a \in accepts, HandleAccept(a)
      PROVE  TypeOK'
  <2>1. a.child \in Children /\ a.server \in Servers
    BY <1>a DEF AcceptType
  <2>2. [at |-> "start", child |-> a.child] \in [at : Steps, child : Children]
    BY <2>1 DEF Steps
  <2> QED
    BY <1>7, <1>c, <2>1, <2>2 DEF HandleAccept, TypeOK, serving
<1>8. ASSUME boss.at \in Steps, NEW e \in ChildEvents, Fire(e)
      PROVE  children' \in [Children -> ChildType]
  <2>1. boss.child \in Children /\ children[boss.child].events \in Seq(ChildEvents)
    BY <1>a, <1>b, <1>8 DEF ChildType
  <2>2. Append(children[boss.child].events, e) \in Seq(ChildEvents)
    BY <2>1
  <2> QED
    BY <1>8, <1>d, <2>1, <2>2 DEF Fire
<1>9. ASSUME boss.at \in Steps, NEW step \in Steps, Proceed(step)
      PROVE  boss' \in [at : Steps, child : Children]
  BY <1>9, <1>b DEF Proceed
<1>10. ASSUME boss.at \in Steps, StartReturnsFalse
       PROVE  children' \in [Children -> ChildType] /\ fault' = TRUE /\ UNCHANGED boss
  BY <1>10, <1>b, <1>c DEF StartReturnsFalse
<1>11. CASE StartOpen \/ StartBound \/ StartCheck \/ StartConnected
  <2>1. boss.at \in Steps /\ boss.child \in Children
    BY <1>11, <1>b DEF StartOpen, StartBound, StartCheck, StartConnected, Steps
  <2>2. /\ UNCHANGED <<serving, accepts, tracked, nextIndex, broken, late>>
        /\ \/ (\E e \in ChildEvents : Fire(e)) /\ (\E step \in Steps : Proceed(step))
              /\ UNCHANGED fault
           \/ /\ children' = [Caching(children, boss.child, "local")
                                 EXCEPT ![boss.child].events = Append(@, "bound")]
              /\ (\E step \in Steps : Proceed(step)) /\ UNCHANGED fault
           \/ /\ children' = Caching(children, boss.child, "remote")
              /\ (\E step \in Steps : Proceed(step)) /\ UNCHANGED fault
           \/ StartReturnsFalse
    BY <1>11 DEF StartOpen, StartBound, StartCheck, StartConnected, Starting, Steps, ChildEvents
  <2>3. children' \in [Children -> ChildType]
    <3>1. CASE children' = [Caching(children, boss.child, "local")
                               EXCEPT ![boss.child].events = Append(@, "bound")]
      BY <1>a, <2>1, <3>1, BoundFacts
    <3>2. CASE children' = Caching(children, boss.child, "remote")
      BY <1>a, <2>1, <3>2, CachingFacts DEF Addresses
    <3>3. CASE (\E e \in ChildEvents : Fire(e)) \/ StartReturnsFalse
      BY <1>8, <1>10, <2>1, <3>3
    <3> QED
      BY <2>2, <3>1, <3>2, <3>3
  <2> QED
    BY <1>9, <1>10, <2>1, <2>2, <2>3 DEF TypeOK, serving
<1>12. CASE setConnected
  <2>1. boss.at \in Steps /\ boss.child \in Children
    BY <1>12, <1>b DEF setConnected, Steps
  <2>a. PICK st \in {"open", "connected", "closed", "deleted"} :
          children' = [children EXCEPT ![boss.child].st = st]
    <3>1. boss \in [at : Steps, child : Children] /\ boss # Idle
      BY <1>b, <2>1
    <3>2. children[boss.child].st \in {"open", "connected", "closed", "deleted"}
      BY <1>a, <2>1, <3>1 DEF LoopInv, ChildInv, ChildType
    <3> QED
      BY <1>12, <3>2 DEF setConnected
  <2>2. children' \in [Children -> ChildType]
    BY <1>c, <2>1, <2>a
  <2> QED
    BY <1>12, <1>9, <2>1, <2>2 DEF setConnected, Starting, TypeOK, serving, Steps
<1>13. CASE StartEnds
  <2>1. children[boss.child].server \in Servers
    BY <1>13, <1>b DEF StartEnds, Steps
  <2> QED
    BY <1>13, <2>1, TypeAccept DEF StartEnds, TypeOK, serving, Inserted
<1>14. ASSUME NEW c \in Children, CloseChild(c)
       PROVE  TypeOK'
  <2>1. children' \in [Children -> ChildType]
    <3>1. CASE children' = CloseThrows(children, c)
      BY <3>1, <1>c DEF CloseThrows
    <3>2. CASE children' = Closed(children, c)
      <4> DEFINE e == children[c].events \o LastEvents(children[c].st)
      <4>a. LastEvents(children[c].st) \in Seq(ChildEvents)
        BY LastEventsTyped
      <4>b. children[c].events \in Seq(ChildEvents)
        BY <1>a DEF ChildType
      <4>1. e \in Seq(ChildEvents)
        BY <4>a, <4>b, ConcatProperties
      <4>2. children' = [children EXCEPT ![c] = [children[c] EXCEPT !.st = "closed", !.events = e]]
        BY <3>2, <1>a DEF Closed
      <4> HIDE DEF e
      <4>3. [children[c] EXCEPT !.st = "closed", !.events = e] \in ChildType
        BY <4>1, <1>a DEF ChildType
      <4> QED
        BY <1>a, <4>2, <4>3
    <3> QED
      BY <3>1, <3>2, <1>14 DEF CloseChild
  <2> QED
    BY <1>14, <2>1 DEF CloseChild, TypeOK, serving
<1>15. CASE UNCHANGED vars
  BY <1>15 DEF vars, serving, TypeOK
<1>16. ASSUME NEW c \in Children, NEW which \in Addresses, ReadAddress(c, which)
       PROVE  TypeOK'
  <2>1. children' \in [Children -> ChildType]
    BY <1>16, <1>a, CachingFacts DEF ReadAddress
  <2> QED
    BY <1>16, <2>1 DEF ReadAddress, TypeOK, serving
<1> QED
  BY <1>1, <1>2, <1>3, <1>4, <1>5, <1>6, <1>7, <1>11, <1>12, <1>13, <1>14, <1>15, <1>16
  DEF Next, IOThread

-----------------------------------------------------------------------------
(* A channel that has no connection yet. *)
Early == {"none", "waiting"}

(* A step of start(), or of a handler that closes a channel or reads an     *)
(* address: the loops and the servers stay as they are, and no channel      *)
(* changes hands.                                                           *)
QuietStep ==
    \/ StartOpen \/ StartBound \/ StartCheck \/ setConnected \/ StartConnected
    \/ \E c \in Children : CloseChild(c) \/ \E which \in Addresses : ReadAddress(c, which)

LEMMA QuietFacts ==
    ASSUME TypeOK, LoopInv, QuietStep
    PROVE  /\ UNCHANGED <<acceptor, servers, caller, accepts, tracked, broken, late>>
           /\ fault => fault'
           /\ \A c \in Children :
                 /\ children'[c].server = children[c].server
                 /\ children[c].st \in Early => children'[c] = children[c]
                 /\ children[c].st \notin Early => children'[c].st \notin Early
           /\ boss' = Idle <=> boss = Idle
           /\ boss'.child = boss.child
<1>a. /\ children \in [Children -> ChildType]
      /\ boss \in {Idle} \cup [at : Steps, child : Children]
  BY DEF TypeOK
<1>8. CASE StartOpen \/ StartBound \/ StartCheck \/ setConnected \/ StartConnected
  <2>1. boss.at \in Steps
    BY <1>8 DEF StartOpen, StartBound, StartCheck, setConnected, StartConnected, Steps
  <2>a. boss # Idle /\ boss \in [at : Steps, child : Children]
    BY <1>a, <2>1 DEF Idle, Steps
  <2>2. boss.child \in Children /\ children[boss.child].st \notin Early
    BY <2>a DEF LoopInv, ChildInv, Early
  <2>b. /\ Starting
        /\ UNCHANGED fault \/ StartReturnsFalse
        /\ (\E step \in Steps : Proceed(step)) \/ StartReturnsFalse
    BY <1>8 DEF StartOpen, StartBound, StartCheck, setConnected, StartConnected, Steps
  <2>3. UNCHANGED <<serving, accepts, tracked, nextIndex, broken, late>> /\ (fault => fault')
    BY <2>b DEF Starting, StartReturnsFalse
  <2>4. boss'.child = boss.child /\ boss' # Idle
    BY <2>a, <2>b DEF Proceed, StartReturnsFalse, Idle, Steps
  <2>5. \A c \in Children :
              /\ children'[c].server = children[c].server
              /\ children[c].st \in Early => children'[c] = children[c]
              /\ children[c].st \notin Early => children'[c].st \notin Early
    <3>1. \/ children' = [Caching(children, boss.child, "local")
                             EXCEPT ![boss.child].events = Append(@, "bound")]
          \/ children' = Caching(children, boss.child, "remote")
          \/ \E e : Fire(e)
          \/ \E st \in {"deleted", "connected", children[boss.child].st} :
                children' = [children EXCEPT ![boss.child].st = st]
      BY <1>8, <1>a, <2>2 DEF StartOpen, StartBound, StartCheck, setConnected, StartConnected,
                 StartReturnsFalse
    <3>2. ASSUME NEW e, Fire(e)
          PROVE  /\ \A c \in Children : c # boss.child => children'[c] = children[c]
                 /\ children'[boss.child].st = children[boss.child].st
                 /\ children'[boss.child].server = children[boss.child].server
      BY <1>a, <2>2, <3>2 DEF Fire, ChildType
    <3>3. ASSUME NEW st, children' = [children EXCEPT ![boss.child].st = st]
          PROVE  /\ \A c \in Children : c # boss.child => children'[c] = children[c]
                 /\ children'[boss.child].st = st
                 /\ children'[boss.child].server = children[boss.child].server
      BY <1>a, <2>2, <3>3 DEF ChildType
    <3>4. CASE children' = [Caching(children, boss.child, "local")
                               EXCEPT ![boss.child].events = Append(@, "bound")]
      BY <1>a, <2>2, <3>4, BoundFacts
    <3>7. CASE children' = Caching(children, boss.child, "remote")
      BY <1>a, <2>2, <3>7, CachingFacts DEF Addresses
    <3>5. CASE \E e : Fire(e)
      BY <2>2, <3>2, <3>5
    <3>6. CASE \E st \in {"deleted", "connected", children[boss.child].st} :
                children' = [children EXCEPT ![boss.child].st = st]
      BY <2>2, <3>3, <3>6 DEF Early
    <3> QED
      BY <3>1, <3>4, <3>5, <3>6, <3>7
  <2> QED
    BY <2>a, <2>3, <2>4, <2>5 DEF serving
<1>9. ASSUME NEW c \in Children, CloseChild(c)
      PROVE  /\ UNCHANGED <<serving, accepts, boss, tracked, broken, late, fault>>
             /\ \A d \in Children :
                   /\ children'[d].server = children[d].server
                   /\ children[d].st \in Early => children'[d] = children[d]
                   /\ children[d].st \notin Early => children'[d].st \notin Early
  <2>1. /\ children[c].st \notin Early
        /\ UNCHANGED <<serving, accepts, boss, tracked, broken, late, fault>>
    BY <1>9 DEF CloseChild, isOpen, Early
  <2>2. children' = CloseThrows(children, c) \/ children' = Closed(children, c)
    BY <1>9 DEF CloseChild
  <2>3. /\ \A d \in Children : d # c => children'[d] = children[d]
        /\ children'[c].st = "closed" /\ children'[c].server = children[c].server
    <3>1. CASE children' = CloseThrows(children, c)
      BY <1>a, <3>1 DEF CloseThrows, ChildType
    <3>2. CASE children' = Closed(children, c)
      BY <1>a, <3>2 DEF Closed, ChildType
    <3> QED
      BY <2>2, <3>1, <3>2
  <2> QED
    BY <2>1, <2>3 DEF Early
<1>10. ASSUME NEW c \in Children, NEW which \in Addresses, ReadAddress(c, which)
       PROVE  /\ UNCHANGED <<serving, accepts, boss, tracked, broken, late, fault>>
              /\ \A d \in Children :
                   /\ children'[d].server = children[d].server
                   /\ children[d].st \in Early => children'[d] = children[d]
                   /\ children[d].st \notin Early => children'[d].st \notin Early
  <2>1. children[c].st \notin Early
    BY <1>10 DEF ReadAddress, isOpen, Early
  <2> QED
    BY <1>10, <1>a, <2>1, CachingFacts DEF ReadAddress
<1> QED
  BY <1>8, <1>9, <1>10 DEF QuietStep, serving

LEMMA LoopQuiet ==
    ASSUME LoopInv,
           UNCHANGED <<acceptor, servers, caller, accepts, tracked, broken>>,
           fault => fault',
           \A c \in Children :
              /\ children'[c].server = children[c].server
              /\ children[c].st \in Early => children'[c] = children[c]
              /\ children[c].st \notin Early => children'[c].st \notin Early,
           boss' = Idle <=> boss = Idle, boss'.child = boss.child,
           accepts \subseteq AcceptType, boss \in {Idle} \cup [at : Steps, child : Children]
    PROVE  LoopInv'
<1>1. ChildInv'
  BY DEF LoopInv, ChildInv, Early, Idle
<1>2. \A s : InLoop(s)' <=> InLoop(s)
  BY DEF InLoop, Idle
<1>3. PlaceInv'
  BY <1>2 DEF LoopInv, PlaceInv, AcceptType, Early
<1>4. ArmedInv'
  BY <1>2 DEF LoopInv, ArmedInv
<1> QED
  BY <1>1, <1>3, <1>4 DEF LoopInv

LEMMA LoopClose ==
    ASSUME TypeOK, LoopInv, NEW s \in DOMAIN servers, closeServerChannel(s),
           UNCHANGED <<boss, broken, fault>>, caller' \in {"idle", caller}
    PROVE  LoopInv'
<1>a. /\ children' = children /\ tracked' = {} /\ acceptor' = "closed"
      /\ servers' \in Seq({"open", "closed"}) /\ Len(servers') = Len(servers)
      /\ \A b \in accepts' : b.st # "busy" /\
            \E a \in accepts : SameLoop(a, b) /\ b = [a EXCEPT !.st = b.st]
                                 /\ b.st = IF a.st = "busy" THEN "err" ELSE a.st
  BY CloseFacts DEF LoopInv
<1>1. ChildInv'
  BY <1>a DEF LoopInv, ChildInv, TypeOK
<1>2. PlaceInv'
  BY <1>a DEF LoopInv, PlaceInv, SameLoop, InLoop
<1>3. ArmedInv'
  BY <1>a DEF LoopInv, ArmedInv
<1> QED
  BY <1>1, <1>2, <1>3 DEF LoopInv

(* A new place in the loop of s, for which there was none. *)
LEMMA LoopAccept ==
    ASSUME TypeOK, LoopInv, NEW s \in 1 .. Len(servers'), AcceptNext(s, children, accepts),
           Len(servers') \in Len(servers) .. MaxServers, servers' \in Seq({"open", "closed"}),
           boss' = Idle, ~InLoop(s) => \A a \in accepts : a.server # s,
           acceptor # "listening" \/ acceptor' = acceptor,
           acceptor' = "listening" =>
              \/ s = Len(servers')
              \/ acceptor = "listening" /\ Len(servers') = Len(servers) /\ ~InLoop(Len(servers)),
           UNCHANGED <<caller, tracked, broken, fault>>
    PROVE  LoopInv'
<1>a. PICK st \in {"busy", "err"} :
        /\ Fresh \in Children /\ children[Fresh].st = "none"
        /\ children' = [children EXCEPT ![Fresh] = NewChild(s)]
        /\ accepts' = accepts \cup {NewAccept(s, st)}
        /\ st = "busy" <=> acceptor' = "listening"
  BY AcceptNextFacts
<1>b. /\ children \in [Children -> ChildType] /\ accepts \subseteq AcceptType
      /\ NewChild(s).st = "waiting" /\ NewChild(s).server = s
      /\ NewAccept(s, st).server = s /\ NewAccept(s, st).child = Fresh
      /\ NewAccept(s, st).st = st
      /\ Len(servers) \in Nat /\ Len(servers') \in Nat
  BY DEF TypeOK, NewChild, NewAccept
<1>c. \A c \in Children : c # Fresh => children'[c] = children[c]
  BY <1>a, <1>b
<1>d. \A a \in accepts : a.server # s /\ a.child # Fresh /\ a.child \in Children
  BY <1>a, <1>b DEF LoopInv, PlaceInv, AcceptType
<1>1. ChildInv'
  <2>1. ASSUME NEW c \in Children
        PROVE  IF children'[c].st = "none" THEN children'[c] = NoChild
               ELSE children'[c].server \in 1 .. Len(servers')
    <3>1. CASE c = Fresh
      BY <3>1, <1>a, <1>b
    <3>2. CASE c # Fresh
      BY <3>2, <1>b, <1>c DEF LoopInv, ChildInv
    <3> QED
      BY <3>1, <3>2
  <2> QED
    BY <2>1, <1>b DEF LoopInv, ChildInv
<1>2. PlaceInv'
  <2>1. \A a \in accepts' : ~InLoop(a.server)'
    BY DEF InLoop
  <2>2. \A a \in accepts' : /\ children'[a.child].st = "waiting"
                            /\ children'[a.child].server = a.server
    BY <1>a, <1>b, <1>c, <1>d DEF LoopInv, PlaceInv
  <2>3. \A a, b \in accepts' : a.server = b.server => a = b
    BY <1>a, <1>b, <1>d DEF LoopInv, PlaceInv
  <2> QED
    BY <2>1, <2>2, <2>3 DEF PlaceInv
<1>3. ArmedInv'
  <2>1. acceptor' = "listening" =>
          \/ fault' \/ Len(servers') \in broken'
          \/ \E a \in accepts' : a.server = Len(servers')
    BY <1>a, <1>b DEF LoopInv, ArmedInv
  <2>2. acceptor' # "listening" => \A a \in accepts' : a.st # "busy"
    BY <1>a, <1>b DEF LoopInv, ArmedInv
  <2> QED
    BY <2>1, <2>2 DEF ArmedInv
<1> QED
  BY <1>1, <1>2, <1>3 DEF LoopInv

LEMMA LoopStep ==
    ASSUME TypeOK, LoopInv, [Next]_vars
    PROVE  LoopInv'
<1>a. /\ servers \in Seq({"open", "closed"}) /\ Len(servers) \in Nat
      /\ children \in [Children -> ChildType] /\ accepts \subseteq AcceptType
      /\ boss \in {Idle} \cup [at : Steps, child : Children]
      /\ Len(servers) <= MaxServers /\ MaxServers \in Nat
  BY ServerAssumption DEF TypeOK, LoopInv, ChildInv
<1>b. ASSUME boss.at \in Steps
      PROVE  /\ boss # Idle /\ boss \in [at : Steps, child : Children]
             /\ children[boss.child].st \notin Early
             /\ children[boss.child].server \in 1 .. Len(servers)
  <2>1. boss # Idle /\ boss \in [at : Steps, child : Children]
    BY <1>a, <1>b DEF Idle, Steps
  <2> QED
    BY <2>1 DEF LoopInv, ChildInv, Early
<1>1. CASE Bind
  <2>1. /\ servers' = Append(servers, "open") /\ Len(servers') = Len(servers) + 1
        /\ servers' \in Seq({"open", "closed"}) /\ Len(servers) < MaxServers
    BY <1>1, <1>a DEF Bind, MayBind
  <2>2. \A a \in accepts : a.server <= Len(servers) /\ a.server \in Nat
    BY <1>a DEF LoopInv, ChildInv, PlaceInv, AcceptType, Servers
  <2>3. CASE boss = Idle
    BY <1>1, <1>a, <2>1, <2>2, <2>3, LoopAccept DEF Bind, MayBind
  <2>4. CASE boss # Idle
    <3>1. children[boss.child].server \in 1 .. Len(servers) /\ boss.child \in Children
      BY <1>a, <2>4 DEF LoopInv, ChildInv
    <3>2. PICK st \in {"busy", "err"} :
            /\ Fresh \in Children /\ children[Fresh].st = "none"
            /\ children' = [children EXCEPT ![Fresh] = NewChild(Len(servers) + 1)]
            /\ accepts' = accepts \cup {NewAccept(Len(servers) + 1, st)}
            /\ st = "busy" <=> acceptor' = "listening"
      BY <1>1, AcceptNextFacts DEF Bind
    <3> DEFINE s == Len(servers) + 1
    <3>3. /\ NewChild(s).st = "waiting" /\ NewChild(s).server = s
          /\ NewAccept(s, st).server = s /\ NewAccept(s, st).child = Fresh
      BY DEF NewChild, NewAccept
    <3>4. Fresh # boss.child /\ \A a \in accepts : a.child # Fresh /\ a.child \in Children
      BY <1>a, <2>4, <3>2 DEF LoopInv, ChildInv, PlaceInv, AcceptType
    <3>5. boss' = boss /\ \A c \in Children : c # Fresh => children'[c] = children[c]
      BY <1>1, <1>a, <3>2 DEF Bind
    <3> HIDE DEF s
    <3>6. \A n : InLoop(n)' <=> InLoop(n)
      BY <3>1, <3>4, <3>5 DEF InLoop
    <3>7. ~InLoop(s)
      BY <3>1, <1>a DEF InLoop, s
    <3>8. ChildInv'
      <4>1. ASSUME NEW c \in Children
            PROVE  IF children'[c].st = "none" THEN children'[c] = NoChild
                   ELSE children'[c].server \in 1 .. Len(servers')
        <5>1. CASE c = Fresh
          BY <5>1, <1>a, <2>1, <3>2, <3>3 DEF s
        <5>2. CASE c # Fresh
          BY <5>2, <1>a, <2>1, <3>5 DEF LoopInv, ChildInv
        <5> QED
          BY <5>1, <5>2
      <4> QED
        BY <4>1, <1>1, <1>a, <2>1, <3>1, <3>4, <3>5 DEF LoopInv, ChildInv, Bind
    <3>9. PlaceInv'
      BY <3>2, <3>3, <3>4, <3>5, <3>6, <3>7, <2>2, <1>a DEF LoopInv, PlaceInv, s
    <3>10. ArmedInv'
      BY <1>1, <2>1, <3>2, <3>3 DEF ArmedInv, Bind, s
    <3> QED
      BY <3>8, <3>9, <3>10 DEF LoopInv
  <2> QED
    BY <2>3, <2>4
<1>2. CASE BindFails \/ BindNoBoss
  <2>1. /\ acceptor = "closed" /\ acceptor' # "listening"
        /\ children' = children /\ tracked' = {}
        /\ UNCHANGED <<accepts, boss, broken>> /\ Len(servers) < MaxServers
    BY <1>2, NothingTracked DEF BindFails, BindNoBoss, MayBind, LoopInv, ChildInv
  <2>2. Len(servers') = Len(servers) + 1 /\ servers' # <<>>
    BY <1>2, <1>a DEF BindFails, BindNoBoss
  <2>3. ChildInv'
    BY <1>a, <2>1, <2>2 DEF LoopInv, ChildInv
  <2>4. PlaceInv' /\ ArmedInv'
    BY <2>1 DEF LoopInv, PlaceInv, ArmedInv, InLoop
  <2> QED
    BY <2>3, <2>4 DEF LoopInv
<1>3. CASE BindCleansUp
  <2>1. Len(servers) \in DOMAIN servers
    BY <1>3, <1>a DEF BindCleansUp, LoopInv, ChildInv
  <2> QED
    BY <1>3, <2>1, LoopClose DEF BindCleansUp
<1>4. ASSUME NEW s \in DOMAIN servers, CloseServer(s)
      PROVE  LoopInv'
  BY <1>4, LoopClose DEF CloseServer
<1>5. ASSUME NEW a \in accepts, NEW st \in {"ok", "err"}, AcceptDone(a, st)
      PROVE  LoopInv'
  <2> DEFINE b == [a EXCEPT !.st = st]
  <2>1. b.server = a.server /\ b.child = a.child /\ b.st = st
    BY <1>a DEF AcceptType
  <2>2. accepts' = (accepts \ {a}) \cup {b} /\ UNCHANGED <<serving, boss, children>>
    BY <1>5 DEF AcceptDone
  <2> HIDE DEF b
  <2>3. PlaceInv'
    BY <2>1, <2>2 DEF LoopInv, PlaceInv, InLoop
  <2>4. ArmedInv'
    BY <1>5, <2>1, <2>2 DEF LoopInv, ArmedInv, InLoop, serving, AcceptDone
  <2> QED
    BY <1>5, <2>3, <2>4 DEF AcceptDone, LoopInv, ChildInv, serving
<1>6. ASSUME NEW a \in accepts, HandleAcceptError(a)
      PROVE  LoopInv'
  <2>1. /\ a.child \in Children /\ children[a.child].st = "waiting"
        /\ accepts' = accepts \ {a} /\ boss = Idle /\ boss' = Idle
        /\ broken' = broken \cup {a.server}
        /\ children' = [children EXCEPT ![a.child].st = "deleted"]
        /\ UNCHANGED <<serving, tracked, fault>>
    BY <1>6, <1>a DEF HandleAcceptError, LoopInv, PlaceInv, AcceptType
  <2>2. /\ \A c \in Children : children'[c].server = children[c].server
                               /\ (c # a.child => children'[c] = children[c])
        /\ children'[a.child].st = "deleted"
    BY <1>a, <2>1 DEF ChildType
  <2>3. \A b \in accepts' : b.child # a.child /\ b.child \in Children
    BY <1>a, <2>1 DEF LoopInv, PlaceInv, AcceptType
  <2>4. ChildInv'
    BY <2>1, <2>2 DEF LoopInv, ChildInv, serving
  <2>5. PlaceInv'
    BY <2>1, <2>2, <2>3 DEF LoopInv, PlaceInv, InLoop
  <2>6. ArmedInv'
    BY <2>1 DEF LoopInv, ArmedInv, InLoop, serving
  <2> QED
    BY <2>4, <2>5, <2>6 DEF LoopInv
<1>7. ASSUME NEW a \in accepts, HandleAccept(a)
      PROVE  LoopInv'
  <2>1. /\ a.child \in Children /\ children[a.child].st = "waiting"
        /\ children[a.child].server = a.server
        /\ accepts' = accepts \ {a} /\ boss = Idle
        /\ boss' = [at |-> "start", child |-> a.child]
        /\ children' = [children EXCEPT ![a.child].st = "open"]
        /\ UNCHANGED <<serving, tracked, broken, fault>>
    BY <1>7, <1>a DEF HandleAccept, LoopInv, PlaceInv, AcceptType
  <2>2. /\ \A c \in Children : children'[c].server = children[c].server
                               /\ (c # a.child => children'[c] = children[c])
        /\ children'[a.child].st = "open"
    BY <1>a, <2>1 DEF ChildType
  <2>3. /\ \A b \in accepts' : b.child # a.child /\ b.child \in Children
                               /\ b.server # a.server
        /\ boss' # Idle /\ boss'.child = a.child
    BY <1>a, <2>1 DEF LoopInv, PlaceInv, AcceptType, Idle
  <2>4. ChildInv'
    BY <2>1, <2>2, <2>3 DEF LoopInv, ChildInv, serving
  <2>5. \A n : InLoop(n)' <=> n = a.server
    BY <2>1, <2>2, <2>3 DEF InLoop
  <2>6. PlaceInv'
    BY <2>1, <2>2, <2>3, <2>5 DEF LoopInv, PlaceInv
  <2>7. ArmedInv'
    BY <2>1, <2>5 DEF LoopInv, ArmedInv, InLoop, serving
  <2> QED
    BY <2>4, <2>6, <2>7 DEF LoopInv
<1>8. CASE QuietStep
  BY <1>8, <1>a, QuietFacts, LoopQuiet
<1>9. CASE StartEnds
  <2>1. boss.at \in Steps
    BY <1>9 DEF StartEnds, Steps
  <2>2. /\ boss # Idle /\ children[boss.child].server \in 1 .. Len(servers)
        /\ InLoop(children[boss.child].server)
        /\ \A n : InLoop(n) => n = children[boss.child].server
    BY <1>b, <2>1 DEF InLoop
  <2>3. /\ UNCHANGED <<serving, tracked, broken, fault>> /\ boss' = Idle
        /\ AcceptNext(children[boss.child].server, children, accepts)
    BY <1>9 DEF StartEnds, Inserted
  <2> QED
    BY <1>a, <2>2, <2>3, LoopAccept DEF serving
<1>11. CASE UNCHANGED vars
  BY <1>11 DEF vars, serving, LoopInv, ChildInv, PlaceInv, ArmedInv, InLoop
<1> QED
  BY <1>1, <1>2, <1>3, <1>4, <1>5, <1>6, <1>7, <1>8, <1>9, <1>11 DEF Next, IOThread, QuietStep

LEMMA LoopInvariant == Spec => [](TypeOK /\ LoopInv)
<1>1. TypeOK /\ LoopInv /\ [Next]_vars => (TypeOK /\ LoopInv)'
  BY TypeStep, LoopStep
<1> QED
  BY <1>1, InitLoop, PTL DEF Spec

(* The accept loop, start() and the pool keep the types; the index of the   *)
(* next I/O service stays within the pool.                                  *)
THEOREM TypeCorrect == Spec => []TypeOK
BY LoopInvariant, PTL

(* Whatever closes servers and children in between, the server that was     *)
(* bound last has exactly one accept pending or one channel being started   *)
(* while the acceptor listens, and a closed acceptor keeps no accept busy.  *)
THEOREM AcceptLoopArmed == Spec => []AcceptArmed
<1>1. TypeOK /\ LoopInv => AcceptArmed
  <2> SUFFICES ASSUME TypeOK, LoopInv PROVE AcceptArmed
    OBVIOUS
  <2> DEFINE s == Len(servers)
  <2>1. SUFFICES ASSUME acceptor = "listening", ~fault, s \notin broken
                 PROVE  Cardinality(Pending(s)) +
                         (IF boss # Idle /\ children[boss.child].server = s THEN 1 ELSE 0) = 1
    BY DEF AcceptArmed, LoopInv, ArmedInv
  <2>2. CASE InLoop(s)
    <3>1. Pending(s) = {}
      BY <2>2 DEF Pending, LoopInv, PlaceInv
    <3> QED
      BY <3>1, <2>2, FS_EmptySet DEF InLoop
  <2>3. CASE ~InLoop(s)
    <3>1. PICK a \in accepts : a.server = s
      BY <2>1, <2>3 DEF LoopInv, ArmedInv
    <3>2. Pending(s) = {a}
      BY <3>1 DEF Pending, LoopInv, PlaceInv
    <3>3. Cardinality(Pending(s)) = 1
      BY <3>2, FS_Singleton
    <3> QED
      BY <3>3, <2>3 DEF InLoop
  <2> QED
    BY <2>2, <2>3
<1> QED
  BY <1>1, LoopInvariant, PTL

-----------------------------------------------------------------------------
(***************************************************************************)
(* Channels started after their server was closed.  The acceptor is closed *)
(* together with the server that was bound last, so its loop has at most   *)
(* one accept that succeeded, and the next one it arms fails at once.      *)
(***************************************************************************)
Last == Len(servers)

LateInv ==
    /\ servers # <<>> /\ servers[Last] = "closed" => acceptor = "closed"
    /\ \A c \in late : children[c].st \notin Early
    /\ \A c \in late : children[c].server = Last =>
          servers[Last] = "closed" /\ \A a \in accepts : a.server = Last => a.st = "err"
    /\ \A c, d \in late : children[c].server = Last /\ children[d].server = Last => c = d

(* A server that is bound now has started nothing. *)
LEMMA LateBind ==
    ASSUME TypeOK, LoopInv, LateInv, Last' = Last + 1, late' = late,
           \A c \in Children : children[c].st \notin Early => children'[c] = children[c],
           servers'[Last'] = "closed" => acceptor' = "closed"
    PROVE  LateInv'
<1>1. \A c \in late : /\ children'[c] = children[c] /\ children[c].st \notin Early
                      /\ children[c].server \in 1 .. Last
  BY DEF TypeOK, LoopInv, ChildInv, LateInv, Early, Last
<1>2. Last \in Nat
  BY DEF TypeOK, Last
<1>3. \A c \in late' : children'[c].server # Last'
  BY <1>1, <1>2
<1> QED
  BY <1>1, <1>3 DEF LateInv

LEMMA LateClose ==
    ASSUME TypeOK, LoopInv, LateInv, NEW s \in DOMAIN servers, closeServerChannel(s),
           late' = late
    PROVE  LateInv'
<1>a. /\ children' = children /\ acceptor' = "closed" /\ Last' = Last
      /\ \A b \in accepts' : \E a \in accepts : SameLoop(a, b)
                                 /\ b.st = IF a.st = "busy" THEN "err" ELSE a.st
  BY CloseFacts DEF LoopInv, Last
<1>b. servers[Last] = "closed" => servers'[Last] = "closed"
  BY DEF closeServerChannel, TypeOK, Last
<1>1. \A c \in late' : children'[c].server = Last' =>
          servers'[Last'] = "closed" /\ \A a \in accepts' : a.server = Last' => a.st = "err"
  BY <1>a, <1>b DEF LateInv, SameLoop
<1> QED
  BY <1>a, <1>1 DEF LateInv

LEMMA LateStep ==
    ASSUME TypeOK, LoopInv, LateInv, [Next]_vars
    PROVE  LateInv'
<1>a. /\ servers \in Seq({"open", "closed"}) /\ Last \in Nat
      /\ children \in [Children -> ChildType] /\ accepts \subseteq AcceptType
      /\ boss \in {Idle} \cup [at : Steps, child : Children]
      /\ late \subseteq Children
  BY DEF TypeOK, Last
<1>1. CASE Bind
  <2>1. Last' = Last + 1 /\ servers'[Last'] = "open"
    BY <1>1, <1>a DEF Bind, Last
  <2>2. \A c \in Children : children[c].st \notin Early => children'[c] = children[c]
    BY <1>1, <1>a, AcceptNextFacts DEF Bind, Early
  <2> QED
    BY <1>1, <2>1, <2>2, LateBind DEF Bind
<1>2. CASE BindFails \/ BindNoBoss
  <2>1. children' = children
    BY <1>2, NothingTracked DEF BindFails, BindNoBoss, LoopInv, ChildInv
  <2>2. Last' = Last + 1 /\ (servers'[Last'] = "closed" => acceptor' = "closed")
    BY <1>2, <1>a DEF BindFails, BindNoBoss, Last, MayBind
  <2> QED
    BY <1>2, <2>1, <2>2, LateBind DEF BindFails, BindNoBoss
<1>3. CASE BindCleansUp
  <2>1. Len(servers) \in DOMAIN servers
    BY <1>3, <1>a DEF BindCleansUp, LoopInv, ChildInv
  <2> QED
    BY <1>3, <2>1, LateClose DEF BindCleansUp
<1>4. ASSUME NEW s \in DOMAIN servers, CloseServer(s)
      PROVE  LateInv'
  BY <1>4, LateClose DEF CloseServer
<1>5. ASSUME NEW a \in accepts, NEW st \in {"ok", "err"}, AcceptDone(a, st)
      PROVE  LateInv'
  <2> DEFINE b == [a EXCEPT !.st = st]
  <2>1. b.server = a.server /\ a.st = "busy"
    BY <1>a, <1>5 DEF AcceptType, AcceptDone
  <2>2. accepts' = (accepts \ {a}) \cup {b}
        /\ UNCHANGED <<acceptor, servers, children, late>>
    BY <1>5 DEF AcceptDone, serving
  <2> HIDE DEF b
  <2> QED
    BY <2>1, <2>2 DEF LateInv, Last
<1>6. ASSUME NEW a \in accepts, HandleAcceptError(a)
      PROVE  LateInv'
  <2>1. accepts' \subseteq accepts /\ UNCHANGED <<acceptor, servers, late>>
    BY <1>6 DEF HandleAcceptError, serving
  <2>2. a.child \in Children /\ children[a.child].st = "waiting"
    BY <1>a DEF LoopInv, PlaceInv, AcceptType
  <2>3. \A c \in late : children'[c] = children[c]
    BY <1>6, <1>a, <2>2 DEF HandleAcceptError, LateInv, Early
  <2> QED
    BY <2>1, <2>3 DEF LateInv, Last
<1>7. ASSUME NEW a \in accepts, HandleAccept(a)
      PROVE  LateInv'
  <2>1. /\ accepts' = accepts \ {a} /\ a.st = "ok" /\ UNCHANGED <<acceptor, servers>>
        /\ late' = IF servers[a.server] = "closed" THEN late \cup {a.child} ELSE late
    BY <1>7 DEF HandleAccept, serving
  <2>2. /\ a.child \in Children /\ children[a.child].st = "waiting"
        /\ children[a.child].server = a.server
        /\ \A b \in accepts : b.server = a.server => b = a
    BY <1>a DEF LoopInv, PlaceInv, AcceptType
  <2>3. /\ \A c \in late : children'[c] = children[c]
        /\ children'[a.child].server = a.server /\ children'[a.child].st = "open"
    BY <1>7, <1>a, <2>2 DEF HandleAccept, LateInv, Early, ChildType
  <2>4. ASSUME NEW c \in late, children[c].server = Last PROVE a.server # Last
    BY <2>1, <2>4 DEF LateInv
  <2>5. \A c \in late' : children'[c].st \notin Early
    BY <2>1, <2>3 DEF LateInv, Early
  <2>6. \A c \in late' : children'[c].server = Last' =>
          servers'[Last'] = "closed" /\ \A b \in accepts' : b.server = Last' => b.st = "err"
    BY <2>1, <2>2, <2>3 DEF LateInv, Last
  <2>7. \A c, d \in late' :
          children'[c].server = Last' /\ children'[d].server = Last' => c = d
    BY <2>1, <2>3, <2>4 DEF LateInv, Last
  <2> QED
    BY <2>1, <2>5, <2>6, <2>7 DEF LateInv, Last
<1>8. CASE QuietStep
  <2>1. /\ UNCHANGED <<acceptor, servers, accepts, late>>
        /\ \A c \in Children :
              /\ children'[c].server = children[c].server
              /\ children[c].st \notin Early => children'[c].st \notin Early
    BY <1>8, QuietFacts
  <2> QED
    BY <1>a, <2>1 DEF LateInv, Last
<1>9. CASE StartEnds
  <2> DEFINE s == children[boss.child].server
  <2>1. /\ UNCHANGED <<acceptor, servers, late>> /\ AcceptNext(s, children, accepts)
    BY <1>9 DEF StartEnds, serving
  <2> HIDE DEF s
  <2>2. PICK st \in {"busy", "err"} :
        /\ Fresh \in Children /\ children[Fresh].st = "none"
        /\ children' = [children EXCEPT ![Fresh] = NewChild(s)]
        /\ accepts' = accepts \cup {NewAccept(s, st)}
        /\ st = "busy" <=> acceptor' = "listening"
    BY <2>1, AcceptNextFacts
  <2>3. NewAccept(s, st).server = s /\ NewAccept(s, st).st = st
    BY DEF NewAccept
  <2>4. \A c \in late : children'[c] = children[c]
    BY <1>a, <2>2 DEF LateInv, Early
  <2>5. \A c \in late : children[c].server = Last => servers # <<>> /\ acceptor = "closed"
    BY <1>a DEF LateInv, LoopInv, ChildInv, Early, Last
  <2>6. \A c \in late : children[c].server = Last =>
           \A a \in accepts' : a.server = Last => a.st = "err"
    BY <2>1, <2>2, <2>3, <2>5 DEF LateInv
  <2> QED
    BY <2>1, <2>4, <2>6 DEF LateInv, Last
<1>11. CASE UNCHANGED vars
  BY <1>11 DEF vars, serving, LateInv, Last
<1> QED
  BY <1>1, <1>2, <1>3, <1>4, <1>5, <1>6, <1>7, <1>8, <1>9, <1>11
  DEF Next, IOThread, QuietStep

(* Whatever the order in which a server is closed, asio finishes its accept *)
(* and the loop goes on, handleAccept starts at most one channel for a      *)
(* server that is closed and was bound last.                                *)
THEOREM OneLateChannel == Spec => []AtMostOneLate
<1>1. Init => LateInv
  BY DEF Init, LateInv
<1>2. TypeOK /\ LoopInv /\ LateInv /\ [Next]_vars => LateInv'
  BY LateStep
<1>3. TypeOK /\ LateInv => AtMostOneLate
  <2> SUFFICES ASSUME TypeOK, LateInv PROVE AtMostOneLate
    OBVIOUS
  <2> DEFINE L == {c \in late : children[c].server = Len(servers)}
  <2>1. CASE L = {}
    <3>1. Cardinality(L) = 0
      BY <2>1, FS_EmptySet
    <3> QED
      BY <3>1 DEF AtMostOneLate
  <2>2. CASE L # {}
    <3>1. PICK c : c \in L
      BY <2>2
    <3>2. L = {c}
      BY <3>1 DEF LateInv, Last
    <3>3. Cardinality(L) = 1
      BY <3>2, FS_Singleton
    <3> QED
      BY <3>3 DEF AtMostOneLate
  <2> QED
    BY <2>1, <2>2
<1> QED
  BY <1>1, <1>2, <1>3, LoopInvariant, PTL DEF Spec

-----------------------------------------------------------------------------
(***************************************************************************)
(* The events of a channel that lives on the acceptor's own thread: where  *)
(* start() is and the state of the socket tell which ones were fired.      *)
(***************************************************************************)
FiredUp == <<"open", "bound", "connected">>
FiredAll == <<"open", "bound", "connected", "disconnected", "unbound", "closed">>
(* What a channel that was closed in channelOpen, or until start() told of  *)
(* the connection, or later may have fired; without "closed" when close()   *)
(* has thrown.                                                              *)
OpenedEnds == {<<"open">>, <<"open", "closed">>}
BoundEnds == {<<"open", "bound">>, <<"open", "bound", "closed">>, <<"open", "closed", "bound">>}
ConnectedEnds == {FiredUp, FiredAll, <<"open", "bound", "closed", "connected">>,
                  <<"open", "closed", "bound", "connected">>}
LegalPrefixes == {<<>>} \cup OpenedEnds \cup BoundEnds \cup ConnectedEnds

(* start() of the channel c is at that point. *)
At(c, step) == boss.child = c /\ boss.at = step
(* start() of the channel c is over, or has nothing left to fire. *)
Started(c) == boss.child = c => boss.at = "connected"

OpenOrder(c) ==
    \/ At(c, "start") /\ children[c].events = <<>>
    \/ At(c, "opened") /\ children[c].events = <<"open">>
    \/ (At(c, "bound") \/ At(c, "checked")) /\ children[c].events = <<"open", "bound">>

ConnectedOrder(c) ==
    \/ At(c, "set") /\ children[c].events = <<"open", "bound">>
    \/ Started(c) /\ children[c].events = FiredUp

ClosedOrder(c) ==
    \/ At(c, "opened") /\ children[c].events \in OpenedEnds
    \/ (At(c, "bound") \/ At(c, "checked") \/ At(c, "set")) /\ children[c].events \in BoundEnds
    \/ Started(c) /\ children[c].events \in ConnectedEnds

ChildOrder(c) ==
    /\ children[c].st \in Early => children[c].events = <<>>
    /\ children[c].st = "open" => OpenOrder(c)
    /\ children[c].st = "connected" => ConnectedOrder(c)
    /\ children[c].st = "closed" => ClosedOrder(c)
    /\ children[c].st = "deleted" =>
          children[c].events \in LegalPrefixes /\ (boss.child = c => fault)

OrderInv == \A c \in Children : children[c].service = 0 => ChildOrder(c)

(* The sequences of OrderInv begin a legal order. *)
LEMMA OrderLegal ==
    ASSUME NEW e \in LegalPrefixes
    PROVE  \E order \in LegalOrders : Len(e) <= Len(order) /\ e = SubSeq(order, 1, Len(e))
<1>1. CASE e \in {<<>>, <<"open">>, <<"open", "bound">>, FiredUp, FiredAll}
  <2>1. Len(e) <= 6 /\ e = SubSeq(FiredAll, 1, Len(e)) /\ Len(FiredAll) = 6
    <3>1. CASE e = <<>>
      BY <3>1 DEF FiredAll
    <3>2. CASE e = <<"open">>
      BY <3>2 DEF FiredAll
    <3>3. CASE e = <<"open", "bound">>
      BY <3>3 DEF FiredAll
    <3>4. CASE e = FiredUp
      BY <3>4 DEF FiredAll, FiredUp
    <3>5. CASE e = FiredAll
      BY <3>5 DEF FiredAll
    <3> QED
      BY <1>1, <3>1, <3>2, <3>3, <3>4, <3>5
  <2> QED
    BY <2>1 DEF LegalOrders, FiredAll
<1>2. CASE e \in {<<"open", "bound", "closed">>, <<"open", "bound", "closed", "connected">>}
  <2> DEFINE o == <<"open", "bound", "closed", "connected">>
  <2>1. Len(e) <= Len(o) /\ e = SubSeq(o, 1, Len(e))
    <3>1. CASE e = <<"open", "bound", "closed">>
      BY <3>1
    <3>2. CASE e = <<"open", "bound", "closed", "connected">>
      BY <3>2
    <3> QED
      BY <1>2, <3>1, <3>2
  <2> QED
    BY <2>1 DEF LegalOrders
<1>3. CASE e \in {<<"open", "closed">>, <<"open", "closed", "bound">>,
                  <<"open", "closed", "bound", "connected">>}
  <2> DEFINE o == <<"open", "closed", "bound", "connected">>
  <2>1. Len(e) <= Len(o) /\ e = SubSeq(o, 1, Len(e))
    <3>1. CASE e = <<"open", "closed">>
      BY <3>1
    <3>2. CASE e = <<"open", "closed", "bound">>
      BY <3>2
    <3>3. CASE e = <<"open", "closed", "bound", "connected">>
      BY <3>3
    <3> QED
      BY <1>3, <3>1, <3>2, <3>3
  <2> QED
    BY <2>1 DEF LegalOrders
<1> QED
  BY <1>1, <1>2, <1>3 DEF LegalPrefixes, OpenedEnds, BoundEnds, ConnectedEnds

(* A channel that the step does not touch, while start() goes on with       *)
(* another one or with none.                                                *)
LEMMA OrderOther ==
    ASSUME NEW c \in Children, ChildOrder(c), children'[c] = children[c],
           fault => fault', boss' = boss \/ boss'.child # c,
           boss.child = c => boss.at = "connected" \/ boss' = boss
    PROVE  ChildOrder(c)'
<1>1. boss' = boss \/ (Started(c) /\ Started(c)' /\ \A st \in Steps : st # "connected" => ~At(c, st))
  BY DEF Started, At
<1> QED
  BY <1>1 DEF ChildOrder, OpenOrder, ConnectedOrder, ClosedOrder, At, Started, Steps

(* Two sequences of events with the same elements are the same. *)
LEMMA SameEvents ==
    ASSUME NEW s \in Seq(ChildEvents), NEW t \in Seq(ChildEvents), NEW n \in Nat,
           Len(s) = n, Len(t) = n, \A i \in 1 .. n : s[i] = t[i]
    PROVE  s = t
BY SeqEqual

(* The sequences of events that start() and close() put together. *)
LEMMA NextEvents ==
    /\ Append(<<>>, "open") = <<"open">>
    /\ Append(<<"open">>, "bound") = <<"open", "bound">>
    /\ Append(<<"open", "bound">>, "connected") = FiredUp
    /\ <<"open">> \o <<"closed">> = <<"open", "closed">>
    /\ <<"open", "bound">> \o <<"closed">> = <<"open", "bound", "closed">>
    /\ FiredUp \o <<"disconnected", "unbound", "closed">> = FiredAll
    /\ Append(<<"open", "closed">>, "bound") = <<"open", "closed", "bound">>
    /\ Append(<<"open", "bound", "closed">>, "connected")
          = <<"open", "bound", "closed", "connected">>
    /\ Append(<<"open", "closed", "bound">>, "connected")
          = <<"open", "closed", "bound", "connected">>
<1>1. Append(<<>>, "open") = <<"open">>
  OBVIOUS
<1>2. Append(<<"open">>, "bound") = <<"open", "bound">>
  <2> DEFINE s == Append(<<"open">>, "bound")
             t == <<"open", "bound">>
  <2>1. s \in Seq(ChildEvents) /\ Len(s) = 2 /\ s[1] = "open" /\ s[2] = "bound"
    BY DEF ChildEvents
  <2>2. t \in Seq(ChildEvents) /\ Len(t) = 2 /\ t[1] = "open" /\ t[2] = "bound"
    BY DEF ChildEvents
  <2> HIDE DEF s, t
  <2>3. s = t
    BY <2>1, <2>2, SameEvents
  <2> QED
    BY <2>3 DEF s, t
<1>3. Append(<<"open", "bound">>, "connected") = FiredUp
  <2> DEFINE s == Append(<<"open", "bound">>, "connected")
  <2>1. s \in Seq(ChildEvents) /\ Len(s) = 3 /\ s[1] = "open" /\ s[2] = "bound"
        /\ s[3] = "connected"
    BY DEF ChildEvents
  <2>2. FiredUp \in Seq(ChildEvents) /\ Len(FiredUp) = 3 /\ FiredUp[1] = "open"
        /\ FiredUp[2] = "bound" /\ FiredUp[3] = "connected"
    BY DEF ChildEvents, FiredUp
  <2> HIDE DEF s
  <2>3. s = FiredUp
    BY <2>1, <2>2, SameEvents
  <2> QED
    BY <2>3 DEF s
<1>4. <<"open">> \o <<"closed">> = <<"open", "closed">>
  <2> DEFINE s == <<"open">> \o <<"closed">>
             t == <<"open", "closed">>
  <2>1. s \in Seq(ChildEvents) /\ Len(s) = 2 /\ s[1] = "open" /\ s[2] = "closed"
    BY DEF ChildEvents
  <2>2. t \in Seq(ChildEvents) /\ Len(t) = 2 /\ t[1] = "open" /\ t[2] = "closed"
    BY DEF ChildEvents
  <2> HIDE DEF s, t
  <2>3. s = t
    BY <2>1, <2>2, SameEvents
  <2> QED
    BY <2>3 DEF s, t
<1>5. <<"open", "bound">> \o <<"closed">> = <<"open", "bound", "closed">>
  <2> DEFINE s == <<"open", "bound">> \o <<"closed">>
             t == <<"open", "bound", "closed">>
  <2>1. s \in Seq(ChildEvents) /\ Len(s) = 3 /\ s[1] = "open" /\ s[2] = "bound"
        /\ s[3] = "closed"
    BY DEF ChildEvents
  <2>2. t \in Seq(ChildEvents) /\ Len(t) = 3 /\ t[1] = "open" /\ t[2] = "bound"
        /\ t[3] = "closed"
    BY DEF ChildEvents
  <2> HIDE DEF s, t
  <2>3. s = t
    BY <2>1, <2>2, SameEvents
  <2> QED
    BY <2>3 DEF s, t
<1>6. FiredUp \o <<"disconnected", "unbound", "closed">> = FiredAll
  <2> DEFINE u == <<"disconnected", "unbound", "closed">>
  <2>1. FiredUp \in Seq(ChildEvents) /\ Len(FiredUp) = 3 /\ FiredUp[1] = "open"
        /\ FiredUp[2] = "bound" /\ FiredUp[3] = "connected"
    BY DEF ChildEvents, FiredUp
  <2>2. u \in Seq(ChildEvents) /\ Len(u) = 3 /\ u[1] = "disconnected"
        /\ u[2] = "unbound" /\ u[3] = "closed"
    BY DEF ChildEvents
  <2>3. FiredAll \in Seq(ChildEvents) /\ Len(FiredAll) = 6 /\ FiredAll[1] = "open"
        /\ FiredAll[2] = "bound" /\ FiredAll[3] = "connected"
        /\ FiredAll[4] = "disconnected" /\ FiredAll[5] = "unbound" /\ FiredAll[6] = "closed"
    BY DEF ChildEvents, FiredAll
  <2> HIDE DEF u
  <2> DEFINE s == FiredUp \o u
  <2>a. FiredUp \in Seq(ChildEvents) /\ u \in Seq(ChildEvents)
    BY <2>1, <2>2
  <2>4. /\ s \in Seq(ChildEvents) /\ Len(s) = Len(FiredUp) + Len(u)
        /\ \A i \in 1 .. Len(FiredUp) + Len(u) : s[i] =
              IF i <= Len(FiredUp) THEN FiredUp[i] ELSE u[i - Len(FiredUp)]
    BY <2>a, ConcatProperties
  <2> HIDE DEF s
  <2>5. Len(FiredUp) = 3 /\ Len(u) = 3
    BY <2>1, <2>2
  <2>6. s[1] = FiredUp[1] /\ s[2] = FiredUp[2] /\ s[3] = FiredUp[3]
        /\ s[4] = u[1] /\ s[5] = u[2] /\ s[6] = u[3] /\ Len(s) = 6
    BY <2>4, <2>5
  <2>7. s = FiredAll
    <3>1. \A i \in 1 .. 6 : s[i] = FiredAll[i]
      BY <2>1, <2>2, <2>3, <2>6
    <3> QED
      BY <3>1, <2>3, <2>4, <2>6, SameEvents
  <2> QED
    BY <2>7 DEF s, u
<1>7. Append(<<"open", "closed">>, "bound") = <<"open", "closed", "bound">>
  <2> DEFINE s == Append(<<"open", "closed">>, "bound")
             t == <<"open", "closed", "bound">>
  <2>1. s \in Seq(ChildEvents) /\ Len(s) = 3 /\ s[1] = "open" /\ s[2] = "closed"
        /\ s[3] = "bound"
    BY DEF ChildEvents
  <2>2. t \in Seq(ChildEvents) /\ Len(t) = 3 /\ t[1] = "open" /\ t[2] = "closed"
        /\ t[3] = "bound"
    BY DEF ChildEvents
  <2> HIDE DEF s, t
  <2>3. s = t
    BY <2>1, <2>2, SameEvents
  <2> QED
    BY <2>3 DEF s, t
<1>8. ASSUME NEW x \in {"bound", "closed"}, NEW y \in {"bound", "closed"}
      PROVE  Append(<<"open", x, y>>, "connected") = <<"open", x, y, "connected">>
  <2> DEFINE s == Append(<<"open", x, y>>, "connected")
             t == <<"open", x, y, "connected">>
  <2>1. s \in Seq(ChildEvents) /\ Len(s) = 4 /\ s[1] = "open" /\ s[2] = x
        /\ s[3] = y /\ s[4] = "connected"
    BY DEF ChildEvents
  <2>2. t \in Seq(ChildEvents) /\ Len(t) = 4 /\ t[1] = "open" /\ t[2] = x
        /\ t[3] = y /\ t[4] = "connected"
    BY DEF ChildEvents
  <2> HIDE DEF s, t
  <2>3. s = t
    BY <2>1, <2>2, SameEvents
  <2> QED
    BY <2>3 DEF s, t
<1> QED
  BY <1>1, <1>2, <1>3, <1>4, <1>5, <1>6, <1>7, <1>8

(* What the steps of start() do to the channel that they start. *)
LEMMA FireFacts ==
    ASSUME TypeOK, NEW c \in Children, NEW e, children' = [children EXCEPT ![c].events = e]
    PROVE  /\ children'[c].events = e
           /\ children'[c].st = children[c].st /\ children'[c].service = children[c].service
           /\ \A d \in Children \ {c} : children'[d] = children[d]
BY DEF TypeOK, ChildType

LEMMA StateFacts ==
    ASSUME TypeOK, NEW c \in Children, NEW st, children' = [children EXCEPT ![c].st = st]
    PROVE  /\ children'[c].st = st
           /\ children'[c].events = children[c].events
           /\ children'[c].service = children[c].service
           /\ \A d \in Children \ {c} : children'[d] = children[d]
BY DEF TypeOK, ChildType

LEMMA ProceedFacts ==
    ASSUME TypeOK, boss.at \in Steps, NEW step \in Steps, Proceed(step)
    PROVE  /\ boss'.at = step /\ boss'.child = boss.child /\ boss.child \in Children
BY DEF TypeOK, Proceed, Idle, Steps

(* start() and the channel that it starts. *)
LEMMA OrderStart ==
    ASSUME TypeOK, LoopInv, OrderInv, ~fault,
           StartOpen \/ StartBound \/ StartCheck \/ setConnected \/ StartConnected
    PROVE  OrderInv'
<1> DEFINE b == boss.child
<1>a. boss.at \in Steps
  BY DEF StartOpen, StartBound, StartCheck, setConnected, StartConnected, Steps
<1>b. /\ b \in Children /\ boss # Idle
      /\ children[b].st \in {"open", "connected", "closed", "deleted"}
  BY <1>a DEF TypeOK, LoopInv, ChildInv, Steps, Idle, ChildType
<1>c. /\ children[b].service = 0 => ChildOrder(b)
      /\ \A d \in Children \ {b} : children[d].service = 0 => ChildOrder(d)
  BY <1>b DEF OrderInv
<1>d. SUFFICES /\ boss'.child = b
               /\ \A d \in Children \ {b} : children'[d] = children[d]
               /\ children'[b].service = children[b].service
               /\ children[b].service = 0 => ChildOrder(b)'
  <2>1. \A d \in Children \ {b} : children[d].service = 0 => ChildOrder(d)'
    BY <1>c, <1>d, OrderOther
  <2> QED
    BY <1>b, <1>d, <2>1 DEF OrderInv
<1>1. CASE StartOpen
  <2>1. /\ boss.at = "start" /\ boss'.at = "opened" /\ boss'.child = b
        /\ children'[b].events = Append(children[b].events, "open")
        /\ children'[b].st = children[b].st /\ children'[b].service = children[b].service
        /\ \A d \in Children \ {b} : children'[d] = children[d]
    BY <1>1, <1>a, <1>b, FireFacts, ProceedFacts DEF StartOpen, Fire, Steps
  <2>2. children[b].service = 0 => children[b].st = "open" /\ children[b].events = <<>>
    BY <1>b, <1>c, <2>1 DEF ChildOrder, OpenOrder, ConnectedOrder, ClosedOrder, At, Started
  <2> QED
    BY <2>1, <2>2, NextEvents DEF ChildOrder, OpenOrder, At, Early
<1>2. ASSUME StartReturnsFalse, boss.at \in {"opened", "bound"}
      PROVE  /\ boss'.child = b
             /\ \A d \in Children \ {b} : children'[d] = children[d]
             /\ children'[b].service = children[b].service
             /\ children[b].service = 0 => ChildOrder(b)'
  <2>1. /\ children'[b].st = "deleted" /\ fault' /\ boss'.child = b
        /\ children'[b].events = children[b].events
        /\ children'[b].service = children[b].service
        /\ \A d \in Children \ {b} : children'[d] = children[d]
    BY <1>2, <1>b, StateFacts DEF StartReturnsFalse
  <2>2. children[b].service = 0 => children[b].events \in LegalPrefixes
    BY <1>b, <1>c DEF ChildOrder, OpenOrder, ConnectedOrder, ClosedOrder, LegalPrefixes,
                      OpenedEnds, BoundEnds, ConnectedEnds
  <2> QED
    BY <2>1, <2>2 DEF ChildOrder, Early
<1>e. children \in [Children -> ChildType]
  BY DEF TypeOK
<1>3. CASE StartBound
  <2>1. CASE /\ children' = [Caching(children, b, "local") EXCEPT ![b].events = Append(@, "bound")]
             /\ Proceed("bound")
    <3>1. /\ boss.at = "opened" /\ boss'.at = "bound" /\ boss'.child = b
          /\ children'[b].events = Append(children[b].events, "bound")
          /\ children'[b].st = children[b].st /\ children'[b].service = children[b].service
          /\ \A d \in Children \ {b} : children'[d] = children[d]
      BY <1>3, <1>a, <1>b, <1>e, <2>1, BoundFacts, ProceedFacts DEF StartBound, Steps
    <3>2. children[b].service = 0 =>
             \/ children[b].st = "open" /\ children[b].events = <<"open">>
             \/ children[b].st = "closed" /\ children[b].events \in OpenedEnds
             \/ children[b].st = "deleted" /\ fault
      BY <1>b, <1>c, <3>1
      DEF ChildOrder, OpenOrder, ConnectedOrder, ClosedOrder, At, Started
    <3>3. \A e \in OpenedEnds : Append(e, "bound") \in BoundEnds
      BY NextEvents DEF OpenedEnds, BoundEnds
    <3>4. children[b].service = 0 /\ children[b].st = "open" => ChildOrder(b)'
      BY <3>1, <3>2, NextEvents DEF ChildOrder, OpenOrder, At, Early
    <3>5. children[b].service = 0 /\ children[b].st = "closed" => ChildOrder(b)'
      BY <3>1, <3>2, <3>3 DEF ChildOrder, ClosedOrder, At, Early
    <3> QED
      BY <3>1, <3>2, <3>4, <3>5
  <2>2. CASE StartReturnsFalse
    BY <1>3, <1>2, <2>2 DEF StartBound
  <2> QED
    BY <1>3, <2>1, <2>2 DEF StartBound
<1>4. CASE StartCheck
  <2>1. CASE children' = Caching(children, b, "remote") /\ Proceed("checked")
    <3>1. /\ boss.at = "bound" /\ boss'.at = "checked" /\ boss'.child = b
          /\ children'[b].events = children[b].events
          /\ children'[b].st = children[b].st /\ children'[b].service = children[b].service
          /\ \A d \in Children \ {b} : children'[d] = children[d]
      BY <1>4, <1>a, <1>b, <1>e, <2>1, CachingFacts, ProceedFacts DEF StartCheck, Steps, Addresses
    <3>2. children[b].service = 0 =>
             \/ children[b].st = "open" /\ children[b].events = <<"open", "bound">>
             \/ children[b].st = "closed" /\ children[b].events \in BoundEnds
             \/ children[b].st = "deleted" /\ fault
      BY <1>b, <1>c, <3>1
      DEF ChildOrder, OpenOrder, ConnectedOrder, ClosedOrder, At, Started
    <3> QED
      BY <3>1, <3>2 DEF ChildOrder, OpenOrder, ClosedOrder, At, Early
  <2>2. CASE StartReturnsFalse
    BY <1>4, <1>2, <2>2 DEF StartCheck
  <2> QED
    BY <1>4, <2>1, <2>2 DEF StartCheck
<1>5. CASE setConnected
  <2> DEFINE st == IF children[b].st = "open" THEN "connected" ELSE children[b].st
  <2>1. /\ boss.at = "checked" /\ boss'.at = "set" /\ boss'.child = b
        /\ children' = [children EXCEPT ![b].st = st]
    BY <1>5, <1>a, ProceedFacts DEF setConnected, Steps
  <2>2. children[b].service = 0 =>
           \/ st = "connected" /\ children[b].events = <<"open", "bound">>
           \/ st = "closed" /\ children[b].events \in BoundEnds
    BY <1>b, <1>c, <2>1
    DEF ChildOrder, OpenOrder, ConnectedOrder, ClosedOrder, At, Started
  <2> HIDE DEF st
  <2>3. /\ children'[b].events = children[b].events /\ children'[b].st = st
        /\ children'[b].service = children[b].service
        /\ \A d \in Children \ {b} : children'[d] = children[d]
    BY <1>b, <2>1, StateFacts
  <2> QED
    BY <2>1, <2>2, <2>3 DEF ChildOrder, ConnectedOrder, ClosedOrder, At, Early
<1>6. CASE StartConnected
  <2>1. /\ boss.at = "set" /\ boss'.at = "connected" /\ boss'.child = b
        /\ children'[b].events = Append(children[b].events, "connected")
        /\ children'[b].st = children[b].st /\ children'[b].service = children[b].service
        /\ \A d \in Children \ {b} : children'[d] = children[d]
    BY <1>6, <1>a, <1>b, FireFacts, ProceedFacts DEF StartConnected, Fire, Steps
  <2>2. children[b].service = 0 =>
           \/ children[b].st = "connected" /\ children[b].events = <<"open", "bound">>
           \/ children[b].st = "closed" /\ children[b].events \in BoundEnds
    BY <1>b, <1>c, <2>1
    DEF ChildOrder, OpenOrder, ConnectedOrder, ClosedOrder, At, Started
  <2>3. \A e \in BoundEnds : Append(e, "connected") \in ConnectedEnds
    BY NextEvents DEF BoundEnds, ConnectedEnds
  <2>4. children[b].service = 0 /\ children[b].st = "connected" => ChildOrder(b)'
    BY <2>1, <2>2, NextEvents DEF ChildOrder, ConnectedOrder, Started, Early
  <2>5. children[b].service = 0 /\ children[b].st = "closed" => ChildOrder(b)'
    BY <2>1, <2>2, <2>3 DEF ChildOrder, ClosedOrder, Started, Early
  <2> QED
    BY <2>1, <2>2, <2>4, <2>5
<1> QED
  BY <1>1, <1>3, <1>4, <1>5, <1>6

(* A handler closes a channel: on the acceptor's thread that is between two *)
(* events of start().                                                       *)
LEMMA OrderClose ==
    ASSUME TypeOK, LoopInv, OrderInv, NEW c \in Children, CloseChild(c)
    PROVE  OrderInv'
<1>a. /\ boss' = boss /\ fault' = fault /\ children[c].st \in {"open", "connected"}
      /\ children[c].service = 0 => boss.at \in {"idle", "opened", "bound", "connected"}
      /\ children[c].events # <<>>
  BY DEF CloseChild, isOpen
<1>b. children[c].service = 0 =>
        /\ ChildOrder(c)
        /\ \/ /\ children[c].st = "open"
              /\ \/ At(c, "opened") /\ children[c].events = <<"open">>
                 \/ At(c, "bound") /\ children[c].events = <<"open", "bound">>
           \/ /\ children[c].st = "connected"
              /\ Started(c) /\ children[c].events = FiredUp
  BY <1>a DEF OrderInv, ChildOrder, OpenOrder, ConnectedOrder, At, Started
<1>c. SUFFICES /\ \A d \in Children \ {c} : children'[d] = children[d]
               /\ children'[c].service = children[c].service
               /\ children[c].service = 0 => ChildOrder(c)'
  <2>1. \A d \in Children \ {c} : children[d].service = 0 => ChildOrder(d)'
    BY <1>a, <1>c, OrderOther DEF OrderInv
  <2> QED
    BY <1>c, <2>1 DEF OrderInv
<1>1. CASE children' = CloseThrows(children, c)
  <2>1. /\ children'[c].st = "closed" /\ children'[c].events = children[c].events
        /\ children'[c].service = children[c].service
        /\ \A d \in Children \ {c} : children'[d] = children[d]
    BY <1>1, StateFacts DEF CloseThrows
  <2> QED
    BY <1>a, <1>b, <2>1 DEF ChildOrder, ClosedOrder, At, Started, Early, OpenedEnds, BoundEnds,
                            ConnectedEnds
<1>2. CASE children' = Closed(children, c)
  <2> DEFINE e == children[c].events \o LastEvents(children[c].st)
  <2>1. children' = [children EXCEPT ![c] = [children[c] EXCEPT !.st = "closed", !.events = e]]
    BY <1>2 DEF Closed
  <2>2. children[c].service = 0 =>
          \/ At(c, "opened") /\ e = <<"open", "closed">>
          \/ At(c, "bound") /\ e = <<"open", "bound", "closed">>
          \/ Started(c) /\ e = FiredAll
    BY <1>b, NextEvents DEF LastEvents
  <2> HIDE DEF e
  <2>3. /\ children'[c].st = "closed" /\ children'[c].events = e
        /\ children'[c].service = children[c].service
        /\ \A d \in Children \ {c} : children'[d] = children[d]
    BY <2>1 DEF TypeOK, ChildType
  <2> QED
    BY <1>a, <2>2, <2>3 DEF ChildOrder, ClosedOrder, At, Started, Early, OpenedEnds, BoundEnds,
                            ConnectedEnds
<1> QED
  BY <1>1, <1>2 DEF CloseChild

LEMMA OrderStep ==
    ASSUME TypeOK, LoopInv, OrderInv, [Next]_vars
    PROVE  OrderInv'
<1>a. /\ children \in [Children -> ChildType] /\ accepts \subseteq AcceptType
      /\ \A c \in Children : c # 0
  BY ServerAssumption DEF TypeOK, Children
<1>1. ASSUME UNCHANGED <<children, boss, fault>>
      PROVE  OrderInv'
  BY <1>1 DEF OrderInv, ChildOrder, OpenOrder, ConnectedOrder, ClosedOrder, At, Started
<1>2. ASSUME NEW s, AcceptNext(s, children, accepts), fault' = fault,
             boss' = boss \/ (boss' = Idle /\ boss.at = "connected")
      PROVE  OrderInv'
  <2>1. PICK f \in Children : children' = [children EXCEPT ![f] = NewChild(s)]
    BY <1>2, AcceptNextFacts
  <2>2. /\ children'[f].st = "waiting" /\ children'[f].events = <<>>
        /\ \A d \in Children \ {f} : children'[d] = children[d]
    BY <1>a, <2>1 DEF NewChild
  <2>3. \A d \in Children \ {f} : children[d].service = 0 => ChildOrder(d)'
    BY <1>2, <1>a, <2>2, OrderOther DEF OrderInv, Idle
  <2>4. ChildOrder(f)'
    BY <2>2 DEF ChildOrder, Early
  <2> QED
    BY <2>2, <2>3, <2>4 DEF OrderInv
<1>3. CASE Bind
  BY <1>2, <1>3 DEF Bind
<1>4. CASE BindFails \/ BindNoBoss
  <2>1. UNCHANGED <<children, boss, fault>>
    BY <1>4, NothingTracked DEF BindFails, BindNoBoss, LoopInv, ChildInv
  <2> QED
    BY <1>1, <2>1
<1>5. CASE BindCleansUp \/ \E s \in DOMAIN servers : CloseServer(s)
  <2>1. UNCHANGED <<boss, fault>> /\ children' = ClosedAndDeleted(children)
    BY <1>5 DEF BindCleansUp, CloseServer, closeServerChannel
  <2> QED
    BY <1>1, <2>1, NothingTracked DEF LoopInv, ChildInv
<1>6. ASSUME NEW a \in accepts, NEW st \in {"ok", "err"}, AcceptDone(a, st)
      PROVE  OrderInv'
  BY <1>1, <1>6 DEF AcceptDone
<1>7. ASSUME NEW a \in accepts, HandleAcceptError(a) \/ HandleAccept(a)
      PROVE  OrderInv'
  <2>1. /\ a.child \in Children /\ children[a.child].st = "waiting"
        /\ boss = Idle /\ fault' = fault
        /\ \/ HandleAcceptError(a) /\ children' = [children EXCEPT ![a.child].st = "deleted"]
              /\ boss' = boss
           \/ HandleAccept(a) /\ children' = [children EXCEPT ![a.child].st = "open"]
              /\ boss' = [at |-> "start", child |-> a.child]
    BY <1>7, <1>a DEF HandleAcceptError, HandleAccept, LoopInv, PlaceInv, AcceptType
  <2>2. /\ \A d \in Children \ {a.child} : children'[d] = children[d]
        /\ children'[a.child].events = children[a.child].events
        /\ children'[a.child].service = children[a.child].service
        /\ \/ children'[a.child].st = "deleted" /\ boss' = Idle
           \/ children'[a.child].st = "open" /\ boss'.child = a.child /\ boss'.at = "start"
    BY <2>1, StateFacts
  <2>3. \A d \in Children \ {a.child} : children[d].service = 0 => ChildOrder(d)'
    BY <1>a, <2>1, <2>2, OrderOther DEF OrderInv, Idle
  <2>4. children[a.child].service = 0 => children[a.child].events = <<>>
    BY <2>1 DEF OrderInv, ChildOrder, Early
  <2>5. children[a.child].service = 0 => ChildOrder(a.child)'
    BY <1>a, <2>1, <2>2, <2>4 DEF ChildOrder, OpenOrder, At, Early, LegalPrefixes, Idle
  <2> QED
    BY <2>2, <2>3, <2>5 DEF OrderInv
<1>8. CASE ~fault /\ (StartOpen \/ StartBound \/ StartCheck \/ setConnected \/ StartConnected)
  BY <1>8, OrderStart
<1>9. CASE StartEnds
  BY <1>2, <1>9 DEF StartEnds
<1>10. ASSUME NEW c \in Children, CloseChild(c)
       PROVE  OrderInv'
  BY <1>10, OrderClose
<1>11. CASE UNCHANGED vars
  BY <1>1, <1>11 DEF vars
<1>12. ASSUME NEW c \in Children, NEW which \in Addresses, ReadAddress(c, which)
       PROVE  OrderInv'
  <2>1. UNCHANGED <<boss, fault>> /\ children' = Caching(children, c, which)
    BY <1>12 DEF ReadAddress
  <2>2. \A d \in Children : /\ children'[d].st = children[d].st
                            /\ children'[d].service = children[d].service
                            /\ children'[d].events = children[d].events
    BY <1>a, <2>1, CachingFacts
  <2> QED
    BY <2>1, <2>2 DEF OrderInv, ChildOrder, OpenOrder, ConnectedOrder, ClosedOrder, At, Started
<1> QED
  BY <1>3, <1>4, <1>5, <1>6, <1>7, <1>8, <1>9, <1>10, <1>11, <1>12 DEF Next, IOThread

(* A channel that is started and closed on the acceptor's thread fires its  *)
(* events in the order of the life cycle, whichever handler closes it and   *)
(* whatever start() has already fired then; start() goes on after the close *)
(* only with its own events, and only if a handler had read the addresses.  *)
THEOREM EventsInOrder == Spec => []SameThreadOrder
<1>1. Init => OrderInv
  BY DEF Init, OrderInv, ChildOrder, NoChild, Early
<1>2. TypeOK /\ LoopInv /\ OrderInv /\ [Next]_vars => OrderInv'
  BY OrderStep
<1>3. TypeOK /\ OrderInv => SameThreadOrder
  <2> SUFFICES ASSUME TypeOK, OrderInv, NEW c \in Children, children[c].service = 0
               PROVE  children[c].events \in LegalPrefixes
    BY OrderLegal DEF SameThreadOrder
  <2>1. children[c].st \in {"none", "waiting", "open", "connected", "closed", "deleted"}
    BY DEF TypeOK, ChildType
  <2> QED
    BY <2>1 DEF OrderInv, ChildOrder, OpenOrder, ConnectedOrder, ClosedOrder, LegalPrefixes,
                Early, OpenedEnds, BoundEnds, ConnectedEnds
<1> QED
  BY <1>1, <1>2, <1>3, LoopInvariant, PTL DEF Spec
=============================================================================
