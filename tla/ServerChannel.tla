---------------------------- MODULE ServerChannel ----------------------------
(***************************************************************************)
(* The server side: ServerBootstrap::bind, the server channels of one      *)
(* factory, the acceptor they share, the accept loop of the sink (Boss),   *)
(* the accepted channels and the pool that assigns them to I/O threads.    *)
(*                                                                         *)
(* The acceptor and the loop belong to I/O thread 0.  An accepted channel  *)
(* is started there, step by step, while its own I/O thread may already    *)
(* run what handlers posted to it; if its own thread is thread 0, handlers *)
(* act on the spot, between the steps.                                     *)
(***************************************************************************)
EXTENDS Integers, Sequences, FiniteSets

CONSTANTS
    PoolSize,       \* io_services in the pool
    PeersLeave,     \* may a peer be gone before its channel is started?
    MaxServers,     \* bound: calls of bind
    MaxChildren     \* bound: channels created for accepting

ASSUME ServerAssumption ==
    /\ PoolSize \in Nat \ {0}
    /\ PeersLeave \subseteq BOOLEAN /\ PeersLeave # {}
    /\ MaxServers \in Nat /\ MaxChildren \in Nat

Servers == 1 .. MaxServers
Children == 1 .. MaxChildren

VARIABLES
    acceptor,     \* "closed", "open" or "listening"
    servers,      \* the state of each server channel, in the order of creation
    caller,       \* ServerBootstrap::bind: "idle", or "failed" and not yet cleaned up
    accepts,      \* the asynchronous accepts whose handler is still to run
    boss,         \* handleAccept on I/O thread 0: which child, and how far start() is
    children,     \* the accepted channels
    tracked,      \* clildrenChannels of the sink
    nextIndex,    \* nextIOserviceIndex
    broken,       \* servers whose loop ended with an error of accept
    late,         \* children started after their server was closed
    fault         \* a deleted channel was used

serving == <<acceptor, servers, caller>>
vars == <<serving, accepts, boss, children, tracked, nextIndex, broken, late, fault>>

Steps == {"start", "opened", "bound", "checked", "set", "connected"}
ChildEvents == {"open", "bound", "connected", "disconnected", "unbound", "closed"}
AcceptType == [server : Servers, child : Children, st : {"busy", "ok", "err"}]
Addresses == {"local", "remote"}
ChildType == [st : {"none", "waiting", "open", "connected", "closed", "deleted"},
              server : 0 .. MaxServers, service : 0 .. PoolSize - 1,
              cached : SUBSET Addresses,      \* localAddress, remoteAddress
              events : Seq(ChildEvents)]

Idle == [at |-> "idle", child |-> 0]
NoChild == [st |-> "none", server |-> 0, service |-> 0, cached |-> {}, events |-> <<>>]

(* The types; the index of the pool always names one of its services.       *)
TypeOK ==
    /\ acceptor \in {"closed", "open", "listening"}
    /\ servers \in Seq({"open", "closed"})
    /\ caller \in {"idle", "failed"}
    /\ accepts \subseteq AcceptType
    /\ boss \in {Idle} \cup [at : Steps, child : Children]
    /\ children \in [Children -> ChildType]
    /\ tracked \subseteq Children
    /\ nextIndex \in 0 .. PoolSize - 1
    /\ broken \subseteq Servers
    /\ late \subseteq Children
    /\ fault \in BOOLEAN

(* The factory's constructor has taken the first service for the acceptor.  *)
Init ==
    /\ acceptor = "closed"
    /\ servers = <<>>
    /\ caller = "idle"
    /\ accepts = {}
    /\ boss = Idle
    /\ children = [c \in Children |-> NoChild]
    /\ tracked = {}
    /\ nextIndex = 1 % PoolSize
    /\ broken = {}
    /\ late = {}
    /\ fault = FALSE

-----------------------------------------------------------------------------
NextIndex_PastEnd == (nextIndex + 1) % (PoolSize + 1)      \* mutant
NextIndex == (nextIndex + 1) % PoolSize                    \* getIOService

(* A channel that waits for a connection to the server s. *)
NewChild(s) ==
    [st |-> "waiting", server |-> s, service |-> nextIndex, cached |-> {}, events |-> <<>>]

Unused == {c \in Children : children[c].st = "none"}
Fresh == CHOOSE c \in Unused : \A d \in Unused : c <= d

(* Mutant of AcceptNext: the accepted channel is made, but not handed over. *)
AcceptNext_NotArmed(s, cs, as) ==
    /\ children' = [cs EXCEPT ![Fresh] = NewChild(s)]
    /\ accepts' = as
    /\ nextIndex' = NextIndex

(* A channel for the next connection and the async_accept for it, which     *)
(* fails at once on a closed acceptor.                                      *)
AcceptNext(s, cs, as) ==
    /\ Unused # {}
    /\ children' = [cs EXCEPT ![Fresh] = NewChild(s)]
    /\ accepts' = as \cup {[server |-> s, child |-> Fresh,
                            st |-> IF acceptor' = "listening" THEN "busy" ELSE "err"]}
    /\ nextIndex' = NextIndex

-----------------------------------------------------------------------------
(* ServerBootstrap::bind: newChannel opens the acceptor (and throws if it   *)
(* is open already), and the Binder binds inside of channelOpen.            *)
MayBind == caller = "idle" /\ acceptor = "closed" /\ Len(servers) < MaxServers

Bind ==
    /\ MayBind
    /\ acceptor' = "listening"
    /\ servers' = Append(servers, "open")
    /\ AcceptNext(Len(servers) + 1, children, accepts)
    /\ UNCHANGED <<caller, boss, tracked, broken, late, fault>>

(* acceptor.bind or listen throws: the acceptor stays open. *)
BindFails ==
    /\ MayBind
    /\ acceptor' = "open"
    /\ servers' = Append(servers, "open")
    /\ caller' = "failed"
    /\ UNCHANGED <<accepts, boss, children, tracked, nextIndex, broken, late, fault>>

-----------------------------------------------------------------------------
isOpen(c) == children[c].st \in {"open", "connected"}

(* close() of an accepted channel on its own thread; when the shutdown of   *)
(* the connection or the close of the socket throws, the channel counts as  *)
(* closed and tells nobody.                                                 *)
LastEvents_Always(st) == <<"disconnected", "unbound", "closed">>      \* mutant
LastEvents(st) ==
    IF st = "connected" THEN <<"disconnected", "unbound", "closed">> ELSE <<"closed">>
Closed(cs, c) ==
    [cs EXCEPT ![c] = [cs[c] EXCEPT !.st = "closed",
                                    !.events = cs[c].events \o LastEvents(cs[c].st)]]
CloseThrows(cs, c) == [cs EXCEPT ![c].st = "closed"]

(* closeAcceptChannel deletes a channel that it finds in the map. *)
ClosedAndDeleted(cs) ==
    [c \in Children |->
        IF c \in tracked THEN [(IF isOpen(c) THEN Closed(cs, c)[c] ELSE cs[c])
                                  EXCEPT !.st = "deleted"]
        ELSE cs[c]]

(* Mutant of closeServerChannel: it leaves the acceptor to somebody else. *)
closeServerChannel_KeepsAcceptor(s) ==
    /\ servers' = [servers EXCEPT ![s] = "closed"]
    /\ children' = ClosedAndDeleted(children)
    /\ tracked' = {}
    /\ UNCHANGED <<acceptor, accepts>>

(* Mutant of closeServerChannel: the accept that waits is not aborted. *)
closeServerChannel_NoAbort(s) ==
    /\ acceptor' = "closed"
    /\ servers' = [servers EXCEPT ![s] = "closed"]
    /\ children' = ClosedAndDeleted(children)
    /\ tracked' = {}
    /\ UNCHANGED accepts

(* The acceptor is closed, whichever server channel uses it now, asio       *)
(* aborts the accept that waits, and the channels in the map are closed.    *)
closeServerChannel(s) ==
    /\ acceptor' = "closed"
    /\ accepts' = {[a EXCEPT !.st = IF @ = "busy" THEN "err" ELSE @] : a \in accepts}
    /\ servers' = [servers EXCEPT ![s] = "closed"]
    /\ children' = ClosedAndDeleted(children)
    /\ tracked' = {}

(* close() or unbind() of a server channel, from any thread. *)
CloseServer(s) ==
    /\ servers[s] = "open" \/ acceptor # "closed"
    /\ closeServerChannel(s)
    /\ UNCHANGED <<caller, boss, nextIndex, broken, late, fault>>

(* The channel was bound and the boss could not start: closeServerChannel   *)
(* closes the acceptor again.                                               *)
BindNoBoss ==
    /\ MayBind
    /\ servers' = Append(servers, "closed")
    /\ children' = ClosedAndDeleted(children)
    /\ tracked' = {}
    /\ caller' = "failed"
    /\ UNCHANGED <<acceptor, accepts, boss, nextIndex, broken, late, fault>>

(* A failed bind() closes its channel before it throws. *)
BindCleansUp ==
    /\ caller = "failed"
    /\ caller' = "idle"
    /\ closeServerChannel(Len(servers))
    /\ UNCHANGED <<boss, nextIndex, broken, late, fault>>

-----------------------------------------------------------------------------
(* asio finishes an accept: a connection is there, or an error. *)
AcceptDone(a, st) ==
    /\ a.st = "busy"
    /\ Cardinality(Unused) > 0
    /\ accepts' = (accepts \ {a}) \cup {[a EXCEPT !.st = st]}
    /\ UNCHANGED <<serving, boss, children, tracked, nextIndex, broken, late, fault>>

(* handleAccept with an error: the loop is over. *)
HandleAcceptError(a) ==
    /\ a.st = "err" /\ boss = Idle
    /\ accepts' = accepts \ {a}
    /\ children' = [children EXCEPT ![a.child].st = "deleted"]
    /\ broken' = broken \cup {a.server}
    /\ UNCHANGED <<serving, boss, tracked, nextIndex, late, fault>>

(* handleAccept with a connection: start() of the channel begins. *)
HandleAccept(a) ==
    /\ a.st = "ok" /\ boss = Idle
    /\ accepts' = accepts \ {a}
    /\ children' = [children EXCEPT ![a.child].st = "open"]
    /\ boss' = [at |-> "start", child |-> a.child]
    /\ late' = IF servers[a.server] = "closed" THEN late \cup {a.child} ELSE late
    /\ UNCHANGED <<serving, tracked, nextIndex, broken, fault>>

-----------------------------------------------------------------------------
(* start() of an accepted channel. *)
Fire(e) == children' = [children EXCEPT ![boss.child].events = Append(@, e)]
Proceed(step) == boss' = [boss EXCEPT !.at = step]
Starting == UNCHANGED <<serving, accepts, tracked, nextIndex, broken, late>>

(* getLocalAddress() and getRemoteAddress() ask the socket once and keep    *)
(* the answer; only while nothing is kept does a closed socket, or for the  *)
(* remote address a peer that is gone, make them invalid.                   *)
AddressValid(which, gone) ==
    \/ which \in children[boss.child].cached
    \/ isOpen(boss.child) /\ ~(which = "remote" /\ gone)
Caching(cs, c, which) == [cs EXCEPT ![c].cached = @ \cup {which}]

(* A handler or a user reads an address, from any thread. *)
ReadAddress(c, which) ==
    /\ isOpen(c) /\ children[c].events # <<>>
    /\ which \notin children[c].cached
    /\ children' = Caching(children, c, which)
    /\ UNCHANGED <<serving, accepts, boss, tracked, nextIndex, broken, late, fault>>

(* start() returns false: handleAccept deletes the channel and then asks it *)
(* for its id.                                                              *)
StartReturnsFalse ==
    /\ children' = [children EXCEPT ![boss.child].st = "deleted"]
    /\ fault' = TRUE
    /\ UNCHANGED boss

StartOpen ==
    /\ boss.at = "start"
    /\ Fire("open") /\ Proceed("opened")
    /\ Starting /\ UNCHANGED fault

StartBound ==
    /\ boss.at = "opened"
    /\ \/ /\ AddressValid("local", FALSE)
          /\ children' = [Caching(children, boss.child, "local")
                             EXCEPT ![boss.child].events = Append(@, "bound")]
          /\ Proceed("bound") /\ UNCHANGED fault
       \/ ~AddressValid("local", FALSE) /\ StartReturnsFalse
    /\ Starting

StartCheck ==
    /\ boss.at = "bound"
    /\ \E gone \in PeersLeave :
         \/ /\ AddressValid("remote", gone)
            /\ children' = Caching(children, boss.child, "remote")
            /\ Proceed("checked") /\ UNCHANGED fault
         \/ ~AddressValid("remote", gone) /\ StartReturnsFalse
    /\ Starting

setConnected ==
    /\ boss.at = "checked"
    /\ children' = [children EXCEPT ![boss.child].st = IF @ = "open" THEN "connected" ELSE @]
    /\ Proceed("set")
    /\ Starting /\ UNCHANGED fault

StartConnected ==
    /\ boss.at = "set"
    /\ Fire("connected") /\ Proceed("connected")
    /\ Starting /\ UNCHANGED fault

(* serverChildrenChannels() returns the map by value: the insertion changes *)
(* a copy.                                                                  *)
Inserted(c) == tracked

(* start() has armed the first read and returns; handleAccept puts the      *)
(* channel into the map and accepts the next connection.                    *)
StartEnds ==
    /\ boss.at = "connected"
    /\ boss' = Idle
    /\ tracked' = Inserted(boss.child)
    /\ UNCHANGED <<serving, broken, late, fault>>
    /\ AcceptNext(children[boss.child].server, children, accepts)

(* A handler, a user or a failing read closes an accepted channel.  On      *)
(* thread 0 this happens between the events of start(), on another thread   *)
(* at any time.                                                             *)
CloseChild(c) ==
    /\ isOpen(c) /\ children[c].events # <<>>
    /\ children[c].service = 0 => boss.at \in {"idle", "opened", "bound", "connected"}
    /\ \/ children' = Closed(children, c)
       \/ children' = CloseThrows(children, c)
    /\ UNCHANGED <<serving, accepts, boss, tracked, nextIndex, broken, late, fault>>

-----------------------------------------------------------------------------
IOThread ==
    \/ \E a \in accepts : HandleAccept(a) \/ HandleAcceptError(a)
    \/ StartOpen \/ StartBound \/ StartCheck \/ setConnected \/ StartConnected \/ StartEnds

Next ==
    /\ ~fault                      \* after a fault there is nothing to say
    /\ \/ Bind \/ BindFails \/ BindNoBoss \/ BindCleansUp
       \/ \E s \in DOMAIN servers : CloseServer(s)
       \/ \E a \in accepts, st \in {"ok", "err"} : AcceptDone(a, st)
       \/ \E c \in Children : CloseChild(c) \/ \E which \in Addresses : ReadAddress(c, which)
       \/ IOThread

Spec == Init /\ [][Next]_vars

(* I/O thread 0 does not stop, and neither does a bind() that failed. *)
FairSpec == Spec /\ WF_vars(~fault /\ IOThread) /\ WF_vars(~fault /\ BindCleansUp)

-----------------------------------------------------------------------------
Pending(s) == {a \in accepts : a.server = s}

(* While the acceptor listens, the loop of the server that was bound last   *)
(* accepts or starts exactly one connection, unless accept itself reported  *)
(* an error: closed children and the loops of closed servers, which may go  *)
(* on, neither end it nor double it.  A closed acceptor keeps no accept     *)
(* waiting.                                                                 *)
AcceptArmed ==
    /\ acceptor = "listening" =>
          LET s == Len(servers)
              own == Cardinality(Pending(s)) +
                       (IF boss # Idle /\ children[boss.child].server = s THEN 1 ELSE 0)
          IN  fault \/ s \in broken \/ own = 1
    /\ acceptor # "listening" => \A a \in accepts : a.st # "busy"

(* After a server channel was closed its loop starts at most one more       *)
(* channel, for the connection that asio had accepted before, as long as no *)
(* other server channel is bound to the acceptor (whose connections the old *)
(* loop may then serve).  This is what remains true of the comment in       *)
(* closeServerChannel; NoneStartedAfterClose below is the comment itself.   *)
AtMostOneLate ==
    Cardinality({c \in late : children[c].server = Len(servers)}) <= 1

(* What the comment in closeServerChannel (lines 254-256 of                 *)
(* AsioServerSocketPipelineSink.cpp) says: when the future of a close is    *)
(* notified, no new connection can be accepted any more, so that no channel *)
(* is started after it.                                                     *)
NoneStartedAfterClose == late = {}

LegalOrders == {<<"open", "bound", "connected", "disconnected", "unbound", "closed">>,
                <<"open", "bound", "closed", "connected">>,
                <<"open", "closed", "bound", "connected">>}

(* An accepted channel that lives on the acceptor's own thread fires its    *)
(* events in the order of the life cycle, whichever event a handler closes  *)
(* it in.  If the handler had read the addresses before, start() goes on    *)
(* with its own events after the close, but the channel is then never       *)
(* disconnected, unbound or closed once more.                               *)
SameThreadOrder ==
    \A c \in Children : children[c].service = 0 =>
        LET fired == children[c].events
        IN  \E order \in LegalOrders :
                Len(fired) <= Len(order) /\ fired = SubSeq(order, 1, Len(fired))

(* The loop of a closed server channel ends while the acceptor is closed:   *)
(* the pending accept and the channel that was created for it do not stay   *)
(* behind.                                                                  *)
AcceptLoopEnds ==
    \A s \in Servers :
        (s \in DOMAIN servers /\ servers[s] = "closed" /\ acceptor = "closed") ~>
            (fault \/ Pending(s) = {} \/ Unused = {} \/ acceptor # "closed")
=============================================================================
