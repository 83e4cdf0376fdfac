---------------------------- MODULE SocketChannel ----------------------------
(***************************************************************************)
(* AsioSocketChannel with its write queue and the client pipeline sink:    *)
(* one client channel, the user threads that call it, the I/O thread that  *)
(* runs its handlers and the asynchronous operations asio performs for it. *)
(*                                                                         *)
(* Calls made outside the I/O thread are posted to the io_service and run  *)
(* there in order (the sequence `posted`).  An asynchronous operation is   *)
(* "busy" until the system has finished it ("ok" or "err"); its handler    *)
(* runs some time later.  Each handler is one action, with everything it   *)
(* calls: the I/O thread runs one handler at a time.                       *)
(***************************************************************************)
EXTENDS Integers, Sequences, FiniteSets, SequencesExt

CONSTANTS
    Writes,          \* the messages users may write
    Sizes,           \* the assignments of sizes to them that are considered
    Orders,          \* may async_writes on the socket overtake each other?
    Budgets,         \* bounds: numbers of calls and of messages that arrive
    Low, High,       \* write buffer water marks
    Endpoints        \* number of addresses the resolver returns

BudgetType == [writes : Nat, reads : Nat, toggles : Nat, closes : Nat, disconnects : Nat]

ASSUME SocketAssumption ==
    /\ Sizes \subseteq [Writes -> Nat]
    /\ Orders \subseteq BOOLEAN
    /\ Budgets \subseteq BudgetType
    /\ Low \in Nat \ {0} /\ High \in Nat /\ Low <= High
    /\ Endpoints \in Nat \ {0}

VARIABLES
    size, inOrder, \* the sizes of the writes; async_writes end in order
    budget,        \* calls and arrivals still allowed
    state,         \* "open", "connected" or "closed" (setBound has no caller)
    socketOpen,    \* tcpSocket.is_open()
    left,          \* endpoints handleConnect has not tried yet
    readable,      \* interestOps & OP_READ
    wq,            \* writeQueue and highWaterMarkCounter
    net,           \* the asynchronous operations: connect, writes and reads
    posted,        \* calls handed to the I/O thread, oldest first
    future,        \* the future of each write
    sent,          \* writes whose bytes went to the network
    closeDone,     \* closeFuture is completed
    disconnects,   \* futures of disconnect() that are not completed
    events,        \* lifecycle events fired upstream, oldest first; "exception"
                   \* is the one that a close reports when the socket throws
    fault          \* poll() was called on an empty queue

parameters == <<size, inOrder>>
channel == <<state, socketOpen, closeDone, events>>
vars == <<parameters, budget, channel, left, readable, wq, net, posted, future, sent,
          disconnects, fault>>

isOpen == state # "closed"
isConnected == state = "connected"
isReadable == isOpen /\ readable      \* getInterestOps: OP_WRITE alone when closed

Statuses == {"busy", "ok", "err"}
Calls == [call : {"write", "handleWrite"}, w : Writes]
           \cup [call : {"close", "disconnect"}]
           \cup [call : {"interest"}, on : BOOLEAN]

(* ops are the queued writes, bytes is writeBufferSize, high is the         *)
(* highWaterMarkCounter; stalled: the last interest event of the two water  *)
(* marks was the one of the high mark.                                      *)
WriteQueues == [ops : Seq(Writes), bytes : Int, high : Int, stalled : BOOLEAN]
Operations == [conn : {"none", "done"} \cup Statuses,
               writing : Seq([w : Writes, st : Statuses]),
               busy : Nat, ok : Nat, err : Nat]     \* the async_read_somes

(* The types; `left` is never negative: handleConnect stops trying at the   *)
(* end of the resolver's addresses.                                         *)
TypeOK ==
    /\ size \in [Writes -> Nat]
    /\ inOrder \in BOOLEAN
    /\ budget \in BudgetType
    /\ state \in {"open", "connected", "closed"}
    /\ socketOpen \in BOOLEAN
    /\ left \in Nat
    /\ readable \in BOOLEAN
    /\ wq \in WriteQueues
    /\ net \in Operations
    /\ posted \in Seq(Calls)
    /\ future \in [Writes -> {"none", "pending", "success", "failure"}]
    /\ sent \subseteq Writes
    /\ closeDone \in BOOLEAN
    /\ disconnects \in Nat
    /\ events \in Seq({"connected", "disconnected", "unbound", "closed", "exception"})
    /\ fault \in BOOLEAN

Init ==
    /\ size \in Sizes
    /\ inOrder \in Orders
    /\ budget \in Budgets
    /\ state = "open"
    /\ socketOpen = FALSE
    /\ left = 0
    /\ readable = TRUE
    /\ wq = [ops |-> <<>>, bytes |-> 0, high |-> 0, stalled |-> FALSE]
    /\ net = [conn |-> "none", writing |-> <<>>, busy |-> 0, ok |-> 0, err |-> 0]
    /\ posted = <<>>
    /\ future = [w \in Writes |-> "none"]
    /\ sent = {}
    /\ closeDone = FALSE
    /\ disconnects = 0
    /\ events = <<>>
    /\ fault = FALSE

-----------------------------------------------------------------------------
(* The write queue: values, because its operations run inside handlers.     *)
plusWriteBufferSize(q, n) ==
    LET total == q.bytes + n
        crossed == total >= High /\ total - n < High
    IN  [ops |-> q.ops, bytes |-> total, high |-> IF crossed THEN q.high + 1 ELSE q.high,
         stalled |-> q.stalled \/ crossed]

(* Mutant of minusWriteBufferSize: leaving exactly the low mark is missed. *)
minusWriteBufferSize_OffByOne(q, n) ==
    LET total == q.bytes - n
        crossed == (total = 0 \/ total < Low) /\ total + n > Low
    IN  [ops |-> q.ops, bytes |-> total, high |-> IF crossed THEN q.high - 1 ELSE q.high,
         stalled |-> q.stalled /\ ~(crossed /\ isConnected)]

(* handleAtLowWaterMark fires its event only while the channel is connected.*)
minusWriteBufferSize(q, n) ==
    LET total == q.bytes - n
        crossed == (total = 0 \/ total < Low) /\ total + n >= Low
    IN  [ops |-> q.ops, bytes |-> total, high |-> IF crossed THEN q.high - 1 ELSE q.high,
         stalled |-> q.stalled /\ ~(crossed /\ isConnected)]

offer(q, w) == plusWriteBufferSize([q EXCEPT !.ops = Append(@, w)], size[w])

poll_KeepsSize(q) == [q EXCEPT !.ops = Tail(@)]     \* mutant
poll(q) == minusWriteBufferSize([q EXCEPT !.ops = Tail(@)], size[Head(q.ops)])

(* cleanUpWriteBuffer polls until one write is left, and fails the others.  *)
Cleaned(q) == IF q.ops = <<>> THEN <<>> ELSE Front(q.ops)
cleanUpWriteBuffer(q) ==
    LET after[n \in 0 .. Len(Cleaned(q))] == IF n = 0 THEN q ELSE poll(after[n - 1])
    IN  after[Len(Cleaned(q))]
FailCleaned(q, f) ==
    [w \in Writes |-> IF w \in Range(Cleaned(q)) THEN "failure" ELSE f[w]]

-----------------------------------------------------------------------------
(* tcpSocket.close(): asio aborts what it has not finished. *)
AbortedSt(st) == IF st = "busy" THEN "err" ELSE st
AbortedReads(n) == [conn |-> n.conn, writing |-> n.writing,
                    busy |-> 0, ok |-> n.ok, err |-> n.err + n.busy]
Aborted(n) ==
    [AbortedReads(n) EXCEPT
        !.conn = AbortedSt(n.conn),
        !.writing = [i \in DOMAIN n.writing |->
                        [w |-> n.writing[i].w, st |-> AbortedSt(n.writing[i].st)]]]

(* What close() fires: a channel is bound exactly while it is connected.    *)
Ending == IF isConnected THEN <<"disconnected", "unbound", "closed">> ELSE <<"closed">>

(* The two ways close(future) ends.  q, f and n are the write queue, the    *)
(* futures and the operations as the calling handler leaves them.           *)
CloseSucceeds(q, f, n) ==
    /\ socketOpen' = FALSE
    /\ events' = events \o Ending
    /\ wq' = [cleanUpWriteBuffer(q) EXCEPT !.stalled = q.stalled]   \* closed: no event
    /\ future' = FailCleaned(q, f)
    /\ net' = Aborted(n)

(* Nothing is cleaned when tcpSocket.shutdown() of a connected socket       *)
(* throws, which leaves the socket open, or tcpSocket.close(), which has    *)
(* aborted the operations; whether the socket counts as open then is asio's *)
(* own matter.                                                              *)
CloseThrows(q, f, n) ==
    /\ events' = Append(events, "exception")
    /\ wq' = q
    /\ future' = f
    /\ \/ isConnected /\ net' = n /\ UNCHANGED socketOpen
       \/ net' = Aborted(n) /\ socketOpen' \in BOOLEAN

(* `if (!isOpen() || !tcpSocket.is_open()) return;` leaves future alone.    *)
CloseRuns_Again == socketOpen                \* mutant: isOpen() is not asked
CloseRuns == isOpen /\ socketOpen

Close(q, f, n) ==
    IF CloseRuns
    THEN /\ state' = "closed"
         /\ closeDone' = TRUE
         /\ CloseSucceeds(q, f, n) \/ CloseThrows(q, f, n)
    ELSE wq' = q /\ future' = f /\ net' = n /\ UNCHANGED channel

-----------------------------------------------------------------------------
(* Calls of user threads: posted to the I/O thread, except connect().       *)
Spend(what) ==
    /\ ~fault
    /\ budget[what] > 0
    /\ budget' = [budget EXCEPT ![what] = @ - 1]

Write(w) ==
    /\ Spend("writes")
    /\ future[w] = "none"
    /\ future' = [future EXCEPT ![w] = "pending"]
    /\ posted' = Append(posted, [call |-> "write", w |-> w])
    /\ UNCHANGED <<parameters, channel, left, readable, wq, net, sent,
                   disconnects, fault>>

(* close() looks at closeFuture in the calling thread. *)
UserClose ==
    /\ Spend("closes")
    /\ ~closeDone
    /\ posted' = Append(posted, [call |-> "close"])
    /\ UNCHANGED <<parameters, channel, left, readable, wq, net, future, sent,
                   disconnects, fault>>

(* disconnect() and unbind(): a new future, to be completed by close(future)*)
Disconnect ==
    /\ Spend("disconnects")
    /\ disconnects' = disconnects + 1
    /\ posted' = Append(posted, [call |-> "disconnect"])
    /\ UNCHANGED <<parameters, channel, left, readable, wq, net, future, sent, fault>>

SetReadable(on) ==
    /\ Spend("toggles")
    /\ posted' = Append(posted, [call |-> "interest", on |-> on])
    /\ UNCHANGED <<parameters, channel, left, readable, wq, net, future, sent,
                   disconnects, fault>>

(* The sink's connect runs in the calling thread; async_connect opens the   *)
(* socket and tries the first endpoint.                                     *)
Connect ==
    /\ ~fault
    /\ net.conn = "none"
    /\ net' = [net EXCEPT !.conn = "busy"]
    /\ socketOpen' = TRUE
    /\ left' = Endpoints - 1
    /\ UNCHANGED <<parameters, budget, state, closeDone, events, readable, wq, posted,
                   future, sent, disconnects, fault>>

(* The address cannot be resolved.  The sink catches an Exception and       *)
(* closes the channel, whose socket is not open yet; boost's system_error   *)
(* is not an Exception and only becomes an exception event of the pipeline. *)
ConnectThrows ==
    /\ ~fault
    /\ net.conn = "none"
    /\ Close(wq, future, [net EXCEPT !.conn = "done"])
    /\ UNCHANGED <<parameters, budget, left, readable, posted, sent, disconnects, fault>>

-----------------------------------------------------------------------------
(* The I/O thread takes the oldest posted call. *)
IsNext(c) == ~fault /\ posted # <<>> /\ Head(posted).call = c

(* Mutant of RunWriteFails: the message is dropped without an answer. *)
RunWriteFails_Silently ==
    /\ IsNext("write")
    /\ ~isConnected
    /\ wq' = cleanUpWriteBuffer(wq)
    /\ future' = FailCleaned(wq, future)
    /\ posted' = Tail(posted)
    /\ UNCHANGED <<parameters, budget, channel, left, readable, net, sent, disconnects,
                   fault>>

(* write(evt) on a channel that is not connected: the queue is cleaned and  *)
(* the write fails.                                                         *)
RunWriteFails ==
    /\ IsNext("write")
    /\ ~isConnected
    /\ wq' = cleanUpWriteBuffer(wq)
    /\ future' = [FailCleaned(wq, future) EXCEPT ![Head(posted).w] = "failure"]
    /\ posted' = Tail(posted)
    /\ UNCHANGED <<parameters, budget, channel, left, readable, net, sent, disconnects,
                   fault>>

(* Mutant of RunWrite: for an empty message no handleWrite is posted. *)
RunWrite_NoPost ==
    /\ IsNext("write")
    /\ isConnected
    /\ LET w == Head(posted).w
       IN  /\ wq' = offer(wq, w)
           /\ posted' = Tail(posted)
           /\ net' = IF size[w] = 0 THEN net
                     ELSE [net EXCEPT !.writing = Append(@, [w |-> w, st |-> "busy"])]
    /\ UNCHANGED <<parameters, budget, channel, left, readable, future, sent,
                   disconnects, fault>>

(* write(evt): queued and handed to asio at once, even if another           *)
(* async_write is under way; an empty message posts handleWrite instead.    *)
RunWrite ==
    /\ IsNext("write")
    /\ isConnected
    /\ LET w == Head(posted).w
       IN  /\ wq' = offer(wq, w)
           /\ IF size[w] = 0
              THEN /\ posted' = Append(Tail(posted), [call |-> "handleWrite", w |-> w])
                   /\ UNCHANGED net
              ELSE /\ posted' = Tail(posted)
                   /\ net' = [net EXCEPT !.writing = Append(@, [w |-> w, st |-> "busy"])]
    /\ UNCHANGED <<parameters, budget, channel, left, readable, future, sent,
                   disconnects, fault>>

RunClose ==
    /\ IsNext("close")
    /\ posted' = Tail(posted)
    /\ Close(wq, future, net)
    /\ UNCHANGED <<parameters, budget, left, readable, sent, disconnects, fault>>

(* The future of disconnect() is completed only if close(future) runs.      *)
RunDisconnect ==
    /\ IsNext("disconnect")
    /\ posted' = Tail(posted)
    /\ Close(wq, future, net)
    /\ disconnects' = IF CloseRuns THEN disconnects - 1 ELSE disconnects
    /\ UNCHANGED <<parameters, budget, left, readable, sent, fault>>

StartRead(n) == IF socketOpen THEN [n EXCEPT !.busy = @ + 1] ELSE [n EXCEPT !.err = @ + 1]

(* Mutant of RunInterest: a resumed channel does not start to read again. *)
RunInterest_NoRead ==
    /\ IsNext("interest")
    /\ posted' = Tail(posted)
    /\ readable' = Head(posted).on
    /\ UNCHANGED <<parameters, budget, channel, left, wq, net, future, sent, disconnects,
                   fault>>

(* setInterestOps(future, ops): resuming starts a read, whether or not one  *)
(* is still outstanding; on a socket that is not open the read fails.       *)
RunInterest ==
    /\ IsNext("interest")
    /\ posted' = Tail(posted)
    /\ readable' = Head(posted).on
    /\ net' = IF isOpen /\ ~readable /\ Head(posted).on THEN StartRead(net) ELSE net
    /\ UNCHANGED <<parameters, budget, channel, left, wq, future, sent, disconnects,
                   fault>>

-----------------------------------------------------------------------------
(* What the system does with the outstanding operations (external). *)
WriteEnds(i, st) ==
    /\ ~fault
    /\ net.writing[i].st = "busy"
    /\ inOrder => \A j \in 1 .. (i - 1) : net.writing[j].st # "busy"
    /\ net' = [net EXCEPT !.writing[i].st = st]
    /\ sent' = IF st = "ok" THEN sent \cup {net.writing[i].w} ELSE sent
    /\ UNCHANGED <<parameters, budget, channel, left, readable, wq, posted, future,
                   disconnects, fault>>

ReadArrives ==
    /\ net.busy > 0
    /\ Spend("reads")
    /\ net' = [net EXCEPT !.busy = @ - 1, !.ok = @ + 1]
    /\ UNCHANGED <<parameters, channel, left, readable, wq, posted, future, sent,
                   disconnects, fault>>

ReadFails ==
    /\ ~fault
    /\ net.busy > 0
    /\ net' = [net EXCEPT !.busy = @ - 1, !.err = @ + 1]
    /\ UNCHANGED <<parameters, budget, channel, left, readable, wq, posted, future, sent,
                   disconnects, fault>>

ConnectEnds(st) ==
    /\ ~fault
    /\ net.conn = "busy"
    /\ net' = [net EXCEPT !.conn = st]
    /\ UNCHANGED <<parameters, budget, channel, left, readable, wq, posted, future, sent,
                   disconnects, fault>>

-----------------------------------------------------------------------------
(* The write that poll() returns. *)
Polled_Newest(q) == Last(q.ops)              \* mutant: the one just queued
Polled(q) == Head(q.ops)

(* handleWrite: whichever write has ended, the oldest queued one is         *)
(* completed.  n are the operations without the one that has ended.  poll() *)
(* of an empty deque is undefined behaviour: nothing is said beyond it.     *)
HandleWrite(ok, n) ==
    LET q == poll(wq)
        f == [future EXCEPT ![Polled(wq)] = IF ok THEN "success" ELSE "failure"]
    IN  IF wq.ops = <<>>
        THEN fault' = TRUE /\ net' = n /\ UNCHANGED <<wq, future, channel>>
        ELSE /\ IF ok \/ closeDone
                THEN wq' = q /\ future' = f /\ net' = n /\ UNCHANGED channel
                ELSE Close(q, f, n)
             /\ UNCHANGED fault

(* RemoveAt, written out: the operation i is over. *)
Without(s, i) == [j \in 1 .. (Len(s) - 1) |-> IF j < i THEN s[j] ELSE s[j + 1]]

HandleAsyncWrite(i) ==
    /\ ~fault
    /\ net.writing[i].st # "busy"
    /\ inOrder => i = 1
    /\ HandleWrite(net.writing[i].st = "ok",
                   [net EXCEPT !.writing = Without(@, i)])
    /\ UNCHANGED <<parameters, budget, left, readable, posted, sent, disconnects>>

HandleEmptyWrite ==
    /\ IsNext("handleWrite")
    /\ posted' = Tail(posted)
    /\ sent' = sent \cup {Head(posted).w}
    /\ HandleWrite(TRUE, net)
    /\ UNCHANGED <<parameters, budget, left, readable, disconnects>>

(* handleRead: the message goes upstream and reading goes on ...            *)
HandleReadOk ==
    /\ ~fault
    /\ net.ok > 0
    /\ LET n == [net EXCEPT !.ok = @ - 1]
       IN  net' = IF readable THEN StartRead(n) ELSE n
    /\ UNCHANGED <<parameters, budget, channel, left, readable, wq, posted, future, sent,
                   disconnects, fault>>

(* ... or an error closes the channel, unless closeFuture is done.          *)
HandleReadError ==
    /\ ~fault
    /\ net.err > 0
    /\ LET n == [net EXCEPT !.err = @ - 1]
       IN  IF closeDone
           THEN net' = n /\ UNCHANGED <<wq, future, channel>>
           ELSE Close(wq, future, n)
    /\ UNCHANGED <<parameters, budget, left, readable, posted, sent, disconnects, fault>>

setConnected_Always == "connected"   \* mutant: CLOSED is not respected
setConnected == IF isOpen THEN "connected" ELSE state

HandleConnected ==
    /\ ~fault
    /\ net.conn = "ok"
    /\ state' = setConnected
    /\ events' = Append(events, "connected")
    /\ LET n == [net EXCEPT !.conn = "done"]
       IN  net' = IF isReadable THEN StartRead(n) ELSE n
    /\ UNCHANGED <<parameters, budget, socketOpen, closeDone, left, readable, wq, posted,
                   future, sent, disconnects, fault>>

(* Mutant of HandleConnectNext: the end of the endpoints is not noticed. *)
HandleConnectNext_PastEnd ==
    /\ ~fault
    /\ net.conn = "err"
    /\ left' = left - 1
    /\ socketOpen' = TRUE
    /\ net' = [AbortedReads(net) EXCEPT !.conn = "busy"]
    /\ UNCHANGED <<parameters, budget, state, closeDone, events, readable, wq, posted,
                   future, sent, disconnects, fault>>

(* handleConnect with an error and another endpoint: tcpSocket.close(), and *)
(* async_connect opens the socket again.  The error may be the abort that   *)
(* closing the channel has caused.                                          *)
HandleConnectNext ==
    /\ ~fault
    /\ net.conn = "err"
    /\ left > 0
    /\ left' = left - 1
    /\ socketOpen' = TRUE
    /\ net' = [AbortedReads(net) EXCEPT !.conn = "busy"]
    /\ UNCHANGED <<parameters, budget, state, closeDone, events, readable, wq, posted,
                   future, sent, disconnects, fault>>

HandleConnectFailed ==
    /\ ~fault
    /\ net.conn = "err"
    /\ left = 0
    /\ Close(wq, future, [net EXCEPT !.conn = "done"])
    /\ UNCHANGED <<parameters, budget, left, readable, posted, sent, disconnects, fault>>

-----------------------------------------------------------------------------
User ==
    \/ \E w \in Writes : Write(w)
    \/ UserClose
    \/ Disconnect
    \/ \E on \in BOOLEAN : SetReadable(on)
    \/ Connect

System ==
    \/ \E i \in DOMAIN net.writing, st \in {"ok", "err"} : WriteEnds(i, st)
    \/ \E st \in {"ok", "err"} : ConnectEnds(st)

RunPosted ==
    \/ RunWriteFails
    \/ RunWrite
    \/ RunClose
    \/ RunDisconnect
    \/ RunInterest
    \/ HandleEmptyWrite

Handlers ==
    \/ \E i \in DOMAIN net.writing : HandleAsyncWrite(i)
    \/ HandleReadOk
    \/ HandleReadError
    \/ HandleConnected
    \/ HandleConnectNext
    \/ HandleConnectFailed

Next ==
    \/ User \/ ConnectThrows
    \/ System \/ ReadArrives \/ ReadFails
    \/ RunPosted \/ Handlers

Spec == Init /\ [][Next]_vars

(* The I/O thread runs whatever is ready, posted calls and handlers alike,  *)
(* and the system ends every write and connect, well or with an error.      *)
Fairness == WF_vars(RunPosted) /\ WF_vars(Handlers) /\ WF_vars(System)

FairSpec == Spec /\ Fairness

-----------------------------------------------------------------------------
(***************************************************************************)
(* Properties.                                                             *)
(***************************************************************************)

BytesOf(ops) ==
    LET sum[i \in 0 .. Len(ops)] == IF i = 0 THEN 0 ELSE sum[i - 1] + size[ops[i]]
    IN  sum[Len(ops)]

(* writeBufferSize is the number of bytes of the queued writes, through     *)
(* completions in any order, clean-ups and closes.                          *)
SizeAccounting == wq.bytes = BytesOf(wq.ops)

Waiting(call) == Cardinality({i \in DOMAIN posted : posted[i].call = call})

(* Until the channel is closed every queued write has one handleWrite still *)
(* to come, whatever its size and the order in which asio ends the writes:  *)
(* no handler polls an empty queue and no queued write is left behind.      *)
HandlersMatchQueue ==
    isOpen => Len(wq.ops) = Len(net.writing) + Waiting("handleWrite")

(* If asio ends the writes in order and none is empty, a write whose future *)
(* is successful while the channel is open has really been transferred.     *)
SuccessMeansSentWhileOpen ==
    (isOpen /\ inOrder /\ \A w \in Writes : size[w] > 0) =>
        \A w \in Writes : future[w] = "success" => w \in sent

(* A user that was told to stop at the high water mark is told when the     *)
(* queue falls below the low one: there is never a stalled user with an     *)
(* almost empty queue, whatever highWaterMarkCounter has become.            *)
NoStalledWriter == (isConnected /\ wq.stalled) => wq.bytes >= Low

(* A connected channel with OP_READ set always has a read under way, also   *)
(* after reading was suspended and resumed at any moment.                   *)
ReadArmed ==
    (isConnected /\ readable /\ socketOpen) => net.busy + net.ok + net.err > 0

(* The lifecycle seen upstream: a channel ends once, however often it is    *)
(* closed and whatever fails; channelDisconnected comes only after          *)
(* channelConnected, and channelUnbound and channelClosed follow it at once.*)
LifecycleOrder ==
    LET At(e) == {i \in DOMAIN events : events[i] = e}
    IN  /\ \A i, j \in At("closed") \cup At("exception") : i = j
        /\ \A i \in At("disconnected") :
              /\ i + 1 \in At("unbound")
              /\ i + 2 \in At("closed")
              /\ \E j \in At("connected") : j < i
        /\ \A i \in At("unbound") : i - 1 \in At("disconnected")

(* Channel::close: once a channel is closed it never becomes connected or   *)
(* open again, although a connect or a read may still succeed afterwards.   *)
ClosedForever == [][closeDone => closeDone' /\ state' = "closed"]_vars

(* Every write is answered: its future succeeds or fails. *)
EveryWriteAnswered ==
    \A w \in Writes : (future[w] = "pending") ~> (future[w] # "pending" \/ fault)

(* ChannelFuture::isSuccess is true only of a write that was transferred.   *)
SuccessMeansSent == \A w \in Writes : future[w] = "success" => w \in sent
=============================================================================
