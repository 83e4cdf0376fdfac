------------------------------ MODULE Timeouts ------------------------------
(***************************************************************************)
(* The timer of one I/O thread (AsioDeadlineTimer, AsioDeadlineTimeout)    *)
(* and the handlers that use it on one channel: IdleStateHandler with its  *)
(* three monitors, ReadTimeoutHandler and WriteTimeoutHandler.             *)
(*                                                                         *)
(* A timeout is "waiting" until its deadline, then "queued": asio has put  *)
(* its handler on the queue of the I/O thread, and cancel() no longer      *)
(* reaches it.  The timer keeps every timeout in a vector for ever; only   *)
(* the ones whose handler is still to run are kept in `timeouts`.          *)
(***************************************************************************)
EXTENDS Integers, FiniteSetsExt

CONSTANTS
    Writes,        \* the messages written through the WriteTimeoutHandler
    Configured,    \* the idle times considered, in the unit of the constructor
    PerMilli,      \* units per millisecond
    WriteMillis,   \* timeoutMillis of the WriteTimeoutHandler
    AddPoints,     \* when handlers may be added: "before", "during" or "after"
                   \* the channelOpen event
    Pointers,      \* what the uninitialised task pointers may hold
    MaxLag,        \* the I/O thread runs an expiry at most MaxLag late
    MaxTime,       \* bound of the clock
    MaxChanges     \* bound of the number of handlers added or removed

Handlers == {"idle", "read"}
IdleMonitors == {"reader", "writer", "all"}
Monitors == IdleMonitors \cup {"readTimeout"}
HandlerOf(m) == IF m \in IdleMonitors THEN "idle" ELSE "read"
MonitorsOf(hs) == {m \in Monitors : HandlerOf(m) \in hs}

ASSUME TimeoutsAssumption ==
    /\ Configured \subseteq [Monitors -> Nat]
    /\ PerMilli \in Nat \ {0} /\ WriteMillis \in Nat
    /\ AddPoints \subseteq {"before", "during", "after"}
    /\ Pointers \subseteq {"null", "garbage"}
    /\ MaxLag \in Nat /\ MaxTime \in Nat /\ MaxChanges \in Nat
    /\ Writes \cap Monitors = {}

VARIABLES
    now,        \* get_system_time()
    phase,      \* of the channel: "building" (pipeline not attached), "open", "closed"
    installed,  \* the handlers in the pipeline
    period,     \* the idle time of each monitor in milliseconds, 0: disabled
    pointer,    \* the three task pointers of the idle handler
    timer,      \* the handlers whose timer pointer is set
    timeouts,   \* the timeouts whose handler is still to run
    lastRead, lastWrite,    \* of each handler
    future,     \* the future of each write
    reported,   \* when each monitor last reported
    stopped,    \* the timer was stopped
    changes,    \* handlers added or removed so far
    fault       \* a deleted or never created object was used

channel == <<phase, installed, changes>>
handler == <<pointer, timer, lastRead, lastWrite>>
vars == <<now, period, channel, handler, timeouts, future, reported, stopped, fault>>

(* of: whose timeout; held: the handler's TimeoutPtr, or for a write the    *)
(* listener of its future, refers to it; dangling: the task, context or     *)
(* future its handler uses is destroyed.                                    *)
TimeoutSet == [of : Monitors \cup Writes, at : Nat, st : {"waiting", "queued"},
               held : BOOLEAN, dangling : BOOLEAN]

(* The types of the variables. *)
TypeOK ==
    /\ now \in 0 .. MaxTime
    /\ phase \in {"building", "open", "closed"}
    /\ installed \subseteq Handlers
    /\ period \in [Monitors -> Nat]
    /\ pointer \in {"null", "garbage", "task"}
    /\ timer \subseteq Handlers
    /\ timeouts \subseteq TimeoutSet
    /\ lastRead \in [Handlers -> Nat]
    /\ lastWrite \in Nat
    /\ future \in [Writes -> {"none", "pending", "success", "failure"}]
    /\ reported \in [Monitors -> Nat]
    /\ stopped \in BOOLEAN
    /\ changes \in 0 .. MaxChanges
    /\ fault \in BOOLEAN

(* The constructors round a positive time up to one millisecond, except the *)
(* one of "all", where the test and the assignment name the wrong variable. *)
Millis(m, c) ==
    LET ms == c \div PerMilli
    IN  IF c > 0 /\ ms = 0 /\ m # "all" THEN 1 ELSE ms

Init ==
    /\ now = 0
    /\ phase = "building"
    /\ installed = {}
    /\ \E conf \in Configured : period = [m \in Monitors |-> Millis(m, conf[m])]
    /\ pointer \in Pointers
    /\ timer = {}
    /\ timeouts = {}
    /\ lastRead = [h \in Handlers |-> 0]
    /\ lastWrite = 0
    /\ future = [w \in Writes |-> "none"]
    /\ reported = [m \in Monitors |-> 0]
    /\ stopped = FALSE
    /\ changes = 0
    /\ fault = FALSE

-----------------------------------------------------------------------------
(* AsioDeadlineTimer and AsioDeadlineTimeout, as functions of the timeouts. *)

(* The TimeoutPtrs of the monitors ms no longer refer to their timeouts. *)
Unheld(ts, ms) == {[t EXCEPT !.held = @ /\ t.of \notin ms] : t \in ts}

(* What the expiries of the monitors ms use is deleted. *)
Dangling(ts, ms) == {[t EXCEPT !.dangling = @ \/ t.of \in ms] : t \in ts}

(* Mutant of Fresh: the deadline is taken from the wrong side of now. *)
Fresh_Past(m, delay) ==
    [of |-> m, at |-> delay - now, st |-> "waiting", held |-> TRUE, dangling |-> FALSE]
Fresh(m, delay) ==
    [of |-> m, at |-> now + delay, st |-> "waiting", held |-> TRUE, dangling |-> FALSE]

(* A new timeout for each monitor in the domain of delays, whose handler's  *)
(* pointer moves to it.                                                     *)
newTimeout(ts, delays) ==
    Unheld(ts, DOMAIN delays) \cup {Fresh(m, delays[m]) : m \in DOMAIN delays}

(* One after the whole period of the monitor. *)
newPeriods(ts, ms) == newTimeout(ts, [m \in ms |-> period[m]])

cancel(ts, ms) == {t \in ts : ~(t.of \in ms /\ t.held /\ t.st = "waiting")}

stop(ts) == {t \in ts : t.st # "waiting"}

-----------------------------------------------------------------------------
(* initialize() and destroy() of upstream handlers hs, as functions of the  *)
(* timeouts.  The idle handler creates its tasks if its pointers are null,  *)
(* uses what they point to, and deletes them in destroy().                  *)
Enabled(hs) == {m \in MonitorsOf(hs) : period[m] > 0}
initialize(ts, hs) == newPeriods(ts, Enabled(hs))

destroy(ts, hs) ==
    Dangling(Unheld(cancel(ts, MonitorsOf(hs)), MonitorsOf(hs)), MonitorsOf(hs \cap {"idle"}))

(* remove() deletes the context that the expiries of the handler refer to. *)
ContextDeleted(ts, h) == Dangling(ts, MonitorsOf({h}))

(* A ReadTimeoutHandler without a timeout initialises nothing. *)
Used(hs) == {h \in hs : h = "idle" \/ period["readTimeout"] > 0}

Initialize(hs, ts) ==
    /\ timeouts' = initialize(ts, hs)
    /\ lastRead' = [h \in Handlers |-> IF h \in Used(hs) THEN now ELSE lastRead[h]]
    /\ lastWrite' = IF "idle" \in hs THEN now ELSE lastWrite
    /\ timer' = timer \cup Used(hs)
    /\ pointer' = IF "idle" \in hs /\ pointer = "null" THEN "task" ELSE pointer
    /\ fault' = ("idle" \in hs /\ Enabled({"idle"}) # {} /\ pointer = "garbage")

Destroyed(hs) ==
    /\ timer' = timer \ (hs \cap {"idle"})
    /\ pointer' = IF "idle" \in hs THEN "null" ELSE pointer
    /\ fault' = (fault \/ ("idle" \in hs /\ pointer = "garbage"))

Destroy(hs, ts) ==
    /\ timeouts' = destroy(ts, hs)
    /\ Destroyed(hs)

-----------------------------------------------------------------------------
(* The channel is attached to its pipeline and channelOpen reaches the      *)
(* handlers.  One that an earlier handler adds on this occasion is          *)
(* initialised by beforeAdd, and again when the event gets to it.           *)
ChannelOpen ==
    /\ phase = "building"
    /\ phase' = "open"
    /\ \E added \in SUBSET (Handlers \ installed) :
         /\ added = {} \/ "during" \in AddPoints
         /\ changes + Cardinality(added) <= MaxChanges
         /\ changes' = changes + Cardinality(added)
         /\ installed' = installed \cup added
         /\ Initialize(installed \cup added, initialize(timeouts, added))
    /\ UNCHANGED <<now, period, future, reported, stopped>>

(* addLast and the others: beforeAdd initialises if the pipeline is attached. *)
Add(h) ==
    /\ h \notin installed
    /\ changes < MaxChanges
    /\ (IF phase = "building" THEN "before" ELSE "after") \in AddPoints
    /\ installed' = installed \cup {h}
    /\ changes' = changes + 1
    /\ IF phase = "building" THEN UNCHANGED <<handler, timeouts, fault>>
       ELSE Initialize({h}, timeouts)
    /\ UNCHANGED <<now, phase, period, future, reported, stopped>>

(* remove(), in a pipeline that holds other handlers too: beforeRemove, then *)
(* the context is deleted.                                                  *)
Remove(h) ==
    /\ h \in installed
    /\ changes < MaxChanges
    /\ installed' = installed \ {h}
    /\ changes' = changes + 1
    /\ timeouts' = ContextDeleted(destroy(timeouts, {h}), h)
    /\ Destroyed({h})
    /\ UNCHANGED <<now, phase, period, lastRead, lastWrite, future, reported, stopped>>

(* The channel is closed: channelClosed reaches the handlers. *)
Close ==
    /\ phase = "open"
    /\ phase' = "closed"
    /\ Destroy(installed, timeouts)
    /\ UNCHANGED <<now, installed, changes, period, lastRead, lastWrite, future,
                   reported, stopped>>

(* releaseExternalResources() of a handler. *)
Release(h) ==
    /\ h \in timer
    /\ ~stopped
    /\ stopped' = TRUE
    /\ timeouts' = stop(timeouts)
    /\ UNCHANGED <<now, period, channel, handler, future, reported, fault>>

messageReceived ==
    /\ phase = "open"
    /\ lastRead' = [h \in Handlers |-> IF h \in installed THEN now ELSE lastRead[h]]
    /\ UNCHANGED <<now, period, channel, pointer, timer, lastWrite, timeouts, future,
                   reported, stopped, fault>>

-----------------------------------------------------------------------------
(* The WriteTimeoutHandler and the completion of writes.  The bound         *)
(* reference to the future is one into the event, which is destroyed when   *)
(* the write call returns.                                                  *)
writeRequested(w) ==
    /\ phase = "open" /\ future[w] = "none"
    /\ future' = [future EXCEPT ![w] = "pending"]
    /\ timeouts' =
         IF WriteMillis = 0 THEN timeouts
         ELSE timeouts \cup {[Fresh(w, WriteMillis) EXCEPT !.dangling = TRUE]}
    /\ UNCHANGED <<now, period, channel, handler, reported, stopped, fault>>

(* The user registers a listener of its own on the future that the write    *)
(* returned.  The future has one slot for functions, so that the listener   *)
(* that holds the timeout is gone.                                          *)
setListener(w) ==
    /\ future[w] = "pending"
    /\ timeouts' = Unheld(timeouts, {w})
    /\ UNCHANGED <<now, period, channel, handler, future, reported, stopped, fault>>

(* Mutant of cancelTimeout: the listener does nothing. *)
cancelTimeout_Nothing(ts, w) == ts

cancelTimeout(ts, w) == cancel(ts, {w})

(* The I/O thread completes a write of `amount` bytes: the listener, if it  *)
(* is still there, cancels the timeout, and the writeCompleted event passes *)
(* the idle handler.                                                        *)
WriteEnds(w, amount) ==
    /\ future[w] = "pending"
    /\ future' = [future EXCEPT ![w] = IF phase = "open" THEN "success" ELSE "failure"]
    /\ timeouts' = cancelTimeout(timeouts, w)
    /\ lastWrite' = IF amount > 0 /\ phase = "open" /\ "idle" \in installed
                    THEN now ELSE lastWrite
    /\ UNCHANGED <<now, period, channel, pointer, timer, lastRead, reported,
                   stopped, fault>>

-----------------------------------------------------------------------------
(* Time passes, but the I/O thread is never more than MaxLag behind. *)
Tick ==
    /\ now < MaxTime /\ phase # "building"
    /\ \A t \in timeouts : now < t.at + MaxLag
    /\ now' = now + 1
    /\ UNCHANGED <<period, channel, handler, timeouts, future, reported, stopped, fault>>

(* The deadline has passed: the handler is put on the queue. *)
Expire(t) ==
    /\ t.st = "waiting" /\ t.at <= now
    /\ timeouts' = (timeouts \ {t}) \cup {[t EXCEPT !.st = "queued"]}
    /\ UNCHANGED <<now, period, channel, handler, future, reported, stopped, fault>>

(* The last activity that a monitor looks at. *)
lastActivity(m) ==
    CASE m = "reader" -> lastRead["idle"]
      [] m = "writer" -> lastWrite
      [] m = "all" -> Max({lastRead["idle"], lastWrite})
      [] m = "readTimeout" -> lastRead["read"]

nextDelay_Never(m) == 0                      \* mutant: the time read is not used
nextDelay(m) == period[m] - (now - lastActivity(m))

(* Activity occurred before the timeout: a new one with a shorter delay.    *)
Rearmed_Not(ts, m) == ts                                       \* mutant
Rearmed_FullPeriod(ts, m) == newPeriods(ts, {m})               \* mutant
Rearmed(ts, m) == newTimeout(ts, [x \in {m} |-> nextDelay(m)])

(* Idle: a new timeout first, and then the event goes upstream, where a     *)
(* handler may close the channel.                                           *)
Report_First(ts, m) ==                      \* mutant: the event goes first
    /\ reported' = [reported EXCEPT ![m] = now]
    /\ \/ /\ timeouts' = newPeriods(ts, {m})
          /\ UNCHANGED <<phase, pointer, timer, fault>>
       \/ /\ phase' = "closed"
          /\ timeouts' = Dangling(newPeriods(ts, {m}), IdleMonitors)
          /\ Destroyed(installed)

Report(ts, m) ==
    /\ reported' = [reported EXCEPT ![m] = now]
    /\ \/ /\ timeouts' = newPeriods(ts, {m})
          /\ UNCHANGED <<phase, pointer, timer, fault>>
       \/ /\ phase' = "closed"
          /\ Destroy(installed, newPeriods(ts, {m}))

(* run() of the three idle tasks and handleReadTimeout.  With a deleted     *)
(* task or context anything may happen; when the channel is closed, also    *)
(* nothing.                                                                 *)
RunMonitor(t) ==
    LET ts == timeouts \ {t}
        m == t.of
    IN  /\ t.st = "queued" /\ m \in Monitors
        /\ \/ /\ t.dangling
              /\ fault' = TRUE
              /\ timeouts' = ts
              /\ UNCHANGED <<phase, pointer, timer, reported>>
           \/ /\ phase # "open"
              /\ timeouts' = ts
              /\ UNCHANGED <<phase, pointer, timer, reported, fault>>
           \/ /\ ~t.dangling /\ phase = "open" /\ nextDelay(m) > 0
              /\ timeouts' = Rearmed(ts, m)
              /\ UNCHANGED <<phase, pointer, timer, reported, fault>>
           \/ ~t.dangling /\ phase = "open" /\ nextDelay(m) <= 0 /\ Report(ts, m)
        /\ UNCHANGED <<now, installed, changes, period, lastRead, lastWrite, future,
                       stopped>>

(* handleWriteTimeout: the dead reference may still read as the future, and *)
(* then setFailure decides; the exception event may close the channel.      *)
RunWriteTimeout(t) ==
    LET ts == timeouts \ {t}
        w == t.of
    IN  /\ t.st = "queued" /\ w \in Writes
        /\ \/ /\ phase = "open"
              /\ fault' = TRUE
              /\ timeouts' = ts
              /\ UNCHANGED <<phase, pointer, timer, future>>
           \/ /\ phase # "open" \/ future[w] # "pending"
              /\ timeouts' = ts
              /\ UNCHANGED <<phase, pointer, timer, future, fault>>
           \/ /\ phase = "open" /\ future[w] = "pending"
              /\ future' = [future EXCEPT ![w] = "failure"]
              /\ \/ timeouts' = ts /\ UNCHANGED <<phase, pointer, timer, fault>>
                 \/ phase' = "closed" /\ Destroy(installed, ts)
        /\ UNCHANGED <<now, installed, changes, period, lastRead, lastWrite, reported, stopped>>

-----------------------------------------------------------------------------
Next ==
    /\ ~fault                      \* after a fault there is nothing to say
    /\ \/ ChannelOpen \/ Close \/ messageReceived \/ Tick
       \/ \E h \in Handlers : Add(h) \/ Remove(h) \/ Release(h)
       \/ \E w \in Writes :
            writeRequested(w) \/ setListener(w) \/ \E n \in 0 .. 1 : WriteEnds(w, n)
       \/ \E t \in timeouts : Expire(t) \/ RunMonitor(t) \/ RunWriteTimeout(t)

Spec == Init /\ [][Next]_vars

-----------------------------------------------------------------------------
(* The channel is open and the monitor's handler is in its pipeline. *)
Watching(m) ==
    /\ phase = "open" /\ HandlerOf(m) \in installed /\ period[m] > 0
    /\ ~stopped /\ ~fault

(* While a monitor watches, exactly one of its timeouts is on its way, and  *)
(* it is the one that destroy would cancel: initialize, the re-arming in    *)
(* run() and the removal of handlers neither lose nor double the chain.     *)
OneTimeout ==
    \A m \in Monitors : Watching(m) =>
        LET live == {t \in timeouts : t.of = m /\ ~t.dangling}
        IN  Cardinality(live) = 1 /\ \A t \in live : t.held

(* Silence is reported: whatever reads, writes, removals and re-additions   *)
(* happened before, a monitor that watches has seen activity or has         *)
(* reported within one period and the lag of the I/O thread.                *)
DetectedInTime ==
    \A m \in Monitors : Watching(m) =>
        now - Max({lastActivity(m), reported[m]}) <= period[m] + MaxLag

(* A monitor reports only after a whole period of silence, and not twice    *)
(* within a period, also when a queued expiry outlives a removal.           *)
ReportsSpaced ==
    [][\A m \in Monitors : reported'[m] # reported[m] =>
         /\ now - lastActivity(m) >= period[m]
         /\ now - reported[m] >= period[m]]_vars

(* destroy() and remove() leave behind no timeout that could expire later   *)
(* on a deleted task or context; only an expiry that was queued already     *)
(* still runs.                                                              *)
CancelReaches ==
    \A t \in timeouts : t.of \in Monitors /\ t.dangling => t.st = "queued"

(* An open channel has for every unanswered write a timeout that will fail  *)
(* it, unless the timer was stopped, and a write that was answered leaves   *)
(* no timeout that could still expire, if the user's setListener did not    *)
(* take the place of the listener that cancels it.                          *)
WriteTimeoutMet ==
    \A w \in Writes :
        /\ future[w] = "pending" /\ phase = "open" /\ WriteMillis > 0 /\ ~stopped /\ ~fault
              => \E t \in timeouts : t.of = w
        /\ future[w] \in {"success", "failure"} =>
              \A t \in timeouts : t.of = w /\ t.held => t.st = "queued"
=============================================================================
