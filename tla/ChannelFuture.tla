---------------------------- MODULE ChannelFuture ----------------------------
(***************************************************************************)
(* DefaultChannelFuture: the result of an asynchronous channel operation,  *)
(* shared by the threads that complete it, listen to it and wait for it.   *)
(*                                                                         *)
(* Every critical section of `mutex` is one action.  Listeners are called  *)
(* outside the mutex, so each call is an action of its own and everything  *)
(* another thread does may fall between two of them.                       *)
(*                                                                         *)
(* A registration is the number of the addListener/setListener call that   *)
(* made it.  The std::lists are only appended to and filtered, so a list   *)
(* is the set of its registrations in increasing order.                    *)
(***************************************************************************)
EXTENDS Naturals, FiniteSets

CONSTANTS
    Threads,           \* threads that call the future
    Completers,        \* those that complete it or report progress
    Registrars,        \* those that add and remove listeners
    Waiters,           \* those that wait for it
    Listeners,         \* ChannelFutureListener objects
    ProgressListeners, \* those that are ChannelFutureProgressListeners
    Cancellable,       \* the constructor's flag
    MaxRegs,           \* bound: listener registrations
    CallBudgets,       \* bound: the numbers of calls the threads may make
    MaxDisturbances    \* bound: interruptions and spurious wake-ups

ASSUME FutureAssumption ==
    /\ IsFiniteSet(Threads)
    /\ Completers \cup Registrars \cup Waiters \subseteq Threads
    /\ ProgressListeners \subseteq Listeners
    /\ Cancellable \in BOOLEAN
    /\ MaxRegs \in Nat /\ CallBudgets \subseteq [Threads -> Nat] /\ MaxDisturbances \in Nat

NULL == 0
Regs == 1 .. MaxRegs
Function == "function"          \* the callee of a setListener registration
ASSUME FunctionAssumption == Function \notin Listeners

VARIABLES
    done, cause,
    firstListener,     \* a registration or NULL
    otherListeners,    \* set of registrations
    functionListener,  \* a registration or NULL
    progressListeners, \* set of registrations
    waiters,           \* the code's count of waiting threads
    waitSet,           \* threads blocked on the condition variable
    interrupted,       \* threads with an interruption requested
    expired,           \* threads whose timed wait has run out
    pc,                \* where each thread is in the code
    todo,              \* registrations a thread still has to call
    callee,            \* the listener of each registration
    status,            \* what became of each registration
    told,              \* calls of operationComplete per registration
    progressed,        \* registrations that were sent a progress event
    calls,             \* calls each thread may still make
    disturbances

locals == <<pc, todo, calls>>
waiting == <<waiters, waitSet, interrupted, expired, disturbances>>
lists == <<firstListener, otherListeners, functionListener, progressListeners>>
history == <<callee, status, told, progressed>>
vars == <<done, cause, lists, waiting, locals, history>>

Notifying == {"first", "others", "function"}
Timed == {"timed", "timedUninterruptibly"}
PCs == {"idle", "late", "progress", "await"} \cup Notifying \cup Timed
Live == {"registered", "late"}

(* The types; `waiters`, which is decremented by waits that throw, never    *)
(* becomes negative.                                                        *)
TypeOK ==
    /\ done \in BOOLEAN
    /\ cause \in {"none", "failure", "cancelled"}
    /\ firstListener \in Regs \cup {NULL}
    /\ functionListener \in Regs \cup {NULL}
    /\ otherListeners \subseteq Regs
    /\ progressListeners \subseteq Regs
    /\ waiters \in Nat
    /\ waitSet \subseteq Threads
    /\ interrupted \subseteq Threads
    /\ expired \subseteq Threads
    /\ pc \in [Threads -> PCs]
    /\ todo \in [Threads -> SUBSET Regs]
    /\ callee \in [Regs -> Listeners \cup {Function}]
    /\ status \in [Regs -> {"unused", "removed", "replaced"} \cup Live]
    /\ told \in [Regs -> Nat]
    /\ progressed \subseteq Regs
    /\ calls \in [Threads -> Nat]
    /\ disturbances \in Nat

Init ==
    /\ done = FALSE
    /\ cause = "none"
    /\ firstListener = NULL
    /\ otherListeners = {}
    /\ functionListener = NULL
    /\ progressListeners = {}
    /\ waiters = 0
    /\ waitSet = {}
    /\ interrupted = {}
    /\ expired = {}
    /\ pc = [t \in Threads |-> "idle"]
    /\ todo = [t \in Threads |-> {}]
    /\ callee = [r \in Regs |-> Function]
    /\ status = [r \in Regs |-> "unused"]
    /\ told = [r \in Regs |-> 0]
    /\ progressed = {}
    /\ calls \in CallBudgets
    /\ disturbances = 0

-----------------------------------------------------------------------------
(* A thread enters the future's code: where it goes and what it has to do. *)
Call(t, where, what) ==
    /\ pc[t] = "idle"
    /\ calls[t] > 0
    /\ calls' = [calls EXCEPT ![t] = @ - 1]
    /\ pc' = [pc EXCEPT ![t] = where]
    /\ todo' = [todo EXCEPT ![t] = what]

Goto(t, where, what) ==
    /\ pc' = [pc EXCEPT ![t] = where]
    /\ todo' = [todo EXCEPT ![t] = what]
    /\ UNCHANGED calls

IsFirst_Last(r, list) == r \in list /\ \A q \in list : q <= r   \* mutant: back()
(* The first of a list: it was registered before the others. *)
IsFirst(r, list) == r \in list /\ \A q \in list : r <= q

NextReg(r) == status[r] = "unused" /\ \A q \in Regs : q < r => status[q] # "unused"

-----------------------------------------------------------------------------
(* Mutant of AddListener: done is not looked at. *)
AddListener_Unchecked(t, l, r) ==
    /\ NextReg(r)
    /\ callee' = [callee EXCEPT ![r] = l]
    /\ Call(t, "idle", {})
    /\ status' = [status EXCEPT ![r] = "registered"]
    /\ IF firstListener = NULL
       THEN firstListener' = r /\ UNCHANGED otherListeners
       ELSE otherListeners' = otherListeners \cup {r} /\ UNCHANGED firstListener
    /\ UNCHANGED <<done, cause, functionListener, progressListeners, waiting, told,
                   progressed>>

(* addListener: its critical section.  Late listeners are called by the     *)
(* adding thread itself, after it has left the mutex.                       *)
AddListener(t, l, r) ==
    /\ NextReg(r)
    /\ callee' = [callee EXCEPT ![r] = l]
    /\ IF done
       THEN /\ Call(t, "late", {r})
            /\ status' = [status EXCEPT ![r] = "late"]
            /\ UNCHANGED lists
       ELSE /\ Call(t, "idle", {})
            /\ status' = [status EXCEPT ![r] = "registered"]
            /\ IF firstListener = NULL
               THEN firstListener' = r /\ UNCHANGED otherListeners
               ELSE otherListeners' = otherListeners \cup {r} /\ UNCHANGED firstListener
            /\ progressListeners' = IF l \in ProgressListeners
                                    THEN progressListeners \cup {r}
                                    ELSE progressListeners
            /\ UNCHANGED functionListener
    /\ UNCHANGED <<done, cause, waiting, told, progressed>>

(* setListener: the one function listener is replaced, not added. *)
SetListener(t, r) ==
    /\ NextReg(r)
    /\ callee' = [callee EXCEPT ![r] = Function]
    /\ IF done
       THEN /\ Call(t, "late", {r})
            /\ status' = [status EXCEPT ![r] = "late"]
            /\ UNCHANGED functionListener
       ELSE /\ Call(t, "idle", {})
            /\ functionListener' = r
            /\ status' = [q \in Regs |-> IF q = r THEN "registered"
                                         ELSE IF q = functionListener THEN "replaced"
                                         ELSE status[q]]
    /\ UNCHANGED <<done, cause, firstListener, otherListeners, progressListeners,
                   waiting, told, progressed>>

NotifyLate(t) ==
    /\ pc[t] = "late"
    /\ told' = [r \in Regs |-> IF r \in todo[t] THEN told[r] + 1 ELSE told[r]]
    /\ Goto(t, "idle", {})
    /\ UNCHANGED <<done, cause, lists, waiting, callee, status, progressed>>

(* Removing the first listener promotes the next one and keeps any other    *)
(* registration of the same listener; otherwise list::remove drops them all.*)
RemoveListener(t, l) ==
    /\ Call(t, "idle", {})
    /\ LET isFirst == firstListener # NULL /\ callee[firstListener] = l
           gone    == IF isFirst THEN {firstListener}
                      ELSE {r \in otherListeners : callee[r] = l}
       IN  IF done
           THEN UNCHANGED <<lists, status>>
           ELSE /\ status' = [r \in Regs |-> IF r \in gone THEN "removed" ELSE status[r]]
                /\ IF ~isFirst
                   THEN /\ otherListeners' = otherListeners \ gone
                        /\ UNCHANGED firstListener
                   ELSE \/ /\ otherListeners = {}
                           /\ firstListener' = NULL
                           /\ UNCHANGED otherListeners
                        \/ \E r \in otherListeners :
                              /\ IsFirst(r, otherListeners)
                              /\ firstListener' = r
                              /\ otherListeners' = otherListeners \ {r}
                /\ progressListeners' = {r \in progressListeners : callee[r] # l}
                /\ UNCHANGED functionListener
    /\ UNCHANGED <<done, cause, waiting, callee, told, progressed>>

-----------------------------------------------------------------------------
(* Mutant of Complete: "Allow only once" is not checked. *)
Complete_Again(t, newCause) ==
    /\ Call(t, "first", {})
    /\ done' = TRUE
    /\ cause' = newCause
    /\ waitSet' = IF waiters > 0 THEN {} ELSE waitSet
    /\ UNCHANGED <<lists, waiters, interrupted, expired, disturbances, history>>

(* The critical section shared by setSuccess, setFailure and cancel: the    *)
(* call that finds the future completed returns false and does nothing.     *)
Complete(t, newCause) ==
    /\ IF done
       THEN Call(t, "idle", {}) /\ UNCHANGED <<done, cause, waitSet>>
       ELSE /\ Call(t, "first", {})
            /\ done' = TRUE
            /\ cause' = newCause
            /\ waitSet' = IF waiters > 0 THEN {} ELSE waitSet   \* notify_all
    /\ UNCHANGED <<lists, waiters, interrupted, expired, disturbances, history>>

SetSuccess(t) == Complete(t, cause)
SetFailure(t) == Complete(t, "failure")
Cancel(t) == Cancellable /\ Complete(t, "cancelled")

Tell(r) == told' = [told EXCEPT ![r] = @ + 1]

(* Mutant of NotifyFirst: the others are forgotten. *)
NotifyFirst_Alone(t) ==
    /\ pc[t] = "first"
    /\ IF firstListener # NULL
       THEN Tell(firstListener) /\ firstListener' = NULL
       ELSE UNCHANGED <<told, firstListener>>
    /\ Goto(t, "function", {})
    /\ UNCHANGED <<done, cause, otherListeners, functionListener, progressListeners,
                   waiting, callee, status, progressed>>

(* notifyListeners: the first listener, then the others, which are reached  *)
(* only if there was a first one, then the function listener.               *)
NotifyFirst(t) ==
    /\ pc[t] = "first"
    /\ IF firstListener # NULL
       THEN /\ Tell(firstListener)
            /\ firstListener' = NULL
            /\ Goto(t, "others", otherListeners)
       ELSE /\ Goto(t, "function", {})
            /\ UNCHANGED <<told, firstListener>>
    /\ UNCHANGED <<done, cause, otherListeners, functionListener, progressListeners,
                   waiting, callee, status, progressed>>

NotifyOthers(t) ==
    /\ pc[t] = "others"
    /\ \/ /\ todo[t] = {}
          /\ Goto(t, "function", {})
          /\ UNCHANGED told
       \/ \E r \in todo[t] :
             /\ IsFirst(r, todo[t])
             /\ Tell(r)
             /\ Goto(t, "others", todo[t] \ {r})
    /\ UNCHANGED <<done, cause, lists, waiting, callee, status, progressed>>

NotifyFunction(t) ==
    /\ pc[t] = "function"
    /\ IF functionListener # NULL
       THEN Tell(functionListener) /\ functionListener' = NULL
       ELSE UNCHANGED <<told, functionListener>>
    /\ Goto(t, "idle", {})
    /\ UNCHANGED <<done, cause, firstListener, otherListeners, progressListeners,
                   waiting, callee, status, progressed>>

(* setProgress copies the list in its critical section and calls it outside.*)
SetProgress(t) ==
    /\ IF done \/ progressListeners = {}
       THEN Call(t, "idle", {})
       ELSE Call(t, "progress", progressListeners)
    /\ UNCHANGED <<done, cause, lists, waiting, history>>

NotifyProgress(t) ==
    /\ pc[t] = "progress"
    /\ \E r \in todo[t] :
          /\ IsFirst(r, todo[t])
          /\ progressed' = progressed \cup {r}
          /\ IF todo[t] = {r} THEN Goto(t, "idle", {})
                              ELSE Goto(t, "progress", todo[t] \ {r})
    /\ UNCHANGED <<done, cause, lists, waiting, callee, status, told>>

-----------------------------------------------------------------------------
(* waiters++ before a wait, and waiters-- when the wait throws. *)
CountWaiter_Missing == waiters   \* mutant: the increment is forgotten
CountWaiter == waiters + 1
Uncount(t) == IF t \in interrupted THEN waiters - 1 ELSE waiters

(* condition().wait: with an interruption pending it does not block. *)
Block(t) == waitSet' = IF t \in interrupted THEN waitSet ELSE waitSet \cup {t}

(* await() with an interruption pending, and await(timeout) likewise. *)
AwaitInterrupted(t) ==
    /\ t \in interrupted
    /\ Call(t, "idle", {})
    /\ UNCHANGED <<done, cause, lists, waiters, waitSet, interrupted, expired,
                   disturbances, history>>

(* await() otherwise, and awaitUninterruptibly(), up to the first wait. *)
Await(t) ==
    /\ IF done
       THEN /\ Call(t, "idle", {})
            /\ UNCHANGED <<waiters, waitSet>>
       ELSE /\ Call(t, "await", {})
            /\ waiters' = CountWaiter
            /\ Block(t)
    /\ UNCHANGED <<done, cause, lists, interrupted, expired, disturbances, history>>

(* The wait ends: an interruption is swallowed and its increment undone,    *)
(* any other wake-up leaves `waiters` counting a wait that is over.         *)
AwaitResume(t) ==
    /\ pc[t] = "await"
    /\ t \notin waitSet
    /\ IF done
       THEN /\ waiters' = Uncount(t)
            /\ Goto(t, "idle", {})
            /\ UNCHANGED waitSet
       ELSE /\ waiters' = Uncount(t) + 1
            /\ waitSet' = waitSet \cup {t}
            /\ UNCHANGED locals
    /\ interrupted' = interrupted \ {t}
    /\ UNCHANGED <<done, cause, lists, expired, disturbances, history>>

(* await0 up to the first wait; a timeout of zero or less only reads done. *)
TimedAwait(t, kind, positive) ==
    /\ kind = "timed" => t \notin interrupted
    /\ IF done \/ ~positive
       THEN /\ Call(t, "idle", {})
            /\ UNCHANGED <<waiters, waitSet>>
       ELSE /\ Call(t, kind, {})
            /\ waiters' = CountWaiter
            /\ Block(t)
    /\ expired' = expired \ {t}
    /\ UNCHANGED <<done, cause, lists, interrupted, disturbances, history>>

(* The timed wait ends.  Interrupted, an interruptible one returns false.   *)
TimedResume(t) ==
    /\ pc[t] \in Timed
    /\ t \notin waitSet
    /\ IF pc[t] = "timed" /\ t \in interrupted
       THEN /\ waiters' = waiters - 1
            /\ Goto(t, "idle", {})
            /\ UNCHANGED waitSet
       ELSE /\ UNCHANGED waiters
            /\ IF done \/ t \in expired
               THEN /\ Goto(t, "idle", {})
                    /\ UNCHANGED waitSet
               ELSE /\ waitSet' = waitSet \cup {t}
                    /\ UNCHANGED locals
    /\ interrupted' = interrupted \ {t}
    /\ UNCHANGED <<done, cause, lists, expired, disturbances, history>>

(* The clock, the condition variable and boost::thread::interrupt. *)
Expire(t) ==
    /\ pc[t] \in Timed
    /\ t \notin expired
    /\ expired' = expired \cup {t}
    /\ waitSet' = waitSet \ {t}
    /\ UNCHANGED <<done, cause, lists, waiters, interrupted, disturbances,
                   locals, history>>

Disturb(t) ==
    /\ disturbances < MaxDisturbances
    /\ disturbances' = disturbances + 1
    /\ waitSet' = waitSet \ {t}
    /\ UNCHANGED <<done, cause, lists, waiters, expired, locals, history>>

SpuriousWakeup(t) ==
    /\ t \in waitSet
    /\ Disturb(t)
    /\ UNCHANGED interrupted

(* Only a thread that will still look at the request is worth interrupting. *)
Interrupt(t) ==
    /\ calls[t] > 0 \/ pc[t] # "idle"
    /\ Disturb(t)
    /\ interrupted' = interrupted \cup {t}

-----------------------------------------------------------------------------
(* The steps a thread takes by itself once it is inside a call. *)
Continue(t) ==
    \/ NotifyLate(t)
    \/ NotifyFirst(t)
    \/ NotifyOthers(t)
    \/ NotifyFunction(t)
    \/ NotifyProgress(t)
    \/ AwaitResume(t)
    \/ TimedResume(t)

Next ==
    \/ \E t \in Registrars, r \in Regs :
          \/ \E l \in Listeners : AddListener(t, l, r)
          \/ SetListener(t, r)
    \/ \E t \in Registrars, l \in Listeners : RemoveListener(t, l)
    \/ \E t \in Completers :
          \/ SetSuccess(t)
          \/ SetFailure(t)
          \/ Cancel(t)
          \/ SetProgress(t)
    \/ \E t \in Waiters :
          \/ AwaitInterrupted(t)
          \/ Await(t)
          \/ \E kind \in Timed, positive \in BOOLEAN : TimedAwait(t, kind, positive)
          \/ Expire(t)
          \/ SpuriousWakeup(t)
          \/ Interrupt(t)
    \/ \E t \in Threads : Continue(t)

Spec == Init /\ [][Next]_vars

(* Threads are scheduled and listeners return: a thread inside a call that  *)
(* is not blocked goes on.  Nobody is obliged to make a call.               *)
Fairness == \A t \in Threads : WF_vars(Continue(t))

FairSpec == Spec /\ Fairness

-----------------------------------------------------------------------------
(***************************************************************************)
(* Properties.                                                             *)
(***************************************************************************)
InWait(t) == pc[t] \in {"await"} \cup Timed

(* `waiters` is never less than the number of threads inside a wait, so the *)
(* test `waiters > 0` that guards notify_all never skips a blocked thread,  *)
(* whatever wake-ups, timeouts and interruptions came before.  (It is not   *)
(* equal: a wait that ends normally leaves its increment behind.)           *)
WaitersCounted == Cardinality({t \in Threads : InWait(t)}) <= waiters

(* A listener is told at most once and only of a completed future; and when *)
(* no thread is inside notifyListeners or notifyListener any more, every    *)
(* registration that was neither removed nor replaced has been told.        *)
ExactlyOnce ==
    /\ \A r \in Regs : told[r] <= 1 /\ (told[r] = 1 => done /\ status[r] \in Live)
    /\ (done /\ \A t \in Threads : pc[t] \notin Notifying \cup {"late"}) =>
          \A r \in Regs : status[r] \in Live => told[r] = 1

(* Listeners registered before the completion are told in the order of      *)
(* their registration, also after removals promoted another first listener. *)
ToldInOrder ==
    \A q, r \in Regs :
        /\ q < r
        /\ status[q] = "registered" /\ status[r] = "registered"
        /\ callee[q] # Function /\ callee[r] # Function
        /\ told[r] = 1
        => told[q] = 1

(* The comment in notifyListeners: once done is true the lists are never    *)
(* modified, except that the one notifying thread empties what it has told. *)
ListsFrozenWhenDone ==
    [][done => /\ otherListeners' = otherListeners
               /\ progressListeners' = progressListeners
               /\ firstListener' \in {firstListener, NULL}
               /\ functionListener' \in {functionListener, NULL}]_vars

Outcome ==
    IF ~done THEN "pending" ELSE IF cause = "none" THEN "success" ELSE cause

(* The registrations made with addListener.                                 *)
Added(r) == callee[r] # Function

Once == INSTANCE OnceFuture WITH
    Subscriptions <- Regs,
    outcome <- Outcome,
    subscribed <- {r \in Regs : Added(r) /\ status[r] \in Live},
    delivered <- {r \in Regs : Added(r) /\ told[r] > 0}

(* Towards the listeners of addListener, DefaultChannelFuture is the        *)
(* write-once future of OnceFuture: one outcome, decided once; a listener   *)
(* loses its place only by removeListener, and only before the completion;  *)
(* and it is told once, after it.  What setListener does is stuttering.     *)
ImplementsOnce == Once!Spec

(* ChannelFuture.h, of setListener as of addListener: "Adds the specified   *)
(* listener [...] The specified listener is notified when this future is    *)
(* done".  When the future is done and nobody is notifying any more, every  *)
(* function that was set has been called.                                   *)
SetListenersTold ==
    (done /\ \A t \in Threads : pc[t] \notin Notifying \cup {"late"}) =>
        \A r \in Regs : (status[r] # "unused" /\ ~Added(r)) => told[r] = 1

(* A thread waiting for a future that is completed gets out of await.       *)
AwaitReturns == \A t \in Threads : (done /\ InWait(t)) ~> ~InWait(t)

(* A listener that is registered when the future is completed, or added     *)
(* later, is eventually told.                                               *)
EveryListenerTold ==
    \A r \in Regs : (done /\ status[r] \in Live) ~> (told[r] = 1)
=============================================================================
