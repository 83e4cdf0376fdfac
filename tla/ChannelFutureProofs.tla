------------------------- MODULE ChannelFutureProofs -------------------------
(***************************************************************************)
(* Proofs about ChannelFuture, for any number of threads, listeners,       *)
(* registrations, calls and disturbances.                                  *)
(*                                                                         *)
(* The argument is an account of the registrations that are owed a call.   *)
(* Until the completion they are the ones on the lists.  The completion    *)
(* hands them to the one thread that notifies, which works through them;   *)
(* a late registration is owed by the thread that made it.  A registration *)
(* is never owed by two, and is told exactly when it stops being owed.     *)
(***************************************************************************)
EXTENDS ChannelFuture, FiniteSetTheorems, TLAPS

Listed == {r \in Regs : r = firstListener \/ r \in otherListeners \/ r = functionListener}

(* What a thread inside notifyListeners still has to tell. *)
Owed(t) == {r \in Regs : \/ pc[t] = "first" /\ r \in Listed
                         \/ pc[t] = "others" /\ (r \in todo[t] \/ r = functionListener)
                         \/ pc[t] = "function" /\ r = functionListener}

(* The lists are disjoint, and there are others only behind a first one.    *)
ListsInv ==
    /\ firstListener \notin otherListeners
    /\ functionListener \notin otherListeners
    /\ functionListener # NULL => functionListener # firstListener
    /\ ~done => (firstListener = NULL => otherListeners = {})

(* Before the completion: nobody has been told and nobody is telling.       *)
PendingInv ==
    ~done => /\ cause = "none"
             /\ \A t \in Threads : pc[t] \notin Notifying \cup {"late"}
             /\ \A r \in Regs : /\ told[r] = 0
                                /\ status[r] # "late"
                                /\ status[r] = "registered" <=> r \in Listed

(* After it: one notifying thread, and where it stands.                     *)
NotifierInv ==
    \A t \in Threads :
        /\ pc[t] \in Notifying => \A u \in Threads : pc[u] \in Notifying => u = t
        /\ (pc[t] = "first" /\ firstListener = NULL) => otherListeners = {}
        /\ pc[t] = "others" => todo[t] \subseteq otherListeners

(* A thread owes its own late registration, and nobody else does.           *)
LateInv ==
    \A t \in Threads : pc[t] = "late" =>
        /\ \E r \in Regs : todo[t] = {r}
        /\ \A u \in Threads : (pc[u] = "late" /\ u # t) => todo[u] \cap todo[t] = {}

(* The registrations that have not been told are the ones that are owed.    *)
OwedInv ==
    \A r \in Regs :
        /\ told[r] \in {0, 1}
        /\ told[r] = 1 => done /\ status[r] \in Live
        /\ done => ((status[r] = "registered" /\ told[r] = 0)
                       <=> \E t \in Threads : r \in Owed(t))
        /\ (status[r] = "late" /\ told[r] = 0)
              <=> \E t \in Threads : pc[t] = "late" /\ r \in todo[t]

NotifyInv == ListsInv /\ PendingInv /\ NotifierInv /\ LateInv /\ OwedInv
-----------------------------------------------------------------------------
(***************************************************************************)
(* Type correctness and the count of the waiting threads.                  *)
(***************************************************************************)
InWaitSet == {t \in Threads : InWait(t)}

(* A thread inside a wait is counted, so `waiters` may be decremented.      *)
LEMMA WaiterPositive ==
    ASSUME TypeOK, WaitersCounted, NEW t \in Threads, InWait(t)
    PROVE  waiters \in Nat /\ waiters > 0
<1>1. IsFiniteSet(InWaitSet)
  BY FutureAssumption, FS_Subset DEF InWaitSet
<1>2. t \in InWaitSet
  BY DEF InWaitSet
<1>3. Cardinality(InWaitSet) \in Nat /\ Cardinality(InWaitSet) # 0
  BY <1>1, <1>2, FS_CardinalityType, FS_EmptySet
<1>4. Cardinality(InWaitSet) <= waiters
  BY DEF WaitersCounted, InWaitSet
<1> QED
  BY <1>3, <1>4 DEF TypeOK

(* Every step keeps the types; only the decrements of `waiters` need more   *)
(* than the types themselves.                                               *)
LEMMA TypeStep ==
    ASSUME TypeOK, WaitersCounted, [Next]_vars
    PROVE  TypeOK'
<1> USE FutureAssumption DEF TypeOK, PCs, Notifying, Timed, Live
<1>1. ASSUME NEW t \in Registrars, NEW r \in Regs, NEW l \in Listeners, AddListener(t, l, r)
      PROVE  TypeOK'
  BY <1>1 DEF AddListener, Call, lists, waiting
<1>2. ASSUME NEW t \in Registrars, NEW r \in Regs, SetListener(t, r)
      PROVE  TypeOK'
  BY <1>2 DEF SetListener, Call, waiting
<1>3. ASSUME NEW t \in Registrars, NEW l \in Listeners, RemoveListener(t, l)
      PROVE  TypeOK'
  BY <1>3 DEF RemoveListener, Call, lists, waiting, IsFirst
<1>4. ASSUME NEW t \in Completers, NEW c \in {"none", "failure", "cancelled"}, Complete(t, c)
      PROVE  TypeOK'
  <2>1. CASE done
    BY <1>4, <2>1 DEF Complete, Call, lists, history
  <2>2. CASE ~done
    BY <1>4, <2>2 DEF Complete, Call, lists, history
  <2> QED
    BY <2>1, <2>2
<1>5. ASSUME NEW t \in Completers, SetProgress(t)
      PROVE  TypeOK'
  BY <1>5 DEF SetProgress, Call, lists, waiting, history
<1>6. ASSUME NEW t \in Waiters,
             AwaitInterrupted(t) \/ Await(t)
               \/ \E kind \in Timed, positive \in BOOLEAN : TimedAwait(t, kind, positive)
      PROVE  TypeOK'
  BY <1>6 DEF AwaitInterrupted, Await, TimedAwait, Call, CountWaiter, Block, lists, history
<1>7. ASSUME NEW t \in Waiters, Expire(t) \/ SpuriousWakeup(t) \/ Interrupt(t)
      PROVE  TypeOK'
  BY <1>7 DEF Expire, SpuriousWakeup, Interrupt, Disturb, lists, locals, history
<1>8. ASSUME NEW t \in Threads, NotifyLate(t)
      PROVE  TypeOK'
  BY <1>8 DEF NotifyLate, Goto, lists, waiting
<1>9. ASSUME NEW t \in Threads, NotifyFirst(t)
      PROVE  TypeOK'
  BY <1>9 DEF NotifyFirst, Goto, Tell, waiting
<1>10. ASSUME NEW t \in Threads, NotifyOthers(t)
       PROVE  TypeOK'
  BY <1>10 DEF NotifyOthers, Goto, Tell, IsFirst, lists, waiting
<1>11. ASSUME NEW t \in Threads, NotifyFunction(t)
       PROVE  TypeOK'
  BY <1>11 DEF NotifyFunction, Goto, Tell, waiting
<1>12. ASSUME NEW t \in Threads, NotifyProgress(t)
       PROVE  TypeOK'
  BY <1>12 DEF NotifyProgress, Goto, lists, waiting
<1>13. ASSUME NEW t \in Threads, AwaitResume(t)
       PROVE  TypeOK'
  <2>1. waiters > 0
    BY <1>13, WaiterPositive DEF AwaitResume, InWait
  <2> QED
    BY <1>13, <2>1 DEF AwaitResume, Uncount, Goto, lists, locals, history
<1>14. ASSUME NEW t \in Threads, TimedResume(t)
       PROVE  TypeOK'
  <2>1. waiters > 0
    BY <1>14, WaiterPositive DEF TimedResume, InWait
  <2> QED
    BY <1>14, <2>1 DEF TimedResume, Goto, lists, locals, history
<1>15. ASSUME UNCHANGED vars
       PROVE  TypeOK'
  BY <1>15 DEF vars, lists, waiting, locals, history
<1> QED
  BY <1>1, <1>2, <1>3, <1>4, <1>5, <1>6, <1>7, <1>8, <1>9, <1>10, <1>11, <1>12, <1>13,
     <1>14, <1>15
  DEF Next, Continue, SetSuccess, SetFailure, Cancel

(* Steps that move nobody into or out of a wait and do not decrease         *)
(* `waiters`.                                                               *)
LEMMA CountSame ==
    ASSUME WaitersCounted, InWaitSet' = InWaitSet, waiters' = waiters
    PROVE  WaitersCounted'
BY DEF WaitersCounted, InWaitSet

(* A thread may leave a wait with its increment undone or left behind.      *)
LEMMA CountLeave ==
    ASSUME TypeOK, WaitersCounted, NEW t \in Threads, InWait(t),
           InWaitSet' = InWaitSet \ {t}, waiters' \in {waiters, waiters - 1}
    PROVE  WaitersCounted'
<1>1. IsFiniteSet(InWaitSet)
  BY FutureAssumption, FS_Subset DEF InWaitSet
<1>2. t \in InWaitSet
  BY DEF InWaitSet
<1>3. Cardinality(InWaitSet') = Cardinality(InWaitSet) - 1
  BY <1>1, <1>2, FS_RemoveElement
<1>4. Cardinality(InWaitSet) \in Nat
  BY <1>1, FS_CardinalityType
<1>5. Cardinality(InWaitSet) <= waiters
  BY DEF WaitersCounted, InWaitSet
<1>6. Cardinality(InWaitSet') <= waiters'
  BY <1>3, <1>4, <1>5 DEF TypeOK
<1> QED
  BY <1>6 DEF WaitersCounted, InWaitSet

(* A thread that enters a wait counts itself first.                         *)
LEMMA CountEnter ==
    ASSUME TypeOK, WaitersCounted, NEW t \in Threads, ~InWait(t),
           InWaitSet' = InWaitSet \cup {t}, waiters' = waiters + 1
    PROVE  WaitersCounted'
<1>1. IsFiniteSet(InWaitSet)
  BY FutureAssumption, FS_Subset DEF InWaitSet
<1>2. t \notin InWaitSet
  BY DEF InWaitSet
<1>3. Cardinality(InWaitSet') = Cardinality(InWaitSet) + 1
  BY <1>1, <1>2, FS_AddElement
<1>4. Cardinality(InWaitSet) \in Nat
  BY <1>1, FS_CardinalityType
<1>5. Cardinality(InWaitSet) <= waiters
  BY DEF WaitersCounted, InWaitSet
<1>6. Cardinality(InWaitSet') <= waiters'
  BY <1>3, <1>4, <1>5 DEF TypeOK
<1> QED
  BY <1>6 DEF WaitersCounted, InWaitSet

LEMMA CountStep ==
    ASSUME TypeOK, WaitersCounted, [Next]_vars
    PROVE  WaitersCounted'
<1> USE FutureAssumption DEF Timed, InWait
<1>a. pc \in [Threads -> PCs]
  BY DEF TypeOK
<1>1. ASSUME NEW t \in Threads, NEW where \in {"idle", "late", "first", "progress"},
             NEW what, Call(t, where, what), waiters' = waiters
      PROVE  WaitersCounted'
  <2>1. InWaitSet' = InWaitSet
    BY <1>1, <1>a DEF Call, InWaitSet
  <2> QED
    BY <2>1, <1>1, CountSame
<1>2. ASSUME NEW t \in Threads, NEW where \in {"idle", "others", "function", "progress"},
             NEW what, Goto(t, where, what), ~InWait(t), waiters' = waiters
      PROVE  WaitersCounted'
  <2>1. InWaitSet' = InWaitSet
    BY <1>2, <1>a DEF Goto, InWaitSet
  <2> QED
    BY <2>1, <1>2, CountSame
<1>3. ASSUME NEW t \in Threads, Goto(t, "idle", {}), InWait(t),
             waiters' \in {waiters, waiters - 1}
      PROVE  WaitersCounted'
  <2>1. InWaitSet' = InWaitSet \ {t}
    BY <1>3, <1>a DEF Goto, InWaitSet
  <2> QED
    BY <2>1, <1>3, CountLeave
<1>4. ASSUME NEW t \in Threads, NEW where \in {"await"} \cup Timed,
             Call(t, where, {}), waiters' = waiters + 1
      PROVE  WaitersCounted'
  <2>1. InWaitSet' = InWaitSet \cup {t} /\ ~InWait(t)
    BY <1>4, <1>a DEF Call, InWaitSet
  <2> QED
    BY <2>1, <1>4, CountEnter
<1>5. ASSUME pc' = pc, waiters' = waiters
      PROVE  WaitersCounted'
  BY <1>5, CountSame DEF InWaitSet
<1>6. ASSUME NEW t \in Registrars,
             \/ \E l \in Listeners, r \in Regs : AddListener(t, l, r)
             \/ \E r \in Regs : SetListener(t, r)
             \/ \E l \in Listeners : RemoveListener(t, l)
      PROVE  WaitersCounted'
  BY <1>1, <1>6 DEF AddListener, SetListener, RemoveListener, waiting
<1>7. ASSUME NEW t \in Completers, NEW c, Complete(t, c) \/ SetProgress(t)
      PROVE  WaitersCounted'
  BY <1>1, <1>7 DEF Complete, SetProgress, waiting
<1>8. ASSUME NEW t \in Waiters, AwaitInterrupted(t) \/ Await(t)
      PROVE  WaitersCounted'
  BY <1>1, <1>4, <1>8 DEF AwaitInterrupted, Await, CountWaiter
<1>9. ASSUME NEW t \in Waiters, NEW kind \in Timed, NEW positive \in BOOLEAN,
             TimedAwait(t, kind, positive)
      PROVE  WaitersCounted'
  BY <1>1, <1>4, <1>9 DEF TimedAwait, CountWaiter
<1>10. ASSUME NEW t \in Waiters, Expire(t) \/ SpuriousWakeup(t) \/ Interrupt(t)
       PROVE  WaitersCounted'
  BY <1>5, <1>10 DEF Expire, SpuriousWakeup, Interrupt, Disturb, locals
<1>11. ASSUME NEW t \in Threads,
              NotifyLate(t) \/ NotifyFirst(t) \/ NotifyFunction(t) \/ NotifyProgress(t)
       PROVE  WaitersCounted'
  BY <1>2, <1>11 DEF NotifyLate, NotifyFirst, NotifyFunction, NotifyProgress, waiting
<1>12. ASSUME NEW t \in Threads, NotifyOthers(t)
       PROVE  WaitersCounted'
  BY <1>2, <1>12 DEF NotifyOthers, waiting
<1>13. ASSUME NEW t \in Threads, AwaitResume(t)
       PROVE  WaitersCounted'
  <2>1. CASE done
    BY <1>3, <1>13, <2>1 DEF AwaitResume, Uncount
  <2>2. CASE ~done
    <3>1. pc' = pc /\ waiters' \in {waiters, waiters + 1}
      BY <1>13, <2>2 DEF AwaitResume, Uncount, locals, TypeOK
    <3>2. Cardinality(InWaitSet) \in Nat /\ Cardinality(InWaitSet) <= waiters
      BY FS_Subset, FS_CardinalityType DEF InWaitSet, WaitersCounted
    <3>3. InWaitSet' = InWaitSet
      BY <3>1 DEF InWaitSet
    <3>4. Cardinality(InWaitSet') <= waiters'
      BY <3>1, <3>2, <3>3 DEF TypeOK
    <3> QED
      BY <3>4 DEF InWaitSet, WaitersCounted
  <2> QED
    BY <2>1, <2>2
<1>14. ASSUME NEW t \in Threads, TimedResume(t)
       PROVE  WaitersCounted'
  BY <1>3, <1>5, <1>14 DEF TimedResume, locals
<1>15. ASSUME UNCHANGED vars
       PROVE  WaitersCounted'
  BY <1>5, <1>15 DEF vars, waiting, locals
<1> QED
  BY <1>6, <1>7, <1>8, <1>9, <1>10, <1>11, <1>12, <1>13, <1>14, <1>15
  DEF Next, Continue, SetSuccess, SetFailure, Cancel

LEMMA InitTyped == Init => TypeOK /\ WaitersCounted
<1> SUFFICES ASSUME Init PROVE TypeOK /\ WaitersCounted
  OBVIOUS
<1>1. TypeOK
  BY FutureAssumption DEF Init, TypeOK, PCs, Live, Notifying, Timed
<1>2. {t \in Threads : InWait(t)} = {}
  BY DEF Init, InWait, Timed
<1> QED
  BY <1>1, <1>2, FS_EmptySet DEF WaitersCounted, Init

(* Every variable keeps its type: in particular `waiters` never becomes     *)
(* negative, although only an interrupted wait takes its increment back.    *)
THEOREM TypeCorrect == Spec => []TypeOK
<1>1. TypeOK /\ WaitersCounted /\ [Next]_vars => (TypeOK /\ WaitersCounted)'
  BY TypeStep, CountStep
<1> QED
  BY <1>1, InitTyped, PTL DEF Spec

(* `waiters` counts every thread inside a wait, so that the notify_all of   *)
(* setSuccess, setFailure and cancel, guarded by waiters > 0, is never      *)
(* skipped while a thread is blocked.                                       *)
THEOREM WaitersAreCounted == Spec => []WaitersCounted
<1>1. TypeOK /\ WaitersCounted /\ [Next]_vars => (TypeOK /\ WaitersCounted)'
  BY TypeStep, CountStep
<1> QED
  BY <1>1, InitTyped, PTL DEF Spec

-----------------------------------------------------------------------------
(***************************************************************************)
(* Every listener is told exactly once.                                    *)
(***************************************************************************)
Calling == Notifying \cup {"late"}

LEMMA NotifyInit == Init => NotifyInv
<1> SUFFICES ASSUME Init PROVE NotifyInv
  OBVIOUS
<1> USE DEF Init, Listed, Notifying, Live, NULL, Regs
<1>1. ListsInv
  BY DEF ListsInv
<1>2. PendingInv
  BY FutureAssumption DEF PendingInv
<1>3. NotifierInv /\ LateInv
  BY DEF NotifierInv, LateInv
<1>4. OwedInv
  BY DEF OwedInv, Owed
<1> QED
  BY <1>1, <1>2, <1>3, <1>4 DEF NotifyInv

(* Steps that leave the lists, the outcome and the notifying threads alone. *)
LEMMA NotifyQuiet ==
    ASSUME NotifyInv,
           UNCHANGED <<done, cause, firstListener, otherListeners, functionListener,
                       told, status>>,
           \A u \in Threads : \/ pc'[u] = pc[u] /\ todo'[u] = todo[u]
                              \/ pc[u] \notin Calling /\ pc'[u] \notin Calling
    PROVE  NotifyInv'
<1> USE DEF Notifying, Calling
<1>1. ListsInv'
  BY DEF NotifyInv, ListsInv
<1>2. PendingInv'
  BY DEF NotifyInv, PendingInv, Listed
<1>3. NotifierInv'
  BY DEF NotifyInv, NotifierInv
<1>4. LateInv'
  BY DEF NotifyInv, LateInv
<1>5. \A u \in Threads : Owed(u)' = Owed(u)
  BY DEF Owed, Listed
<1>6. OwedInv'
  BY <1>5 DEF NotifyInv, OwedInv
<1> QED
  BY <1>1, <1>2, <1>3, <1>4, <1>6 DEF NotifyInv

(* A registration after the completion: the thread owes it the call.        *)
LEMMA NotifyRegisterLate ==
    ASSUME TypeOK, NotifyInv, done, NEW t \in Threads, NEW r \in Regs,
           status[r] = "unused", Call(t, "late", {r}),
           status' = [status EXCEPT ![r] = "late"],
           UNCHANGED <<done, cause, firstListener, otherListeners, functionListener, told>>
    PROVE  NotifyInv'
<1> USE DEF Notifying, NotifyInv, Call
<1>a. pc \in [Threads -> PCs] /\ todo \in [Threads -> SUBSET Regs]
        /\ status \in [Regs -> {"unused", "removed", "replaced"} \cup Live]
        /\ told \in [Regs -> Nat]
  BY DEF TypeOK
<1>b. told[r] = 0
  BY DEF OwedInv, Live
<1>1. ListsInv'
  BY DEF ListsInv
<1>2. PendingInv'
  BY DEF PendingInv
<1>3. NotifierInv'
  BY <1>a DEF NotifierInv
<1>4. LateInv'
  BY <1>a DEF LateInv, OwedInv
<1>5. \A u \in Threads : Owed(u)' = Owed(u)
  BY <1>a DEF Owed, Listed
<1>6. OwedInv'
  <2> SUFFICES ASSUME NEW q \in Regs PROVE OwedInv!(q)'
    BY DEF OwedInv
  <2>1. CASE q = r
    BY <1>a, <1>b, <1>5, <2>1 DEF OwedInv, Live
  <2>2. CASE q # r
    BY <1>a, <1>5, <2>2 DEF OwedInv
  <2> QED
    BY <2>1, <2>2
<1> QED
  BY <1>1, <1>2, <1>3, <1>4, <1>6

LEMMA NotifyLateStep ==
    ASSUME TypeOK, NotifyInv, NEW t \in Threads, NotifyLate(t)
    PROVE  NotifyInv'
<1> USE DEF Notifying, NotifyInv, NotifyLate, Goto, lists
<1>a. pc \in [Threads -> PCs] /\ todo \in [Threads -> SUBSET Regs]
        /\ told \in [Regs -> Nat]
  BY DEF TypeOK
<1>b. PICK r \in Regs : todo[t] = {r}
  BY DEF LateInv
<1>c. done
  BY DEF PendingInv
<1>d. status[r] = "late" /\ told[r] = 0
  BY <1>b DEF OwedInv
<1>e. told'[r] = 1 /\ \A q \in Regs \ {r} : told'[q] = told[q]
  BY <1>a, <1>b, <1>d
<1>1. ListsInv'
  BY DEF ListsInv
<1>2. PendingInv'
  BY <1>c DEF PendingInv
<1>3. NotifierInv'
  BY <1>a DEF NotifierInv
<1>4. LateInv'
  BY <1>a DEF LateInv
<1>5. \A u \in Threads : Owed(u)' = Owed(u)
  BY <1>a DEF Owed, Listed
<1>6. OwedInv'
  <2> SUFFICES ASSUME NEW q \in Regs PROVE OwedInv!(q)'
    BY DEF OwedInv
  <2>1. CASE q = r
    BY <1>a, <1>b, <1>c, <1>d, <1>e, <1>5, <2>1 DEF OwedInv, LateInv, Live
  <2>2. CASE q # r
    BY <1>a, <1>b, <1>c, <1>e, <1>5, <2>2 DEF OwedInv
  <2> QED
    BY <2>1, <2>2
<1> QED
  BY <1>1, <1>2, <1>3, <1>4, <1>6

(* While the future is not completed nothing is owed by a thread.           *)
LEMMA NotifyPending ==
    ASSUME ListsInv', PendingInv', ~done'
    PROVE  NotifyInv'
<1>1. NotifierInv' /\ LateInv'
  BY DEF PendingInv, NotifierInv, LateInv, Notifying
<1>2. OwedInv'
  BY DEF PendingInv, OwedInv, Owed, Notifying
<1> QED
  BY <1>1, <1>2 DEF NotifyInv

LEMMA AddListenerStep ==
    ASSUME TypeOK, NotifyInv, NEW t \in Threads, NEW l \in Listeners, NEW r \in Regs,
           AddListener(t, l, r)
    PROVE  NotifyInv'
<1> USE DEF AddListener, NextReg
<1>1. CASE done
  BY <1>1, NotifyRegisterLate DEF lists
<1>2. CASE ~done
  <2>a. /\ pc \in [Threads -> PCs]
        /\ status \in [Regs -> {"unused", "removed", "replaced"} \cup Live]
        /\ otherListeners \subseteq Regs
    BY DEF TypeOK
  <2>b. r \notin Listed /\ r # NULL
    BY <1>2 DEF NotifyInv, PendingInv, Regs, NULL
  <2>1. ListsInv'
    BY <1>2, <2>a, <2>b DEF NotifyInv, ListsInv, Listed
  <2>2. Listed' = Listed \cup {r}
    BY <1>2, <2>b DEF Listed, Regs, NULL
  <2>3. PendingInv'
    BY <1>2, <2>a, <2>2 DEF NotifyInv, PendingInv, Call, Notifying
  <2> QED
    BY <1>2, <2>1, <2>3, NotifyPending
<1> QED
  BY <1>1, <1>2

LEMMA SetListenerStep ==
    ASSUME TypeOK, NotifyInv, NEW t \in Threads, NEW r \in Regs, SetListener(t, r)
    PROVE  NotifyInv'
<1> USE DEF SetListener, NextReg
<1>1. CASE done
  BY <1>1, NotifyRegisterLate
<1>2. CASE ~done
  <2>a. /\ pc \in [Threads -> PCs]
        /\ status \in [Regs -> {"unused", "removed", "replaced"} \cup Live]
        /\ otherListeners \subseteq Regs
    BY DEF TypeOK
  <2>b. r \notin Listed /\ r # NULL
    BY <1>2 DEF NotifyInv, PendingInv, Regs, NULL
  <2>1. ListsInv'
    BY <1>2, <2>a, <2>b DEF NotifyInv, ListsInv, Listed
  <2>2. Listed' = (Listed \ {functionListener}) \cup {r}
    BY <1>2, <2>b DEF NotifyInv, ListsInv, Listed, Regs, NULL
  <2>3. PendingInv'
    BY <1>2, <2>a, <2>b, <2>2 DEF NotifyInv, PendingInv, Call, Notifying
  <2> QED
    BY <1>2, <2>1, <2>3, NotifyPending
<1> QED
  BY <1>1, <1>2

LEMMA RemoveListenerStep ==
    ASSUME TypeOK, NotifyInv, NEW t \in Threads, NEW l \in Listeners, RemoveListener(t, l)
    PROVE  NotifyInv'
<1>a. /\ pc \in [Threads -> PCs]
      /\ status \in [Regs -> {"unused", "removed", "replaced"} \cup Live]
      /\ otherListeners \subseteq Regs
  BY DEF TypeOK
<1>1. CASE done
  <2>1. \A u \in Threads : \/ pc'[u] = pc[u] /\ todo'[u] = todo[u]
                           \/ pc[u] \notin Calling /\ pc'[u] \notin Calling
    BY <1>a DEF RemoveListener, Call, Calling, Notifying, TypeOK
  <2> QED
    BY <1>1, <2>1, NotifyQuiet DEF RemoveListener, lists
<1>2. CASE ~done
  <2> DEFINE isFirst == firstListener # NULL /\ callee[firstListener] = l
             gone == IF isFirst THEN {firstListener}
                     ELSE {r \in otherListeners : callee[r] = l}
  <2>a. /\ status' = [r \in Regs |-> IF r \in gone THEN "removed" ELSE status[r]]
        /\ UNCHANGED <<done, cause, functionListener, told>>
        /\ Call(t, "idle", {})
    BY <1>2 DEF RemoveListener
  <2>b. /\ ListsInv'
        /\ Listed' = Listed \ gone
    <3>1. CASE ~isFirst
      <4>1. otherListeners' = otherListeners \ gone /\ firstListener' = firstListener
        BY <1>2, <3>1 DEF RemoveListener
      <4>2. ListsInv'
        BY <2>a, <4>1 DEF NotifyInv, ListsInv
      <4>3. Listed' = Listed \ gone
        BY <2>a, <3>1, <4>1 DEF NotifyInv, ListsInv, Listed
      <4> QED
        BY <4>2, <4>3
    <3>2. CASE isFirst /\ otherListeners = {}
      <4>1. firstListener' = NULL /\ otherListeners' = {}
        BY <1>2, <3>2 DEF RemoveListener
      <4>2. ListsInv'
        BY <2>a, <3>2, <4>1 DEF NotifyInv, ListsInv
      <4>3. Listed' = Listed \ gone
        BY <2>a, <3>2, <4>1 DEF NotifyInv, ListsInv, Listed, NULL, Regs
      <4> QED
        BY <4>2, <4>3
    <3>3. CASE isFirst /\ otherListeners # {}
      <4>1. PICK r \in otherListeners : /\ firstListener' = r
                                        /\ otherListeners' = otherListeners \ {r}
        BY <1>2, <3>3 DEF RemoveListener
      <4>2. r # NULL
        BY <1>a DEF NULL, Regs
      <4>3. ListsInv'
        BY <2>a, <4>1, <4>2 DEF NotifyInv, ListsInv
      <4>4. Listed' = Listed \ gone
        BY <1>a, <2>a, <3>3, <4>1, <4>2 DEF NotifyInv, ListsInv, Listed
      <4> QED
        BY <4>3, <4>4
    <3> QED
      BY <3>1, <3>2, <3>3
  <2>c. gone \subseteq Regs
    BY <1>a DEF TypeOK
  <2> HIDE DEF gone
  <2>1. PendingInv'
    <3>1. \A u \in Threads : pc'[u] \notin Notifying \cup {"late"}
      BY <1>2, <1>a, <2>a DEF NotifyInv, PendingInv, Call, Notifying
    <3>2. \A r \in Regs : /\ told'[r] = 0
                          /\ status'[r] # "late"
                          /\ status'[r] = "registered" <=> r \in Listed'
      BY <1>2, <1>a, <2>a, <2>b, <2>c DEF NotifyInv, PendingInv
    <3> QED
      BY <1>2, <2>a, <3>1, <3>2 DEF NotifyInv, PendingInv
  <2> QED
    BY <1>2, <2>1, <2>a, <2>b, NotifyPending
<1> QED
  BY <1>1, <1>2

(* The completion hands the lists to the completing thread.                 *)
LEMMA CompleteStep ==
    ASSUME TypeOK, NotifyInv, NEW t \in Threads, NEW c, Complete(t, c)
    PROVE  NotifyInv'
<1> USE DEF Complete
<1>a. pc \in [Threads -> PCs] /\ todo \in [Threads -> SUBSET Regs]
  BY DEF TypeOK
<1>1. CASE done
  <2>1. \A u \in Threads : \/ pc'[u] = pc[u] /\ todo'[u] = todo[u]
                           \/ pc[u] \notin Calling /\ pc'[u] \notin Calling
    BY <1>1, <1>a DEF Call, Calling, Notifying
  <2> QED
    BY <1>1, <2>1, NotifyQuiet DEF lists, history
<1>2. CASE ~done
  <2> USE DEF NotifyInv, Notifying, lists, history, Call
  <2>a. pc'[t] = "first" /\ \A u \in Threads \ {t} : pc'[u] = pc[u] /\ pc[u] \notin Calling
    BY <1>2, <1>a DEF PendingInv, Calling
  <2>b. done' /\ Listed' = Listed
    BY <1>2 DEF Listed
  <2>1. ListsInv'
    BY <1>2 DEF ListsInv
  <2>2. PendingInv'
    BY <2>b DEF PendingInv
  <2>3. NotifierInv'
    BY <1>2, <2>a DEF NotifierInv, ListsInv, Calling
  <2>4. LateInv'
    BY <2>a DEF LateInv, Calling
  <2>5. \A u \in Threads : Owed(u)' = IF u = t THEN Listed ELSE {}
    BY <2>a, <2>b DEF Owed, Calling, Listed
  <2>6. OwedInv'
    BY <1>2, <2>a, <2>b, <2>5 DEF OwedInv, PendingInv, Calling, Live
  <2> QED
    BY <2>1, <2>2, <2>3, <2>4, <2>6
<1> QED
  BY <1>1, <1>2

(* A step of the notifying thread that tells the registrations in `what`:   *)
(* it owes them before the step and nothing else changes in what it owes.   *)
LEMMA NotifierTells ==
    ASSUME TypeOK, NotifyInv, NEW t \in Threads, pc[t] \in Notifying,
           NEW what \in SUBSET Owed(t),
           pc' = [pc EXCEPT ![t] = pc'[t]], pc'[t] \in {"idle", "others", "function"},
           todo' = [todo EXCEPT ![t] = todo'[t]],
           told' = [r \in Regs |-> IF r \in what THEN told[r] + 1 ELSE told[r]],
           UNCHANGED <<done, cause, otherListeners, status>>,
           firstListener' \in {firstListener, NULL},
           functionListener' \in {functionListener, NULL},
           pc'[t] = "others" => todo'[t] \subseteq otherListeners,
           Owed(t)' = Owed(t) \ what
    PROVE  NotifyInv'
<1> USE DEF Notifying, NotifyInv
<1>a. /\ pc \in [Threads -> PCs] /\ todo \in [Threads -> SUBSET Regs]
      /\ told \in [Regs -> Nat]
      /\ otherListeners \subseteq Regs
  BY DEF TypeOK
<1>b. done
  BY DEF PendingInv
<1>c. \A u \in Threads \ {t} : pc'[u] = pc[u] /\ pc[u] \notin Notifying /\ todo'[u] = todo[u]
  BY <1>a DEF NotifierInv
<1>1. ListsInv'
  BY <1>a, <1>b DEF ListsInv, NULL, Regs
<1>2. PendingInv'
  BY <1>b DEF PendingInv
<1>3. NotifierInv'
  BY <1>c DEF NotifierInv
<1>4. LateInv'
  BY <1>c DEF LateInv
<1>5. \A u \in Threads \ {t} : Owed(u) = {} /\ Owed(u)' = {}
  BY <1>c DEF Owed
<1>6. \A r \in what : r \in Regs /\ status[r] = "registered" /\ told[r] = 0
  BY <1>b DEF OwedInv, Owed
<1>7. OwedInv'
  <2> SUFFICES ASSUME NEW q \in Regs PROVE OwedInv!(q)'
    BY DEF OwedInv
  <2>1. (status[q] = "registered" /\ told[q] = 0) <=> q \in Owed(t)
    BY <1>b, <1>5 DEF OwedInv
  <2>2. (\E u \in Threads : q \in Owed(u)') <=> q \in Owed(t) \ what
    BY <1>5
  <2>3. (\E u \in Threads : pc'[u] = "late" /\ q \in todo'[u])
          <=> (\E u \in Threads : pc[u] = "late" /\ q \in todo[u])
    BY <1>c
  <2>4. CASE q \in what
    BY <1>a, <1>b, <1>6, <2>1, <2>2, <2>3, <2>4 DEF OwedInv, Live
  <2>5. CASE q \notin what
    BY <1>a, <1>b, <2>1, <2>2, <2>3, <2>5 DEF OwedInv
  <2> QED
    BY <2>4, <2>5
<1> QED
  BY <1>1, <1>2, <1>3, <1>4, <1>7

LEMMA NotifyFirstStep ==
    ASSUME TypeOK, NotifyInv, NEW t \in Threads, NotifyFirst(t)
    PROVE  NotifyInv'
<1> DEFINE what == {r \in Regs : r = firstListener}
<1>a. /\ pc \in [Threads -> PCs] /\ todo \in [Threads -> SUBSET Regs]
      /\ told \in [Regs -> Nat]
      /\ firstListener \in Regs \cup {NULL} /\ otherListeners \subseteq Regs
  BY DEF TypeOK
<1>b. NULL \notin Regs
  BY DEF NULL, Regs
<1>1. told' = [r \in Regs |-> IF r \in what THEN told[r] + 1 ELSE told[r]]
  BY <1>a, <1>b DEF NotifyFirst, Tell
<1>2. what \subseteq Owed(t)
  BY DEF NotifyFirst, Owed, Listed
<1>3. /\ pc'[t] \in {"others", "function"}
      /\ pc'[t] = "others" => todo'[t] = otherListeners
      /\ pc'[t] = "function" => otherListeners = {} /\ firstListener = NULL
      /\ pc' = [pc EXCEPT ![t] = pc'[t]] /\ todo' = [todo EXCEPT ![t] = todo'[t]]
      /\ firstListener' = NULL
  BY <1>a DEF NotifyFirst, Goto, NotifyInv, NotifierInv
<1>4. Owed(t)' = Owed(t) \ what
  BY <1>a, <1>b, <1>3 DEF NotifyFirst, Owed, Listed, NotifyInv, ListsInv
<1> HIDE DEF what
<1> QED
  BY <1>1, <1>2, <1>3, <1>4, NotifierTells DEF NotifyFirst, Notifying

LEMMA NotifyOthersStep ==
    ASSUME TypeOK, NotifyInv, NEW t \in Threads, NotifyOthers(t)
    PROVE  NotifyInv'
<1>a. /\ pc \in [Threads -> PCs] /\ todo \in [Threads -> SUBSET Regs]
      /\ told \in [Regs -> Nat]
  BY DEF TypeOK
<1>b. pc[t] = "others" /\ pc[t] \in Notifying
  BY DEF NotifyOthers, Notifying
<1>c. UNCHANGED <<done, cause, firstListener, otherListeners, functionListener, status>>
  BY DEF NotifyOthers, lists
<1>d. todo[t] \subseteq otherListeners
  BY <1>b DEF NotifyInv, NotifierInv
<1>1. CASE todo[t] = {} /\ Goto(t, "function", {}) /\ told' = told
  <2> DEFINE nobody == {r \in Regs : FALSE}
  <2>1. /\ pc' = [pc EXCEPT ![t] = pc'[t]] /\ pc'[t] = "function"
        /\ todo' = [todo EXCEPT ![t] = todo'[t]]
        /\ told' = [r \in Regs |-> IF r \in nobody THEN told[r] + 1 ELSE told[r]]
    BY <1>1, <1>a DEF Goto
  <2>2. Owed(t)' = Owed(t) \ nobody /\ nobody \subseteq Owed(t)
    BY <1>1, <1>b, <1>c, <2>1 DEF Owed
  <2> HIDE DEF nobody
  <2> QED
    BY <1>b, <1>c, <2>1, <2>2, NotifierTells
<1>2. ASSUME NEW r \in todo[t], Tell(r), Goto(t, "others", todo[t] \ {r})
      PROVE  NotifyInv'
  <2>1. /\ pc' = [pc EXCEPT ![t] = pc'[t]] /\ pc'[t] = "others"
        /\ todo' = [todo EXCEPT ![t] = todo'[t]] /\ todo'[t] = todo[t] \ {r}
        /\ told' = [q \in Regs |-> IF q \in {r} THEN told[q] + 1 ELSE told[q]]
        /\ todo'[t] \subseteq otherListeners
    BY <1>2, <1>a, <1>d DEF Goto, Tell
  <2>2. Owed(t)' = Owed(t) \ {r} /\ {r} \subseteq Owed(t)
    BY <1>2, <1>a, <1>b, <1>c, <1>d, <2>1 DEF Owed, NotifyInv, ListsInv
  <2> QED
    BY <1>b, <1>c, <2>1, <2>2, NotifierTells
<1> QED
  BY <1>1, <1>2 DEF NotifyOthers

LEMMA NotifyFunctionStep ==
    ASSUME TypeOK, NotifyInv, NEW t \in Threads, NotifyFunction(t)
    PROVE  NotifyInv'
<1> DEFINE what == {r \in Regs : r = functionListener}
<1>a. /\ pc \in [Threads -> PCs] /\ todo \in [Threads -> SUBSET Regs]
      /\ told \in [Regs -> Nat]
      /\ functionListener \in Regs \cup {NULL}
  BY DEF TypeOK
<1>b. NULL \notin Regs
  BY DEF NULL, Regs
<1>1. told' = [r \in Regs |-> IF r \in what THEN told[r] + 1 ELSE told[r]]
  BY <1>a, <1>b DEF NotifyFunction, Tell
<1>2. /\ pc[t] = "function" /\ pc'[t] = "idle"
      /\ pc' = [pc EXCEPT ![t] = pc'[t]] /\ todo' = [todo EXCEPT ![t] = todo'[t]]
      /\ functionListener' = NULL
  BY <1>a DEF NotifyFunction, Goto
<1>3. what \subseteq Owed(t) /\ Owed(t)' = Owed(t) \ what
  BY <1>2 DEF Owed
<1> HIDE DEF what
<1> QED
  BY <1>1, <1>2, <1>3, NotifierTells DEF NotifyFunction, Notifying

LEMMA NotifyStep ==
    ASSUME TypeOK, NotifyInv, [Next]_vars
    PROVE  NotifyInv'
<1> USE FutureAssumption
<1>a. pc \in [Threads -> PCs] /\ todo \in [Threads -> SUBSET Regs]
  BY DEF TypeOK
<1>1. ASSUME NEW t \in Threads, NEW where \in {"idle", "progress", "await"} \cup Timed,
             NEW what, pc[t] \notin Calling,
             Call(t, where, what) \/ Goto(t, where, what),
             UNCHANGED <<done, cause, firstListener, otherListeners, functionListener,
                         told, status>>
      PROVE  NotifyInv'
  <2>1. \A u \in Threads : \/ pc'[u] = pc[u] /\ todo'[u] = todo[u]
                           \/ pc[u] \notin Calling /\ pc'[u] \notin Calling
    BY <1>1, <1>a DEF Call, Goto, Calling, Notifying, Timed
  <2> QED
    BY <1>1, <2>1, NotifyQuiet
<1>2. ASSUME UNCHANGED <<done, cause, firstListener, otherListeners, functionListener,
                         told, status, pc, todo>>
      PROVE  NotifyInv'
  BY <1>2, NotifyQuiet
<1>3. ASSUME NEW t \in Completers, SetProgress(t)
      PROVE  NotifyInv'
  <2>1. pc[t] \notin Calling
    BY <1>3 DEF SetProgress, Call, Calling, Notifying
  <2> QED
    BY <1>1, <1>3, <2>1 DEF SetProgress, lists, history
<1>4. ASSUME NEW t \in Waiters,
             AwaitInterrupted(t) \/ Await(t)
               \/ \E kind \in Timed, positive \in BOOLEAN : TimedAwait(t, kind, positive)
      PROVE  NotifyInv'
  <2>1. pc[t] \notin Calling
    BY <1>4 DEF AwaitInterrupted, Await, TimedAwait, Call, Calling, Notifying
  <2> QED
    BY <1>1, <1>4, <2>1 DEF AwaitInterrupted, Await, TimedAwait, lists, history
<1>5. ASSUME NEW t \in Waiters, Expire(t) \/ SpuriousWakeup(t) \/ Interrupt(t)
      PROVE  NotifyInv'
  BY <1>2, <1>5 DEF Expire, SpuriousWakeup, Interrupt, Disturb, lists, locals, history
<1>6. ASSUME NEW t \in Threads, NotifyProgress(t)
      PROVE  NotifyInv'
  <2>1. pc[t] \notin Calling
    BY <1>6 DEF NotifyProgress, Calling, Notifying
  <2> QED
    BY <1>1, <1>6, <2>1 DEF NotifyProgress, lists
<1>7. ASSUME NEW t \in Threads, AwaitResume(t) \/ TimedResume(t)
      PROVE  NotifyInv'
  <2>1. pc[t] \notin Calling
    BY <1>7 DEF AwaitResume, TimedResume, Calling, Notifying, Timed
  <2> QED
    BY <1>1, <1>2, <1>7, <2>1 DEF AwaitResume, TimedResume, lists, locals, history
<1>8. ASSUME UNCHANGED vars
      PROVE  NotifyInv'
  BY <1>2, <1>8 DEF vars, lists, locals, history
<1> QED
  BY <1>3, <1>4, <1>5, <1>6, <1>7, <1>8, AddListenerStep, SetListenerStep,
     RemoveListenerStep, CompleteStep, NotifyLateStep, NotifyFirstStep, NotifyOthersStep,
     NotifyFunctionStep
  DEF Next, Continue, SetSuccess, SetFailure, Cancel

LEMMA NotifyInvariant == Spec => [](TypeOK /\ NotifyInv)
<1>1. TypeOK /\ NotifyInv /\ [Next]_vars => NotifyInv'
  BY NotifyStep
<1> QED
  BY <1>1, NotifyInit, TypeCorrect, PTL DEF Spec

(* A listener is told at most once, never before the completion, and every  *)
(* registration neither removed nor replaced has been told when the threads *)
(* have left notifyListeners and notifyListener.                            *)
THEOREM ListenersToldExactlyOnce == Spec => []ExactlyOnce
<1>1. TypeOK /\ NotifyInv => ExactlyOnce
  <2> SUFFICES ASSUME TypeOK, NotifyInv PROVE ExactlyOnce
    OBVIOUS
  <2>1. \A r \in Regs : told[r] <= 1 /\ (told[r] = 1 => done /\ status[r] \in Live)
    BY DEF NotifyInv, OwedInv
  <2>2. ASSUME done, \A t \in Threads : pc[t] \notin Notifying \cup {"late"},
               NEW r \in Regs, status[r] \in Live
        PROVE  told[r] = 1
    BY <2>2 DEF NotifyInv, OwedInv, Owed, Live, Notifying
  <2> QED
    BY <2>1, <2>2 DEF ExactlyOnce
<1> QED
  BY <1>1, NotifyInvariant, PTL

-----------------------------------------------------------------------------
(***************************************************************************)
(* The comment in notifyListeners.                                         *)
(***************************************************************************)

(* Once the future is completed no step changes the lists, except that the  *)
(* notifying thread clears the first and the function listener: the reason  *)
(* why notifyListeners may read them without holding the mutex.             *)
THEOREM ListsAreFrozen == Spec => ListsFrozenWhenDone
<1> DEFINE Frozen == /\ otherListeners' = otherListeners
                     /\ progressListeners' = progressListeners
                     /\ firstListener' \in {firstListener, NULL}
                     /\ functionListener' \in {functionListener, NULL}
<1>1. ASSUME done, [Next]_vars
      PROVE  Frozen
  <2> USE <1>1 DEF lists
  <2>1. ASSUME NEW t, NEW l, NEW r,
               AddListener(t, l, r) \/ SetListener(t, r) \/ RemoveListener(t, l)
        PROVE  Frozen
    BY <2>1 DEF AddListener, SetListener, RemoveListener
  <2>2. ASSUME NEW t, NEW c, Complete(t, c) \/ SetProgress(t)
        PROVE  Frozen
    BY <2>2 DEF Complete, SetProgress
  <2>3. ASSUME NEW t, NEW kind, NEW positive,
               AwaitInterrupted(t) \/ Await(t) \/ TimedAwait(t, kind, positive)
                 \/ Expire(t) \/ SpuriousWakeup(t) \/ Interrupt(t)
        PROVE  Frozen
    BY <2>3 DEF AwaitInterrupted, Await, TimedAwait, Expire, SpuriousWakeup, Interrupt, Disturb
  <2>4. ASSUME NEW t, NotifyFirst(t) \/ NotifyOthers(t) \/ NotifyFunction(t)
        PROVE  Frozen
    BY <2>4 DEF NotifyFirst, NotifyOthers, NotifyFunction
  <2>5. ASSUME NEW t, NotifyLate(t) \/ NotifyProgress(t) \/ AwaitResume(t) \/ TimedResume(t)
        PROVE  Frozen
    BY <2>5 DEF NotifyLate, NotifyProgress, AwaitResume, TimedResume
  <2>6. ASSUME UNCHANGED vars
        PROVE  Frozen
    BY <2>6 DEF vars
  <2> QED
    <3> HIDE DEF Frozen
    <3> QED
      BY <2>1, <2>2, <2>3, <2>4, <2>5, <2>6 DEF Next, Continue, SetSuccess, SetFailure, Cancel
<1> QED
  BY <1>1, PTL DEF Spec, ListsFrozenWhenDone

-----------------------------------------------------------------------------
(***************************************************************************)
(* The order of the calls.  The numbers grow along the lists: a new        *)
(* registration is greater than the ones in use, and removals keep the     *)
(* order.  The notifying thread goes through the lists from the front.     *)
(***************************************************************************)

(* The lists hold used registrations of the right sort, in increasing order,*)
(* and the first listener is called before any other.                       *)
OrderInv ==
    /\ \A q, r \in Regs : q < r /\ status[q] = "unused" => status[r] = "unused"
    /\ \A r \in Listed : status[r] # "unused"
    /\ \A r \in otherListeners :
          callee[r] # Function /\ (firstListener # NULL => firstListener < r)
    /\ firstListener # NULL => callee[firstListener] # Function
    /\ functionListener # NULL => callee[functionListener] = Function
    /\ \A t \in Threads : pc[t] = "first" =>
          \A r \in Regs : status[r] = "registered" => told[r] = 0
    /\ ToldInOrder

LEMMA OrderInit == Init => OrderInv
BY DEF Init, OrderInv, ToldInOrder, Listed, NULL, Regs

LEMMA OrderQuiet ==
    ASSUME OrderInv,
           UNCHANGED <<firstListener, otherListeners, functionListener, callee, status, told>>,
           \A u \in Threads : pc'[u] = "first" => pc[u] = "first"
    PROVE  OrderInv'
BY DEF OrderInv, ToldInOrder, Listed

(* A new registration, before the completion or after it.                   *)
LEMMA OrderRegister ==
    ASSUME TypeOK, NotifyInv, OrderInv, NEW t \in Threads, NEW r \in Regs,
           (\E l \in Listeners : AddListener(t, l, r)) \/ SetListener(t, r)
    PROVE  OrderInv'
<1>a. /\ pc \in [Threads -> PCs] /\ told' = told /\ told \in [Regs -> Nat]
      /\ callee \in [Regs -> Listeners \cup {Function}]
      /\ status \in [Regs -> {"unused", "removed", "replaced"} \cup Live]
      /\ NextReg(r) /\ status[r] = "unused" /\ otherListeners \subseteq Regs
      /\ firstListener \in Regs \cup {NULL} /\ functionListener \in Regs \cup {NULL}
  BY DEF TypeOK, AddListener, SetListener, NextReg
<1>b. \A q \in Listed : q < r /\ q # r
  BY <1>a DEF OrderInv, Listed, Regs
<1>c. \A u \in Threads : pc'[u] = "first" => pc[u] = "first"
  BY <1>a DEF AddListener, SetListener, Call
<1>d. /\ callee' = [callee EXCEPT ![r] = callee'[r]]
      /\ callee'[r] \in Listeners => callee'[r] # Function
  BY <1>a, FunctionAssumption DEF AddListener, SetListener
<1>e. \A q \in Regs : (status'[q] = "unused" => status[q] = "unused" /\ q # r)
                      /\ (status'[q] = "registered" => status[q] = "registered" \/ q = r)
                      /\ (q # r /\ q \notin Listed => status'[q] = status[q])
                      /\ (status[q] = "unused" /\ q # r => status'[q] = "unused")
  BY <1>a DEF AddListener, SetListener, Listed, OrderInv
<1>1. \A p, q \in Regs : p < q /\ status'[p] = "unused" => status'[q] = "unused"
  BY <1>a, <1>e DEF OrderInv, NextReg, Regs
<1>2. \A u \in Threads : pc'[u] = "first" =>
          \A q \in Regs : status'[q] = "registered" => told'[q] = 0
  BY <1>a, <1>c, <1>e DEF OrderInv, NotifyInv, OwedInv, Live
<1>3. ToldInOrder'
  BY <1>a, <1>d, <1>e DEF OrderInv, ToldInOrder, NotifyInv, OwedInv, Live
<1>4. CASE \E l \in Listeners : AddListener(t, l, r)
  <2>1. \A q \in Listed' : q \in Listed \/ q = r
    BY <1>4 DEF AddListener, Listed, lists
  <2>2. callee'[r] \in Listeners /\ UNCHANGED functionListener
    BY <1>4, <1>a DEF AddListener, lists
  <2>3. \A q \in Listed' : status'[q] # "unused"
    BY <1>e, <2>1 DEF OrderInv, Listed
  <2>4. \/ UNCHANGED <<firstListener, otherListeners>>
        \/ firstListener = NULL /\ firstListener' = r /\ UNCHANGED otherListeners /\ ~done
        \/ firstListener # NULL /\ UNCHANGED firstListener
             /\ otherListeners' = otherListeners \cup {r}
    BY <1>4 DEF AddListener, lists
  <2>5. /\ functionListener' # NULL => callee'[functionListener'] = Function
        /\ firstListener' # NULL => callee'[firstListener'] # Function
    BY <1>a, <1>b, <1>d, <2>2, <2>4 DEF OrderInv, Listed, NULL, Regs
  <2>6. \A q \in otherListeners' :
          callee'[q] # Function /\ (firstListener' # NULL => firstListener' < q)
    BY <1>a, <1>b, <1>d, <2>2, <2>4 DEF OrderInv, Listed, NULL, Regs, NotifyInv, ListsInv
  <2> QED
    BY <1>1, <1>2, <1>3, <2>2, <2>3, <2>4, <2>5, <2>6 DEF OrderInv
<1>5. CASE SetListener(t, r)
  BY <1>1, <1>2, <1>3, <1>5, <1>a, <1>b, <1>d, <1>e
  DEF OrderInv, SetListener, Listed, NULL, Regs
<1> QED
  BY <1>4, <1>5

LEMMA OrderRemove ==
    ASSUME TypeOK, NotifyInv, OrderInv, NEW t \in Threads, NEW l \in Listeners,
           RemoveListener(t, l)
    PROVE  OrderInv'
<1>a. /\ pc \in [Threads -> PCs] /\ UNCHANGED <<told, callee, functionListener>>
      /\ status \in [Regs -> {"unused", "removed", "replaced"} \cup Live]
      /\ otherListeners \subseteq Regs /\ firstListener \in Regs \cup {NULL}
  BY DEF TypeOK, RemoveListener, lists
<1>b. \A u \in Threads : pc'[u] = "first" => pc[u] = "first"
  BY <1>a DEF RemoveListener, Call
<1>1. CASE done
  BY <1>1, <1>a, <1>b, OrderQuiet DEF RemoveListener, lists
<1>2. CASE ~done
  <2>1. \A q \in Regs : (status'[q] = "unused" <=> status[q] = "unused")
                        /\ (status'[q] = "registered" => status[q] = "registered")
    BY <1>2, <1>a DEF RemoveListener, OrderInv, Listed
  <2>2. /\ otherListeners' \subseteq otherListeners
        /\ firstListener' \in otherListeners \cup {firstListener, NULL}
        /\ \A r \in otherListeners' : firstListener' # NULL => firstListener' < r
    <3>1. CASE firstListener # NULL /\ callee[firstListener] = l
      <4>1. \/ otherListeners = {} /\ firstListener' = NULL /\ UNCHANGED otherListeners
            \/ \E r \in otherListeners :
                  /\ \A q \in otherListeners : r <= q
                  /\ firstListener' = r
                  /\ otherListeners' = otherListeners \ {r}
        BY <1>2, <3>1 DEF RemoveListener, IsFirst
      <4>2. CASE otherListeners = {}
        BY <4>1, <4>2
      <4>3. ASSUME NEW r \in otherListeners, \A q \in otherListeners : r <= q,
                   firstListener' = r, otherListeners' = otherListeners \ {r}
            PROVE  \A q \in otherListeners' : firstListener' < q
        BY FutureAssumption, <1>a, <4>3 DEF Regs
      <4> QED
        BY <4>1, <4>2, <4>3
    <3>2. CASE ~(firstListener # NULL /\ callee[firstListener] = l)
      BY <1>2, <1>a, <3>2 DEF RemoveListener, OrderInv
    <3> QED
      BY <3>1, <3>2
  <2>3. Listed' \subseteq Listed
    BY <2>2, <1>a DEF Listed, NULL, Regs
  <2>4. ToldInOrder'
    BY <1>2, <1>a DEF ToldInOrder, NotifyInv, PendingInv
  <2> QED
    <3>1. \A r \in Listed' : status'[r] # "unused"
      BY <2>1, <2>3 DEF OrderInv, Listed
    <3>2. /\ \A r \in otherListeners' : callee'[r] # Function
          /\ firstListener' # NULL => callee'[firstListener'] # Function
          /\ functionListener' # NULL => callee'[functionListener'] = Function
      BY <1>a, <2>2 DEF OrderInv
    <3>3. \A q, r \in Regs : q < r /\ status'[q] = "unused" => status'[r] = "unused"
      BY <2>1 DEF OrderInv
    <3>4. \A u \in Threads : pc'[u] = "first" =>
            \A r \in Regs : status'[r] = "registered" => told'[r] = 0
      BY <1>a, <1>b, <2>1 DEF OrderInv
    <3> QED
      BY <2>2, <2>4, <3>1, <3>2, <3>3, <3>4 DEF OrderInv
<1> QED
  BY <1>1, <1>2

LEMMA OrderComplete ==
    ASSUME TypeOK, NotifyInv, OrderInv, NEW t \in Threads, NEW c, Complete(t, c)
    PROVE  OrderInv'
<1>a. pc \in [Threads -> PCs]
  BY DEF TypeOK
<1>1. CASE done
  BY <1>1, <1>a, OrderQuiet DEF Complete, Call, lists, history
<1>2. CASE ~done
  <2>1. \A r \in Regs : told[r] = 0
    BY <1>2 DEF NotifyInv, PendingInv
  <2> QED
    BY <2>1 DEF OrderInv, ToldInOrder, Listed, Complete, lists, history
<1> QED
  BY <1>1, <1>2

(* The notifying thread tells the least registration that is owed a call.   *)
LEMMA OrderNotify ==
    ASSUME TypeOK, NotifyInv, OrderInv, NEW t \in Threads,
           NotifyLate(t) \/ NotifyFirst(t) \/ NotifyOthers(t) \/ NotifyFunction(t)
    PROVE  OrderInv'
<1>a. /\ pc \in [Threads -> PCs] /\ told \in [Regs -> Nat] /\ done
      /\ UNCHANGED <<callee, status, otherListeners>>
      /\ firstListener \in Regs \cup {NULL} /\ functionListener \in Regs \cup {NULL}
      /\ otherListeners \subseteq Regs /\ todo \in [Threads -> SUBSET Regs]
  BY DEF TypeOK, NotifyLate, NotifyFirst, NotifyOthers, NotifyFunction, lists,
         NotifyInv, PendingInv, Notifying
<1>b. pc[t] # "first" =>
        (\A u \in Threads : pc'[u] = "first" => pc[u] = "first" /\ u # t)
  BY <1>a DEF NotifyLate, NotifyFirst, NotifyOthers, NotifyFunction, Goto
<1>1. CASE NotifyLate(t)
  <2>1. \A r \in todo[t] : status[r] = "late"
    BY <1>1, <1>a DEF NotifyLate, NotifyInv, OwedInv
  <2>2. \A r \in Regs : status[r] = "registered" => told'[r] = told[r]
    BY <1>1, <1>a, <2>1 DEF NotifyLate
  <2>3. ToldInOrder'
    BY <1>a, <2>2 DEF ToldInOrder, OrderInv
  <2> QED
    BY <1>1, <1>a, <1>b, <2>2, <2>3 DEF OrderInv, NotifyLate, lists, Listed
<1>2. CASE NotifyFirst(t)
  <2>1. \A u \in Threads : pc'[u] # "first"
    BY <1>2, <1>a DEF NotifyFirst, Goto, NotifyInv, NotifierInv, Notifying
  <2>2. \A q \in Regs : status[q] = "registered" /\ callee[q] # Function =>
                          q = firstListener \/ (firstListener # NULL /\ firstListener < q)
    <3> SUFFICES ASSUME NEW q \in Regs, status[q] = "registered", callee[q] # Function
                 PROVE  q = firstListener \/ (firstListener # NULL /\ firstListener < q)
      OBVIOUS
    <3>1. told[q] = 0 /\ (\E u \in Threads : q \in Owed(u))
      BY <1>2, <1>a DEF OrderInv, NotifyFirst, NotifyInv, OwedInv
    <3>2. q \in Owed(t)
      BY <1>2, <3>1 DEF NotifyInv, NotifierInv, NotifyFirst, Owed, Notifying
    <3>3. q = firstListener \/ q \in otherListeners \/ q = functionListener
      BY <1>2, <3>2 DEF Owed, Listed, NotifyFirst
    <3> QED
      BY <1>2, <1>a, <3>3 DEF OrderInv, NotifyInv, NotifierInv, NotifyFirst, NULL, Regs
  <2>3. \A q \in Regs : status[q] = "registered" /\ callee[q] # Function
                          => told'[q] = (IF q = firstListener THEN 1 ELSE 0)
    <3>1. \A q \in Regs : status[q] = "registered" => told[q] = 0
      BY <1>2 DEF OrderInv, NotifyFirst
    <3>2. \/ firstListener = NULL /\ told' = told
          \/ firstListener \in Regs /\ told' = [told EXCEPT ![firstListener] = @ + 1]
      BY <1>2, <1>a DEF NotifyFirst, Tell
    <3> QED
      BY FutureAssumption, <1>a, <3>1, <3>2 DEF NULL, Regs
  <2>4. ToldInOrder'
    BY <1>a, <2>2, <2>3 DEF ToldInOrder, NULL, Regs
  <2>5. firstListener' = NULL /\ UNCHANGED functionListener
    BY <1>2 DEF NotifyFirst
  <2> QED
    BY <1>a, <2>1, <2>4, <2>5 DEF OrderInv, Listed, NULL, Regs
<1>3. CASE NotifyOthers(t)
  <2>1. CASE told' = told
    BY <2>1, <1>3, <1>a, <1>b, OrderQuiet DEF NotifyOthers, lists
  <2>2. ASSUME NEW r \in todo[t], IsFirst(r, todo[t]), Tell(r)
        PROVE  ToldInOrder'
    <3>1. r \in Regs /\ told' = [told EXCEPT ![r] = told[r] + 1]
      BY <2>2, <1>a DEF Tell
    <3>2. ASSUME NEW q \in Regs, q < r, status[q] = "registered", callee[q] # Function
          PROVE  told[q] = 1
      <4>1. SUFFICES ASSUME told[q] # 1 PROVE FALSE
        OBVIOUS
      <4>2. PICK u \in Threads : q \in Owed(u)
        BY <1>a, <3>2, <4>1 DEF NotifyInv, OwedInv
      <4>3. u = t
        BY <1>3, <4>2 DEF NotifyOthers, NotifyInv, NotifierInv, Owed, Notifying
      <4>4. q \in todo[t]
        BY <1>3, <3>2, <4>2, <4>3 DEF NotifyOthers, Owed, OrderInv, NULL, Regs
      <4> QED
        BY <2>2, <3>1, <3>2, <4>4 DEF IsFirst, Regs
    <3>3. told[r] = 0
      BY <1>3, <1>a, <2>2, <3>1 DEF NotifyInv, OwedInv, Owed, NotifyOthers
    <3> QED
      BY <1>a, <3>1, <3>2, <3>3 DEF OrderInv, ToldInOrder, Regs
  <2>3. CASE ~(told' = told)
    <3>1. ToldInOrder'
      BY <1>3, <2>2, <2>3 DEF NotifyOthers
    <3> QED
      BY <1>3, <3>1, <1>a, <1>b DEF OrderInv, NotifyOthers, lists, Listed, NotifyInv,
         NotifierInv, Notifying
  <2> QED
    BY <2>1, <2>3
<1>4. CASE NotifyFunction(t)
  <2>1. \A q \in Regs : callee[q] # Function => told'[q] = told[q]
    BY <1>4, <1>a DEF NotifyFunction, Tell, OrderInv, NULL, Regs
  <2>2. ToldInOrder'
    BY <1>a, <2>1 DEF OrderInv, ToldInOrder
  <2> QED
    BY <1>4, <1>a, <1>b, <2>2
    DEF OrderInv, NotifyFunction, Listed, NotifyInv, NotifierInv, Notifying, NULL, Regs
<1> QED
  BY <1>1, <1>2, <1>3, <1>4

LEMMA OrderStep ==
    ASSUME TypeOK, NotifyInv, OrderInv, [Next]_vars
    PROVE  OrderInv'
<1> USE FutureAssumption
<1>a. pc \in [Threads -> PCs]
  BY DEF TypeOK
<1>1. ASSUME NEW t \in Completers, SetProgress(t)
      PROVE  OrderInv'
  BY <1>1, <1>a, OrderQuiet DEF SetProgress, Call, lists, history
<1>2. ASSUME NEW t \in Waiters,
             AwaitInterrupted(t) \/ Await(t) \/ Expire(t) \/ SpuriousWakeup(t) \/ Interrupt(t)
               \/ \E kind \in Timed, positive \in BOOLEAN : TimedAwait(t, kind, positive)
      PROVE  OrderInv'
  BY <1>2, <1>a, OrderQuiet
  DEF AwaitInterrupted, Await, TimedAwait, Expire, SpuriousWakeup, Interrupt, Disturb,
      Call, Timed, lists, locals, history
<1>3. ASSUME NEW t \in Threads, NotifyProgress(t) \/ AwaitResume(t) \/ TimedResume(t)
      PROVE  OrderInv'
  BY <1>3, <1>a, OrderQuiet
  DEF NotifyProgress, AwaitResume, TimedResume, Goto, lists, locals, history
<1>4. ASSUME UNCHANGED vars
      PROVE  OrderInv'
  BY <1>4, OrderQuiet DEF vars, lists, locals, history
<1> QED
  BY <1>1, <1>2, <1>3, <1>4, OrderRegister, OrderRemove, OrderComplete, OrderNotify
  DEF Next, Continue, SetSuccess, SetFailure, Cancel

LEMMA OrderInvariant == Spec => []OrderInv
<1>1. TypeOK /\ NotifyInv /\ OrderInv /\ [Next]_vars => OrderInv'
  BY OrderStep
<1> QED
  BY <1>1, OrderInit, NotifyInvariant, PTL DEF Spec

(* notifyListeners: the listeners that were registered when the future was  *)
(* completed are told in the order in which they were registered, whatever  *)
(* removals have promoted another listener to be the first.                 *)
THEOREM ListenersToldInOrder == Spec => []ToldInOrder
<1>1. OrderInv => ToldInOrder
  BY DEF OrderInv
<1> QED
  BY <1>1, OrderInvariant, PTL
-----------------------------------------------------------------------------
(***************************************************************************)
(* The refinement.  The registrations of addListener are the subscriptions *)
(* of OnceFuture; OrderInv tells them from the ones of setListener.        *)
(***************************************************************************)
Subscribed == {r \in Regs : Added(r) /\ status[r] \in Live}
Delivered == {r \in Regs : Added(r) /\ told[r] > 0}

LEMMA RefineInit == Init => Once!Init
BY DEF Init, Once!Init, Outcome, Live

(* A step that leaves the mapped state alone is a stuttering step.          *)
LEMMA RefineStutter ==
    ASSUME UNCHANGED <<done, cause, callee, status, told>>
    PROVE  UNCHANGED Once!vars
BY DEF Once!vars, Outcome, Added

LEMMA RefineSubscribe ==
    ASSUME TypeOK, NotifyInv, NEW r \in Regs, status[r] = "unused",
           Subscribed' = Subscribed \cup {r}, Delivered' = Delivered,
           UNCHANGED <<done, cause>>
    PROVE  Once!Next
<1>1. r \notin Subscribed \cup Delivered
  BY DEF Subscribed, Delivered, NotifyInv, OwedInv, Live
<1>2. Once!Subscribe(r)
  BY <1>1 DEF Once!Subscribe, Outcome, Subscribed, Delivered
<1> QED
  BY <1>2 DEF Once!Next

(* Telling a listener of addListener is a delivery, telling the function a  *)
(* stuttering step.                                                         *)
LEMMA RefineDeliver ==
    ASSUME TypeOK, NotifyInv, done, NEW r \in Regs, status[r] \in Live, told[r] = 0,
           told' = [q \in Regs |-> IF q = r THEN told[q] + 1 ELSE told[q]],
           UNCHANGED <<done, cause, callee, status>>
    PROVE  [Once!Next]_Once!vars
<1>a. told \in [Regs -> Nat]
  BY DEF TypeOK
<1>1. Outcome # "pending" /\ Outcome' = Outcome
  BY DEF Outcome, TypeOK
<1>2. Subscribed' = Subscribed
  BY DEF Subscribed, Added
<1>3. CASE Added(r)
  <2>1. Delivered' = Delivered \cup {r} /\ r \in Subscribed \ Delivered
    BY <1>3, <1>a DEF Subscribed, Delivered, Added
  <2>2. Once!Deliver(r)
    BY <1>1, <1>2, <2>1 DEF Once!Deliver, Subscribed, Delivered
  <2> QED
    BY <2>2 DEF Once!Next
<1>4. CASE ~Added(r)
  <2>1. Delivered' = Delivered
    BY <1>4, <1>a DEF Delivered, Added
  <2> QED
    BY <1>1, <1>2, <2>1 DEF Once!vars, Subscribed, Delivered
<1> QED
  BY <1>3, <1>4

LEMMA RefineRegister ==
    ASSUME TypeOK, NotifyInv, OrderInv, NEW t \in Threads, NEW r \in Regs,
           (\E l \in Listeners : AddListener(t, l, r)) \/ SetListener(t, r)
    PROVE  [Once!Next]_Once!vars
<1>a. status[r] = "unused" /\ UNCHANGED <<done, cause, told>>
  BY DEF AddListener, SetListener, NextReg
<1>b. /\ status \in [Regs -> {"unused", "removed", "replaced"} \cup Live]
      /\ callee \in [Regs -> Listeners \cup {Function}]
  BY DEF TypeOK
<1>c. told[r] = 0
  BY <1>a DEF NotifyInv, OwedInv, Live
<1>d. Delivered' = Delivered
  BY <1>a, <1>b, <1>c DEF Delivered, Added, AddListener, SetListener
<1>1. CASE \E l \in Listeners : AddListener(t, l, r)
  <2>1. Subscribed' = Subscribed \cup {r}
    BY <1>1, <1>b, FunctionAssumption DEF AddListener, Subscribed, Added, Live
  <2> QED
    BY <1>a, <1>d, <2>1, RefineSubscribe
<1>2. CASE SetListener(t, r)
  <2>1. callee' = [callee EXCEPT ![r] = Function]
    BY <1>2 DEF SetListener
  <2>2. \A q \in Regs : q = functionListener => ~Added(q)
    BY DEF OrderInv, Added, NULL, Regs
  <2>3. \A q \in Regs : q # r /\ Added(q) => status'[q] = status[q]
    BY <1>2, <1>b, <2>2 DEF SetListener
  <2>4. Subscribed' = Subscribed
    BY <1>a, <1>b, <2>1, <2>3 DEF Subscribed, Added, Live
  <2> QED
    BY <1>a, <1>d, <2>4 DEF Once!vars, Subscribed, Delivered, Outcome
<1> QED
  BY <1>1, <1>2

LEMMA RefineRemove ==
    ASSUME TypeOK, NotifyInv, NEW t \in Threads, NEW l \in Listeners, RemoveListener(t, l)
    PROVE  [Once!Next]_Once!vars
<1>a. UNCHANGED <<done, cause, callee, told>>
  BY DEF RemoveListener
<1>1. CASE done
  BY <1>1, <1>a, RefineStutter DEF RemoveListener
<1>2. CASE ~done
  <2> DEFINE gone == IF firstListener # NULL /\ callee[firstListener] = l
                     THEN {firstListener}
                     ELSE {r \in otherListeners : callee[r] = l}
  <2>1. status' = [r \in Regs |-> IF r \in gone THEN "removed" ELSE status[r]]
    BY <1>2 DEF RemoveListener
  <2> HIDE DEF gone
  <2>2. PICK removed \in SUBSET Regs : removed = gone \cap Regs
    OBVIOUS
  <2>3. Subscribed' = Subscribed \ removed /\ Delivered' = Delivered
    BY <1>a, <2>1, <2>2 DEF Subscribed, Delivered, Added, Live
  <2>4. Outcome = "pending" /\ Outcome' = Outcome
    BY <1>2, <1>a DEF Outcome
  <2>5. Once!Unsubscribe(removed)
    BY <2>3, <2>4 DEF Once!Unsubscribe, Subscribed, Delivered
  <2> QED
    BY <2>5 DEF Once!Next
<1> QED
  BY <1>1, <1>2

LEMMA RefineComplete ==
    ASSUME TypeOK, NotifyInv, NEW t \in Threads, NEW c,
           c = cause \/ c \in {"failure", "cancelled"}, Complete(t, c)
    PROVE  [Once!Next]_Once!vars
<1>1. CASE done
  BY <1>1, RefineStutter DEF Complete, history
<1>2. CASE ~done
  <2>1. cause = "none"
    BY <1>2 DEF NotifyInv, PendingInv
  <2>2. done' /\ cause' = c /\ UNCHANGED <<callee, status, told>>
    BY <1>2 DEF Complete, history
  <2>3. Outcome = "pending" /\ Outcome' \in Once!Outcomes
    BY <1>2, <2>1, <2>2 DEF Outcome, Once!Outcomes
  <2>4. Once!Complete(Outcome')
    BY <2>2, <2>3 DEF Once!Complete, Added
  <2> QED
    BY <2>3, <2>4 DEF Once!Next
<1> QED
  BY <1>1, <1>2

LEMMA RefineNotify ==
    ASSUME TypeOK, NotifyInv, NEW t \in Threads,
           NotifyLate(t) \/ NotifyFirst(t) \/ NotifyOthers(t) \/ NotifyFunction(t)
    PROVE  [Once!Next]_Once!vars
<1>a. /\ UNCHANGED <<done, cause, callee, status>>
      /\ pc[t] \in Notifying \cup {"late"}
  BY DEF NotifyLate, NotifyFirst, NotifyOthers, NotifyFunction, Notifying
<1>b. done /\ told \in [Regs -> Nat]
  BY <1>a DEF NotifyInv, PendingInv, TypeOK
<1>1. CASE told' = told
  BY <1>1, <1>a, RefineStutter
<1>2. CASE NotifyLate(t)
  <2>1. PICK r \in Regs : todo[t] = {r}
    BY <1>2 DEF NotifyLate, NotifyInv, LateInv
  <2>2. status[r] = "late" /\ told[r] = 0
    BY <1>2, <2>1 DEF NotifyLate, NotifyInv, OwedInv
  <2>3. told' = [q \in Regs |-> IF q = r THEN told[q] + 1 ELSE told[q]]
    BY <1>2, <2>1 DEF NotifyLate
  <2> QED
    BY <1>a, <1>b, <2>2, <2>3, RefineDeliver DEF Live
<1>3. ASSUME NEW r \in Regs, r \in Owed(t), Tell(r)
      PROVE  [Once!Next]_Once!vars
  <2>1. status[r] = "registered" /\ told[r] = 0
    BY <1>3, <1>b DEF NotifyInv, OwedInv
  <2>2. told' = [q \in Regs |-> IF q = r THEN told[q] + 1 ELSE told[q]]
    BY <1>3, <1>b DEF Tell
  <2> QED
    BY <1>a, <1>b, <2>1, <2>2, RefineDeliver DEF Live
<1>4. CASE NotifyFirst(t)
  BY <1>1, <1>3, <1>4 DEF NotifyFirst, Owed, Listed, TypeOK
<1>5. CASE NotifyOthers(t)
  BY <1>1, <1>3, <1>5 DEF NotifyOthers, Owed, TypeOK
<1>6. CASE NotifyFunction(t)
  BY <1>1, <1>3, <1>6 DEF NotifyFunction, Owed, TypeOK
<1> QED
  BY <1>2, <1>4, <1>5, <1>6

LEMMA RefineStep ==
    ASSUME TypeOK, NotifyInv, OrderInv, [Next]_vars
    PROVE  [Once!Next]_Once!vars
<1> USE FutureAssumption
<1>1. ASSUME NEW t \in Completers, SetProgress(t)
      PROVE  UNCHANGED Once!vars
  BY <1>1, RefineStutter DEF SetProgress, history
<1>2. ASSUME NEW t \in Waiters,
             AwaitInterrupted(t) \/ Await(t) \/ Expire(t) \/ SpuriousWakeup(t) \/ Interrupt(t)
               \/ \E kind \in Timed, positive \in BOOLEAN : TimedAwait(t, kind, positive)
      PROVE  UNCHANGED Once!vars
  BY <1>2, RefineStutter
  DEF AwaitInterrupted, Await, TimedAwait, Expire, SpuriousWakeup, Interrupt, Disturb, history
<1>3. ASSUME NEW t \in Threads, NotifyProgress(t) \/ AwaitResume(t) \/ TimedResume(t)
      PROVE  UNCHANGED Once!vars
  BY <1>3, RefineStutter DEF NotifyProgress, AwaitResume, TimedResume, history
<1>4. ASSUME UNCHANGED vars
      PROVE  UNCHANGED Once!vars
  BY <1>4, RefineStutter DEF vars, history
<1> QED
  BY <1>1, <1>2, <1>3, <1>4, RefineRegister, RefineRemove, RefineComplete, RefineNotify
  DEF Next, Continue, SetSuccess, SetFailure, Cancel

(* Towards the listeners of addListener, DefaultChannelFuture is a          *)
(* write-once future: one outcome, decided once, and each listener that is  *)
(* not removed before it is told once, afterwards.                          *)
THEOREM FutureImplementsOnce == Spec => ImplementsOnce
<1>1. TypeOK /\ NotifyInv /\ OrderInv /\ [Next]_vars => [Once!Next]_Once!vars
  BY RefineStep
<1> QED
  BY <1>1, RefineInit, NotifyInvariant, OrderInvariant, PTL
  DEF Spec, ImplementsOnce, Once!Spec
=============================================================================
