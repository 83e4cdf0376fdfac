--------------------------- MODULE ChannelPipeline ---------------------------
(***************************************************************************)
(* DefaultChannelPipeline: the doubly linked list of handler contexts, the *)
(* two singly linked chains that events follow (nextUpstream,              *)
(* nextDownstream) and the map from names to contexts.                     *)
(*                                                                         *)
(* Modifications hold `mutex`; one is under way while `work` is not empty. *)
(* Events follow the chains without the mutex, so every assignment to a    *)
(* chain and every handler call of an event is a step of its own.  What    *)
(* only the holder of the mutex reads is changed in one step.              *)
(*                                                                         *)
(* Contexts are never moved, and the allocator's reuse of freed memory is  *)
(* not modelled: a context is the number of the `new` that made it.        *)
(***************************************************************************)
EXTENDS Naturals, Sequences

CONSTANTS
    Names,       \* handler names
    Kinds,       \* sets of directions a handler may handle
    Events,      \* events that may be sent, each once
    Built,       \* the handlers added before the pipeline is shared
    MaxCalls,    \* bound: calls of the operations after that
    MaxCtx       \* bound: contexts made

Directions == {"up", "down"}

ASSUME PipelineAssumption ==
    /\ Kinds \subseteq (SUBSET Directions) \ {{}}
    /\ Built \subseteq Seq([name : Names, kind : Kinds])
    /\ \A b \in Built : /\ Len(b) <= MaxCtx
                        /\ \A i, j \in DOMAIN b : b[i].name = b[j].name => i = j
    /\ MaxCalls \in Nat /\ MaxCtx \in Nat

NULL == 0
Ctxs == 1 .. MaxCtx
Ptrs == Ctxs \cup {NULL}

VARIABLES
    ctx,         \* DefaultChannelHandlerContext
    made,        \* number of contexts made
    freed,       \* contexts deleted
    head, tail,
    chainHead,   \* upstreamHead ("up") and downstreamHead ("down")
    name2ctx,    \* NULL: the name is not in the map
    work,        \* what the holder of the mutex still has to do
    event,       \* the events
    attached,    \* attach() has been called
    calls,       \* operations called
    fault        \* undefined behaviour that has happened

list == <<ctx, made, head, tail, name2ctx>>
vars == <<list, freed, chainHead, work, event, attached, calls, fault>>

Contexts == [name : Names, kind : Kinds, next : Ptrs, prev : Ptrs,
             link : [Directions -> Ptrs]]          \* nextUpstream, nextDownstream
Jobs == [do : {"update", "walk"}, dir : Directions, at : Ptrs]
           \cup [do : {"afterAdd", "afterRemove", "delete"}, at : Ctxs]
           \cup [do : {"catch"}, after : BOOLEAN]
           \cup [do : {"add"}, first : BOOLEAN, name : Names, kind : Kinds]

(* at: the context whose handler has the event; from: the context that      *)
(* passed it on, NULL if it was the pipeline.                               *)
EventType == [state : {"unsent", "active", "done"}, dir : Directions,
              exception : BOOLEAN, at : Ptrs, from : Ptrs]

NoEvent(state) ==
    [state |-> state, dir |-> "up", exception |-> FALSE, at |-> NULL, from |-> NULL]

(* The types; every pointer is NULL or a context that may exist, so none of *)
(* a new context is left uninitialised by the constructor.                  *)
TypeOK ==
    /\ made \in 0 .. MaxCtx
    /\ ctx \in [1 .. made -> Contexts]
    /\ freed \subseteq Ctxs
    /\ head \in Ptrs /\ tail \in Ptrs
    /\ chainHead \in [Directions -> Ptrs]
    /\ name2ctx \in [Names -> Ptrs]
    /\ work \in Seq(Jobs)
    /\ event \in [Events -> EventType]
    /\ attached \in BOOLEAN
    /\ calls \in 0 .. MaxCalls
    /\ fault \in {"none", "useAfterFree", "doubleFree"}

(* What addLast builds from an empty pipeline: b[i] becomes context i.      *)
Follower(b, i, dir) ==
    LET later == {j \in DOMAIN b : dir \in b[j].kind /\ IF dir = "up" THEN i < j ELSE j < i}
    IN  IF later = {} THEN NULL
        ELSE CHOOSE j \in later : \A k \in later : IF dir = "up" THEN j <= k ELSE k <= j

Init == \E b \in Built :
    /\ made = Len(b)
    /\ ctx = [i \in DOMAIN b |->
                [name |-> b[i].name, kind |-> b[i].kind, prev |-> i - 1,
                 next |-> IF i = Len(b) THEN NULL ELSE i + 1,
                 link |-> [d \in Directions |-> Follower(b, i, d)]]]
    /\ freed = {}
    /\ head = IF b = <<>> THEN NULL ELSE 1
    /\ tail = Len(b)
    /\ chainHead = [d \in Directions |-> Follower(b, IF d = "up" THEN 0 ELSE Len(b) + 1, d)]
    /\ name2ctx = [n \in Names |-> IF \E i \in DOMAIN b : b[i].name = n
                                   THEN CHOOSE i \in DOMAIN b : b[i].name = n ELSE NULL]
    /\ work = <<>>
    /\ event = [e \in Events |-> NoEvent("unsent")]
    /\ attached = FALSE
    /\ calls = 0
    /\ fault = "none"

-----------------------------------------------------------------------------
(* A thread takes the mutex and calls an operation.                         *)
Enter ==
    /\ fault = "none"
    /\ work = <<>>
    /\ calls < MaxCalls
    /\ calls' = calls + 1

(* What the thread that has the mutex has to do next.                       *)
IsNext(what) == fault = "none" /\ work # <<>> /\ Head(work).do = what /\ UNCHANGED calls

Fails(what) ==
    /\ fault' = what
    /\ UNCHANGED <<list, freed, chainHead, work, event, attached>>

(* Mutant of Updates: only the upstream chain is kept up to date. *)
Updates_UpOnly(kind) ==
    IF "up" \in kind THEN <<[do |-> "update", dir |-> "up", at |-> NULL]>> ELSE <<>>

(* Which chains a handler of that kind belongs to, and so must be rebuilt.  *)
Updates(kind) ==
    LET Update(d) == IF d \in kind THEN <<[do |-> "update", dir |-> d, at |-> NULL]>> ELSE <<>>
    IN  Update("up") \o Update("down")

(* The holder of the mutex goes on. *)
Continue(next) == work' = next /\ UNCHANGED <<event, attached, fault>>

(* An exception: what remains is given up, up to the next catch clause.     *)
(* The one of replace, if afterRemove has thrown before, deletes the        *)
(* context and then asks it for its handler.                                *)
Unwind ==
    LET catches == {i \in DOMAIN work : work[i].do = "catch"}
        first == CHOOSE i \in catches : \A j \in catches : i <= j
    IN  IF catches # {} /\ work[first].after
        THEN Fails("useAfterFree")
        ELSE /\ Continue(IF catches = {} THEN <<>> ELSE SubSeq(work, first + 1, Len(work)))
             /\ UNCHANGED <<list, freed, chainHead>>

(* Mutant of NewContext: the links are not initialised. *)
NewContext_Uninitialised(n, kind, p, nx) ==
    [name |-> n, kind |-> kind, next |-> nx, prev |-> p,
     link |-> [d \in Directions |-> MaxCtx + 1]]

NewContext(n, kind, p, nx) ==
    [name |-> n, kind |-> kind, next |-> nx, prev |-> p, link |-> [d \in Directions |-> NULL]]

(* Mutant of LinkedIn: only the forward pointer is set. *)
LinkedIn_OneWay(c, p, nx) ==
    [i \in 1 .. made |-> [ctx[i] EXCEPT !.next = IF i = p THEN c ELSE @]]

(* The context c takes its place between p and nx. *)
LinkedIn(c, p, nx) ==
    [i \in 1 .. made |-> [ctx[i] EXCEPT !.next = IF i = p THEN c ELSE @,
                                        !.prev = IF i = nx THEN c ELSE @]]

(* addFirst, addLast, addBefore and addAfter once the place is known, with  *)
(* init: into an empty pipeline the chains' heads are set directly.         *)
Insert(n, kind, p, nx, rest) ==
    LET c == made + 1
        isFirst == head = NULL
    IN  /\ made < MaxCtx
        /\ name2ctx[n] = NULL                           \* checkDuplicateName
        /\ made' = c
        /\ ctx' = Append(LinkedIn(c, p, nx), NewContext(n, kind, p, nx))
        /\ head' = IF p = NULL THEN c ELSE head
        /\ tail' = IF nx = NULL THEN c ELSE tail
        /\ name2ctx' = [name2ctx EXCEPT ![n] = c]
        /\ chainHead' = [d \in Directions |-> IF isFirst /\ d \in kind THEN c ELSE chainHead[d]]
        /\ work' = (IF isFirst THEN <<>> ELSE Updates(kind))
                      \o <<[do |-> "afterAdd", at |-> c]>> \o rest
        /\ UNCHANGED <<freed, event, attached, fault>>

(* The map without the name of c; with the last handler it is cleared.      *)
Erased_Nothing(c) == name2ctx                \* mutant
Erased(c) ==
    IF head = tail THEN [n \in Names |-> NULL] ELSE [name2ctx EXCEPT ![ctx[c].name] = NULL]

(* removeFirst, removeLast and the middle case of remove. *)
Unlink(c, rest) ==
    LET p == ctx[c].prev
        nx == ctx[c].next
    IN  /\ ctx' = [i \in 1 .. made |-> [ctx[i] EXCEPT !.next = IF i = p THEN nx ELSE @,
                                                      !.prev = IF i = nx THEN p ELSE @]]
        /\ head' = IF c = head THEN nx ELSE head
        /\ tail' = IF c = tail THEN p ELSE tail
        /\ name2ctx' = Erased(c)
        /\ work' = Updates(ctx[c].kind) \o <<[do |-> "afterRemove", at |-> c],
                                             [do |-> "delete", at |-> c]>> \o rest
        /\ UNCHANGED <<made, freed, chainHead, event, attached, fault>>

(* remove(ctx): the only handler goes without a look at the chains.         *)
Remove(c, rest) ==
    IF c \in freed THEN Fails("useAfterFree")
    ELSE IF head # tail THEN Unlink(c, rest)
    ELSE /\ head' = NULL /\ tail' = NULL
         /\ name2ctx' = [n \in Names |-> NULL]
         /\ freed' = freed \cup {c}
         /\ work' = rest
         /\ UNCHANGED <<ctx, made, chainHead, event, attached, fault>>

-----------------------------------------------------------------------------
(* The public operations; one that throws before it changes anything (a     *)
(* duplicate or unknown name, beforeAdd, beforeRemove) is no step.          *)
Steps == 0 .. made
Walk == LET at[n \in Steps] == IF n = 0 THEN head
                              ELSE IF at[n - 1] = NULL THEN NULL ELSE ctx[at[n - 1]].next
        IN  at
Listed == {Walk[n] : n \in Steps} \ {NULL}
Mapped == {c \in Ctxs : \E n \in Names : name2ctx[n] = c}

AddFirst(n, kind) == Enter /\ Insert(n, kind, NULL, head, <<>>)
AddLast(n, kind) == Enter /\ Insert(n, kind, tail, NULL, <<>>)

AddBefore(base, n, kind) ==
    /\ Enter
    /\ IF base \in freed THEN Fails("useAfterFree")
                         ELSE Insert(n, kind, ctx[base].prev, base, <<>>)

AddAfter(base, n, kind) ==
    /\ Enter
    /\ IF base \in freed THEN Fails("useAfterFree")
                         ELSE Insert(n, kind, base, ctx[base].next, <<>>)

RemoveHandler(c) == Enter /\ Remove(c, <<>>)
RemoveFirst == Enter /\ head # NULL /\ Unlink(head, <<>>)
RemoveLast == Enter /\ head # NULL /\ Unlink(tail, <<>>)

(* replace of the first or the last handler: removeFirst, addFirst, and the *)
(* context that removeFirst has deleted is deleted again.                   *)
ReplaceEnd(c, n, kind) ==
    /\ Enter
    /\ c \in {head, tail}
    /\ made < MaxCtx
    /\ Unlink(c, <<[do |-> "add", first |-> (c = head), name |-> n, kind |-> kind],
                   [do |-> "delete", at |-> c]>>)

(* replace of another one; with the same name the map is left as it is.     *)
ReplaceMiddle(c, n, kind) ==
    LET new == made + 1
        p == ctx[c].prev
        nx == ctx[c].next
    IN  /\ Enter
        /\ c \notin {head, tail}
        /\ made < MaxCtx
        /\ IF c \in freed
           THEN Fails("useAfterFree")
           ELSE /\ n # ctx[c].name => name2ctx[n] = NULL
                /\ made' = new
                /\ ctx' = Append(LinkedIn(new, p, nx), NewContext(n, kind, p, nx))
                /\ name2ctx' = IF n = ctx[c].name THEN name2ctx
                               ELSE [name2ctx EXCEPT ![ctx[c].name] = NULL, ![n] = new]
                /\ \E thrown \in BOOLEAN :                \* by afterRemove
                      work' = Updates(kind \cup ctx[c].kind)
                                \o <<[do |-> "afterAdd", at |-> new],
                                     [do |-> "catch", after |-> thrown],
                                     [do |-> "delete", at |-> c]>>
                /\ UNCHANGED <<head, tail, freed, chainHead, event, attached, fault>>

Attach ==
    /\ fault = "none"
    /\ ~attached
    /\ attached' = TRUE
    /\ UNCHANGED <<list, freed, chainHead, work, event, calls, fault>>

-----------------------------------------------------------------------------
(* Mutant of Against: the wrong way for upstream. *)
Against_Along(c, dir) == IF c = NULL THEN head ELSE ctx[c].next

(* The walk through the list against the direction of the events; it starts *)
(* at NULL and ends there.                                                  *)
Against(c, dir) ==
    IF dir = "up" THEN (IF c = NULL THEN tail ELSE ctx[c].prev)
                  ELSE (IF c = NULL THEN head ELSE ctx[c].next)

(* updateUpstreamList and updateDownstreamList: first the head is cleared ..*)
UpdateList ==
    /\ IsNext("update")
    /\ LET dir == Head(work).dir
       IN  /\ chainHead' = [chainHead EXCEPT ![dir] = NULL]
           /\ Continue(<<[do |-> "walk", dir |-> dir, at |-> Against(NULL, dir)]>> \o Tail(work))
    /\ UNCHANGED <<list, freed>>

(* ... then the list is walked against the direction of the events.  The    *)
(* link of the first context met, the last of the chain, is not touched.    *)
UpdateWalk ==
    /\ IsNext("walk")
    /\ LET dir == Head(work).dir
           c == Head(work).at
       IN  IF c = NULL
           THEN Continue(Tail(work)) /\ UNCHANGED <<ctx, chainHead>>
           ELSE /\ IF dir \in ctx[c].kind
                   THEN /\ chainHead' = [chainHead EXCEPT ![dir] = c]
                        /\ ctx' = IF chainHead[dir] = NULL THEN ctx
                                  ELSE [ctx EXCEPT ![c].link[dir] = chainHead[dir]]
                   ELSE UNCHANGED <<ctx, chainHead>>
                /\ Continue(<<[do |-> "walk", dir |-> dir, at |-> Against(c, dir)]>>
                               \o Tail(work))
    /\ UNCHANGED <<made, head, tail, name2ctx, freed>>

(* callAfterAdd: a handler whose afterAdd throws is removed again.          *)
AfterAdd ==
    /\ IsNext("afterAdd")
    /\ Continue(Tail(work))
    /\ UNCHANGED <<list, freed, chainHead>>

AfterAddThrows ==
    /\ IsNext("afterAdd")
    /\ \/ Remove(Head(work).at, Tail(work))
       \/ head # tail /\ Unwind                          \* beforeRemove throws too

AfterRemove ==
    /\ IsNext("afterRemove")
    /\ \/ Continue(Tail(work)) /\ UNCHANGED <<list, freed, chainHead>>
       \/ Unwind

(* The second half of ReplaceEnd: addFirst or addLast, which may throw.     *)
AddAgain ==
    /\ IsNext("add")
    /\ LET job == Head(work)
       IN  \/ Insert(job.name, job.kind, IF job.first THEN NULL ELSE tail,
                     IF job.first THEN head ELSE NULL, Tail(work))
           \/ Unwind

Delete ==
    /\ IsNext("delete")
    /\ LET c == Head(work).at
       IN  IF c \in freed
           THEN Fails("doubleFree")
           ELSE /\ freed' = freed \cup {c}
                /\ Continue(Tail(work))
                /\ UNCHANGED <<list, chainHead>>

LeaveCatch ==
    /\ IsNext("catch")
    /\ Continue(Tail(work))
    /\ UNCHANGED <<list, freed, chainHead>>

-----------------------------------------------------------------------------
(* Events.  c is where the event goes next: to the handler of a context, or *)
(* beyond the last one (discarded upstream, to the sink downstream).        *)
Pass(e, dir, exception, from, c) ==
    IF c \in freed
    THEN Fails("useAfterFree")
    ELSE /\ event' = [event EXCEPT ![e] =
                        IF c = NULL THEN NoEvent("done")
                        ELSE [state |-> "active", dir |-> dir, exception |-> exception,
                              at |-> c, from |-> from]]
         /\ UNCHANGED <<list, freed, chainHead, work, attached, fault>>

(* The sink, where a downstream event goes beyond the last handler, throws: *)
(* it is asked to send an exception event through the pipeline.             *)
SinkThrows(e, dir, c) ==
    /\ dir = "down" /\ c = NULL /\ attached
    /\ Pass(e, "up", TRUE, NULL, chainHead["up"])

Send(e, dir) ==
    /\ fault = "none"
    /\ event[e].state = "unsent"
    /\ UNCHANGED calls
    /\ Pass(e, dir, FALSE, NULL, chainHead[dir]) \/ SinkThrows(e, dir, chainHead[dir])

(* The handler passes the event on with its context's sendUpstream or       *)
(* sendDownstream ...                                                       *)
Forward(e) ==
    /\ fault = "none"
    /\ event[e].state = "active"
    /\ UNCHANGED calls
    /\ LET c == event[e].at
       IN  IF c \in freed THEN Fails("useAfterFree")
           ELSE \/ Pass(e, event[e].dir, event[e].exception, c, ctx[c].link[event[e].dir])
                \/ SinkThrows(e, event[e].dir, ctx[c].link[event[e].dir])

(* ... keeps it ...                                                         *)
Consume(e) ==
    /\ fault = "none"
    /\ event[e].state = "active"
    /\ event' = [event EXCEPT ![e] = NoEvent("done")]
    /\ UNCHANGED <<list, freed, chainHead, work, attached, calls, fault>>

(* Mutant of Throw: an exception event causes an exception event. *)
Throw_Again(e) ==
    /\ fault = "none"
    /\ event[e].state = "active"
    /\ UNCHANGED calls
    /\ IF event[e].from \in freed THEN Fails("useAfterFree")
       ELSE IF ~attached
            THEN Pass(e, event[e].dir, event[e].exception, NULL, NULL)
            ELSE Pass(e, "up", TRUE, NULL, chainHead["up"])

(* ... or throws: caught in the context that passed the event on, which     *)
(* asks the sink to send an exception event through the pipeline, unless    *)
(* the event was one itself or the pipeline is not attached.                *)
Throw(e) ==
    /\ fault = "none"
    /\ event[e].state = "active"
    /\ UNCHANGED calls
    /\ IF event[e].from \in freed THEN Fails("useAfterFree")
       ELSE IF event[e].exception \/ ~attached
            THEN Pass(e, event[e].dir, event[e].exception, NULL, NULL)
            ELSE Pass(e, "up", TRUE, NULL, chainHead["up"])

-----------------------------------------------------------------------------
Operation ==
    \/ \E n \in Names, kind \in Kinds :
          \/ AddFirst(n, kind)
          \/ AddLast(n, kind)
          \/ \E base \in Mapped : AddBefore(base, n, kind) \/ AddAfter(base, n, kind)
          \/ \E c \in Listed \cup Mapped : ReplaceEnd(c, n, kind) \/ ReplaceMiddle(c, n, kind)
    \/ \E c \in Listed \cup Mapped : RemoveHandler(c)
    \/ RemoveFirst
    \/ RemoveLast

Holder ==
    \/ UpdateList
    \/ UpdateWalk
    \/ AfterAdd
    \/ AfterAddThrows
    \/ AfterRemove
    \/ AddAgain
    \/ Delete
    \/ LeaveCatch

Handle(e) == Forward(e) \/ Consume(e) \/ Throw(e)

Next ==
    \/ Operation
    \/ Holder
    \/ Attach
    \/ \E e \in Events : Handle(e) \/ \E dir \in Directions : Send(e, dir)

Spec == Init /\ [][Next]_vars

(* The holder of the mutex runs on and handlers return. *)
Fairness == WF_vars(Holder) /\ \A e \in Events : WF_vars(Handle(e))

FairSpec == Spec /\ Fairness

-----------------------------------------------------------------------------
(***************************************************************************)
(* Properties.                                                             *)
(***************************************************************************)
Place(c) == CHOOSE n \in Steps : Walk[n] = c

(* Events of the direction visit c before d. *)
Precedes(c, d, dir) == IF dir = "up" THEN Place(c) < Place(d) ELSE Place(d) < Place(c)

(* The list is the same in both directions, ends at tail, and holds no      *)
(* context twice and none that has been deleted.                            *)
ListMirrored ==
    /\ head = NULL <=> tail = NULL
    /\ \A m, n \in Steps : (Walk[m] = Walk[n] /\ Walk[m] # NULL) => m = n
    /\ Listed \cap freed = {}
    /\ \A c \in Listed :
          /\ ctx[c].prev = NULL <=> c = head
          /\ ctx[c].next = NULL <=> c = tail
          /\ ctx[c].next # NULL => ctx[ctx[c].next].prev = c

(* The names in the map are those of the listed handlers, all different.    *)
NamesMatchList ==
    /\ \A n \in Names : name2ctx[n] # NULL <=> \E c \in Listed : ctx[c].name = n
    /\ \A c, d \in Listed : ctx[c].name = ctx[d].name => c = d

(* When nobody modifies the pipeline, each chain starts at its first        *)
(* handler and leads from each handler to the next one of its direction:    *)
(* no handler is skipped, whatever was added, replaced, removed or failed.  *)
ChainsCoverList ==
    work = <<>> =>
        \A dir \in Directions :
            LET members == {c \in Listed : dir \in ctx[c].kind}
            IN  \A c \in members :
                   /\ (\A d \in members \ {c} : Precedes(c, d, dir)) => chainHead[dir] = c
                   /\ \A d \in members :
                         /\ Precedes(c, d, dir)
                         /\ ~\E b \in members : Precedes(c, b, dir) /\ Precedes(b, d, dir)
                         => ctx[c].link[dir] = d

(* An event moves in its direction only: it never comes to a listed handler *)
(* that stands before the one it leaves, also while a chain is rebuilt.     *)
EventsMoveForward ==
    [][\A e \in Events :
          /\ event[e].state = "active" /\ event'[e].state = "active"
          /\ event'[e].from = event[e].at
          /\ {event[e].at, event'[e].at} \subseteq Listed
          => Precedes(event[e].at, event'[e].at, event[e].dir)]_vars

(* Every event comes to an end: an exception event sent because of a        *)
(* throwing handler does not cause another, and no chain runs in a circle.  *)
EventsEnd ==
    \A e \in Events : (event[e].state = "active") ~> (event[e].state = "done" \/ fault # "none")

(* ChannelPipeline: "A ChannelHandler can be added or removed at any time". *)
RemovableAnyTime == fault # "useAfterFree"
=============================================================================
