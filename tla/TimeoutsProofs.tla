--------------------------- MODULE TimeoutsProofs ---------------------------
(***************************************************************************)
(* Proofs about Timeouts.  Four inductive invariants, each resting on the  *)
(* ones before it: the types, the chains of timeouts of the monitors       *)
(* (ChainInv), the timeouts of the writes (WriteInv) and the times         *)
(* (TimeInv).  The chains are only sound when no handler is added while    *)
(* channelOpen travels up the pipeline: such a handler is initialised      *)
(* twice, and its first timeouts are lost.  The theorems that rest on      *)
(* ChainInv take that as a hypothesis on AddPoints.                        *)
(***************************************************************************)
EXTENDS Timeouts, FiniteSetTheorems, TLAPS

(* What a timeout becomes when the pointers of ms let go and what the       *)
(* expiries of ds use is deleted.                                           *)
Aged(t, ms, ds) ==
    [of |-> t.of, at |-> t.at, st |-> t.st, held |-> t.held /\ t.of \notin ms,
     dangling |-> t.dangling \/ t.of \in ds]

LEMMA Fields ==
    ASSUME NEW t \in TimeoutSet
    PROVE  /\ t.of \in Monitors \cup Writes /\ t.at \in Nat /\ t.st \in {"waiting", "queued"}
           /\ t.held \in BOOLEAN /\ t.dangling \in BOOLEAN
           /\ t = [of |-> t.of, at |-> t.at, st |-> t.st, held |-> t.held,
                   dangling |-> t.dangling]
BY DEF TimeoutSet

LEMMA AgedFacts ==
    ASSUME NEW t \in TimeoutSet, NEW ms, NEW ds
    PROVE  /\ Aged(t, ms, ds) \in TimeoutSet
           /\ Aged(t, ms, ds).of = t.of /\ Aged(t, ms, ds).at = t.at
           /\ Aged(t, ms, ds).st = t.st
           /\ Aged(t, ms, ds).held <=> t.held /\ t.of \notin ms
           /\ Aged(t, ms, ds).dangling <=> t.dangling \/ t.of \in ds
           /\ t.of \notin ms \cup ds => Aged(t, ms, ds) = t
<1> DEFINE a == Aged(t, ms, ds)
           h == t.held /\ t.of \notin ms
           d == t.dangling \/ t.of \in ds
<1>1. a = [of |-> t.of, at |-> t.at, st |-> t.st, held |-> h, dangling |-> d]
  BY DEF Aged
<1>2. h \in BOOLEAN /\ d \in BOOLEAN
  BY Fields
<1>3. t.of \notin ms \cup ds => h = t.held /\ d = t.dangling
  BY Fields
<1> HIDE DEF a, h, d
<1>4. /\ a.of = t.of /\ a.at = t.at /\ a.st = t.st /\ a.held = h /\ a.dangling = d
  BY <1>1
<1>5. a \in TimeoutSet
  BY <1>1, <1>2, Fields DEF TimeoutSet
<1>6. t.of \notin ms \cup ds => a = t
  BY <1>1, <1>3, Fields
<1> QED
  BY <1>4, <1>5, <1>6 DEF a, h, d

LEMMA UnheldAged ==
    ASSUME NEW ts \in SUBSET TimeoutSet, NEW ms
    PROVE  Unheld(ts, ms) = {Aged(t, ms, {}) : t \in ts}
<1>1. ASSUME NEW t \in ts
      PROVE  [t EXCEPT !.held = @ /\ t.of \notin ms] = Aged(t, ms, {})
  <2>1. t = [of |-> t.of, at |-> t.at, st |-> t.st, held |-> t.held, dangling |-> t.dangling]
        /\ t.dangling \in BOOLEAN
    BY Fields
  <2>2. (t.dangling \/ t.of \in {}) = t.dangling
    BY <2>1
  <2> QED
    BY <2>1, <2>2 DEF Aged
<1> QED
  BY <1>1 DEF Unheld

LEMMA UnheldFacts ==
    ASSUME NEW ts \in SUBSET TimeoutSet, NEW w
    PROVE  /\ Unheld(ts, {w}) \in SUBSET TimeoutSet
           /\ \A u \in Unheld(ts, {w}) : u.of # w => u \in ts
           /\ \A t \in ts : t.of # w => t \in Unheld(ts, {w})
<1> DEFINE a(t) == Aged(t, {w}, {})
<1>1. ASSUME NEW t \in ts
      PROVE  a(t) \in TimeoutSet /\ a(t).of = t.of /\ (t.of # w => a(t) = t)
  <2>1. t.of # w => t.of \notin {w} \cup {}
    OBVIOUS
  <2> QED
    BY <2>1, AgedFacts
<1>2. Unheld(ts, {w}) = {a(t) : t \in ts}
  BY UnheldAged
<1> HIDE DEF a
<1> QED
  BY <1>1, <1>2

LEMMA DanglingAged ==
    ASSUME NEW ts \in SUBSET TimeoutSet, NEW ds
    PROVE  Dangling(ts, ds) = {Aged(t, {}, ds) : t \in ts}
<1>1. ASSUME NEW t \in ts
      PROVE  [t EXCEPT !.dangling = @ \/ t.of \in ds] = Aged(t, {}, ds)
  <2>1. t = [of |-> t.of, at |-> t.at, st |-> t.st, held |-> t.held, dangling |-> t.dangling]
        /\ t.held \in BOOLEAN
    BY Fields
  <2>2. (t.held /\ t.of \notin {}) = t.held
    BY <2>1
  <2> QED
    BY <2>1, <2>2 DEF Aged
<1> QED
  BY <1>1 DEF Dangling

LEMMA AgedTwice ==
    ASSUME NEW t \in TimeoutSet, NEW ms, NEW ds, NEW es
    PROVE  Aged(Aged(t, ms, ds), {}, es) = Aged(t, ms, ds \cup es)
<1> DEFINE a == Aged(t, ms, ds)
           b == Aged(a, {}, es)
           c == Aged(t, ms, ds \cup es)
<1>1. a \in TimeoutSet /\ b \in TimeoutSet /\ c \in TimeoutSet
  BY AgedFacts
<1>2. b.of = c.of /\ b.at = c.at /\ b.st = c.st
  BY <1>1, AgedFacts
<1>3. b.held = c.held
  BY <1>1, AgedFacts, Fields
<1>4. b.dangling = c.dangling
  BY <1>1, AgedFacts, Fields
<1> HIDE DEF a, b, c
<1>5. b = c
  BY <1>1, <1>2, <1>3, <1>4, Fields
<1> QED
  BY <1>5 DEF a, b, c

(* destroy() and remove() as one change of the timeouts that are left. *)
LEMMA DestroyAged ==
    ASSUME NEW ts \in SUBSET TimeoutSet, NEW hs
    PROVE  destroy(ts, hs) =
             {Aged(t, MonitorsOf(hs), MonitorsOf(hs \cap {"idle"})) :
                 t \in cancel(ts, MonitorsOf(hs))}
<1> DEFINE M == MonitorsOf(hs)
           D == MonitorsOf(hs \cap {"idle"})
           cs == cancel(ts, M)
           us == Unheld(cs, M)
<1>1. cs \in SUBSET TimeoutSet
  BY DEF cancel
<1>2. us = {Aged(t, M, {}) : t \in cs}
  BY <1>1, UnheldAged
<1>3. us \in SUBSET TimeoutSet
  BY <1>1, <1>2, AgedFacts
<1>4. destroy(ts, hs) = Dangling(us, D)
  BY DEF destroy
<1>5. Dangling(us, D) = {Aged(u, {}, D) : u \in us}
  BY <1>3, DanglingAged
<1>6. \A t \in cs : Aged(Aged(t, M, {}), {}, D) = Aged(t, M, D)
  <2> SUFFICES ASSUME NEW t \in cs
               PROVE  Aged(Aged(t, M, {}), {}, D) = Aged(t, M, D)
    OBVIOUS
  <2>1. {} \cup D = D
    OBVIOUS
  <2> QED
    BY <1>1, <2>1, AgedTwice
<1> HIDE DEF M, D, cs, us
<1>7. {Aged(u, {}, D) : u \in us} = {Aged(t, M, D) : t \in cs}
  BY <1>2, <1>6
<1> QED
  BY <1>4, <1>5, <1>7 DEF M, D, cs, us

LEMMA RemoveAged ==
    ASSUME NEW ts \in SUBSET TimeoutSet, NEW h
    PROVE  ContextDeleted(destroy(ts, {h}), h) =
             {Aged(t, MonitorsOf({h}), MonitorsOf({h})) : t \in cancel(ts, MonitorsOf({h}))}
<1> DEFINE M == MonitorsOf({h})
           D == MonitorsOf({h} \cap {"idle"})
           cs == cancel(ts, M)
           us == destroy(ts, {h})
<1>1. cs \in SUBSET TimeoutSet
  BY DEF cancel
<1>2. us = {Aged(t, M, D) : t \in cs}
  BY DestroyAged
<1>3. us \in SUBSET TimeoutSet
  BY <1>1, <1>2, AgedFacts
<1>4. ContextDeleted(us, h) = {Aged(u, {}, M) : u \in us}
  BY <1>3, DanglingAged DEF ContextDeleted
<1>5. D \cup M = M
  BY DEF MonitorsOf
<1>6. \A t \in cs : Aged(Aged(t, M, D), {}, M) = Aged(t, M, M)
  BY <1>1, <1>5, AgedTwice
<1> HIDE DEF M, D, cs, us
<1>7. {Aged(u, {}, M) : u \in us} = {Aged(t, M, M) : t \in cs}
  BY <1>2, <1>6
<1> QED
  BY <1>4, <1>7 DEF M, D, cs, us

-----------------------------------------------------------------------------
LEMMA FreshFacts ==
    ASSUME NEW m \in Monitors \cup Writes, NEW d \in Nat, now \in Nat
    PROVE  /\ Fresh(m, d) \in TimeoutSet
           /\ Fresh(m, d).of = m /\ Fresh(m, d).at = now + d /\ Fresh(m, d).st = "waiting"
           /\ Fresh(m, d).held /\ ~Fresh(m, d).dangling
<1>1. now + d \in Nat
  OBVIOUS
<1> QED
  BY <1>1 DEF Fresh, TimeoutSet

LEMMA NewMembers ==
    ASSUME NEW ts \in SUBSET TimeoutSet, NEW ms \in SUBSET Monitors, NEW delays \in [ms -> Nat],
           now \in Nat
    PROVE  /\ newTimeout(ts, delays) \in SUBSET TimeoutSet
           /\ newTimeout(ts, delays) =
                 {Aged(t, ms, {}) : t \in ts} \cup {Fresh(m, delays[m]) : m \in ms}
<1>1. DOMAIN delays = ms
  OBVIOUS
<1>2. newTimeout(ts, delays) =
         {Aged(t, ms, {}) : t \in ts} \cup {Fresh(m, delays[m]) : m \in ms}
  BY <1>1, UnheldAged DEF newTimeout
<1>3. \A t \in ts : Aged(t, ms, {}) \in TimeoutSet
  BY AgedFacts
<1>4. \A m \in ms : Fresh(m, delays[m]) \in TimeoutSet
  BY FreshFacts
<1> QED
  BY <1>2, <1>3, <1>4

(***************************************************************************)
(* The chain of timeouts of the monitors: a timeout that is not dangling   *)
(* belongs to an installed handler, one that waits is the one the handler  *)
(* can cancel, and no monitor has two.                                     *)
(***************************************************************************)
Live(t, m) == t.of = m /\ ~t.dangling
Rooted(ts, hs) ==
    \A t \in ts : t.of \in Monitors =>
        /\ period[t.of] > 0
        /\ ~t.dangling => HandlerOf(t.of) \in hs
        /\ t.st = "waiting" => t.held /\ ~t.dangling
Single(ts) == \A m \in Monitors : \A t, u \in ts : Live(t, m) /\ Live(u, m) => t = u
Armed(ts, m) == \E t \in ts : Live(t, m) /\ t.held
Quiet(ts, ms) == \A m \in ms, t \in ts : ~Live(t, m)

LEMMA SubChain ==
    ASSUME NEW ts, NEW cs \in SUBSET ts, NEW hs, Rooted(ts, hs), Single(ts)
    PROVE  Rooted(cs, hs) /\ Single(cs)
BY DEF Rooted, Single

LEMMA NewChain ==
    ASSUME NEW ts \in SUBSET TimeoutSet, NEW ms \in SUBSET Monitors, NEW delays \in [ms -> Nat],
           now \in Nat, \A m \in ms : period[m] > 0,
           NEW gs, NEW hs, gs \subseteq hs, \A m \in ms : HandlerOf(m) \in hs,
           Rooted(ts, gs), Single(ts), Quiet(ts, ms)
    PROVE  LET us == newTimeout(ts, delays)
           IN  /\ Rooted(us, hs) /\ Single(us)
               /\ \A m \in ms : Armed(us, m)
               /\ \A m \in Monitors : Armed(ts, m) => Armed(us, m)
<1> DEFINE us == newTimeout(ts, delays)
<1>1. us = {Aged(t, ms, {}) : t \in ts} \cup {Fresh(m, delays[m]) : m \in ms}
  BY NewMembers
<1>2. ASSUME NEW t \in ts
      PROVE  /\ Aged(t, ms, {}).of = t.of /\ Aged(t, ms, {}).st = t.st
             /\ Aged(t, ms, {}).held <=> t.held /\ t.of \notin ms
             /\ Aged(t, ms, {}).dangling <=> t.dangling
             /\ t.of \notin ms => Aged(t, ms, {}) = t
  BY AgedFacts
<1>3. ASSUME NEW m \in ms
      PROVE  /\ Fresh(m, delays[m]).of = m /\ Fresh(m, delays[m]).st = "waiting"
             /\ Fresh(m, delays[m]).held /\ ~Fresh(m, delays[m]).dangling
  BY FreshFacts
<1> HIDE DEF us
<1>4. Rooted(us, hs)
  <2> SUFFICES ASSUME NEW u \in us, u.of \in Monitors
               PROVE  /\ period[u.of] > 0
                      /\ ~u.dangling => HandlerOf(u.of) \in hs
                      /\ u.st = "waiting" => u.held /\ ~u.dangling
    BY DEF Rooted
  <2>1. CASE \E m \in ms : u = Fresh(m, delays[m])
    BY <2>1, <1>3
  <2>2. CASE \E t \in ts : u = Aged(t, ms, {})
    <3>1. PICK t \in ts : u = Aged(t, ms, {})
      BY <2>2
    <3>2. u.of = t.of /\ u.st = t.st /\ (u.held <=> t.held /\ t.of \notin ms)
          /\ (u.dangling <=> t.dangling)
      BY <3>1, <1>2
    <3>3. /\ period[t.of] > 0
          /\ ~t.dangling => HandlerOf(t.of) \in hs
          /\ t.st = "waiting" => t.held /\ ~t.dangling
      BY <3>2 DEF Rooted
    <3>4. t.st = "waiting" => t.of \notin ms
      BY <3>3 DEF Quiet, Live
    <3> QED
      BY <3>2, <3>3, <3>4
  <2> QED
    BY <1>1, <2>1, <2>2
<1>5. Single(us)
  <2> SUFFICES ASSUME NEW m \in Monitors, NEW u \in us, NEW v \in us, Live(u, m), Live(v, m)
               PROVE  u = v
    BY DEF Single
  <2>1. ASSUME NEW x \in us, Live(x, m)
        PROVE  \/ m \in ms /\ x = Fresh(m, delays[m])
               \/ m \notin ms /\ x \in ts
    <3>1. CASE \E k \in ms : x = Fresh(k, delays[k])
      BY <2>1, <3>1, <1>3 DEF Live
    <3>2. CASE \E t \in ts : x = Aged(t, ms, {})
      <4>1. PICK t \in ts : x = Aged(t, ms, {})
        BY <3>2
      <4>2. Live(t, m)
        BY <2>1, <4>1, <1>2 DEF Live
      <4>3. m \notin ms
        BY <4>2 DEF Quiet
      <4> QED
        BY <4>1, <4>2, <4>3, <1>2 DEF Live
    <3> QED
      BY <1>1, <3>1, <3>2
  <2>2. CASE m \in ms
    BY <2>1, <2>2
  <2>3. CASE m \notin ms
    BY <2>1, <2>3 DEF Single
  <2> QED
    BY <2>2, <2>3
<1>6. \A m \in ms : Armed(us, m)
  BY <1>1, <1>3 DEF Armed, Live
<1>7. ASSUME NEW m \in Monitors, Armed(ts, m)
      PROVE  Armed(us, m)
  <2>1. PICK t \in ts : Live(t, m) /\ t.held
    BY <1>7 DEF Armed
  <2>2. m \notin ms
    BY <2>1 DEF Quiet
  <2>3. t \in us
    BY <1>1, <1>2, <2>1, <2>2 DEF Live
  <2> QED
    BY <2>1, <2>3 DEF Armed
<1> QED
  BY <1>4, <1>5, <1>6, <1>7 DEF us

(* destroy() and remove(): no timeout of the monitors ms is left to wait. *)
LEMMA AgedChain ==
    ASSUME NEW ts \in SUBSET TimeoutSet, NEW ms \in SUBSET Monitors, NEW ds \in SUBSET ms,
           NEW gs, NEW hs, Rooted(ts, gs), Single(ts),
           \A m \in Monitors : HandlerOf(m) \in gs \ hs => m \in ds
    PROVE  LET us == {Aged(t, ms, ds) : t \in cancel(ts, ms)}
           IN  /\ us \in SUBSET TimeoutSet /\ Rooted(us, hs) /\ Single(us)
               /\ \A m \in Monitors \ ms : Armed(ts, m) => Armed(us, m)
<1> DEFINE cs == cancel(ts, ms)
           us == {Aged(t, ms, ds) : t \in cs}
<1>1. /\ cs \in SUBSET ts
      /\ \A t \in ts : t \in cs <=> ~(t.of \in ms /\ t.held /\ t.st = "waiting")
  BY DEF cancel
<1>2. ASSUME NEW t \in cs
      PROVE  /\ Aged(t, ms, ds) \in TimeoutSet
             /\ Aged(t, ms, ds).of = t.of /\ Aged(t, ms, ds).st = t.st
             /\ Aged(t, ms, ds).held <=> t.held /\ t.of \notin ms
             /\ Aged(t, ms, ds).dangling <=> t.dangling \/ t.of \in ds
             /\ t.of \notin ms \cup ds => Aged(t, ms, ds) = t
  BY <1>1, AgedFacts
<1> HIDE DEF cs
<1>3. us \in SUBSET TimeoutSet
  BY <1>2
<1>4. Rooted(us, hs)
  <2> SUFFICES ASSUME NEW u \in us, u.of \in Monitors
               PROVE  /\ period[u.of] > 0
                      /\ ~u.dangling => HandlerOf(u.of) \in hs
                      /\ u.st = "waiting" => u.held /\ ~u.dangling
    BY DEF Rooted
  <2>1. PICK t \in cs : u = Aged(t, ms, ds)
    OBVIOUS
  <2>2. u.of = t.of /\ u.st = t.st /\ (u.held <=> t.held /\ t.of \notin ms)
        /\ (u.dangling <=> t.dangling \/ t.of \in ds)
    BY <2>1, <1>2
  <2>3. /\ period[t.of] > 0
        /\ ~t.dangling => HandlerOf(t.of) \in gs
        /\ t.st = "waiting" => t.held /\ ~t.dangling
    BY <1>1, <2>2 DEF Rooted
  <2>4. t.st = "waiting" => t.of \notin ms
    BY <1>1, <2>3
  <2> QED
    BY <2>2, <2>3, <2>4
<1>5. Single(us)
  <2> SUFFICES ASSUME NEW m \in Monitors, NEW u \in us, NEW v \in us, Live(u, m), Live(v, m)
               PROVE  u = v
    BY DEF Single
  <2>1. PICK t \in cs : u = Aged(t, ms, ds)
    OBVIOUS
  <2>2. PICK k \in cs : v = Aged(k, ms, ds)
    OBVIOUS
  <2>3. Live(t, m) /\ Live(k, m)
    BY <1>2, <2>1, <2>2 DEF Live
  <2>4. t = k
    BY <1>1, <2>3 DEF Single
  <2> QED
    BY <2>1, <2>2, <2>4
<1>6. ASSUME NEW m \in Monitors \ ms, Armed(ts, m)
      PROVE  Armed(us, m)
  <2>1. PICK t \in ts : Live(t, m) /\ t.held
    BY <1>6 DEF Armed
  <2>2. t \in cs /\ t.of \notin ms \cup ds
    BY <1>1, <2>1 DEF Live
  <2>3. t \in us
    BY <1>2, <2>2
  <2> QED
    BY <2>1, <2>3 DEF Armed
<1> QED
  BY <1>3, <1>4, <1>5, <1>6 DEF cs

-----------------------------------------------------------------------------
(* initialize() and destroy() on the timeouts of the channel. *)
LEMMA PeriodDelays ==
    ASSUME TypeOK, NEW ms \in SUBSET Monitors
    PROVE  [m \in ms |-> period[m]] \in [ms -> Nat]
BY DEF TypeOK

LEMMA MonitorsOfType ==
    ASSUME NEW hs
    PROVE  MonitorsOf(hs) \in SUBSET Monitors /\ Enabled(hs) \in SUBSET MonitorsOf(hs)
BY DEF MonitorsOf, Enabled

LEMMA NowNat == TypeOK => now \in Nat
BY TimeoutsAssumption DEF TypeOK

LEMMA NewPeriodsType ==
    ASSUME TypeOK, NEW ts \in SUBSET TimeoutSet, NEW ms \in SUBSET Monitors
    PROVE  newPeriods(ts, ms) \in SUBSET TimeoutSet
BY PeriodDelays, NewMembers, NowNat DEF newPeriods

LEMMA InitializeType ==
    ASSUME TypeOK, NEW ts \in SUBSET TimeoutSet, NEW hs
    PROVE  initialize(ts, hs) \in SUBSET TimeoutSet
BY NewPeriodsType, MonitorsOfType DEF initialize

LEMMA DestroyType ==
    ASSUME NEW ts \in SUBSET TimeoutSet, NEW hs
    PROVE  destroy(ts, hs) \in SUBSET TimeoutSet
<1>1. cancel(ts, MonitorsOf(hs)) \in SUBSET TimeoutSet
  BY DEF cancel
<1>2. \A t \in cancel(ts, MonitorsOf(hs)) :
         Aged(t, MonitorsOf(hs), MonitorsOf(hs \cap {"idle"})) \in TimeoutSet
  BY <1>1, AgedFacts
<1> QED
  BY <1>2, DestroyAged

LEMMA LastActivityType ==
    ASSUME TypeOK, NEW m \in Monitors
    PROVE  /\ lastActivity(m) \in Nat
           /\ m = "reader" => lastActivity(m) = lastRead["idle"]
           /\ m = "writer" => lastActivity(m) = lastWrite
           /\ m = "readTimeout" => lastActivity(m) = lastRead["read"]
           /\ m = "all" => lastActivity(m) = IF lastRead["idle"] >= lastWrite
                                              THEN lastRead["idle"] ELSE lastWrite
<1>1. lastRead["idle"] \in Nat /\ lastRead["read"] \in Nat /\ lastWrite \in Nat
  BY DEF TypeOK, Handlers
<1>2. ASSUME NEW a \in Nat, NEW b \in Nat
      PROVE  Max({a, b}) = IF a >= b THEN a ELSE b
  BY DEF Max
<1>3. m \in {"reader", "writer", "all", "readTimeout"}
  BY DEF Monitors, IdleMonitors
<1> QED
  BY <1>1, <1>2, <1>3 DEF lastActivity

LEMMA InitType == Init => TypeOK
<1> SUFFICES ASSUME Init PROVE TypeOK
  OBVIOUS
<1>1. period \in [Monitors -> Nat]
  <2>1. PICK conf \in Configured : period = [m \in Monitors |-> Millis(m, conf[m])]
    BY DEF Init
  <2>2. conf \in [Monitors -> Nat]
    BY TimeoutsAssumption
  <2>3. \A m \in Monitors : Millis(m, conf[m]) \in Nat
    BY <2>2, TimeoutsAssumption DEF Millis
  <2> QED
    BY <2>1, <2>3
<1>2. pointer \in {"null", "garbage", "task"} /\ 0 \in 0 .. MaxTime /\ 0 \in 0 .. MaxChanges
  BY TimeoutsAssumption DEF Init
<1>3. /\ lastRead \in [Handlers -> Nat] /\ reported \in [Monitors -> Nat]
      /\ future \in [Writes -> {"none", "pending", "success", "failure"}]
  BY DEF Init
<1> QED
  BY <1>1, <1>2, <1>3 DEF Init, TypeOK

(* The variables that initialize() and destroy() of handlers change. *)
LEMMA InitializeTypes ==
    ASSUME TypeOK, NEW hs \in SUBSET Handlers, NEW ts \in SUBSET TimeoutSet, Initialize(hs, ts)
    PROVE  /\ timeouts' \in SUBSET TimeoutSet /\ lastRead' \in [Handlers -> Nat]
           /\ lastWrite' \in Nat /\ timer' \subseteq Handlers
           /\ pointer' \in {"null", "garbage", "task"} /\ fault' \in BOOLEAN
<1>1. timeouts' \in SUBSET TimeoutSet
  BY InitializeType DEF Initialize
<1>2. lastRead' \in [Handlers -> Nat] /\ lastWrite' \in Nat
  BY NowNat DEF Initialize, TypeOK
<1>3. timer' \subseteq Handlers
  BY DEF Initialize, TypeOK, Used
<1>4. pointer' \in {"null", "garbage", "task"} /\ fault' \in BOOLEAN
  BY DEF Initialize, TypeOK
<1> QED
  BY <1>1, <1>2, <1>3, <1>4

LEMMA DestroyedTypes ==
    ASSUME TypeOK, NEW hs, Destroyed(hs)
    PROVE  /\ timer' \subseteq Handlers /\ pointer' \in {"null", "garbage", "task"}
           /\ fault' \in BOOLEAN
BY DEF Destroyed, TypeOK

LEMMA DelayType ==
    ASSUME TypeOK, NEW m \in Monitors, nextDelay(m) > 0
    PROVE  nextDelay(m) \in Nat
<1>1. period[m] \in Nat /\ now \in Nat /\ lastActivity(m) \in Nat
  BY NowNat, LastActivityType DEF TypeOK
<1> QED
  BY <1>1 DEF nextDelay

LEMMA MonitorType ==
    ASSUME TypeOK, NEW t \in timeouts, RunMonitor(t)
    PROVE  TypeOK'
<1> DEFINE ts == timeouts \ {t}
           m == t.of
<1>a. ts \in SUBSET TimeoutSet /\ m \in Monitors
  BY DEF TypeOK, RunMonitor
<1>b. UNCHANGED <<now, installed, changes, period, lastRead, lastWrite, future, stopped>>
  BY DEF RunMonitor
<1>1. ASSUME timeouts' = ts, UNCHANGED <<phase, pointer, timer, reported>>,
             fault' = TRUE \/ fault' = fault
      PROVE  TypeOK'
  BY <1>1, <1>a, <1>b DEF TypeOK
<1>2. ASSUME nextDelay(m) > 0, timeouts' = Rearmed(ts, m),
             UNCHANGED <<phase, pointer, timer, reported, fault>>
      PROVE  TypeOK'
  <2>1. {m} \in SUBSET Monitors /\ [x \in {m} |-> nextDelay(m)] \in [{m} -> Nat]
    BY <1>a, <1>2, DelayType
  <2>2. timeouts' \in SUBSET TimeoutSet
    BY <1>a, <1>2, <2>1, NewMembers, NowNat DEF Rearmed
  <2> QED
    BY <1>2, <1>b, <2>2 DEF TypeOK
<1>3. ASSUME Report(ts, m)
      PROVE  TypeOK'
  <2>1. newPeriods(ts, {m}) \in SUBSET TimeoutSet
    BY <1>a, NewPeriodsType
  <2>2. reported' \in [Monitors -> Nat]
    BY <1>3, NowNat DEF Report, TypeOK
  <2>3. CASE timeouts' = newPeriods(ts, {m}) /\ UNCHANGED <<phase, pointer, timer, fault>>
    BY <1>b, <2>1, <2>2, <2>3 DEF TypeOK
  <2>4. CASE phase' = "closed" /\ Destroy(installed, newPeriods(ts, {m}))
    <3>1. timeouts' \in SUBSET TimeoutSet
      BY <2>1, <2>4, DestroyType DEF Destroy
    <3>2. timer' \subseteq Handlers /\ pointer' \in {"null", "garbage", "task"}
          /\ fault' \in BOOLEAN
      BY <2>4, DestroyedTypes DEF Destroy
    <3> QED
      BY <1>b, <2>2, <2>4, <3>1, <3>2 DEF TypeOK
  <2> QED
    BY <1>3, <2>3, <2>4 DEF Report
<1> QED
  BY <1>1, <1>2, <1>3 DEF RunMonitor

LEMMA WriteTimeoutType ==
    ASSUME TypeOK, NEW t \in timeouts, RunWriteTimeout(t)
    PROVE  TypeOK'
<1> DEFINE ts == timeouts \ {t}
           w == t.of
<1>a. ts \in SUBSET TimeoutSet /\ w \in Writes
  BY DEF TypeOK, RunWriteTimeout
<1>b. UNCHANGED <<now, installed, changes, period, lastRead, lastWrite, reported, stopped>>
  BY DEF RunWriteTimeout
<1>c. future' \in [Writes -> {"none", "pending", "success", "failure"}]
  BY <1>a DEF RunWriteTimeout, TypeOK
<1>1. CASE timeouts' = ts /\ UNCHANGED <<phase, pointer, timer>> /\ (fault' = TRUE \/ fault' = fault)
  BY <1>1, <1>a, <1>b, <1>c DEF TypeOK
<1>2. CASE phase' = "closed" /\ Destroy(installed, ts)
  <2>1. timeouts' \in SUBSET TimeoutSet
    BY <1>a, <1>2, DestroyType DEF Destroy
  <2>2. timer' \subseteq Handlers /\ pointer' \in {"null", "garbage", "task"} /\ fault' \in BOOLEAN
    BY <1>2, DestroyedTypes DEF Destroy
  <2> QED
    BY <1>b, <1>c, <1>2, <2>1, <2>2 DEF TypeOK
<1> QED
  BY <1>1, <1>2 DEF RunWriteTimeout

LEMMA StepType == TypeOK /\ [Next]_vars => TypeOK'
<1> SUFFICES ASSUME TypeOK, [Next]_vars PROVE TypeOK'
  OBVIOUS
<1>a. timeouts \in SUBSET TimeoutSet /\ installed \in SUBSET Handlers /\ now \in Nat
  BY NowNat DEF TypeOK
<1>1. CASE ChannelOpen
  <2>1. PICK added \in SUBSET (Handlers \ installed) :
           /\ changes + Cardinality(added) <= MaxChanges
           /\ changes' = changes + Cardinality(added)
           /\ installed' = installed \cup added
           /\ Initialize(installed \cup added, initialize(timeouts, added))
    BY <1>1 DEF ChannelOpen
  <2>2. Cardinality(added) \in Nat
    <3>1. IsFiniteSet(Handlers)
      <4>1. IsFiniteSet({"idle"} \cup {"read"})
        BY FS_AddElement, FS_Singleton
      <4>2. Handlers = {"idle"} \cup {"read"}
        BY DEF Handlers
      <4> QED
        BY <4>1, <4>2
    <3> QED
      BY <1>a, <3>1, FS_Subset, FS_CardinalityType
  <2>3. initialize(timeouts, added) \in SUBSET TimeoutSet
    BY <1>a, InitializeType
  <2>4. /\ timeouts' \in SUBSET TimeoutSet /\ lastRead' \in [Handlers -> Nat]
        /\ lastWrite' \in Nat /\ timer' \subseteq Handlers
        /\ pointer' \in {"null", "garbage", "task"} /\ fault' \in BOOLEAN
    BY <1>a, <2>1, <2>3, InitializeTypes
  <2>5. changes' \in 0 .. MaxChanges
    BY <2>1, <2>2, TimeoutsAssumption DEF TypeOK
  <2> QED
    BY <1>1, <2>1, <2>4, <2>5 DEF ChannelOpen, TypeOK
<1>2. ASSUME NEW h \in Handlers, Add(h)
      PROVE  TypeOK'
  <2>1. changes' \in 0 .. MaxChanges
    BY <1>2, TimeoutsAssumption DEF Add, TypeOK
  <2>2. CASE phase = "building"
    BY <1>2, <2>1, <2>2 DEF Add, TypeOK, handler
  <2>3. CASE phase # "building"
    <3>1. Initialize({h}, timeouts)
      BY <1>2, <2>3 DEF Add
    <3>2. /\ timeouts' \in SUBSET TimeoutSet /\ lastRead' \in [Handlers -> Nat]
          /\ lastWrite' \in Nat /\ timer' \subseteq Handlers
          /\ pointer' \in {"null", "garbage", "task"} /\ fault' \in BOOLEAN
      BY <1>a, <1>2, <3>1, InitializeTypes
    <3> QED
      BY <1>2, <2>1, <3>2 DEF Add, TypeOK
  <2> QED
    BY <2>2, <2>3
<1>3. ASSUME NEW h \in Handlers, Remove(h)
      PROVE  TypeOK'
  <2>1. changes' \in 0 .. MaxChanges
    BY <1>3, TimeoutsAssumption DEF Remove, TypeOK
  <2>2. timeouts' \in SUBSET TimeoutSet
    <3>1. \A t \in cancel(timeouts, MonitorsOf({h})) :
             Aged(t, MonitorsOf({h}), MonitorsOf({h})) \in TimeoutSet
      BY <1>a, AgedFacts DEF cancel
    <3> QED
      BY <1>3, <1>a, <3>1, RemoveAged DEF Remove
  <2>3. timer' \subseteq Handlers /\ pointer' \in {"null", "garbage", "task"} /\ fault' \in BOOLEAN
    BY <1>3, DestroyedTypes DEF Remove
  <2> QED
    BY <1>3, <2>1, <2>2, <2>3 DEF Remove, TypeOK
<1>4. CASE Close
  <2>1. timeouts' \in SUBSET TimeoutSet
    BY <1>4, <1>a, DestroyType DEF Close, Destroy
  <2>2. timer' \subseteq Handlers /\ pointer' \in {"null", "garbage", "task"} /\ fault' \in BOOLEAN
    BY <1>4, DestroyedTypes DEF Close, Destroy
  <2> QED
    BY <1>4, <2>1, <2>2 DEF Close, TypeOK
<1>5. ASSUME NEW h \in Handlers, Release(h)
      PROVE  TypeOK'
  BY <1>5 DEF Release, TypeOK, channel, handler, stop
<1>6. CASE messageReceived
  <2>1. lastRead' \in [Handlers -> Nat]
    BY <1>6, <1>a DEF messageReceived, TypeOK
  <2> QED
    BY <1>6, <2>1 DEF messageReceived, TypeOK, channel
<1>7. ASSUME NEW w \in Writes, writeRequested(w)
      PROVE  TypeOK'
  <2>1. [Fresh(w, WriteMillis) EXCEPT !.dangling = TRUE] \in TimeoutSet
    <3>1. PICK t \in TimeoutSet : t = Fresh(w, WriteMillis)
      BY <1>a, FreshFacts, TimeoutsAssumption
    <3>2. [t EXCEPT !.dangling = TRUE] \in TimeoutSet
      BY DEF TimeoutSet
    <3> QED
      BY <3>1, <3>2
  <2>2. future' \in [Writes -> {"none", "pending", "success", "failure"}]
    BY <1>7 DEF writeRequested, TypeOK
  <2> QED
    BY <1>7, <2>1, <2>2 DEF writeRequested, TypeOK, channel, handler
<1>8. ASSUME NEW w \in Writes, NEW n \in 0 .. 1, WriteEnds(w, n)
      PROVE  TypeOK'
  <2>1. future' \in [Writes -> {"none", "pending", "success", "failure"}]
    BY <1>8 DEF WriteEnds, TypeOK
  <2>2. lastWrite' \in Nat
    BY <1>8, <1>a DEF WriteEnds, TypeOK
  <2> QED
    BY <1>8, <2>1, <2>2 DEF WriteEnds, TypeOK, channel, cancelTimeout, cancel
<1>9. CASE Tick
  BY <1>9, TimeoutsAssumption DEF Tick, TypeOK, channel, handler
<1>10. ASSUME NEW t \in timeouts, Expire(t)
       PROVE  TypeOK'
  <2>1. [t EXCEPT !.st = "queued"] \in TimeoutSet
    BY <1>a DEF TimeoutSet
  <2> QED
    BY <1>10, <2>1 DEF Expire, TypeOK, channel, handler
<1>11. CASE UNCHANGED vars
  BY <1>11 DEF vars, channel, handler, TypeOK
<1>12. ASSUME NEW w \in Writes, setListener(w)
       PROVE  TypeOK'
  <2>1. timeouts' \in SUBSET TimeoutSet
    BY <1>12, <1>a, UnheldFacts DEF setListener
  <2> QED
    BY <1>12, <2>1 DEF setListener, TypeOK, channel, handler
<1> QED
  BY <1>1, <1>2, <1>3, <1>4, <1>5, <1>6, <1>7, <1>8, <1>9, <1>10, <1>11, <1>12, MonitorType,
     WriteTimeoutType DEF Next

-----------------------------------------------------------------------------
(***************************************************************************)
(* The invariant of the chains, if no handler is added while channelOpen   *)
(* travels: one added then is initialised twice.                           *)
(***************************************************************************)
ChainInv ==
    /\ phase = "building" => timeouts = {}
    /\ Rooted(timeouts, installed)
    /\ Single(timeouts)
    /\ \A m \in Monitors : Watching(m) => Armed(timeouts, m)

LEMMA ChainStep ==
    ASSUME period' = period, phase' = "building" => timeouts' = {},
           Rooted(timeouts', installed'), Single(timeouts'),
           \A m \in Monitors : Watching(m)' => Armed(timeouts', m)
    PROVE  ChainInv'
BY DEF ChainInv, Rooted, Single, Armed, Live

(* Steps that leave the timeouts of the monitors alone. *)
LEMMA ChainKept ==
    ASSUME ChainInv, ~fault, UNCHANGED <<period, phase, installed, stopped>>,
           phase = "building" => timeouts' = {},
           \A u \in timeouts' : u.of \in Monitors => u \in timeouts,
           \A t \in timeouts : t.of \in Monitors => t \in timeouts'
    PROVE  ChainInv'
<1>1. Rooted(timeouts', installed')
  BY DEF ChainInv, Rooted
<1>2. Single(timeouts')
  BY DEF ChainInv, Single, Live
<1>3. ASSUME NEW m \in Monitors, Watching(m)'
      PROVE  Armed(timeouts', m)
  <2>1. Watching(m)
    BY <1>3 DEF Watching
  <2>2. PICK t \in timeouts : Live(t, m) /\ t.held
    BY <2>1 DEF ChainInv, Armed
  <2>3. t \in timeouts'
    BY <2>2 DEF Live
  <2> QED
    BY <2>2, <2>3 DEF Armed
<1> QED
  BY <1>1, <1>2, <1>3, ChainStep

LEMMA InitializeChain ==
    ASSUME TypeOK, NEW ts \in SUBSET TimeoutSet, NEW gs, NEW hs,
           Rooted(ts, gs), Single(ts), Quiet(ts, MonitorsOf(hs))
    PROVE  LET us == initialize(ts, hs)
           IN  /\ Rooted(us, gs \cup hs) /\ Single(us)
               /\ \A m \in Enabled(hs) : Armed(us, m)
               /\ \A m \in Monitors : Armed(ts, m) => Armed(us, m)
<1> DEFINE ms == Enabled(hs)
           delays == [m \in ms |-> period[m]]
<1>1. ms \in SUBSET Monitors /\ \A m \in ms : period[m] > 0 /\ HandlerOf(m) \in gs \cup hs
  BY DEF Enabled, MonitorsOf
<1>2. Quiet(ts, ms)
  BY DEF Quiet, Enabled
<1>3. delays \in [ms -> Nat]
  BY <1>1, PeriodDelays
<1>4. initialize(ts, hs) = newTimeout(ts, delays)
  BY DEF initialize, newPeriods
<1> HIDE DEF ms, delays
<1>5. gs \subseteq gs \cup hs /\ now \in Nat
  BY NowNat
<1>6. LET us == newTimeout(ts, delays)
      IN  /\ Rooted(us, gs \cup hs) /\ Single(us)
          /\ \A m \in ms : Armed(us, m)
          /\ \A m \in Monitors : Armed(ts, m) => Armed(us, m)
  BY <1>1, <1>2, <1>3, <1>5, NewChain
<1> QED
  BY <1>4, <1>6 DEF ms

LEMMA DestroyChain ==
    ASSUME NEW ts \in SUBSET TimeoutSet, NEW gs, NEW hs, Rooted(ts, gs), Single(ts)
    PROVE  Rooted(destroy(ts, hs), gs) /\ Single(destroy(ts, hs))
<1> DEFINE ms == MonitorsOf(hs)
           ds == MonitorsOf(hs \cap {"idle"})
<1>1. ms \in SUBSET Monitors /\ ds \in SUBSET ms
  BY DEF MonitorsOf
<1>2. destroy(ts, hs) = {Aged(t, ms, ds) : t \in cancel(ts, ms)}
  BY DestroyAged
<1> HIDE DEF ms, ds
<1>3. \A m \in Monitors : HandlerOf(m) \in gs \ gs => m \in ds
  OBVIOUS
<1> QED
  BY <1>1, <1>2, <1>3, AgedChain

LEMMA OpenChain ==
    ASSUME TypeOK, ChainInv, "during" \notin AddPoints, ChannelOpen
    PROVE  ChainInv'
<1>1. installed' = installed /\ Initialize(installed, initialize(timeouts, {}))
  <2>1. installed \cup {} = installed
    OBVIOUS
  <2> QED
    BY <2>1 DEF ChannelOpen
<1>2. timeouts = {} /\ UNCHANGED <<period, stopped>> /\ phase' = "open"
  BY DEF ChannelOpen, ChainInv
<1>3. initialize({}, {}) = {}
  BY DEF initialize, Enabled, MonitorsOf, newPeriods, newTimeout, Unheld
<1>4. timeouts' = initialize({}, installed)
  BY <1>1, <1>2, <1>3 DEF Initialize
<1>5. {} \in SUBSET TimeoutSet /\ Rooted({}, {}) /\ Single({}) /\ Quiet({}, MonitorsOf(installed))
      /\ {} \cup installed = installed
  BY DEF Rooted, Single, Quiet
<1>6. /\ Rooted(timeouts', installed) /\ Single(timeouts')
      /\ \A m \in Enabled(installed) : Armed(timeouts', m)
  BY <1>4, <1>5, InitializeChain
<1>7. ASSUME NEW m \in Monitors, Watching(m)'
      PROVE  Armed(timeouts', m)
  <2>1. m \in Enabled(installed)
    BY <1>1, <1>2, <1>7 DEF Watching, Enabled, MonitorsOf
  <2> QED
    BY <1>6, <2>1
<1> QED
  BY <1>1, <1>2, <1>6, <1>7, ChainStep

LEMMA AddChain ==
    ASSUME TypeOK, ChainInv, ~fault, NEW h \in Handlers, Add(h)
    PROVE  ChainInv'
<1>a. /\ h \notin installed /\ installed' = installed \cup {h}
      /\ UNCHANGED <<phase, period, stopped>> /\ timeouts \in SUBSET TimeoutSet
  BY DEF Add, TypeOK
<1>1. CASE phase = "building"
  <2>1. timeouts' = {} /\ timeouts = {}
    BY <1>1 DEF Add, ChainInv
  <2>2. Rooted(timeouts', installed') /\ Single(timeouts')
    BY <2>1 DEF Rooted, Single
  <2>3. \A m \in Monitors : ~Watching(m)'
    BY <1>a, <1>1 DEF Watching
  <2> QED
    BY <1>a, <2>1, <2>2, <2>3, ChainStep
<1>2. CASE phase # "building"
  <2>1. timeouts' = initialize(timeouts, {h})
    BY <1>2 DEF Add, Initialize
  <2>2. Quiet(timeouts, MonitorsOf({h}))
    BY <1>a DEF ChainInv, Rooted, Quiet, Live, MonitorsOf
  <2>3. /\ Rooted(timeouts', installed \cup {h}) /\ Single(timeouts')
        /\ \A m \in Enabled({h}) : Armed(timeouts', m)
        /\ \A m \in Monitors : Armed(timeouts, m) => Armed(timeouts', m)
    BY <1>a, <2>1, <2>2, InitializeChain DEF ChainInv
  <2>4. ASSUME NEW m \in Monitors, Watching(m)'
        PROVE  Armed(timeouts', m)
    <3>1. CASE HandlerOf(m) \in installed
      <4>1. Watching(m)
        BY <1>a, <2>4, <3>1 DEF Watching
      <4> QED
        BY <4>1, <2>3 DEF ChainInv
    <3>2. CASE HandlerOf(m) = h
      <4>1. m \in Enabled({h})
        BY <1>a, <2>4, <3>2 DEF Watching, Enabled, MonitorsOf
      <4> QED
        BY <2>3, <4>1
    <3> QED
      BY <1>a, <2>4, <3>1, <3>2 DEF Watching
  <2> QED
    BY <1>a, <1>2, <2>3, <2>4, ChainStep
<1> QED
  BY <1>1, <1>2

LEMMA RemoveChain ==
    ASSUME TypeOK, ChainInv, ~fault, NEW h \in Handlers, Remove(h)
    PROVE  ChainInv'
<1> DEFINE ms == MonitorsOf({h})
<1>a. /\ installed' = installed \ {h} /\ UNCHANGED <<phase, period, stopped>>
      /\ timeouts \in SUBSET TimeoutSet
      /\ timeouts' = ContextDeleted(destroy(timeouts, {h}), h)
  BY DEF Remove, TypeOK
<1>1. timeouts' = {Aged(t, ms, ms) : t \in cancel(timeouts, ms)}
  BY <1>a, RemoveAged
<1>2. ms \in SUBSET Monitors /\ ms \in SUBSET ms
      /\ \A m \in Monitors : HandlerOf(m) \in installed \ (installed \ {h}) => m \in ms
  BY DEF MonitorsOf
<1>3. \A m \in Monitors : HandlerOf(m) # h => m \notin ms
  BY DEF MonitorsOf
<1> HIDE DEF ms
<1>4. /\ Rooted(timeouts', installed \ {h}) /\ Single(timeouts')
      /\ \A m \in Monitors \ ms : Armed(timeouts, m) => Armed(timeouts', m)
  BY <1>a, <1>1, <1>2, AgedChain DEF ChainInv
<1>5. phase' = "building" => timeouts' = {}
  BY <1>a, <1>1 DEF ChainInv, cancel
<1>6. ASSUME NEW m \in Monitors, Watching(m)'
      PROVE  Armed(timeouts', m)
  <2>1. HandlerOf(m) # h /\ Watching(m)
    BY <1>a, <1>6 DEF Watching
  <2> QED
    BY <1>3, <1>4, <2>1 DEF ChainInv
<1> QED
  BY <1>a, <1>4, <1>5, <1>6, ChainStep

(* The channel is closed with the handlers in their places, whatever part ts *)
(* of the chains was left before.                                           *)
LEMMA CloseChain ==
    ASSUME UNCHANGED <<period, installed>>, phase' = "closed",
           NEW ts \in SUBSET TimeoutSet, Rooted(ts, installed), Single(ts),
           timeouts' = destroy(ts, installed)
    PROVE  ChainInv'
<1>1. Rooted(timeouts', installed') /\ Single(timeouts')
  BY DestroyChain
<1>2. \A m \in Monitors : ~Watching(m)'
  BY DEF Watching
<1> QED
  BY <1>1, <1>2, ChainStep

LEMMA ReleaseChain ==
    ASSUME ChainInv, NEW h \in Handlers, Release(h)
    PROVE  ChainInv'
<1>1. /\ UNCHANGED <<period, installed, phase>> /\ stopped' = TRUE
      /\ timeouts' \in SUBSET timeouts
  BY DEF Release, channel, stop
<1>2. Rooted(timeouts', installed') /\ Single(timeouts')
  BY <1>1, SubChain DEF ChainInv
<1>3. phase' = "building" => timeouts' = {}
  BY <1>1 DEF ChainInv
<1>4. \A m \in Monitors : ~Watching(m)'
  BY <1>1 DEF Watching
<1> QED
  BY <1>1, <1>2, <1>3, <1>4, ChainStep

LEMMA ExpireChain ==
    ASSUME TypeOK, ChainInv, ~fault, NEW t \in timeouts, Expire(t)
    PROVE  ChainInv'
<1> DEFINE q == [t EXCEPT !.st = "queued"]
<1>1. /\ timeouts' = (timeouts \ {t}) \cup {q}
      /\ UNCHANGED <<period, installed, phase, stopped, fault>>
  BY DEF Expire, channel
<1>2. /\ q.of = t.of /\ q.st = "queued" /\ (q.held <=> t.held) /\ (q.dangling <=> t.dangling)
  BY DEF TypeOK, TimeoutSet
<1> HIDE DEF q
<1>3. Rooted(timeouts', installed')
  BY <1>1, <1>2 DEF ChainInv, Rooted
<1>4. Single(timeouts')
  <2> SUFFICES ASSUME NEW m \in Monitors, NEW u \in timeouts', NEW v \in timeouts',
                      Live(u, m), Live(v, m)
               PROVE  u = v
    BY DEF Single
  <2>1. Live(q, m) <=> Live(t, m)
    BY <1>2 DEF Live
  <2> QED
    BY <1>1, <2>1 DEF ChainInv, Single
<1>5. ASSUME NEW m \in Monitors, Watching(m)'
      PROVE  Armed(timeouts', m)
  <2>1. Watching(m)
    BY <1>1, <1>5 DEF Watching
  <2>2. PICK u \in timeouts : Live(u, m) /\ u.held
    BY <2>1 DEF ChainInv, Armed
  <2>3. CASE u = t
    BY <1>1, <1>2, <2>2, <2>3 DEF Armed, Live
  <2>4. CASE u # t
    BY <1>1, <2>2, <2>4 DEF Armed
  <2> QED
    BY <2>3, <2>4
<1>6. phase # "building"
  BY DEF ChainInv
<1> QED
  BY <1>1, <1>3, <1>4, <1>5, <1>6, ChainStep

(* run(): the timeout that expired is the only one of its monitor. *)
LEMMA RunChain ==
    ASSUME TypeOK, ChainInv, ~fault, NEW t \in timeouts, RunMonitor(t)
    PROVE  ChainInv'
<1> DEFINE ts == timeouts \ {t}
           m == t.of
<1>a. /\ m \in Monitors /\ UNCHANGED <<period, installed, stopped>>
      /\ ts \in SUBSET TimeoutSet /\ ts \in SUBSET timeouts /\ phase # "building"
  BY DEF RunMonitor, TypeOK, ChainInv
<1>b. Rooted(ts, installed) /\ Single(ts)
  BY <1>a, SubChain DEF ChainInv
<1>1. CASE t.dangling /\ fault' = TRUE /\ timeouts' = ts /\ phase' = phase
  <2>1. \A x \in Monitors : ~Watching(x)'
    BY <1>1 DEF Watching
  <2> QED
    BY <1>a, <1>b, <1>1, <2>1, ChainStep
<1>2. CASE phase # "open" /\ timeouts' = ts /\ phase' = phase
  <2>1. \A x \in Monitors : ~Watching(x)'
    BY <1>2 DEF Watching
  <2> QED
    BY <1>a, <1>b, <1>2, <2>1, ChainStep
<1>3. ASSUME ~t.dangling, NEW d \in Nat
      PROVE  LET us == newTimeout(ts, [x \in {m} |-> d])
             IN  /\ us \in SUBSET TimeoutSet /\ Rooted(us, installed) /\ Single(us)
                 /\ \A x \in Monitors : Armed(timeouts, x) => Armed(us, x)
  <2> DEFINE delays == [x \in {m} |-> d]
             us == newTimeout(ts, delays)
  <2>1. {m} \in SUBSET Monitors /\ delays \in [{m} -> Nat] /\ now \in Nat
    BY <1>a, NowNat
  <2>2. \A x \in {m} : period[x] > 0 /\ HandlerOf(x) \in installed
    BY <1>a, <1>3 DEF ChainInv, Rooted
  <2>3. Quiet(ts, {m})
    BY <1>a, <1>3 DEF ChainInv, Single, Quiet, Live
  <2> HIDE DEF delays
  <2>4. us \in SUBSET TimeoutSet
    BY <1>a, <2>1, NewMembers
  <2>5. /\ Rooted(us, installed) /\ Single(us)
        /\ \A x \in {m} : Armed(us, x)
        /\ \A x \in Monitors : Armed(ts, x) => Armed(us, x)
    BY <1>a, <1>b, <2>1, <2>2, <2>3, NewChain
  <2>6. ASSUME NEW x \in Monitors, Armed(timeouts, x), x # m
        PROVE  Armed(ts, x)
    BY <2>6 DEF Armed, Live
  <2> QED
    BY <2>4, <2>5, <2>6 DEF delays
<1>4. ASSUME UNCHANGED <<phase, fault>>, Rooted(timeouts', installed), Single(timeouts'),
             \A x \in Monitors : Armed(timeouts, x) => Armed(timeouts', x)
      PROVE  ChainInv'
  <2>1. \A x \in Monitors : Watching(x)' => Armed(timeouts', x)
    BY <1>a, <1>4 DEF Watching, ChainInv
  <2> QED
    BY <1>a, <1>4, <2>1, ChainStep
<1>5. CASE ~t.dangling /\ nextDelay(m) > 0 /\ timeouts' = Rearmed(ts, m) /\ UNCHANGED <<phase, fault>>
  <2>1. nextDelay(m) \in Nat
    BY <1>a, <1>5, DelayType
  <2>2. timeouts' = newTimeout(ts, [x \in {m} |-> nextDelay(m)])
    BY <1>5 DEF Rearmed
  <2> HIDE DEF ts, m
  <2> QED
    BY <1>3, <1>4, <1>5, <2>1, <2>2
<1>6. CASE ~t.dangling /\ Report(ts, m)
  <2>1. PICK d \in Nat : d = period[m]
    BY <1>a DEF TypeOK
  <2>2. newPeriods(ts, {m}) = newTimeout(ts, [x \in {m} |-> d])
    <3>1. [x \in {m} |-> period[x]] = [x \in {m} |-> d]
      BY <2>1
    <3> QED
      BY <3>1 DEF newPeriods
  <2>3. PICK us \in SUBSET TimeoutSet : us = newPeriods(ts, {m})
    BY <1>3, <1>6, <2>2
  <2>4. /\ Rooted(us, installed) /\ Single(us)
        /\ \A x \in Monitors : Armed(timeouts, x) => Armed(us, x)
    BY <1>3, <1>6, <2>2, <2>3
  <2>5. CASE timeouts' = us /\ UNCHANGED <<phase, fault>>
    BY <1>4, <2>4, <2>5
  <2>6. CASE phase' = "closed" /\ Destroy(installed, us)
    BY <1>a, <2>4, <2>6, CloseChain DEF Destroy
  <2> QED
    BY <1>6, <2>3, <2>5, <2>6 DEF Report
<1> QED
  BY <1>1, <1>2, <1>5, <1>6 DEF RunMonitor

LEMMA RunWriteChain ==
    ASSUME TypeOK, ChainInv, ~fault, NEW t \in timeouts, RunWriteTimeout(t)
    PROVE  ChainInv'
<1> DEFINE ts == timeouts \ {t}
<1>a. /\ t.of \notin Monitors /\ UNCHANGED <<period, installed, stopped>>
      /\ ts \in SUBSET TimeoutSet /\ ts \in SUBSET timeouts /\ phase # "building"
  BY TimeoutsAssumption DEF RunWriteTimeout, TypeOK, ChainInv
<1>1. CASE timeouts' = ts /\ phase' = phase
  BY <1>a, <1>1, ChainKept
<1>2. CASE phase' = "closed" /\ Destroy(installed, ts)
  <2>1. Rooted(ts, installed) /\ Single(ts)
    BY <1>a, SubChain DEF ChainInv
  <2> QED
    BY <1>a, <1>2, <2>1, CloseChain DEF Destroy
<1> QED
  BY <1>1, <1>2 DEF RunWriteTimeout

LEMMA ChainInduction ==
    "during" \notin AddPoints /\ TypeOK /\ ChainInv /\ [Next]_vars => ChainInv'
<1> SUFFICES ASSUME "during" \notin AddPoints, TypeOK, ChainInv, [Next]_vars
             PROVE  ChainInv'
  OBVIOUS
<1>a. timeouts \in SUBSET TimeoutSet
  BY DEF TypeOK
<1>b. Next => ~fault
  BY DEF Next
<1>1. CASE Close
  BY <1>1, <1>a, CloseChain DEF Close, Destroy, ChainInv
<1>2. ASSUME messageReceived \/ Tick, ~fault
      PROVE  ChainInv'
  <2>1. UNCHANGED <<period, phase, installed, stopped, timeouts>>
    BY <1>2 DEF messageReceived, Tick, channel
  <2> QED
    BY <1>2, <2>1, ChainKept DEF ChainInv
<1>3. ASSUME NEW w \in Writes, writeRequested(w), ~fault
      PROVE  ChainInv'
  <2> DEFINE f == [Fresh(w, WriteMillis) EXCEPT !.dangling = TRUE]
  <2>1. f.of \notin Monitors
    BY TimeoutsAssumption DEF Fresh
  <2>2. /\ UNCHANGED <<period, phase, installed, stopped>> /\ phase = "open"
        /\ timeouts' = timeouts \/ timeouts' = timeouts \cup {f}
    BY <1>3 DEF writeRequested, channel
  <2> HIDE DEF f
  <2> QED
    BY <1>3, <2>1, <2>2, ChainKept
<1>4. ASSUME NEW w \in Writes, NEW n \in 0 .. 1, WriteEnds(w, n), ~fault
      PROVE  ChainInv'
  <2>1. UNCHANGED <<period, phase, installed, stopped>> /\ timeouts' = cancel(timeouts, {w})
    BY <1>4 DEF WriteEnds, channel, cancelTimeout
  <2>2. /\ \A u \in timeouts' : u \in timeouts
        /\ \A u \in timeouts : u.of \in Monitors => u \in timeouts'
    BY <2>1, TimeoutsAssumption DEF cancel
  <2>3. phase = "building" => timeouts' = {}
    BY <2>2 DEF ChainInv
  <2> QED
    BY <1>4, <2>1, <2>2, <2>3, ChainKept
<1>5. CASE UNCHANGED vars
  <2>1. UNCHANGED <<period, phase, installed, stopped, timeouts, fault>>
    BY <1>5 DEF vars, channel
  <2>2. \A m \in Monitors : Watching(m)' => Watching(m)
    BY <2>1 DEF Watching
  <2> QED
    BY <2>1, <2>2, ChainStep DEF ChainInv
<1>6. ASSUME NEW w \in Writes, setListener(w), ~fault
      PROVE  ChainInv'
  <2>1. UNCHANGED <<period, phase, installed, stopped>> /\ timeouts' = Unheld(timeouts, {w})
    BY <1>6 DEF setListener, channel
  <2>2. w \notin Monitors /\ timeouts \in SUBSET TimeoutSet
    BY TimeoutsAssumption DEF TypeOK
  <2>3. /\ \A u \in timeouts' : u.of \in Monitors => u \in timeouts
        /\ \A u \in timeouts : u.of \in Monitors => u \in timeouts'
    BY <2>1, <2>2, UnheldFacts
  <2>4. phase = "building" => timeouts' = {}
    BY <2>1 DEF ChainInv, Unheld
  <2> QED
    BY <1>6, <2>1, <2>3, <2>4, ChainKept
<1> QED
  BY <1>b, <1>1, <1>2, <1>3, <1>4, <1>5, <1>6, OpenChain, AddChain, RemoveChain, ReleaseChain,
     ExpireChain, RunChain, RunWriteChain DEF Next

LEMMA ChainHolds == Init => ChainInv
BY DEF Init, ChainInv, Rooted, Single, Watching

LEMMA ChainImplies == TypeOK /\ ChainInv => OneTimeout /\ CancelReaches
<1> SUFFICES ASSUME TypeOK, ChainInv PROVE OneTimeout /\ CancelReaches
  OBVIOUS
<1>1. CancelReaches
  BY DEF CancelReaches, ChainInv, Rooted, TypeOK, TimeoutSet
<1>2. OneTimeout
  <2> SUFFICES ASSUME NEW m \in Monitors, Watching(m)
               PROVE  LET live == {t \in timeouts : t.of = m /\ ~t.dangling}
                      IN  Cardinality(live) = 1 /\ \A t \in live : t.held
    BY DEF OneTimeout
  <2>1. PICK t \in timeouts : Live(t, m) /\ t.held
    BY DEF ChainInv, Armed
  <2>2. {u \in timeouts : u.of = m /\ ~u.dangling} = {t}
    BY <2>1 DEF ChainInv, Single, Live
  <2>3. Cardinality({t}) = 1
    BY FS_Singleton
  <2> QED
    BY <2>1, <2>2, <2>3
<1> QED
  BY <1>1, <1>2

(* The types of the variables hold: deadlines, times of activity and        *)
(* reports are never negative, also after re-arming with a shorter delay.   *)
THEOREM TypeCorrect == Spec => []TypeOK
BY InitType, StepType, PTL DEF Spec

(* If no handler is added during the channelOpen event, every monitor that   *)
(* watches has exactly one timeout on its way, and destroy() can cancel it:  *)
(* initialize(), the re-arming in run() and the removal of handlers neither  *)
(* lose the chain of an idle or read timeout nor start a second one.         *)
THEOREM OneChain ==
    ASSUME "during" \notin AddPoints
    PROVE  Spec => []OneTimeout
<1>1. TypeOK /\ ChainInv /\ [Next]_vars => ChainInv'
  BY ChainInduction
<1> QED
  BY <1>1, ChainHolds, ChainImplies, TypeCorrect, PTL DEF Spec

(* Under the same hypothesis destroy() and remove() leave behind no timeout  *)
(* that could expire later on a deleted task or context.                     *)
THEOREM CancelComplete ==
    ASSUME "during" \notin AddPoints
    PROVE  Spec => []CancelReaches
<1>1. TypeOK /\ ChainInv /\ [Next]_vars => ChainInv'
  BY ChainInduction
<1> QED
  BY <1>1, ChainHolds, ChainImplies, TypeCorrect, PTL DEF Spec

-----------------------------------------------------------------------------
(***************************************************************************)
(* The timeouts of the writes.  The handlers of the monitors leave them    *)
(* alone, and each write has at most one, which its listener can cancel.   *)
(***************************************************************************)
WritesOf(ts) == {t \in ts : t.of \in Writes}

LEMMA CancelWrites ==
    ASSUME NEW ts, NEW ms \in SUBSET Monitors
    PROVE  WritesOf(cancel(ts, ms)) = WritesOf(ts)
BY TimeoutsAssumption DEF WritesOf, cancel

LEMMA AgedWrites ==
    ASSUME NEW ts \in SUBSET TimeoutSet, NEW ms \in SUBSET Monitors, NEW ds \in SUBSET Monitors
    PROVE  WritesOf({Aged(t, ms, ds) : t \in ts}) = WritesOf(ts)
<1>1. ASSUME NEW t \in ts
      PROVE  /\ Aged(t, ms, ds).of = t.of
             /\ t.of \in Writes => Aged(t, ms, ds) = t
  <2>1. t.of \in Writes => t.of \notin ms \cup ds
    BY TimeoutsAssumption
  <2> QED
    BY <2>1, AgedFacts
<1> QED
  BY <1>1 DEF WritesOf

LEMMA NewWrites ==
    ASSUME NEW ts \in SUBSET TimeoutSet, NEW ms \in SUBSET Monitors, NEW delays \in [ms -> Nat],
           now \in Nat
    PROVE  WritesOf(newTimeout(ts, delays)) = WritesOf(ts)
<1> DEFINE as == {Aged(t, ms, {}) : t \in ts}
           fs == {Fresh(m, delays[m]) : m \in ms}
<1>1. newTimeout(ts, delays) = as \cup fs
  BY NewMembers
<1>2. WritesOf(as) = WritesOf(ts)
  BY AgedWrites
<1>3. \A f \in fs : f.of \notin Writes
  BY FreshFacts, TimeoutsAssumption
<1> HIDE DEF as, fs
<1> QED
  BY <1>1, <1>2, <1>3 DEF WritesOf

LEMMA InitializeWrites ==
    ASSUME TypeOK, NEW ts \in SUBSET TimeoutSet, NEW hs
    PROVE  WritesOf(initialize(ts, hs)) = WritesOf(ts)
<1> DEFINE ms == Enabled(hs)
           delays == [m \in ms |-> period[m]]
<1>1. ms \in SUBSET Monitors
  BY DEF Enabled, MonitorsOf
<1>2. delays \in [ms -> Nat] /\ now \in Nat
  BY <1>1, PeriodDelays, NowNat
<1>3. initialize(ts, hs) = newTimeout(ts, delays)
  BY DEF initialize, newPeriods
<1> HIDE DEF ms, delays
<1> QED
  BY <1>1, <1>2, <1>3, NewWrites

LEMMA DestroyWrites ==
    ASSUME NEW ts \in SUBSET TimeoutSet, NEW hs
    PROVE  WritesOf(destroy(ts, hs)) = WritesOf(ts)
<1> DEFINE ms == MonitorsOf(hs)
           ds == MonitorsOf(hs \cap {"idle"})
<1>1. ms \in SUBSET Monitors /\ ds \in SUBSET Monitors /\ cancel(ts, ms) \in SUBSET TimeoutSet
  BY DEF MonitorsOf, cancel
<1>2. destroy(ts, hs) = {Aged(t, ms, ds) : t \in cancel(ts, ms)}
  BY DestroyAged
<1> HIDE DEF ms, ds
<1> QED
  BY <1>1, <1>2, AgedWrites, CancelWrites

WriteInv ==
    /\ phase = "building" => \A w \in Writes : future[w] = "none"
    /\ \A t \in WritesOf(timeouts) :
          /\ future[t.of] # "none"
          /\ future[t.of] # "pending" /\ t.held => t.st = "queued"
    /\ \A t, u \in WritesOf(timeouts) : t.of = u.of => t = u
    /\ \A w \in Writes :
          future[w] = "pending" /\ phase = "open" /\ WriteMillis > 0 /\ ~stopped /\ ~fault
             => \E t \in WritesOf(timeouts) : t.of = w

(* Steps that touch neither the writes nor their timeouts. *)
LEMMA WriteKept ==
    ASSUME WriteInv, ~fault, WritesOf(timeouts') = WritesOf(timeouts),
           UNCHANGED <<future, stopped>>, phase' = "open" => phase \in {"building", "open"},
           phase' = "building" => phase = "building"
    PROVE  WriteInv'
<1>1. WritesOf(timeouts)' = WritesOf(timeouts)
  BY DEF WritesOf
<1>2. ASSUME phase' = "open", NEW w \in Writes, future[w] = "pending"
      PROVE  phase = "open"
  BY <1>2 DEF WriteInv
<1> QED
  BY <1>1, <1>2 DEF WriteInv

LEMMA RequestWrites ==
    ASSUME TypeOK, WriteInv, ~fault, NEW w \in Writes, writeRequested(w)
    PROVE  WriteInv'
<1> DEFINE f == [Fresh(w, WriteMillis) EXCEPT !.dangling = TRUE]
<1>1. f.of = w /\ f.held
  BY DEF Fresh
<1>2. /\ UNCHANGED <<phase, stopped>> /\ phase = "open" /\ future[w] = "none"
      /\ future' = [future EXCEPT ![w] = "pending"]
      /\ timeouts' = IF WriteMillis = 0 THEN timeouts ELSE timeouts \cup {f}
  BY DEF writeRequested, channel
<1> HIDE DEF f
<1>3. WritesOf(timeouts') = IF WriteMillis = 0 THEN WritesOf(timeouts)
                            ELSE WritesOf(timeouts) \cup {f}
  BY <1>1, <1>2 DEF WritesOf
<1>4. PICK W : W = WritesOf(timeouts)
  OBVIOUS
<1>5. WritesOf(timeouts)' = IF WriteMillis = 0 THEN W ELSE W \cup {f}
  BY <1>3, <1>4 DEF WritesOf
<1>6. \A t \in W : t.of \in Writes /\ t.of # w /\ future'[t.of] = future[t.of]
  BY <1>2, <1>4 DEF WriteInv, WritesOf, TypeOK
<1>7. future'[w] = "pending" /\ \A x \in Writes \ {w} : future'[x] = future[x]
  BY <1>2 DEF TypeOK
<1>8. \A t \in WritesOf(timeouts)' :
          future'[t.of] # "none" /\ (future'[t.of] # "pending" /\ t.held => t.st = "queued")
  BY <1>1, <1>4, <1>5, <1>6, <1>7 DEF WriteInv
<1>9. \A t, u \in WritesOf(timeouts)' : t.of = u.of => t = u
  BY <1>1, <1>4, <1>5, <1>6 DEF WriteInv
<1>10. ASSUME NEW x \in Writes, future'[x] = "pending", WriteMillis > 0, ~stopped'
       PROVE  \E t \in WritesOf(timeouts)' : t.of = x
  <2>1. WritesOf(timeouts)' = W \cup {f}
    BY <1>5, <1>10, TimeoutsAssumption
  <2>2. CASE x = w
    BY <1>1, <2>1, <2>2
  <2>3. CASE x # w
    BY <1>2, <1>4, <1>7, <1>10, <2>1, <2>3 DEF WriteInv
  <2> QED
    BY <2>2, <2>3
<1> QED
  BY <1>2, <1>8, <1>9, <1>10 DEF WriteInv

(* The write w is answered, and of its timeouts only the queued ones and    *)
(* those that no listener holds stay.                                       *)
LEMMA AnsweredWrites ==
    ASSUME TypeOK, WriteInv, ~fault, NEW w \in Writes, NEW o \in {"success", "failure"},
           future' = [future EXCEPT ![w] = o], phase # "building", phase' # "building",
           phase' = "open" => phase = "open", stopped' = stopped,
           WritesOf(timeouts') \subseteq WritesOf(timeouts),
           \A t \in WritesOf(timeouts') : t.of = w /\ t.held => t.st = "queued",
           \A t \in WritesOf(timeouts) : t.of # w => t \in WritesOf(timeouts')
    PROVE  WriteInv'
<1>1. future'[w] = o /\ \A x \in Writes \ {w} : future'[x] = future[x]
  BY DEF TypeOK
<1>2. WritesOf(timeouts)' = WritesOf(timeouts')
  BY DEF WritesOf
<1>3. \A t \in WritesOf(timeouts') : t.of \in Writes
  BY DEF WritesOf
<1>4. \A t \in WritesOf(timeouts') :
          future'[t.of] # "none" /\ (future'[t.of] # "pending" /\ t.held => t.st = "queued")
  BY <1>1, <1>3 DEF WriteInv
<1>5. ASSUME NEW x \in Writes, future'[x] = "pending", phase' = "open", WriteMillis > 0, ~stopped'
      PROVE  \E t \in WritesOf(timeouts') : t.of = x
  <2>1. x # w /\ future[x] = "pending"
    BY <1>1, <1>5
  <2>2. PICK t \in WritesOf(timeouts) : t.of = x
    BY <1>5, <2>1 DEF WriteInv
  <2> QED
    BY <2>1, <2>2
<1> QED
  BY <1>2, <1>4, <1>5 DEF WriteInv

LEMMA EndsWrites ==
    ASSUME TypeOK, WriteInv, ~fault, NEW w \in Writes, NEW n \in 0 .. 1, WriteEnds(w, n)
    PROVE  WriteInv'
<1>1. /\ UNCHANGED <<phase, stopped>> /\ timeouts' = cancel(timeouts, {w}) /\ future[w] = "pending"
      /\ future' = [future EXCEPT ![w] = IF phase = "open" THEN "success" ELSE "failure"]
  BY DEF WriteEnds, channel, cancelTimeout
<1>2. PICK o \in {"success", "failure"} : o = IF phase = "open" THEN "success" ELSE "failure"
  OBVIOUS
<1>3. phase # "building"
  BY <1>1 DEF WriteInv
<1>4. /\ WritesOf(timeouts') \subseteq WritesOf(timeouts)
      /\ \A t \in WritesOf(timeouts') : t.of = w => ~(t.held /\ t.st = "waiting")
      /\ \A t \in WritesOf(timeouts) : t.of # w => t \in WritesOf(timeouts')
  BY <1>1 DEF WritesOf, cancel
<1>5. \A t \in WritesOf(timeouts) : t.st \in {"waiting", "queued"}
  BY DEF WritesOf, TypeOK, TimeoutSet
<1> QED
  BY <1>1, <1>2, <1>3, <1>4, <1>5, AnsweredWrites

(* The user's listener takes the place of the one that holds the timeout of *)
(* w, which has at most one.                                                *)
LEMMA ListenerWrites ==
    ASSUME TypeOK, WriteInv, ~fault, NEW w \in Writes, setListener(w)
    PROVE  WriteInv'
<1> DEFINE a(t) == Aged(t, {w}, {})
<1>1. UNCHANGED <<future, phase, stopped>> /\ future[w] = "pending"
      /\ timeouts' = Unheld(timeouts, {w})
  BY DEF setListener, channel
<1>2. timeouts' = {a(t) : t \in timeouts}
  BY <1>1, UnheldAged DEF TypeOK
<1>3. \A t \in timeouts : a(t).of = t.of /\ a(t).st = t.st /\ (a(t).held => t.held)
  BY AgedFacts DEF TypeOK
<1> HIDE DEF a
<1>4. PICK W : W = WritesOf(timeouts)
  OBVIOUS
<1>5. WritesOf(timeouts)' = {a(t) : t \in W} /\ W \in SUBSET timeouts
  BY <1>2, <1>3, <1>4 DEF WritesOf
<1>6. \A t \in W : /\ future[t.of] # "none"
                   /\ future[t.of] # "pending" /\ t.held => t.st = "queued"
  BY <1>4 DEF WriteInv
<1>7. \A t, u \in W : t.of = u.of => t = u
  BY <1>4 DEF WriteInv
<1>8. \A u \in WritesOf(timeouts)' :
          future[u.of] # "none" /\ (future[u.of] # "pending" /\ u.held => u.st = "queued")
  BY <1>3, <1>5, <1>6
<1>9. \A u, v \in WritesOf(timeouts)' : u.of = v.of => u = v
  BY <1>3, <1>5, <1>7
<1>10. ASSUME NEW x \in Writes, future[x] = "pending", phase = "open", WriteMillis > 0, ~stopped
       PROVE  \E u \in WritesOf(timeouts)' : u.of = x
  <2>1. PICK t \in W : t.of = x
    BY <1>4, <1>10 DEF WriteInv
  <2> QED
    BY <1>3, <1>5, <2>1
<1> QED
  BY <1>1, <1>8, <1>9, <1>10 DEF WriteInv

LEMMA ExpireWrites ==
    ASSUME TypeOK, WriteInv, ~fault, NEW t \in timeouts, Expire(t)
    PROVE  WriteInv'
<1> DEFINE q == [t EXCEPT !.st = "queued"]
<1>1. /\ timeouts' = (timeouts \ {t}) \cup {q} /\ UNCHANGED <<future, phase, stopped>>
  BY DEF Expire, channel
<1>2. q.of = t.of /\ q.st = "queued" /\ q.held = t.held
  BY DEF TypeOK, TimeoutSet
<1> HIDE DEF q
<1>3. WritesOf(timeouts)' = IF t.of \in Writes THEN (WritesOf(timeouts) \ {t}) \cup {q}
                            ELSE WritesOf(timeouts)
  BY <1>1, <1>2 DEF WritesOf
<1>4. t.of \in Writes => t \in WritesOf(timeouts)
  BY DEF WritesOf
<1>5. CASE t.of \notin Writes
  <2>1. WritesOf(timeouts)' = WritesOf(timeouts)
    BY <1>3, <1>5
  <2> QED
    BY <1>1, <2>1 DEF WriteInv
<1>6. CASE t.of \in Writes
  <2>1. PICK W : W = WritesOf(timeouts)
    OBVIOUS
  <2>2. WritesOf(timeouts)' = (W \ {t}) \cup {q} /\ t \in W
    BY <1>3, <1>4, <1>6, <2>1
  <2>3. \A x \in (W \ {t}) \cup {q} :
            future[x.of] # "none" /\ (future[x.of] # "pending" /\ x.held => x.st = "queued")
    BY <1>2, <2>1, <2>2 DEF WriteInv
  <2>4. \A x, y \in (W \ {t}) \cup {q} : x.of = y.of => x = y
    BY <1>2, <2>1, <2>2 DEF WriteInv
  <2>5. ASSUME NEW x \in Writes, future[x] = "pending", phase = "open", WriteMillis > 0, ~stopped
        PROVE  \E y \in (W \ {t}) \cup {q} : y.of = x
    <3>1. PICK y \in W : y.of = x
      BY <2>1, <2>5 DEF WriteInv
    <3> QED
      BY <1>2, <3>1
  <2> QED
    BY <1>1, <2>2, <2>3, <2>4, <2>5 DEF WriteInv
<1> QED
  BY <1>5, <1>6

LEMMA RunWrites ==
    ASSUME TypeOK, WriteInv, ~fault, NEW t \in timeouts, RunMonitor(t)
    PROVE  WriteInv'
<1> DEFINE ts == timeouts \ {t}
           m == t.of
<1>a. /\ m \in Monitors /\ UNCHANGED <<future, stopped>> /\ ts \in SUBSET TimeoutSet
      /\ {m} \in SUBSET Monitors /\ now \in Nat
  BY NowNat DEF RunMonitor, TypeOK
<1>b. WritesOf(ts) = WritesOf(timeouts)
  BY <1>a, TimeoutsAssumption DEF WritesOf
<1>1. ASSUME NEW d \in Nat
      PROVE  LET us == newTimeout(ts, [x \in {m} |-> d])
             IN  us \in SUBSET TimeoutSet /\ WritesOf(us) = WritesOf(timeouts)
  <2>1. [x \in {m} |-> d] \in [{m} -> Nat]
    OBVIOUS
  <2> HIDE DEF ts, m
  <2> QED
    BY <1>a, <1>b, <2>1, NewMembers, NewWrites
<1>2. CASE timeouts' = ts /\ phase' = phase
  <2>1. phase' = "open" => phase \in {"building", "open"}
    BY <1>2
  <2> QED
    BY <1>a, <1>b, <1>2, <2>1, WriteKept
<1>3. CASE nextDelay(m) > 0 /\ timeouts' = Rearmed(ts, m) /\ phase' = phase
  <2>1. nextDelay(m) \in Nat
    BY <1>a, <1>3, DelayType
  <2>2. timeouts' = newTimeout(ts, [x \in {m} |-> nextDelay(m)])
    BY <1>3 DEF Rearmed
  <2>3. WritesOf(timeouts') = WritesOf(timeouts)
    BY <1>1, <2>1, <2>2
  <2> QED
    BY <1>a, <1>3, <2>3, WriteKept
<1>4. CASE phase = "open" /\ Report(ts, m)
  <2>1. PICK d \in Nat : d = period[m]
    BY <1>a DEF TypeOK
  <2>2. newPeriods(ts, {m}) = newTimeout(ts, [x \in {m} |-> d])
    <3>1. [x \in {m} |-> period[x]] = [x \in {m} |-> d]
      BY <2>1
    <3> QED
      BY <3>1 DEF newPeriods
  <2>3. PICK us \in SUBSET TimeoutSet : us = newPeriods(ts, {m}) /\ WritesOf(us) = WritesOf(timeouts)
    BY <1>1, <2>2
  <2>4. CASE timeouts' = us /\ phase' = phase
    BY <1>a, <1>4, <2>3, <2>4, WriteKept
  <2>5. CASE phase' = "closed" /\ Destroy(installed, us)
    <3>1. WritesOf(timeouts') = WritesOf(timeouts)
      BY <2>3, <2>5, DestroyWrites DEF Destroy
    <3> QED
      BY <1>a, <1>4, <2>5, <3>1, WriteKept
  <2> QED
    BY <1>4, <2>3, <2>4, <2>5 DEF Report
<1> QED
  BY <1>2, <1>3, <1>4 DEF RunMonitor

LEMMA TimedOutWrites ==
    ASSUME TypeOK, WriteInv, ~fault, NEW t \in timeouts, RunWriteTimeout(t)
    PROVE  WriteInv'
<1> DEFINE ts == timeouts \ {t}
           w == t.of
<1>a. /\ w \in Writes /\ stopped' = stopped /\ ts \in SUBSET TimeoutSet /\ t \in WritesOf(timeouts)
  BY DEF RunWriteTimeout, TypeOK, WritesOf
<1>b. WritesOf(ts) = WritesOf(timeouts) \ {t} /\ \A x \in WritesOf(ts) : x.of # w
  BY <1>a DEF WriteInv, WritesOf
<1>c. phase # "building"
  BY <1>a DEF WriteInv
<1>1. ASSUME timeouts' = ts, UNCHANGED <<phase, future>>,
             fault' = TRUE \/ phase # "open" \/ future[w] # "pending"
      PROVE  WriteInv'
  <2>1. WritesOf(timeouts)' = WritesOf(ts)
    BY <1>1 DEF WritesOf
  <2>2. ASSUME NEW x \in Writes, future[x] = "pending", phase = "open", WriteMillis > 0, ~stopped,
               ~fault'
        PROVE  \E y \in WritesOf(ts) : y.of = x
    <3>1. PICK y \in WritesOf(timeouts) : y.of = x
      BY <2>2 DEF WriteInv
    <3> QED
      BY <1>1, <1>b, <2>2, <3>1
  <2> HIDE DEF ts
  <2> QED
    BY <1>1, <1>a, <1>b, <1>c, <2>1, <2>2 DEF WriteInv
<1>2. ASSUME future' = [future EXCEPT ![w] = "failure"], phase = "open", phase' # "building",
             WritesOf(timeouts') = WritesOf(ts)
      PROVE  WriteInv'
  <2>1. /\ WritesOf(timeouts') \subseteq WritesOf(timeouts)
        /\ \A x \in WritesOf(timeouts') : x.of = w /\ x.held => x.st = "queued"
        /\ \A x \in WritesOf(timeouts) : x.of # w => x \in WritesOf(timeouts')
    BY <1>2, <1>b
  <2> QED
    BY <1>a, <1>2, <2>1, AnsweredWrites
<1>3. CASE timeouts' = ts /\ UNCHANGED <<phase, future>> /\ fault' = TRUE
  BY <1>1, <1>3
<1>4. CASE (phase # "open" \/ future[w] # "pending") /\ timeouts' = ts /\ UNCHANGED <<phase, future>>
  BY <1>1, <1>4
<1>5. CASE /\ phase = "open" /\ future' = [future EXCEPT ![w] = "failure"]
           /\ \/ timeouts' = ts /\ phase' = phase
              \/ phase' = "closed" /\ Destroy(installed, ts)
  <2>1. phase' # "building"
    BY <1>5
  <2>2. WritesOf(timeouts') = WritesOf(ts)
    BY <1>a, <1>5, DestroyWrites DEF Destroy
  <2> QED
    BY <1>2, <1>5, <2>1, <2>2
<1> QED
  BY <1>3, <1>4, <1>5 DEF RunWriteTimeout

LEMMA WriteInduction == TypeOK /\ WriteInv /\ [Next]_vars => WriteInv'
<1> SUFFICES ASSUME TypeOK, WriteInv, [Next]_vars PROVE WriteInv'
  OBVIOUS
<1>a. timeouts \in SUBSET TimeoutSet
  BY DEF TypeOK
<1>b. Next => ~fault
  BY DEF Next
<1>1. ASSUME ChannelOpen, ~fault
      PROVE  WriteInv'
  <2>1. PICK added \in SUBSET (Handlers \ installed) :
           timeouts' = initialize(initialize(timeouts, added), installed \cup added)
    BY <1>1 DEF ChannelOpen, Initialize
  <2>2. WritesOf(timeouts') = WritesOf(timeouts)
    BY <1>a, <2>1, InitializeType, InitializeWrites
  <2> QED
    BY <1>1, <2>2, WriteKept DEF ChannelOpen
<1>2. ASSUME NEW h \in Handlers, Add(h), ~fault
      PROVE  WriteInv'
  <2>1. WritesOf(timeouts') = WritesOf(timeouts)
    BY <1>2, <1>a, InitializeWrites DEF Add, Initialize
  <2> QED
    BY <1>2, <2>1, WriteKept DEF Add
<1>3. ASSUME NEW h \in Handlers, Remove(h), ~fault
      PROVE  WriteInv'
  <2> DEFINE ms == MonitorsOf({h})
  <2>1. timeouts' = {Aged(t, ms, ms) : t \in cancel(timeouts, ms)}
    BY <1>3, <1>a, RemoveAged DEF Remove
  <2>2. ms \in SUBSET Monitors /\ cancel(timeouts, ms) \in SUBSET TimeoutSet
    BY <1>a DEF MonitorsOf, cancel
  <2> HIDE DEF ms
  <2>3. WritesOf(timeouts') = WritesOf(timeouts)
    BY <2>1, <2>2, AgedWrites, CancelWrites
  <2> QED
    BY <1>3, <2>3, WriteKept DEF Remove
<1>4. ASSUME Close, ~fault
      PROVE  WriteInv'
  BY <1>a, <1>4, DestroyWrites, WriteKept DEF Close, Destroy
<1>5. ASSUME NEW h \in Handlers, Release(h)
      PROVE  WriteInv'
  <2>1. WritesOf(timeouts)' \subseteq WritesOf(timeouts) /\ stopped' = TRUE
        /\ UNCHANGED <<future, phase>>
    BY <1>5 DEF Release, WritesOf, stop, channel
  <2> QED
    BY <2>1 DEF WriteInv
<1>6. ASSUME messageReceived \/ Tick, ~fault
      PROVE  WriteInv'
  BY <1>6, WriteKept DEF messageReceived, Tick, channel
<1>7. CASE UNCHANGED vars
  <2>1. WritesOf(timeouts)' = WritesOf(timeouts) /\ UNCHANGED <<future, phase, stopped, fault>>
    BY <1>7 DEF vars, channel, WritesOf
  <2> QED
    BY <2>1 DEF WriteInv
<1> QED
  BY <1>b, <1>1, <1>2, <1>3, <1>4, <1>5, <1>6, <1>7, RequestWrites, EndsWrites, ListenerWrites,
     ExpireWrites, RunWrites, TimedOutWrites DEF Next

LEMMA WriteHolds == Init => WriteInv
BY DEF Init, WriteInv, WritesOf

LEMMA WriteImplies == WriteInv => WriteTimeoutMet
<1>1. \A w \in Writes : \A t \in timeouts : t.of = w => t \in WritesOf(timeouts)
  BY DEF WritesOf
<1> QED
  BY <1>1 DEF WriteInv, WriteTimeoutMet, WritesOf

(* An open channel has for every unanswered write a timeout that will fail   *)
(* it unless the timer was stopped, and once a write was answered no timeout *)
(* of it can still expire, however handlers come and go and whoever answers  *)
(* first, the listener or handleWriteTimeout.  The second half is about the  *)
(* timeouts that the listener still holds: one that a user's setListener     *)
(* has taken from it may expire after the answer.                            *)
THEOREM WritesAreTimed == Spec => []WriteTimeoutMet
BY TypeCorrect, WriteHolds, WriteInduction, WriteImplies, PTL DEF Spec

-----------------------------------------------------------------------------
(***************************************************************************)
(* The times.  A timeout of a monitor is due within a period of the last   *)
(* activity or report, and not before a period after the last report.      *)
(***************************************************************************)
Timely(t) == now <= t.at + MaxLag /\ (t.st = "queued" => t.at <= now)
NotEarly(t) == t.at >= reported[t.of] + period[t.of]
NotLate(t) ==
    \/ t.at <= lastActivity(t.of) + period[t.of]
    \/ t.at <= reported[t.of] + period[t.of]

TimeInv ==
    /\ lastWrite <= now
    /\ \A h \in Handlers : lastRead[h] <= now
    /\ \A m \in Monitors : reported[m] <= now
    /\ \A t \in timeouts : Timely(t)
    /\ \A t \in timeouts : t.of \in Monitors /\ ~t.dangling => NotEarly(t) /\ NotLate(t)

(* A timeout that a step keeps, and one that it creates. *)
OldStep(u) ==
    \E t \in timeouts :
        /\ u.of = t.of /\ u.at = t.at
        /\ u.st = t.st \/ u.at <= now
        /\ u.of \in Monitors /\ ~u.dangling =>
              ~t.dangling /\ reported'[u.of] = reported[u.of]
NewStep(u) ==
    /\ u.st = "waiting" /\ u.at >= now
    /\ u.of \in Monitors /\ ~u.dangling => NotEarly(u)' /\ NotLate(u)'

LEMMA ActivityGrows ==
    ASSUME TypeOK, TypeOK', \A h \in Handlers : lastRead[h] <= lastRead'[h],
           lastWrite <= lastWrite', NEW m \in Monitors
    PROVE  lastActivity(m) <= lastActivity(m)'
<1>1. /\ lastRead["idle"] \in Nat /\ lastRead["read"] \in Nat /\ lastWrite \in Nat
      /\ lastRead'["idle"] \in Nat /\ lastRead'["read"] \in Nat /\ lastWrite' \in Nat
      /\ lastRead["idle"] <= lastRead'["idle"] /\ lastRead["read"] <= lastRead'["read"]
  BY DEF TypeOK, Handlers
<1>2. ASSUME NEW a \in Nat, NEW b \in Nat
      PROVE  Max({a, b}) = IF a >= b THEN a ELSE b
  BY DEF Max
<1>3. m \in {"reader", "writer", "all", "readTimeout"}
  BY DEF Monitors, IdleMonitors
<1>4. Max({lastRead["idle"], lastWrite}) <= Max({lastRead'["idle"], lastWrite'})
  BY <1>1, <1>2
<1> QED
  BY <1>1, <1>3, <1>4 DEF lastActivity

LEMMA TimeStep ==
    ASSUME TypeOK, TypeOK', TimeInv, now' = now, period' = period,
           \A h \in Handlers : lastRead'[h] \in {lastRead[h], now},
           lastWrite' \in {lastWrite, now},
           \A m \in Monitors : reported'[m] \in {reported[m], now},
           \A u \in timeouts' : OldStep(u) \/ NewStep(u)
    PROVE  TimeInv'
<1>a. now \in Nat /\ MaxLag \in Nat
  BY NowNat, TimeoutsAssumption
<1>b. \A m \in Monitors : lastActivity(m) <= lastActivity(m)'
  <2>1. \A h \in Handlers : lastRead[h] <= lastRead'[h]
    BY <1>a DEF TimeInv, TypeOK
  <2>2. lastWrite <= lastWrite'
    BY <1>a DEF TimeInv, TypeOK
  <2> QED
    BY <2>1, <2>2, ActivityGrows
<1>1. lastWrite' <= now' /\ \A h \in Handlers : lastRead'[h] <= now'
  BY <1>a DEF TimeInv
<1>2. \A m \in Monitors : reported'[m] <= now'
  BY <1>a DEF TimeInv
<1>3. ASSUME NEW u \in timeouts'
      PROVE  Timely(u)' /\ (u.of \in Monitors /\ ~u.dangling => NotEarly(u)' /\ NotLate(u)')
  <2>0. u.at \in Nat
    BY <1>3 DEF TypeOK, TimeoutSet
  <2>1. CASE NewStep(u)
    BY <2>0, <2>1, <1>a DEF NewStep, Timely
  <2>2. CASE OldStep(u)
    <3>1. PICK t \in timeouts :
            /\ u.of = t.of /\ u.at = t.at
            /\ u.st = t.st \/ u.at <= now
            /\ u.of \in Monitors /\ ~u.dangling =>
                  ~t.dangling /\ reported'[u.of] = reported[u.of]
      BY <2>2 DEF OldStep
    <3>2. Timely(t) /\ (t.of \in Monitors /\ ~t.dangling => NotEarly(t) /\ NotLate(t))
      BY DEF TimeInv
    <3>3. Timely(u)'
      BY <3>1, <3>2, <1>a DEF Timely
    <3>4. ASSUME u.of \in Monitors, ~u.dangling
          PROVE  NotEarly(u)' /\ NotLate(u)'
      <4>1. NotEarly(t) /\ NotLate(t) /\ reported'[u.of] = reported[u.of]
        BY <3>1, <3>2, <3>4
      <4>2. NotEarly(u)'
        BY <3>1, <4>1 DEF NotEarly
      <4>3. PICK a \in Nat, b \in Nat, p \in Nat :
               a = lastActivity(u.of) /\ b = lastActivity(u.of)' /\ p = period[u.of]
        <5>1. lastActivity(u.of) \in Nat /\ period[u.of] \in Nat
          BY <3>4, LastActivityType DEF TypeOK
        <5>2. TypeOK' => lastActivity(u.of)' \in Nat
          <6>1. /\ lastRead'["idle"] \in Nat /\ lastRead'["read"] \in Nat /\ lastWrite' \in Nat
            BY DEF TypeOK, Handlers
          <6>2. ASSUME NEW x \in Nat, NEW y \in Nat
                PROVE  Max({x, y}) \in Nat
            BY DEF Max
          <6>3. u.of \in {"reader", "writer", "all", "readTimeout"}
            BY <3>4 DEF Monitors, IdleMonitors
          <6> QED
            BY <6>1, <6>2, <6>3 DEF lastActivity
        <5> QED
          BY <5>1, <5>2
      <4>4. a <= b
        BY <1>b, <3>4, <4>3
      <4>5. t.at <= a + p => u.at <= b + p
        BY <2>0, <3>1, <4>3, <4>4
      <4>6. NotLate(u)'
        BY <3>1, <4>1, <4>3, <4>5 DEF NotLate
      <4> QED
        BY <4>2, <4>6
    <3> QED
      BY <3>3, <3>4
  <2> QED
    BY <2>1, <2>2
<1> QED
  BY <1>1, <1>2, <1>3 DEF TimeInv

(* A timeout that destroy() or a new one of its monitor leaves behind. *)
From(u, ts) ==
    \E t \in ts : u.of = t.of /\ u.at = t.at /\ u.st = t.st /\ (~u.dangling => ~t.dangling)

LEMMA AgedFrom ==
    ASSUME NEW ts \in SUBSET TimeoutSet, NEW cs \in SUBSET ts, NEW ms, NEW ds
    PROVE  \A u \in {Aged(t, ms, ds) : t \in cs} : From(u, ts)
<1>1. ASSUME NEW t \in cs
      PROVE  From(Aged(t, ms, ds), ts)
  BY AgedFacts DEF From
<1> QED
  BY <1>1

LEMMA DestroyFrom ==
    ASSUME NEW ts \in SUBSET TimeoutSet, NEW hs
    PROVE  \A u \in destroy(ts, hs) : From(u, ts)
<1> DEFINE ms == MonitorsOf(hs)
           ds == MonitorsOf(hs \cap {"idle"})
<1>1. cancel(ts, ms) \in SUBSET ts
  BY DEF cancel
<1>2. destroy(ts, hs) = {Aged(t, ms, ds) : t \in cancel(ts, ms)}
  BY DestroyAged
<1> HIDE DEF ms, ds
<1> QED
  BY <1>1, <1>2, AgedFrom

LEMMA RemoveFrom ==
    ASSUME NEW ts \in SUBSET TimeoutSet, NEW h
    PROVE  \A u \in ContextDeleted(destroy(ts, {h}), h) : From(u, ts)
<1>1. cancel(ts, MonitorsOf({h})) \in SUBSET ts
  BY DEF cancel
<1> QED
  BY <1>1, RemoveAged, AgedFrom

LEMMA NewFrom ==
    ASSUME NEW ts \in SUBSET TimeoutSet, NEW ms \in SUBSET Monitors, NEW delays \in [ms -> Nat],
           now \in Nat
    PROVE  \A u \in newTimeout(ts, delays) :
              From(u, ts) \/ \E m \in ms : u = Fresh(m, delays[m])
<1>1. \A u \in {Aged(t, ms, {}) : t \in ts} : From(u, ts)
  BY AgedFrom
<1> QED
  BY <1>1, NewMembers

LEMMA FromOld ==
    ASSUME NEW u, From(u, timeouts), reported' = reported
    PROVE  OldStep(u)
BY DEF From, OldStep

(* initialize() counts as activity of the monitors that it starts. *)
LEMMA InitializeTimes ==
    ASSUME TypeOK, TypeOK', TimeInv, now' = now, period' = period, reported' = reported,
           NEW hs \in SUBSET Handlers, Initialize(hs, timeouts)
    PROVE  TimeInv'
<1> DEFINE ms == Enabled(hs)
           delays == [m \in ms |-> period[m]]
<1>a. now \in Nat /\ timeouts \in SUBSET TimeoutSet
  BY NowNat DEF TypeOK
<1>1. ms \in SUBSET Monitors /\ \A m \in ms : HandlerOf(m) \in hs /\ period[m] > 0
  BY DEF Enabled, MonitorsOf
<1>2. delays \in [ms -> Nat] /\ \A m \in ms : delays[m] = period[m]
  BY <1>1, PeriodDelays
<1>3. timeouts' = newTimeout(timeouts, delays)
  BY DEF Initialize, initialize, newPeriods
<1>4. ASSUME NEW m \in ms
      PROVE  lastActivity(m)' = now
  <2>1. /\ "idle" \in hs => lastRead'["idle"] = now /\ lastWrite' = now
        /\ "read" \in hs /\ period["readTimeout"] > 0 => lastRead'["read"] = now
    BY DEF Initialize, Used, Handlers
  <2>2. Max({now, now}) = now
    BY <1>a DEF Max
  <2>3. m \in {"reader", "writer", "all", "readTimeout"}
    BY <1>1 DEF Monitors, IdleMonitors
  <2>4. HandlerOf(m) \in hs /\ period[m] > 0
    BY <1>1
  <2>5. CASE m \in {"reader", "writer", "all"}
    <3>1. "idle" \in hs
      BY <2>4, <2>5 DEF HandlerOf, IdleMonitors
    <3> QED
      BY <2>1, <2>2, <2>5, <3>1 DEF lastActivity
  <2>6. CASE m = "readTimeout"
    <3>1. "read" \in hs
      BY <2>4, <2>6 DEF HandlerOf, IdleMonitors
    <3> QED
      BY <2>1, <2>4, <2>6, <3>1 DEF lastActivity
  <2> QED
    BY <2>3, <2>5, <2>6
<1> HIDE DEF ms, delays
<1>5. ASSUME NEW u \in timeouts'
      PROVE  OldStep(u) \/ NewStep(u)
  <2>1. CASE From(u, timeouts)
    BY <2>1, FromOld
  <2>2. CASE \E m \in ms : u = Fresh(m, delays[m])
    <3>1. PICK m \in ms : u = Fresh(m, delays[m])
      BY <2>2
    <3>2. PICK d \in Nat : d = delays[m] /\ d = period'[m]
      BY <1>1, <1>2
    <3>3. u.of = m /\ u.at = now + d /\ u.st = "waiting"
      BY <1>1, <1>a, <3>1, <3>2, FreshFacts
    <3>4. reported'[m] \in Nat /\ reported'[m] <= now
      BY <1>1 DEF TypeOK, TimeInv
    <3>5. NotEarly(u)'
      BY <1>a, <3>2, <3>3, <3>4 DEF NotEarly
    <3>6. NotLate(u)'
      BY <1>4, <1>a, <3>2, <3>3 DEF NotLate
    <3> QED
      BY <1>a, <3>3, <3>5, <3>6 DEF NewStep
  <2> QED
    BY <1>1, <1>2, <1>3, <1>a, <2>1, <2>2, NewFrom
<1>6. /\ \A h \in Handlers : lastRead'[h] \in {lastRead[h], now}
      /\ lastWrite' \in {lastWrite, now}
  BY DEF Initialize
<1> QED
  BY <1>5, <1>6, TimeStep

(* run() re-arms for the rest of the period, or for a whole one from the     *)
(* report on; the timeout that expired was the only one of its monitor.      *)
LEMMA RunTimes ==
    ASSUME TypeOK, TypeOK', ChainInv, TimeInv, NEW t \in timeouts, RunMonitor(t)
    PROVE  TimeInv'
<1> DEFINE ts == timeouts \ {t}
           m == t.of
<1>a. /\ m \in Monitors /\ {m} \in SUBSET Monitors /\ ts \in SUBSET TimeoutSet /\ now \in Nat
      /\ UNCHANGED <<now, period, lastRead, lastWrite>> /\ t.at \in Nat /\ t.at <= now
  BY NowNat DEF RunMonitor, TypeOK, TimeoutSet, TimeInv, Timely
<1>b. PICK p \in Nat, r \in Nat, a \in Nat :
         p = period[m] /\ r = reported[m] /\ a = lastActivity(m)
  BY <1>a, LastActivityType DEF TypeOK
<1>c. lastActivity(m)' = a
  BY <1>a, <1>b DEF lastActivity
<1>d. ASSUME NEW d \in Nat
      PROVE  LET us == newTimeout(ts, [x \in {m} |-> d])
             IN  /\ us \in SUBSET TimeoutSet
                 /\ \A u \in us : From(u, ts) \/ (u.of = m /\ u.at = now + d /\ u.st = "waiting")
  <2> DEFINE delays == [x \in {m} |-> d]
  <2>1. delays \in [{m} -> Nat] /\ delays[m] = d
    OBVIOUS
  <2> HIDE DEF delays
  <2>2. newTimeout(ts, delays) \in SUBSET TimeoutSet
    BY <1>a, <2>1, NewMembers
  <2>3. \A u \in newTimeout(ts, delays) : From(u, ts) \/ u = Fresh(m, d)
    BY <1>a, <2>1, NewFrom
  <2>4. Fresh(m, d).of = m /\ Fresh(m, d).at = now + d /\ Fresh(m, d).st = "waiting"
    BY <1>a, FreshFacts
  <2> QED
    BY <2>2, <2>3, <2>4 DEF delays
<1>e. \A u : From(u, ts) => From(u, timeouts)
  BY DEF From
<1>1. CASE timeouts' = ts /\ reported' = reported
  <2>1. \A u \in timeouts' : From(u, timeouts)
    BY <1>1 DEF From
  <2> QED
    BY <1>a, <1>1, <2>1, FromOld, TimeStep
<1>2. CASE ~t.dangling /\ nextDelay(m) > 0 /\ timeouts' = Rearmed(ts, m) /\ reported' = reported
  <2>1. PICK d \in Nat : d = nextDelay(m) /\ d > 0
    BY <1>a, <1>2, DelayType
  <2>2. timeouts' = newTimeout(ts, [x \in {m} |-> d])
    BY <1>2, <2>1 DEF Rearmed
  <2>3. now + d = a + p
    BY <1>a, <1>b, <2>1 DEF nextDelay
  <2>4. t.at >= r + p
    BY <1>a, <1>b, <1>2 DEF TimeInv, NotEarly
  <2>5. ASSUME NEW u \in timeouts', u.of = m, u.at = now + d, u.st = "waiting"
        PROVE  NewStep(u)
    <3>1. NotEarly(u)'
      BY <1>a, <1>b, <1>2, <2>1, <2>4, <2>5 DEF NotEarly
    <3>2. NotLate(u)'
      BY <1>a, <1>b, <1>c, <2>3, <2>5 DEF NotLate
    <3> QED
      BY <1>a, <2>5, <3>1, <3>2 DEF NewStep
  <2>6. \A u \in timeouts' : OldStep(u) \/ NewStep(u)
    <3> HIDE DEF ts, m
    <3> QED
      BY <1>d, <1>e, <1>2, <2>1, <2>2, <2>5, FromOld
  <2> QED
    BY <1>a, <1>2, <2>6, TimeStep
<1>3. CASE ~t.dangling /\ Report(ts, m)
  <2>1. newPeriods(ts, {m}) = newTimeout(ts, [x \in {m} |-> p])
    <3>1. [x \in {m} |-> period[x]] = [x \in {m} |-> p]
      BY <1>b
    <3> QED
      BY <3>1 DEF newPeriods
  <2>2. PICK us \in SUBSET TimeoutSet :
           /\ us = newPeriods(ts, {m})
           /\ \A u \in us : From(u, ts) \/ (u.of = m /\ u.at = now + p /\ u.st = "waiting")
    BY <1>d, <2>1
  <2>3. timeouts' = us \/ timeouts' = destroy(us, installed)
    BY <1>3, <2>2 DEF Report, Destroy
  <2>4. \A u \in timeouts' : From(u, us)
    <3>1. CASE timeouts' = us
      BY <3>1 DEF From
    <3>2. CASE timeouts' = destroy(us, installed)
      BY <3>2, DestroyFrom
    <3> QED
      BY <2>3, <3>1, <3>2
  <2>5. \A u \in timeouts' : From(u, ts) \/ (u.of = m /\ u.at = now + p /\ u.st = "waiting")
    BY <2>2, <2>4 DEF From
  <2>6. reported'[m] = now /\ \A x \in Monitors \ {m} : reported'[x] = reported[x]
    BY <1>a, <1>3 DEF Report, TypeOK
  <2>7. ASSUME NEW u \in timeouts', From(u, ts)
        PROVE  OldStep(u)
    <3>1. PICK v \in ts : u.of = v.of /\ u.at = v.at /\ u.st = v.st /\ (~u.dangling => ~v.dangling)
      BY <2>7 DEF From
    <3>2. u.of \in Monitors /\ ~u.dangling => ~v.dangling /\ u.of # m
      BY <1>a, <1>3, <3>1 DEF ChainInv, Single, Live
    <3> QED
      BY <2>6, <3>1, <3>2 DEF OldStep
  <2>8. ASSUME NEW u \in timeouts', u.of = m, u.at = now + p, u.st = "waiting"
        PROVE  NewStep(u)
    <3>1. NotEarly(u)' /\ NotLate(u)'
      BY <1>a, <1>b, <2>6, <2>8 DEF NotEarly, NotLate
    <3> QED
      BY <1>a, <1>b, <2>8, <3>1 DEF NewStep
  <2>9. \A x \in Monitors : reported'[x] \in {reported[x], now}
    BY <2>6
  <2> QED
    BY <1>a, <2>5, <2>7, <2>8, <2>9, TimeStep
<1> QED
  BY <1>1, <1>2, <1>3 DEF RunMonitor

LEMMA TickTimes ==
    ASSUME TypeOK, TimeInv, Tick
    PROVE  TimeInv'
<1>a. /\ now' = now + 1 /\ now \in Nat /\ MaxLag \in Nat
      /\ UNCHANGED <<period, lastRead, lastWrite, timeouts, reported>>
  BY NowNat, TimeoutsAssumption DEF Tick, handler
<1>1. lastWrite' <= now' /\ \A h \in Handlers : lastRead'[h] <= now'
  BY <1>a DEF TimeInv, TypeOK
<1>2. \A m \in Monitors : reported'[m] <= now'
  BY <1>a DEF TimeInv, TypeOK
<1>3. ASSUME NEW t \in timeouts
      PROVE  Timely(t)'
  <2>1. t.at \in Nat /\ now < t.at + MaxLag
    BY DEF TypeOK, TimeoutSet, Tick
  <2> QED
    BY <1>a, <2>1 DEF TimeInv, Timely
<1>4. ASSUME NEW t \in timeouts, t.of \in Monitors, ~t.dangling
      PROVE  NotEarly(t)' /\ NotLate(t)'
  BY <1>a, <1>4 DEF TimeInv, NotEarly, NotLate, lastActivity
<1> QED
  BY <1>a, <1>1, <1>2, <1>3, <1>4 DEF TimeInv

LEMMA TimeInduction ==
    "during" \notin AddPoints /\ TypeOK /\ ChainInv /\ TimeInv /\ [Next]_vars => TimeInv'
<1> SUFFICES ASSUME "during" \notin AddPoints, TypeOK, ChainInv, TimeInv, [Next]_vars
             PROVE  TimeInv'
  OBVIOUS
<1>a. timeouts \in SUBSET TimeoutSet /\ now \in Nat /\ TypeOK'
  BY NowNat, StepType DEF TypeOK
(* A step that only ages timeouts and notes activity. *)
<1>b. ASSUME UNCHANGED <<now, period, reported>>,
             \A h \in Handlers : lastRead'[h] \in {lastRead[h], now},
             lastWrite' \in {lastWrite, now},
             \A u \in timeouts' : From(u, timeouts)
      PROVE  TimeInv'
  BY <1>a, <1>b, FromOld, TimeStep
<1>c. \A cs \in SUBSET timeouts : \A u \in cs : From(u, timeouts)
  BY DEF From
<1>1. CASE ChannelOpen
  <2>1. timeouts = {} /\ UNCHANGED <<now, period, reported>>
    BY <1>1 DEF ChannelOpen, ChainInv
  <2>2. Initialize(installed \cup {}, initialize({}, {}))
    BY <1>1, <2>1 DEF ChannelOpen
  <2>3. initialize({}, {}) = {}
    BY DEF initialize, Enabled, MonitorsOf, newPeriods, newTimeout, Unheld
  <2>4. installed \cup {} = installed /\ installed \in SUBSET Handlers
    BY DEF TypeOK
  <2>5. Initialize(installed, timeouts)
    BY <2>1, <2>2, <2>3, <2>4
  <2> QED
    BY <1>a, <2>1, <2>4, <2>5, InitializeTimes
<1>2. ASSUME NEW h \in Handlers, Add(h)
      PROVE  TimeInv'
  <2>1. CASE phase = "building"
    <3>1. UNCHANGED <<now, period, reported, lastRead, lastWrite, timeouts>>
      BY <1>2, <2>1 DEF Add, handler
    <3> QED
      BY <1>b, <1>c, <3>1
  <2>2. CASE phase # "building"
    <3>1. Initialize({h}, timeouts) /\ {h} \in SUBSET Handlers
          /\ UNCHANGED <<now, period, reported>>
      BY <1>2, <2>2 DEF Add
    <3> QED
      BY <1>a, <3>1, InitializeTimes
  <2> QED
    BY <2>1, <2>2
<1>3. ASSUME NEW h \in Handlers, Remove(h)
      PROVE  TimeInv'
  <2>1. \A u \in timeouts' : From(u, timeouts)
    BY <1>3, <1>a, RemoveFrom DEF Remove
  <2> QED
    BY <1>3, <1>b, <2>1 DEF Remove
<1>4. CASE Close
  <2>1. \A u \in timeouts' : From(u, timeouts)
    BY <1>4, <1>a, DestroyFrom DEF Close, Destroy
  <2> QED
    BY <1>4, <1>b, <2>1 DEF Close
<1>5. ASSUME NEW h \in Handlers, Release(h)
      PROVE  TimeInv'
  <2>1. timeouts' \in SUBSET timeouts /\ UNCHANGED <<now, period, reported, lastRead, lastWrite>>
    BY <1>5 DEF Release, stop, handler
  <2> QED
    BY <1>b, <1>c, <2>1
<1>6. CASE messageReceived
  <2>1. /\ UNCHANGED <<now, period, reported, lastWrite, timeouts>>
        /\ \A h \in Handlers : lastRead'[h] \in {lastRead[h], now}
    BY <1>6 DEF messageReceived
  <2> QED
    BY <1>b, <1>c, <2>1
<1>7. ASSUME NEW w \in Writes, writeRequested(w)
      PROVE  TimeInv'
  <2> DEFINE f == [Fresh(w, WriteMillis) EXCEPT !.dangling = TRUE]
  <2>1. f.of = w /\ f.at = now + WriteMillis /\ f.st = "waiting"
    BY DEF Fresh
  <2>2. /\ UNCHANGED <<now, period, reported, lastRead, lastWrite>>
        /\ timeouts' \in {timeouts, timeouts \cup {f}}
    BY <1>7 DEF writeRequested, handler
  <2> HIDE DEF f
  <2>3. NewStep(f)
    BY <1>a, <2>1, TimeoutsAssumption DEF NewStep
  <2>4. \A u \in timeouts : OldStep(u)
    BY <2>2 DEF OldStep
  <2> QED
    BY <1>a, <2>2, <2>3, <2>4, TimeStep
<1>8. ASSUME NEW w \in Writes, NEW n \in 0 .. 1, WriteEnds(w, n)
      PROVE  TimeInv'
  <2>1. /\ UNCHANGED <<now, period, reported, lastRead>> /\ lastWrite' \in {lastWrite, now}
        /\ timeouts' \in SUBSET timeouts
    BY <1>8 DEF WriteEnds, cancelTimeout, cancel
  <2> QED
    BY <1>b, <1>c, <2>1
<1>9. ASSUME NEW t \in timeouts, Expire(t)
      PROVE  TimeInv'
  <2> DEFINE q == [t EXCEPT !.st = "queued"]
  <2>1. /\ UNCHANGED <<now, period, reported, lastRead, lastWrite>> /\ t.at <= now
        /\ timeouts' = (timeouts \ {t}) \cup {q}
    BY <1>9 DEF Expire, handler
  <2>2. q.of = t.of /\ q.at = t.at /\ (q.dangling <=> t.dangling)
    BY <1>a DEF TimeoutSet
  <2> HIDE DEF q
  <2>3. OldStep(q) /\ \A u \in timeouts : OldStep(u)
    BY <2>1, <2>2 DEF OldStep
  <2> QED
    BY <1>a, <2>1, <2>3, TimeStep
<1>10. ASSUME NEW t \in timeouts, RunWriteTimeout(t)
       PROVE  TimeInv'
  <2> DEFINE ts == timeouts \ {t}
  <2>1. /\ UNCHANGED <<now, period, reported, lastRead, lastWrite>>
        /\ ts \in SUBSET timeouts /\ ts \in SUBSET TimeoutSet
        /\ timeouts' \in {ts, destroy(ts, installed)}
    BY <1>10, <1>a DEF RunWriteTimeout, Destroy
  <2> HIDE DEF ts
  <2>2. \A u : From(u, ts) => From(u, timeouts)
    BY <2>1 DEF From
  <2>3. \A u \in timeouts' : From(u, timeouts)
    BY <1>c, <2>1, <2>2, DestroyFrom
  <2> QED
    BY <1>b, <2>1, <2>3
<1>11. CASE UNCHANGED vars
  <2>1. UNCHANGED <<now, period, reported, lastRead, lastWrite, timeouts>>
    BY <1>11 DEF vars, handler
  <2> QED
    BY <1>b, <1>c, <2>1
<1>12. CASE Tick
  BY <1>12, TickTimes
<1>14. ASSUME NEW w \in Writes, setListener(w)
       PROVE  TimeInv'
  <2>1. /\ UNCHANGED <<now, period, reported, lastRead, lastWrite>>
        /\ timeouts' = Unheld(timeouts, {w})
    BY <1>14 DEF setListener, handler
  <2>2. \A u \in timeouts' : From(u, timeouts)
    BY <1>a, <2>1, UnheldAged, AgedFrom
  <2> QED
    BY <1>b, <2>1, <2>2
<1>13. ASSUME NEW t \in timeouts, RunMonitor(t)
       PROVE  TimeInv'
  BY <1>a, <1>13, RunTimes
<1> QED
  BY <1>1, <1>2, <1>3, <1>4, <1>5, <1>6, <1>7, <1>8, <1>9, <1>10, <1>11, <1>12, <1>13,
     <1>14 DEF Next

LEMMA TimeHolds == Init => TimeInv
BY DEF Init, TimeInv

LEMMA TimeImplies == TypeOK /\ ChainInv /\ TimeInv => DetectedInTime
<1> SUFFICES ASSUME TypeOK, ChainInv, TimeInv, NEW m \in Monitors, Watching(m)
             PROVE  now - Max({lastActivity(m), reported[m]}) <= period[m] + MaxLag
  BY DEF DetectedInTime
<1>1. PICK t \in timeouts : Live(t, m) /\ t.held
  BY DEF ChainInv, Armed
<1>2. Timely(t) /\ NotLate(t) /\ t.of = m /\ t.at \in Nat
  BY <1>1 DEF TimeInv, Live, TypeOK, TimeoutSet
<1>3. PICK p \in Nat, r \in Nat, a \in Nat :
         p = period[m] /\ r = reported[m] /\ a = lastActivity(m)
  BY LastActivityType DEF TypeOK
<1>4. Max({a, r}) = IF a >= r THEN a ELSE r
  BY DEF Max
<1>5. t.at <= a + p \/ t.at <= r + p
  BY <1>2, <1>3 DEF NotLate
<1>6. now \in Nat /\ MaxLag \in Nat /\ now <= t.at + MaxLag
  BY <1>2, NowNat, TimeoutsAssumption DEF Timely
<1>7. now - Max({a, r}) <= p + MaxLag
  BY <1>2, <1>4, <1>5, <1>6
<1> QED
  BY <1>3, <1>7

(* If no handler is added during channelOpen, silence is always reported: a  *)
(* monitor that watches has seen activity or has reported within one period  *)
(* and the lag of the I/O thread, however timeouts are re-armed and handlers *)
(* are removed and added again.                                              *)
THEOREM SilenceDetected ==
    ASSUME "during" \notin AddPoints
    PROVE  Spec => []DetectedInTime
<1>1. TypeOK /\ ChainInv /\ [Next]_vars => ChainInv'
  BY ChainInduction
<1>2. TypeOK /\ ChainInv /\ TimeInv /\ [Next]_vars => TimeInv'
  BY TimeInduction
<1> QED
  BY <1>1, <1>2, ChainHolds, TimeHolds, TimeImplies, TypeCorrect, PTL DEF Spec

LEMMA SpacedStep ==
    ASSUME TypeOK, ChainInv, TimeInv, [Next]_vars, NEW m \in Monitors, reported'[m] # reported[m]
    PROVE  now - lastActivity(m) >= period[m] /\ now - reported[m] >= period[m]
<1>1. PICK t \in timeouts : RunMonitor(t)
  <2>1. \/ ChannelOpen \/ Close \/ messageReceived \/ Tick
        \/ \E h \in Handlers : Add(h) \/ Remove(h) \/ Release(h)
        \/ \E w \in Writes :
             writeRequested(w) \/ setListener(w) \/ \E n \in 0 .. 1 : WriteEnds(w, n)
        \/ \E t \in timeouts : Expire(t) \/ RunWriteTimeout(t)
        \/ UNCHANGED vars
        => reported' = reported
    BY DEF ChannelOpen, Close, messageReceived, Tick, Add, Remove, Release, writeRequested,
           setListener, WriteEnds, Expire, RunWriteTimeout, vars
  <2> QED
    BY <2>1 DEF Next
<1>2. t.of = m /\ ~t.dangling /\ nextDelay(m) <= 0 /\ t.st = "queued"
  <2>1. ~t.dangling /\ nextDelay(t.of) <= 0 /\ t.st = "queued" /\ Report(timeouts \ {t}, t.of)
    BY <1>1 DEF RunMonitor
  <2>2. t.of = m
    BY <2>1 DEF Report, TypeOK
  <2> QED
    BY <2>1, <2>2
<1>3. Timely(t) /\ NotEarly(t) /\ t.at \in Nat
  BY <1>2 DEF TimeInv, TypeOK, TimeoutSet
<1>4. PICK p \in Nat, r \in Nat, a \in Nat :
         p = period[m] /\ r = reported[m] /\ a = lastActivity(m)
  BY LastActivityType DEF TypeOK
<1>5. now \in Nat /\ t.at <= now /\ t.at >= r + p
  BY <1>2, <1>3, <1>4, NowNat DEF Timely, NotEarly
<1>6. p - (now - a) <= 0
  BY <1>2, <1>4 DEF nextDelay
<1>7. now - a >= p /\ now - r >= p
  BY <1>3, <1>5, <1>6
<1> QED
  BY <1>4, <1>7

(* Under the same hypothesis a monitor reports only after a whole period of  *)
(* silence, and never twice within one period, also when an expiry that was  *)
(* queued before a removal runs after it.                                    *)
THEOREM ReportsApart ==
    ASSUME "during" \notin AddPoints
    PROVE  Spec => ReportsSpaced
<1>1. TypeOK /\ ChainInv /\ [Next]_vars => ChainInv'
  BY ChainInduction
<1>2. TypeOK /\ ChainInv /\ TimeInv /\ [Next]_vars => TimeInv'
  BY TimeInduction
<1>3. TypeOK /\ ChainInv /\ TimeInv /\ [Next]_vars =>
         [\A m \in Monitors : reported'[m] # reported[m] =>
            /\ now - lastActivity(m) >= period[m]
            /\ now - reported[m] >= period[m]]_vars
  BY SpacedStep
<1> QED
  BY <1>1, <1>2, <1>3, ChainHolds, TimeHolds, TypeCorrect, PTL DEF Spec, ReportsSpaced
=============================================================================
