---------------------------- MODULE BreakerProofs ----------------------------
(***************************************************************************)
(* Theorems about Breaker, for any workers, messages, thresholds and       *)
(* windows.                                                                *)
(*                                                                         *)
(* The ring of results is exact because what lies beyond its count is      *)
(* unset and the position is the count until it is full.  A rendering that *)
(* succeeds cannot take the failures over the limit, so a breaker that has *)
(* tripped was tripped by a worker that goes on to pause the campaign.     *)
(* The last part counts what wrong credentials cost.                       *)
(***************************************************************************)
EXTENDS Breaker, FiniteSetTheorems, TLAPS

Slots == 0..RenderSampleWindow - 1
Breakers == [fatal : Nat, seen : Nat, failed : Nat, tripped : BOOLEAN,
             sample : [Slots -> BOOLEAN], at : Slots, count : 0..RenderSampleWindow, fails : Nat]
Working == [stage : {"fetched", "resolved", "rendered"}, of : Message]
Counting == [stage : {"counting"}, of : Message, count : Nat]
\* What the callers of pause do when it returns.
Then == {"release", "reset", "nothing"}
Halting == [stage : {"pausing", "forgetting"}, of : Message, after : Then, since : Nat]
Doing == {Idle} \union Working \union Counting \union Halting
Bounds == [faults : Nat, resumes : Nat]

Typed ==
    /\ status \in {"sending", "paused"}
    /\ place \in [Message -> {"pending", "batch", "channel", "held", "done"}]
    /\ worker \in [Worker -> Doing]
    /\ breaker \in Breakers
    /\ credFails \in Nat /\ streak \in Nat
    /\ used \in Bounds

LEMMA TypeParts == TypeOK <=> Typed
BY DEF TypeOK, Typed, Slots, Breakers, Working, Counting, Halting, Then, Doing, Bounds

On(sample) == {i \in Slots : sample[i]}
Ring(b) ==
    /\ b.fails = Cardinality(On(b.sample))
    /\ b.count < RenderSampleWindow =>
          b.at = b.count /\ \A i \in Slots : i >= b.count => b.sample[i] = FALSE
Quiet(b) == ~b.tripped => ~OverLimit(b)
Good(b) == b \in Breakers /\ Ring(b) /\ Quiet(b)

IInv == Typed /\ Ring(breaker) /\ Quiet(breaker) /\ TripIsActedOn

-----------------------------------------------------------------------------
\* The ring

\* Writing one slot changes the number of failures by what comes and what goes.
LEMMA WriteSlot ==
    ASSUME NEW s \in [Slots -> BOOLEAN], NEW i \in Slots, NEW f \in BOOLEAN
    PROVE  /\ Cardinality(On(s)) \in Nat
           /\ s[i] => Cardinality(On(s)) > 0
           /\ Cardinality(On([s EXCEPT ![i] = f])) = (Cardinality(On(s)) + Bit(f)) - Bit(s[i])
<1> DEFINE t == [s EXCEPT ![i] = f]
<1>1. IsFiniteSet(Slots)
  <2>1. RenderSampleWindow - 1 \in Int /\ 0 \in Int BY BreakerAssumption
  <2> QED BY <2>1, FS_Interval DEF Slots
<1>2. IsFiniteSet(On(s)) /\ On(s) \subseteq Slots BY <1>1, FS_Subset DEF On
<1>3. Cardinality(On(s)) \in Nat BY <1>2, FS_CardinalityType
<1>4. t \in [Slots -> BOOLEAN] /\ t[i] = f /\ \A j \in Slots : j # i => t[j] = s[j] OBVIOUS
<1>5. i \in On(s) <=> s[i] BY DEF On
<1>6. s[i] => Cardinality(On(s)) > 0
  <2> SUFFICES ASSUME s[i] PROVE Cardinality(On(s)) > 0 OBVIOUS
  <2>1. On(s) # {} BY <1>5
  <2>2. Cardinality(On(s)) # 0 BY <2>1, <1>2, FS_EmptySet
  <2> QED BY <2>2, <1>3
<1>7. CASE f = TRUE
  <2>1. On(t) = On(s) \union {i} BY <1>4, <1>7 DEF On
  <2>2. Cardinality(On(t)) = IF s[i] THEN Cardinality(On(s)) ELSE Cardinality(On(s)) + 1
    BY <2>1, <1>2, <1>5, FS_AddElement
  <2> HIDE DEF t
  <2>3. CASE s[i] BY <2>2, <2>3, <1>3, <1>6, <1>7 DEF Bit, t
  <2>4. CASE ~s[i] BY <2>2, <2>4, <1>3, <1>6, <1>7 DEF Bit, t
  <2> QED BY <2>3, <2>4
<1>8. CASE f = FALSE
  <2>1. On(t) = On(s) \ {i} BY <1>4, <1>8 DEF On
  <2>2. Cardinality(On(t)) = IF s[i] THEN Cardinality(On(s)) - 1 ELSE Cardinality(On(s))
    BY <2>1, <1>2, <1>5, FS_RemoveElement
  <2> HIDE DEF t
  <2>3. CASE s[i] BY <2>2, <2>3, <1>3, <1>6, <1>8 DEF Bit, t
  <2>4. CASE ~s[i] BY <2>2, <2>4, <1>3, <1>6, <1>8 DEF Bit, t
  <2> QED BY <2>3, <2>4
<1> QED BY <1>3, <1>6, <1>7, <1>8

LEMMA FreshGood == Good(Fresh)
<1>1. Fresh \in Breakers BY BreakerAssumption DEF Fresh, Breakers, Slots
<1>2. On(Fresh.sample) = {} BY DEF On, Fresh, Slots
<1>3. Cardinality(On(Fresh.sample)) = 0 BY <1>2, FS_EmptySet
<1>4. Ring(Fresh) BY <1>3 DEF Ring, Fresh, Slots
<1>5. Quiet(Fresh) BY BreakerAssumption DEF Quiet, OverLimit, Fresh
<1> QED BY <1>1, <1>4, <1>5 DEF Good

LEMMA Wraps ==
    ASSUME NEW n \in Nat \ {0}, NEW i \in 0..n - 1
    PROVE  (i + 1) % n \in 0..n - 1 /\ (i + 1 < n => (i + 1) % n = i + 1)
OBVIOUS

\* One more result in the ring.
LEMMA ObserveRing ==
    ASSUME NEW b \in Breakers, Ring(b), NEW f \in BOOLEAN
    PROVE  /\ Observe(b, f) \in Breakers /\ Ring(Observe(b, f))
           /\ Observe(b, f).tripped = b.tripped /\ Observe(b, f).failed = b.failed
           /\ Observe(b, f).count \in {b.count, b.count + 1}
           /\ f = FALSE => Observe(b, f).fails <= b.fails /\ b.count <= Observe(b, f).count
<1> DEFINE W == RenderSampleWindow
           o == Observe(b, f)
           s == [b.sample EXCEPT ![b.at] = f]
           lost == Bit(b.count = W /\ b.sample[b.at])
<1>1. /\ W \in Nat \ {0} /\ b.at \in Slots /\ b.sample \in [Slots -> BOOLEAN]
      /\ b.count \in 0..W /\ b.fails \in Nat /\ b.at \in Nat /\ b.at < W
  BY BreakerAssumption DEF Breakers, Slots
<1>2. /\ o.sample = s /\ o.count = (IF b.count = W THEN b.count ELSE b.count + 1)
      /\ o.fails = (b.fails + Bit(f)) - lost /\ o.at = (b.at + 1) % W
      /\ o.fatal = b.fatal /\ o.seen = b.seen /\ o.failed = b.failed /\ o.tripped = b.tripped
  BY DEF Observe, Breakers
<1>3. o = [b EXCEPT !.sample = o.sample, !.count = o.count, !.fails = o.fails, !.at = o.at]
  BY <1>2 DEF Observe
<1> HIDE DEF o
<1>4. o.at \in Slots /\ (b.at + 1 < W => o.at = b.at + 1) BY <1>1, <1>2, Wraps DEF Slots
<1>5. Bit(f) \in 0..1 /\ (f = FALSE => Bit(f) = 0) /\ lost \in 0..1
      /\ Bit(b.sample[b.at]) \in 0..1
  BY DEF Bit
<1>6. lost = Bit(b.sample[b.at])
  <2>1. CASE b.count = W BY <2>1 DEF Bit
  <2>2. CASE b.count # W
    <3>1. b.sample[b.at] = FALSE BY <1>1, <2>2 DEF Ring
    <3> QED BY <3>1, <2>2 DEF Bit
  <2> QED BY <2>1, <2>2
<1>7. /\ Cardinality(On(b.sample)) \in Nat
      /\ b.sample[b.at] => Cardinality(On(b.sample)) > 0
      /\ Cardinality(On(s)) = (Cardinality(On(b.sample)) + Bit(f)) - Bit(b.sample[b.at])
  BY <1>1, WriteSlot
<1>8. b.fails = Cardinality(On(b.sample)) BY DEF Ring
<1>9. Bit(b.sample[b.at]) = 1 => b.sample[b.at] BY DEF Bit
<1> HIDE DEF lost, s
<1>10. o.fails = Cardinality(On(o.sample)) /\ o.fails \in Nat
  BY <1>1, <1>2, <1>5, <1>6, <1>7, <1>8, <1>9
<1>11. o.sample \in [Slots -> BOOLEAN] BY <1>1, <1>2 DEF s
<1>12. o.count \in 0..W /\ o.count \in {b.count, b.count + 1} /\ b.count <= o.count
  BY <1>1, <1>2
<1>13. o \in Breakers
  <2>1. o.fatal \in Nat /\ o.seen \in Nat /\ o.failed \in Nat /\ o.tripped \in BOOLEAN
    BY <1>2 DEF Breakers
  <2> QED BY <1>3, <1>4, <1>10, <1>11, <1>12 DEF Breakers
<1>14. Ring(o)
  <2>1. ASSUME o.count < W
        PROVE  o.at = o.count /\ \A i \in Slots : i >= o.count => o.sample[i] = FALSE
    <3>1. b.count < W /\ o.count = b.count + 1 /\ b.at = b.count BY <1>1, <1>2, <2>1 DEF Ring
    <3>2. o.at = o.count BY <3>1, <2>1, <1>1, <1>4
    <3>3. ASSUME NEW i \in Slots, i >= o.count PROVE o.sample[i] = FALSE
      <4>1. i # b.at /\ i >= b.count BY <3>1, <3>3, <1>1 DEF Slots
      <4>2. b.sample[i] = FALSE BY <4>1, <3>1 DEF Ring
      <4> QED BY <4>1, <4>2, <1>1, <1>2 DEF s
    <3> QED BY <3>2, <3>3
  <2> QED BY <2>1, <1>10 DEF Ring
<1>15. f = FALSE => o.fails <= b.fails BY <1>1, <1>2, <1>5
<1> QED BY <1>2, <1>12, <1>13, <1>14, <1>15 DEF o

LEMMA CountedRing ==
    ASSUME NEW b \in Breakers, Ring(b), NEW f \in BOOLEAN
    PROVE  /\ Counted(b, f) \in Breakers /\ Ring(Counted(b, f))
           /\ f = FALSE =>
                 /\ Counted(b, f).failed = b.failed
                 /\ Counted(b, f).fails <= b.fails
                 /\ Counted(b, f).count \in {b.count, b.count + 1}
<1> DEFINE c == [b EXCEPT !.seen = @ + 1, !.failed = @ + Bit(f)]
<1>1. Bit(f) \in Nat /\ (f = FALSE => Bit(f) = 0) BY DEF Bit
<1>2. c \in Breakers
  <2> DEFINE n == b.seen + 1
             k == b.failed + Bit(f)
  <2>1. n \in Nat /\ k \in Nat BY <1>1 DEF Breakers
  <2>2. c = [b EXCEPT !.seen = n, !.failed = k] BY DEF Breakers
  <2> HIDE DEF n, k, c
  <2> QED BY <2>1, <2>2 DEF Breakers
<1>3. /\ c.count = b.count /\ c.fails = b.fails /\ c.sample = b.sample /\ c.at = b.at
      /\ c.failed = b.failed + Bit(f) /\ b.failed \in Nat
  BY DEF Breakers
<1>4. Counted(b, f) = Observe(c, f) BY DEF Counted
<1> HIDE DEF c
<1>5. Ring(c) BY <1>3 DEF Ring
<1>6. f = FALSE => c.failed = b.failed BY <1>1, <1>3
<1> QED BY <1>2, <1>3, <1>4, <1>5, <1>6, ObserveRing

LEMMA Monotone ==
    ASSUME NEW rate \in Nat, NEW fails \in Nat, NEW count \in Nat,
           NEW fewer \in Nat, NEW more \in {count, count + 1},
           fewer <= fails, ~(fails * 100 > rate * count)
    PROVE  ~(fewer * 100 > rate * more)
<1>1. rate * (count + 1) = rate * count + rate OBVIOUS
<1>2. rate * count \in Nat OBVIOUS
<1> DEFINE p == rate * count
<1>3. rate * more = p \/ rate * more = p + rate BY <1>1
<1>4. p \in Nat /\ ~(fails * 100 > p) BY <1>2
<1> HIDE DEF p
<1> QED BY <1>3, <1>4

\* Only a rendering that fails trips the breaker, and what stays untripped is under the limit.
LEMMA RenderGood ==
    ASSUME NEW b, Good(b), NEW f \in BOOLEAN
    PROVE  /\ Good(AfterRender(b, f))
           /\ AfterRender(b, f).tripped => b.tripped \/ RenderTrips(b, f)
           /\ ~RenderTrips(b, FALSE)
           /\ RenderTrips(b, f) \in BOOLEAN
<1> DEFINE c == Counted(b, f)
           trips == OverLimit(c)
<1>1. b \in Breakers /\ Ring(b) /\ Quiet(b) BY DEF Good
<1>2. c \in Breakers /\ Ring(c) BY <1>1, CountedRing
<1>3. RenderTrips(b, f) <=> Listens(b) /\ trips BY DEF RenderTrips
<1>4. Good(AfterRender(b, f)) /\ (AfterRender(b, f).tripped => b.tripped \/ RenderTrips(b, f))
  <2>1. CASE ~Listens(b)
    <3>1. AfterRender(b, f) = b BY <2>1 DEF AfterRender
    <3> QED BY <3>1
  <2>2. CASE Listens(b)
    <3> DEFINE t == RenderTrips(b, f)
               a == [c EXCEPT !.tripped = t]
    <3>1. AfterRender(b, f) = a BY <2>2 DEF AfterRender
    <3>2. t \in BOOLEAN /\ (t <=> OverLimit(c)) BY <2>2 DEF RenderTrips
    <3> HIDE DEF t, c
    <3>3. a \in Breakers BY <1>2, <3>2 DEF Breakers
    <3>4. /\ a.tripped = t /\ a.count = c.count /\ a.fails = c.fails /\ a.sample = c.sample
          /\ a.at = c.at /\ a.failed = c.failed
      BY <1>2 DEF Breakers
    <3> HIDE DEF a
    <3>5. Ring(a) BY <1>2, <3>4 DEF Ring
    <3>6. Quiet(a) BY <3>2, <3>4 DEF Quiet, OverLimit
    <3> QED BY <3>1, <3>3, <3>4, <3>5, <3>6 DEF Good, t
  <2> QED BY <2>1, <2>2
<1>5. ~RenderTrips(b, FALSE)
  <2> DEFINE d == Counted(b, FALSE)
  <2> SUFFICES ASSUME ~b.tripped, OverLimit(d) PROVE FALSE BY DEF RenderTrips, Listens
  <2>1. ~OverLimit(b) BY <1>1 DEF Quiet
  <2>2. d \in Breakers /\ d.failed = b.failed /\ d.fails <= b.fails
        /\ d.count \in {b.count, b.count + 1}
    BY <1>1, CountedRing
  <2> HIDE DEF d
  <2>3. /\ b.fails \in Nat /\ b.count \in Nat /\ d.fails \in Nat /\ RenderFailureRate \in Nat
    BY <1>1, <2>2, BreakerAssumption DEF Breakers
  <2>4. ~(b.fails * 100 > RenderFailureRate * b.count) BY <2>1, <2>2 DEF OverLimit
  <2>5. ~(d.fails * 100 > RenderFailureRate * d.count) BY <2>2, <2>3, <2>4, Monotone
  <2> QED BY <2>5 DEF OverLimit
<1>6. RenderTrips(b, f) \in BOOLEAN BY DEF RenderTrips, Listens, OverLimit
<1> QED BY <1>4, <1>5, <1>6

\* The consecutive fatal answers do not touch the ring.
LEMMA FatalGood ==
    ASSUME NEW b, Good(b)
    PROVE  /\ Good(AfterFatal(b)) /\ Good(AfterSuccess(b))
           /\ AfterFatal(b).tripped = b.tripped /\ AfterSuccess(b).tripped = b.tripped
<1> DEFINE x == AfterFatal(b)
           y == AfterSuccess(b)
<1>1. b \in Breakers BY DEF Good
<1>2. x \in Breakers /\ y \in Breakers BY <1>1 DEF AfterFatal, AfterSuccess, Breakers
<1>3. /\ x.tripped = b.tripped /\ x.count = b.count /\ x.fails = b.fails
      /\ x.sample = b.sample /\ x.at = b.at /\ x.failed = b.failed
      /\ y.tripped = b.tripped /\ y.count = b.count /\ y.fails = b.fails
      /\ y.sample = b.sample /\ y.at = b.at /\ y.failed = b.failed
  BY <1>1 DEF AfterFatal, AfterSuccess, Breakers
<1> HIDE DEF x, y
<1>4. Ring(x) /\ Ring(y) BY <1>3 DEF Good, Ring
<1>5. Quiet(x) /\ Quiet(y) BY <1>3 DEF Good, Quiet, OverLimit
<1> QED BY <1>2, <1>3, <1>4, <1>5 DEF Good, x, y

\* The ring does not touch the consecutive fatal answers.
LEMMA RenderFatal ==
    ASSUME IInv, NEW f \in BOOLEAN PROVE AfterRender(breaker, f).fatal = breaker.fatal
BY DEF AfterRender, Counted, Observe, IInv, Typed, Breakers

-----------------------------------------------------------------------------
\* Steps

LEMMA InitHolds == Init => IInv
<1> SUFFICES ASSUME Init PROVE IInv OBVIOUS
<1> USE DEF Init
<1>1. Good(Fresh) BY FreshGood
<1>2. Fresh.tripped = FALSE BY DEF Fresh
<1>3. Typed BY <1>1 DEF Typed, Good, Doing, Bounds
<1> QED BY <1>1, <1>2, <1>3 DEF IInv, Good, TripIsActedOn

LEMMA Kinds ==
    ASSUME Typed, NEW w \in Worker
    PROVE  /\ At(w, "idle") => worker[w] = Idle
           /\ worker[w].stage \in {"fetched", "resolved", "rendered"} => worker[w] \in Working
           /\ At(w, "counting") => worker[w] \in Counting
           /\ Stopping(w) => worker[w] \in Halting
<1>1. worker[w] \in Doing BY DEF Typed
<1>2. CASE worker[w] = Idle BY <1>2 DEF Idle, At, Stopping
<1>3. CASE worker[w] \in Working BY <1>3 DEF Working, At, Stopping
<1>4. CASE worker[w] \in Counting BY <1>4 DEF Counting, At, Stopping
<1>5. CASE worker[w] \in Halting BY <1>5 DEF Halting, At, Stopping
<1> QED BY <1>1, <1>2, <1>3, <1>4, <1>5 DEF Doing

\* A step that changes one worker to `x`, and what it has to show.
LEMMA WorkStep ==
    ASSUME IInv, NEW w \in Worker, NEW x \in Doing,
           worker' = [worker EXCEPT ![w] = x],
           Good(breaker'),
           status' \in {"sending", "paused"},
           place' \in [Message -> {"pending", "batch", "channel", "held", "done"}],
           credFails' \in Nat, streak' \in Nat,
           used' \in Bounds, used'.faults >= used.faults,
           breaker'.tripped =>
              \/ used'.faults > 0
              \/ x.stage \in {"pausing", "forgetting"}
              \/ breaker.tripped /\ ~Stopping(w)
    PROVE  IInv'
<1>1. Typed' BY DEF IInv, Typed, Good
<1>2. Ring(breaker') /\ Quiet(breaker') BY DEF Good
<1>3. \A v \in Worker : worker'[v] = IF v = w THEN x ELSE worker[v] BY DEF IInv, Typed
<1>4. TripIsActedOn'
  <2> SUFFICES ASSUME breaker'.tripped, ~(used'.faults > 0)
               PROVE  \E v \in Worker : worker'[v].stage \in {"pausing", "forgetting"}
    BY DEF TripIsActedOn, Stopping
  <2>1. CASE x.stage \in {"pausing", "forgetting"} BY <1>3, <2>1
  <2>2. CASE breaker.tripped /\ ~Stopping(w)
    <3>1. used.faults \in Nat /\ used'.faults \in Nat BY DEF IInv, Typed, Bounds
    <3>2. ~(used.faults > 0) BY <3>1
    <3>3. PICK v \in Worker : Stopping(v) BY <2>2, <3>2 DEF IInv, TripIsActedOn
    <3> QED BY <1>3, <2>2, <3>3 DEF Stopping
  <2> QED BY <2>1, <2>2
<1> QED BY <1>1, <1>2, <1>4 DEF IInv

LEMMA Now == ASSUME IInv PROVE Good(breaker) /\ used \in Bounds /\ used.faults >= used.faults
BY DEF IInv, Typed, Good, Bounds

\* The worker `w` goes on to pause the campaign, ends, or changes stage.
LEMMA Halts ==
    ASSUME Typed, NEW w \in Worker,
           worker[w].stage \in {"fetched", "resolved", "rendered", "counting"},
           NEW after \in Then
    PROVE  [stage |-> "pausing", of |-> worker[w].of, after |-> after, since |-> used.resumes] \in Doing
<1>1. worker[w] \in Working \/ worker[w] \in Counting BY Kinds DEF At
<1>2. worker[w].of \in Message BY <1>1 DEF Working, Counting
<1>3. used.resumes \in Nat BY DEF Typed, Bounds
<1> QED BY <1>2, <1>3 DEF Doing, Halting

LEMMA ClaimStep ==
    ASSUME IInv, (\E batch \in SUBSET Message : Claim(batch)) \/ \E m \in Message : Feed(m)
    PROVE  IInv'
<1> USE DEF Claim, Feed
<1>1. Typed' BY DEF IInv, Typed
<1>2. TripIsActedOn' BY DEF IInv, TripIsActedOn, Stopping
<1> QED BY <1>1, <1>2 DEF IInv

LEMMA TakeStep == ASSUME IInv, NEW w \in Worker, NEW m \in Message, Take(w, m) PROVE IInv'
<1> USE DEF Take
<1> DEFINE x == [stage |-> "fetched", of |-> m]
<1>1. x \in Doing BY DEF Doing, Working
<1>2. ~Stopping(w) BY DEF At, Stopping
<1>3. worker' = [worker EXCEPT ![w] = x] OBVIOUS
<1>4. /\ status' \in {"sending", "paused"} /\ credFails' \in Nat /\ streak' \in Nat
      /\ place' \in [Message -> {"pending", "batch", "channel", "held", "done"}]
  BY DEF IInv, Typed
<1> HIDE DEF x
<1>5. UNCHANGED <<breaker, used>> OBVIOUS
<1>6. breaker'.tripped => breaker.tripped /\ ~Stopping(w) BY <1>2, <1>5
<1> QED BY <1>1, <1>3, <1>4, <1>5, <1>6, Now, WorkStep

LEMMA HeaderStep == ASSUME IInv, NEW w \in Worker, HeaderFails(w) PROVE IInv'
<1> USE DEF HeaderFails
<1> DEFINE x == [stage |-> "pausing", of |-> worker[w].of, after |-> "release", since |-> used.resumes]
<1>1. x \in Doing BY Halts DEF At, IInv, Then
<1>2. x.stage \in {"pausing", "forgetting"} OBVIOUS
<1>3. worker' = [worker EXCEPT ![w] = x] BY DEF Pauses
<1>4. /\ status' \in {"sending", "paused"} /\ credFails' \in Nat /\ streak' \in Nat
      /\ place' \in [Message -> {"pending", "batch", "channel", "held", "done"}]
  BY DEF IInv, Typed
<1>5. UNCHANGED <<breaker, used>> OBVIOUS
<1> HIDE DEF x
<1> QED BY <1>1, <1>2, <1>3, <1>4, <1>5, Now, WorkStep

LEMMA BlockedStep == ASSUME IInv, NEW w \in Worker, ProviderBlocked(w) PROVE IInv'
<1> USE DEF ProviderBlocked, Moves
<1> DEFINE x == [stage |-> "pausing", of |-> worker[w].of, after |-> "nothing", since |-> used.resumes]
<1>1. x \in Doing BY Halts DEF At, IInv, Then
<1>2. x.stage \in {"pausing", "forgetting"} OBVIOUS
<1>3. worker' = [worker EXCEPT ![w] = x] BY DEF Pauses
<1>4. /\ status' \in {"sending", "paused"} /\ credFails' \in Nat /\ streak' \in Nat
      /\ place' \in [Message -> {"pending", "batch", "channel", "held", "done"}]
  BY DEF IInv, Typed
<1>5. UNCHANGED <<breaker, used>> OBVIOUS
<1> HIDE DEF x
<1> QED BY <1>1, <1>2, <1>3, <1>4, <1>5, Now, WorkStep

LEMMA LoadCredStep == ASSUME IInv, NEW w \in Worker, LoadCredFails(w) PROVE IInv'
<1> USE DEF LoadCredFails
<1> DEFINE x == [stage |-> "counting", of |-> worker[w].of, count |-> credFails + 1]
<1>1. x \in Doing
  <2>1. worker[w].of \in Message BY Kinds DEF At, IInv, Working
  <2> QED BY <2>1 DEF IInv, Typed, Doing, Counting
<1>2. ~Stopping(w) BY DEF At, Stopping
<1>3. worker' = [worker EXCEPT ![w] = x] OBVIOUS
<1>4. /\ status' \in {"sending", "paused"} /\ credFails' \in Nat /\ streak' \in Nat
      /\ place' \in [Message -> {"pending", "batch", "channel", "held", "done"}]
  BY DEF IInv, Typed
<1>5. UNCHANGED <<breaker, used>> OBVIOUS
<1> HIDE DEF x
<1>6. breaker'.tripped => breaker.tripped /\ ~Stopping(w) BY <1>2, <1>5
<1> QED BY <1>1, <1>3, <1>4, <1>5, <1>6, Now, WorkStep

LEMMA StoreCredStep == ASSUME IInv, NEW w \in Worker, StoreCredFails(w) PROVE IInv'
<1> USE DEF StoreCredFails, Moves
<1> DEFINE x == [stage |-> "pausing", of |-> worker[w].of, after |-> "reset", since |-> used.resumes]
<1>1. x \in Doing /\ Idle \in Doing BY Halts DEF At, IInv, Then, Doing
<1>2. ~Stopping(w) BY DEF At, Stopping
<1>3. worker' = [worker EXCEPT ![w] = x] \/ worker' = [worker EXCEPT ![w] = Idle]
  BY DEF Pauses, PausesIf, Ends
<1>4. /\ status' \in {"sending", "paused"} /\ streak' \in Nat
      /\ place' \in [Message -> {"pending", "batch", "channel", "held", "done"}]
  BY DEF IInv, Typed
<1>5. UNCHANGED <<breaker, used>> OBVIOUS
<1>6. credFails' \in Nat
  <2>1. worker[w] \in Counting BY Kinds DEF IInv
  <2> QED BY <2>1 DEF Counting, CredFailsAfter
<1> HIDE DEF x
<1>7. breaker'.tripped => breaker.tripped /\ ~Stopping(w) BY <1>2, <1>5
<1> QED BY <1>1, <1>3, <1>4, <1>5, <1>6, <1>7, Now, WorkStep

\* The stage of a worker that holds a message.
LEMMA Advances ==
    ASSUME Typed, NEW w \in Worker, worker[w].stage \in {"fetched", "resolved", "rendered"},
           NEW stage \in {"fetched", "resolved", "rendered"}
    PROVE  [worker[w] EXCEPT !.stage = stage] \in Doing
<1>1. worker[w] \in Working BY Kinds
<1> QED BY <1>1 DEF Working, Doing

LEMMA ResolveStep == ASSUME IInv, NEW w \in Worker, Resolve(w) PROVE IInv'
<1> USE DEF Resolve
<1> DEFINE x == [worker[w] EXCEPT !.stage = "resolved"]
<1>1. x \in Doing BY Advances DEF At, IInv
<1>2. ~Stopping(w) BY DEF At, Stopping
<1>3. worker' = [worker EXCEPT ![w] = x] BY DEF Does
<1>4. /\ status' \in {"sending", "paused"} /\ credFails' \in Nat /\ streak' \in Nat
      /\ place' \in [Message -> {"pending", "batch", "channel", "held", "done"}]
  BY DEF IInv, Typed
<1>5. UNCHANGED <<breaker, used>> OBVIOUS
<1> HIDE DEF x
<1>6. breaker'.tripped => breaker.tripped /\ ~Stopping(w) BY <1>2, <1>5
<1> QED BY <1>1, <1>3, <1>4, <1>5, <1>6, Now, WorkStep

LEMMA RenderFailsStep == ASSUME IInv, NEW w \in Worker, RenderFails(w) PROVE IInv'
<1> USE DEF RenderFails, Moves
<1> DEFINE x == [stage |-> "pausing", of |-> worker[w].of, after |-> "nothing", since |-> used.resumes]
           trips == RenderTrips(breaker, TRUE)
           b == AfterRender(breaker, TRUE)
<1>1. x \in Doing /\ Idle \in Doing BY Halts DEF At, IInv, Then, Doing
<1>2. ~Stopping(w) BY DEF At, Stopping
<1>3. worker' = [worker EXCEPT ![w] = IF trips THEN x ELSE Idle] /\ breaker' = b
  BY DEF Pauses, PausesIf, Ends
<1>4. /\ status' \in {"sending", "paused"} /\ credFails' \in Nat /\ streak' \in Nat
      /\ place' \in [Message -> {"pending", "batch", "channel", "held", "done"}]
  BY DEF IInv, Typed
<1>5. used' = used OBVIOUS
<1>6. Good(b) /\ (b.tripped => breaker.tripped \/ trips) BY Now, RenderGood
<1>7. x.stage = "pausing" OBVIOUS
<1> HIDE DEF x, trips, b
<1>8. CASE trips BY <1>1, <1>3, <1>4, <1>5, <1>6, <1>7, <1>8, Now, WorkStep
<1>9. CASE ~trips BY <1>1, <1>2, <1>3, <1>4, <1>5, <1>6, <1>9, Now, WorkStep
<1> QED BY <1>8, <1>9

LEMMA RenderStep == ASSUME IInv, NEW w \in Worker, Render(w) PROVE IInv'
<1> USE DEF Render
<1> DEFINE x == [worker[w] EXCEPT !.stage = "rendered"]
           b == AfterRender(breaker, FALSE)
<1>1. x \in Doing BY Advances DEF At, IInv
<1>2. ~Stopping(w) BY DEF At, Stopping
<1>3. worker' = [worker EXCEPT ![w] = x] /\ breaker' = b BY DEF Does
<1>4. /\ status' \in {"sending", "paused"} /\ credFails' \in Nat /\ streak' \in Nat
      /\ place' \in [Message -> {"pending", "batch", "channel", "held", "done"}]
  BY DEF IInv, Typed
<1>5. used' = used OBVIOUS
<1>6. Good(b) /\ (b.tripped => breaker.tripped) BY Now, RenderGood
<1> HIDE DEF x, b
<1> QED BY <1>1, <1>2, <1>3, <1>4, <1>5, <1>6, Now, WorkStep

LEMMA SentStep == ASSUME IInv, NEW w \in Worker, Sent(w) PROVE IInv'
<1> USE DEF Sent, Moves
<1> DEFINE b == AfterSuccess(breaker)
<1>1. Idle \in Doing BY DEF Doing
<1>2. ~Stopping(w) BY DEF At, Stopping
<1>3. worker' = [worker EXCEPT ![w] = Idle] /\ breaker' = b BY DEF Ends
<1>4. /\ status' \in {"sending", "paused"} /\ credFails' \in Nat /\ streak' \in Nat
      /\ place' \in [Message -> {"pending", "batch", "channel", "held", "done"}]
  BY DEF IInv, Typed
<1>5. used' = used OBVIOUS
<1>6. Good(b) /\ b.tripped = breaker.tripped BY Now, FatalGood
<1> HIDE DEF b
<1> QED BY <1>1, <1>2, <1>3, <1>4, <1>5, <1>6, Now, WorkStep

LEMMA FatalStep == ASSUME IInv, NEW w \in Worker, Fatal(w) PROVE IInv'
<1> USE DEF Fatal, Moves
<1> DEFINE x == [stage |-> "pausing", of |-> worker[w].of, after |-> "nothing", since |-> used.resumes]
           b == AfterFatal(breaker)
<1>1. x \in Doing /\ Idle \in Doing BY Halts DEF At, IInv, Then, Doing
<1>2. ~Stopping(w) BY DEF At, Stopping
<1>3. /\ worker' = [worker EXCEPT ![w] = x] \/ worker' = [worker EXCEPT ![w] = Idle]
      /\ breaker' = b
  BY DEF Pauses, PausesIf, Ends
<1>4. /\ status' \in {"sending", "paused"} /\ credFails' \in Nat /\ streak' \in Nat
      /\ place' \in [Message -> {"pending", "batch", "channel", "held", "done"}]
  <2>1. status \in {"sending", "paused"} /\ credFails \in Nat /\ streak \in Nat
    BY DEF IInv, Typed
  <2>2. place' \in [Message -> {"pending", "batch", "channel", "held", "done"}] BY DEF IInv, Typed
  <2>3. UNCHANGED <<status, credFails>> /\ streak' = streak + 1 OBVIOUS
  <2> HIDE DEF Fatal, Moves, x, b
  <2> QED BY <2>1, <2>2, <2>3
<1>5. used' = used OBVIOUS
<1>6. Good(b) /\ b.tripped = breaker.tripped BY Now, FatalGood
<1> HIDE DEF x, b
<1> QED BY <1>1, <1>2, <1>3, <1>4, <1>5, <1>6, Now, WorkStep

LEMMA EndStep ==
    ASSUME IInv, NEW w \in Worker, Retry(w) \/ Refused(w) \/ HeaderUnreadable(w)
    PROVE  IInv'
<1> USE DEF Retry, Refused, HeaderUnreadable, Moves
<1>1. Idle \in Doing BY DEF Doing
<1>2. ~Stopping(w) BY DEF At, Stopping
<1>3. worker' = [worker EXCEPT ![w] = Idle] BY DEF Ends
<1>4. /\ status' \in {"sending", "paused"} /\ credFails' \in Nat /\ streak' \in Nat
      /\ place' \in [Message -> {"pending", "batch", "channel", "held", "done"}]
  BY DEF IInv, Typed
<1>5. UNCHANGED <<breaker, used>> OBVIOUS
<1>6. breaker'.tripped => breaker.tripped /\ ~Stopping(w) BY <1>2, <1>5
<1> QED BY <1>1, <1>3, <1>4, <1>5, <1>6, Now, WorkStep

LEMMA PauseStep == ASSUME IInv, NEW w \in Worker, Pause(w) PROVE IInv'
<1> USE DEF Pause
<1> DEFINE x == [worker[w] EXCEPT !.stage = "forgetting"]
<1>1. x \in Doing /\ x.stage = "forgetting"
  <2>1. worker[w] \in Halting BY Kinds DEF At, Stopping, IInv
  <2> QED BY <2>1 DEF Halting, Doing
<1>2. worker' = [worker EXCEPT ![w] = x] BY DEF Does
<1>3. /\ status' \in {"sending", "paused"} /\ credFails' \in Nat /\ streak' \in Nat
      /\ place' \in [Message -> {"pending", "batch", "channel", "held", "done"}]
  BY DEF IInv, Typed
<1>4. UNCHANGED <<breaker, used>> OBVIOUS
<1> HIDE DEF x
<1> QED BY <1>1, <1>2, <1>3, <1>4, Now, WorkStep

LEMMA AfterwardsTypes ==
    ASSUME IInv, NEW w \in Worker, Afterwards(w)
    PROVE  /\ worker' = [worker EXCEPT ![w] = Idle] /\ Idle \in Doing
           /\ place' \in [Message -> {"pending", "batch", "channel", "held", "done"}]
           /\ credFails' \in Nat
BY DEF Afterwards, Ends, Moves, IInv, Typed, Doing

LEMMA ForgetStep == ASSUME IInv, NEW w \in Worker, Forget(w) PROVE IInv'
<1> USE DEF Forget
<1>1. Good(Fresh) /\ Fresh.tripped = FALSE BY FreshGood DEF Fresh
<1>2. status' \in {"sending", "paused"} /\ streak' \in Nat
  BY DEF IInv, Typed
<1>3. breaker' = Fresh /\ used' = used OBVIOUS
<1> QED BY <1>1, <1>2, <1>3, AfterwardsTypes, Now, WorkStep

LEMMA PauseFailsStep == ASSUME IInv, NEW w \in Worker, PauseFails(w) PROVE IInv'
<1> USE DEF PauseFails
<1>1. used' \in Bounds /\ used'.faults >= used.faults /\ used'.faults > 0
  <2>1. used \in Bounds BY DEF IInv, Typed
  <2> QED BY <2>1 DEF Bounds
<1>2. status' \in {"sending", "paused"} /\ streak' \in Nat
  BY DEF IInv, Typed
<1>3. breaker' = breaker OBVIOUS
<1> QED BY <1>1, <1>2, <1>3, AfterwardsTypes, Now, WorkStep

LEMMA ResumeStep == IInv /\ Resume => IInv'
<1> SUFFICES ASSUME IInv, Resume PROVE IInv' OBVIOUS
<1> USE DEF Resume
<1>1. used' \in Bounds /\ used'.faults = used.faults BY DEF IInv, Typed, Bounds
<1>2. Typed' BY <1>1 DEF IInv, Typed
<1>3. TripIsActedOn' BY <1>1 DEF IInv, TripIsActedOn, Stopping
<1> QED BY <1>2, <1>3 DEF IInv

LEMMA NextStep == IInv /\ [Next]_vars => IInv'
<1> SUFFICES ASSUME IInv, [Next]_vars PROVE IInv' OBVIOUS
<1>1. CASE (\E batch \in SUBSET Message : Claim(batch)) \/ \E m \in Message : Feed(m)
  BY <1>1, ClaimStep
<1>2. ASSUME NEW w \in Worker, NEW m \in Message, Take(w, m) PROVE IInv' BY <1>2, TakeStep
<1>3. ASSUME NEW w \in Worker, Process(w) PROVE IInv'
  <2>1. CASE HeaderFails(w) BY <2>1, HeaderStep
  <2>2. CASE ProviderBlocked(w) BY <2>2, BlockedStep
  <2>3. CASE LoadCredFails(w) BY <2>3, LoadCredStep
  <2>4. CASE StoreCredFails(w) BY <2>4, StoreCredStep
  <2>5. CASE Resolve(w) BY <2>5, ResolveStep
  <2>6. CASE RenderFails(w) BY <2>6, RenderFailsStep
  <2>7. CASE Render(w) BY <2>7, RenderStep
  <2>8. CASE Sent(w) BY <2>8, SentStep
  <2>9. CASE Fatal(w) BY <2>9, FatalStep
  <2>10. CASE Retry(w) \/ Refused(w) \/ HeaderUnreadable(w) BY <2>10, EndStep
  <2>11. CASE Pause(w) BY <2>11, PauseStep
  <2>12. CASE Forget(w) BY <2>12, ForgetStep
  <2> QED BY <1>3, <2>1, <2>2, <2>3, <2>4, <2>5, <2>6, <2>7, <2>8, <2>9, <2>10, <2>11, <2>12
          DEF Process
<1>4. ASSUME NEW w \in Worker, PauseFails(w) PROVE IInv' BY <1>4, PauseFailsStep
<1>5. CASE Resume BY <1>5, ResumeStep
<1>6. CASE UNCHANGED vars
  BY <1>6 DEF vars, IInv, Typed, TripIsActedOn, Stopping
<1> QED BY <1>1, <1>2, <1>3, <1>4, <1>5, <1>6 DEF Next

THEOREM Invariant == Spec => []IInv
BY InitHolds, NextStep, PTL DEF Spec

-----------------------------------------------------------------------------
\* Every variable keeps its type; the number of failures in the ring is never negative
\* (breaker.go).
THEOREM TypeCorrect == Spec => []TypeOK
<1>1. IInv => TypeOK BY TypeParts DEF IInv
<1> QED BY <1>1, Invariant, PTL

\* The sample counts the failures among the results it holds, for a window of any length
\* (breaker.go, observe).
THEOREM Exact == Spec => []SampleIsExact
<1>1. IInv => SampleIsExact BY DEF IInv, Ring, On, Slots, SampleIsExact
<1> QED BY <1>1, Invariant, PTL

\* A breaker that has tripped has a worker on its way to pause the campaign, although
\* process drops what the breaker says of a rendering that succeeded (runtime.go).
THEOREM TripsArePaused == Spec => []TripIsActedOn
<1>1. IInv => TripIsActedOn BY DEF IInv
<1> QED BY <1>1, Invariant, PTL

-----------------------------------------------------------------------------
(***************************************************************************)
(* The cost of wrong credentials.  While the campaign is sending, the      *)
(* breaker counts every fatal answer, and beyond the threshold each is     *)
(* paid for by a worker on its way to pause or by a pause that failed.     *)
(* Once it is paused nothing is claimed, and what may still fail is what   *)
(* workers and channel hold.                                               *)
(***************************************************************************)
ActiveStages == {"fetched", "counting", "resolved", "rendered"}
Claimed == In("batch") \union In("channel")
Acting == {w \in Worker : worker[w].stage \in ActiveStages}
Pausing == {w \in Worker : worker[w].stage = "pausing"}
Limit == FatalThreshold + Cardinality(Worker) + Capacity + BatchSize

Costed ==
    /\ Cardinality(In("batch")) <= BatchSize /\ Cardinality(In("channel")) <= Capacity
    /\ (used.resumes = 0 /\ status = "sending") =>
          /\ \A w \in Worker : worker[w].stage # "forgetting"
          /\ breaker.fatal = streak
          /\ streak < FatalThreshold + Cardinality(Pausing) + used.faults
    /\ (used.resumes = 0 /\ status = "paused") =>
          streak + Cardinality(Claimed) + Cardinality(Acting) < Limit + used.faults

\* Two sets that differ in one element at most.
LEMMA Swap ==
    ASSUME NEW S, NEW T, NEW e, IsFiniteSet(S), T \ {e} = S \ {e}
    PROVE  /\ IsFiniteSet(T) /\ Cardinality(S) \in Nat /\ Cardinality(T) \in Nat
           /\ Cardinality(T) + Bit(e \in S) = Cardinality(S) + Bit(e \in T)
<1> DEFINE R == S \ {e}
<1>1. IsFiniteSet(R) /\ Cardinality(R) \in Nat
  BY FS_RemoveElement, FS_CardinalityType
<1>2. Cardinality(R \union {e}) = Cardinality(R) + 1 /\ IsFiniteSet(R \union {e})
  BY <1>1, FS_AddElement
<1>3. S = (IF e \in S THEN R \union {e} ELSE R) /\ T = (IF e \in T THEN R \union {e} ELSE R)
  OBVIOUS
<1> HIDE DEF R
<1>4. Cardinality(S) = Cardinality(R) + Bit(e \in S)
  <2>1. CASE e \in S BY <2>1, <1>2, <1>3 DEF Bit
  <2>2. CASE e \notin S BY <2>2, <1>1, <1>3 DEF Bit
  <2> QED BY <2>1, <2>2
<1>5. Cardinality(T) = Cardinality(R) + Bit(e \in T)
  <2>1. CASE e \in T BY <2>1, <1>2, <1>3 DEF Bit
  <2>2. CASE e \notin T BY <2>2, <1>1, <1>3 DEF Bit
  <2> QED BY <2>1, <2>2
<1>6. Bit(e \in S) \in Nat /\ Bit(e \in T) \in Nat BY DEF Bit
<1>7. IsFiniteSet(T) BY <1>1, <1>2, <1>3
<1> QED BY <1>1, <1>4, <1>5, <1>6, <1>7

Acts(x) == Bit(x.stage \in ActiveStages)
ToPause(x) == Bit(x.stage = "pausing")

LEMMA WorkerSets ==
    /\ IsFiniteSet(Worker) /\ Cardinality(Worker) \in Nat
    /\ IsFiniteSet(Acting) /\ Cardinality(Acting) \in Nat
    /\ IsFiniteSet(Pausing) /\ Cardinality(Pausing) \in Nat
    /\ Cardinality(Acting) + Cardinality(Pausing) <= Cardinality(Worker)
<1>1. IsFiniteSet(Worker) BY BreakerAssumption
<1>2. Acting \subseteq Worker /\ Pausing \subseteq Worker BY DEF Acting, Pausing
<1>3. IsFiniteSet(Acting) /\ IsFiniteSet(Pausing) BY <1>1, <1>2, FS_Subset
<1>4. Acting \intersect Pausing = {} BY DEF Acting, Pausing, ActiveStages
<1>5. /\ IsFiniteSet(Acting \union Pausing)
      /\ Cardinality(Acting \union Pausing)
            = Cardinality(Acting) + Cardinality(Pausing) - Cardinality(Acting \intersect Pausing)
  BY <1>3, FS_Union
<1>6. Cardinality(Acting \intersect Pausing) = 0 BY <1>4, FS_EmptySet
<1>7. Acting \union Pausing \subseteq Worker BY <1>2
<1>8. Cardinality(Acting \union Pausing) <= Cardinality(Worker) BY <1>1, <1>7, FS_Subset
<1>9. /\ Cardinality(Worker) \in Nat /\ Cardinality(Acting) \in Nat
      /\ Cardinality(Pausing) \in Nat
  BY <1>1, <1>3, FS_CardinalityType
<1> QED BY <1>1, <1>3, <1>5, <1>6, <1>8, <1>9

\* What changes with one worker.
LEMMA WorkerCounts ==
    ASSUME Typed, NEW w \in Worker, NEW x, worker' = [worker EXCEPT ![w] = x]
    PROVE  /\ Cardinality(Acting)' + Acts(worker[w]) = Cardinality(Acting) + Acts(x)
           /\ Cardinality(Pausing)' + ToPause(worker[w]) = Cardinality(Pausing) + ToPause(x)
           /\ Cardinality(Acting)' \in Nat /\ Cardinality(Pausing)' \in Nat
<1>1. \A v \in Worker : worker'[v] = IF v = w THEN x ELSE worker[v] BY DEF Typed
<1>2. Acting' \ {w} = Acting \ {w} /\ Pausing' \ {w} = Pausing \ {w}
  BY <1>1 DEF Acting, Pausing
<1>3. /\ w \in Acting <=> worker[w].stage \in ActiveStages
      /\ w \in Acting' <=> x.stage \in ActiveStages
      /\ w \in Pausing <=> worker[w].stage = "pausing"
      /\ w \in Pausing' <=> x.stage = "pausing"
  BY <1>1 DEF Acting, Pausing
<1>4. /\ Bit(w \in Acting) = Acts(worker[w]) /\ Bit(w \in Acting') = Acts(x)
      /\ Bit(w \in Pausing) = ToPause(worker[w]) /\ Bit(w \in Pausing') = ToPause(x)
  BY <1>3 DEF Acts, ToPause, Bit
<1>5. /\ Cardinality(Acting') \in Nat
      /\ Cardinality(Acting') + Bit(w \in Acting) = Cardinality(Acting) + Bit(w \in Acting')
  BY <1>2, WorkerSets, Swap
<1>6. /\ Cardinality(Pausing') \in Nat
      /\ Cardinality(Pausing') + Bit(w \in Pausing) = Cardinality(Pausing) + Bit(w \in Pausing')
  BY <1>2, WorkerSets, Swap
<1> QED BY <1>4, <1>5, <1>6

\* Sets of messages are finite.
LEMMA Counts ==
    ASSUME NEW S \in SUBSET Message, NEW T \in SUBSET S
    PROVE  /\ IsFiniteSet(S) /\ Cardinality(S) \in Nat /\ Cardinality(T) \in Nat
           /\ Cardinality(T) <= Cardinality(S)
BY BreakerAssumption, FS_Subset, FS_CardinalityType

\* What is claimed and not taken is in the claimer's hands or in the channel.
LEMMA ClaimedSize ==
    ASSUME Costed
    PROVE  Cardinality(Claimed) \in Nat /\ Cardinality(Claimed) <= Capacity + BatchSize
<1> DEFINE B == In("batch")
           C == In("channel")
<1>1. B \in SUBSET Message /\ C \in SUBSET Message /\ B \intersect C = {} BY DEF In
<1>2. /\ IsFiniteSet(B) /\ Cardinality(B) \in Nat /\ IsFiniteSet(C) /\ Cardinality(C) \in Nat
  BY <1>1, Counts
<1>3. Cardinality(B \union C) = Cardinality(B) + Cardinality(C) - Cardinality(B \intersect C)
  BY <1>2, FS_Union
<1>4. Cardinality(B \intersect C) = 0 BY <1>1, FS_EmptySet
<1> QED BY <1>2, <1>3, <1>4, BreakerAssumption DEF Costed, Claimed

\* Messages leave it, and only Claim and Feed put them there.
LEMMA ClaimedLeave ==
    ASSUME Typed, Costed, NEW m, NEW to, to \notin {"batch", "channel"},
           place' = place \/ place' = [place EXCEPT ![m] = to]
    PROVE  /\ Cardinality(In("batch")') <= BatchSize /\ Cardinality(In("channel")') <= Capacity
           /\ Cardinality(Claimed) \in Nat /\ Cardinality(Claimed') \in Nat
           /\ Cardinality(Claimed') <= Cardinality(Claimed)
<1>1. In("batch")' \subseteq In("batch") /\ In("channel")' \subseteq In("channel")
  BY DEF In, Typed
<1>2. In("batch") \in SUBSET Message /\ In("channel") \in SUBSET Message BY DEF In
<1>3. Claimed' \subseteq Claimed /\ Claimed \in SUBSET Message BY <1>1, <1>2 DEF Claimed
<1>4. /\ Cardinality(In("batch")') \in Nat /\ Cardinality(In("batch")) \in Nat
      /\ Cardinality(In("batch")') <= Cardinality(In("batch"))
  BY <1>1, <1>2, Counts
<1>5. /\ Cardinality(In("channel")') \in Nat /\ Cardinality(In("channel")) \in Nat
      /\ Cardinality(In("channel")') <= Cardinality(In("channel"))
  BY <1>1, <1>2, Counts
<1>6. Cardinality(Claimed) \in Nat /\ Cardinality(Claimed') \in Nat
      /\ Cardinality(Claimed') <= Cardinality(Claimed)
  BY <1>3, Counts
<1> QED BY <1>4, <1>5, <1>6, BreakerAssumption DEF Costed

\* One worker takes a step before the campaign is paused, or after.
LEMMA StepCosts ==
    ASSUME IInv, Typed', Costed, NEW w \in Worker, NEW x,
           worker' = [worker EXCEPT ![w] = x],
           Cardinality(In("batch")') <= BatchSize, Cardinality(In("channel")') <= Capacity,
           Cardinality(Claimed') \in Nat,
           status' = status, used'.resumes = used.resumes,
           x.stage = "forgetting" => status = "paused",
           status = "sending" /\ breaker.fatal = streak => breaker'.fatal = streak',
           status = "sending" /\ breaker.fatal = streak =>
              \/ streak' < FatalThreshold
              \/ streak' + ToPause(worker[w]) + used.faults <= streak + ToPause(x) + used'.faults,
           status = "paused" =>
              streak' + Cardinality(Claimed)' + Acts(x) + used.faults
                 <= streak + Cardinality(Claimed) + Acts(worker[w]) + used'.faults
    PROVE  Costed'
<1>1. /\ streak \in Nat /\ streak' \in Nat /\ used.faults \in Nat /\ used'.faults \in Nat
      /\ Limit \in Nat /\ FatalThreshold \in Nat
  BY WorkerSets, BreakerAssumption DEF IInv, Typed, Bounds, Limit
<1>2. Acts(x) \in Nat /\ Acts(worker[w]) \in Nat /\ ToPause(x) \in Nat /\ ToPause(worker[w]) \in Nat
  BY DEF Acts, ToPause, Bit
<1>3. /\ Cardinality(Acting)' + Acts(worker[w]) = Cardinality(Acting) + Acts(x)
      /\ Cardinality(Pausing)' + ToPause(worker[w]) = Cardinality(Pausing) + ToPause(x)
      /\ Cardinality(Acting)' \in Nat /\ Cardinality(Pausing)' \in Nat
  BY WorkerCounts DEF IInv
<1>4. Cardinality(Acting) \in Nat /\ Cardinality(Pausing) \in Nat BY WorkerSets
<1>5. Cardinality(Claimed) \in Nat BY ClaimedSize
<1>6. ASSUME used'.resumes = 0, status' = "sending"
      PROVE  /\ \A v \in Worker : worker'[v].stage # "forgetting"
             /\ breaker'.fatal = streak'
             /\ streak' < FatalThreshold + Cardinality(Pausing)' + used'.faults
  <2>1. /\ \A v \in Worker : worker[v].stage # "forgetting"
        /\ breaker.fatal = streak
        /\ streak < FatalThreshold + Cardinality(Pausing) + used.faults
    BY <1>6 DEF Costed
  <2>2. \A v \in Worker : worker'[v] = IF v = w THEN x ELSE worker[v] BY DEF IInv, Typed
  <2>3. \A v \in Worker : worker'[v].stage # "forgetting" BY <1>6, <2>1, <2>2
  <2>4. streak' < FatalThreshold + Cardinality(Pausing)' + used'.faults
    <3>1. CASE streak' < FatalThreshold BY <3>1, <1>1, <1>3
    <3>2. CASE streak' + ToPause(worker[w]) + used.faults <= streak + ToPause(x) + used'.faults
      BY <3>2, <2>1, <1>1, <1>2, <1>3, <1>4
    <3> QED BY <3>1, <3>2, <1>6, <2>1
  <2> QED BY <1>6, <2>1, <2>3, <2>4
<1>7. ASSUME used'.resumes = 0, status' = "paused"
      PROVE  streak' + Cardinality(Claimed)' + Cardinality(Acting)' < Limit + used'.faults
  <2>1. streak + Cardinality(Claimed) + Cardinality(Acting) < Limit + used.faults
    BY <1>7 DEF Costed
  <2>2. streak' + Cardinality(Claimed)' + Acts(x) + used.faults
                 <= streak + Cardinality(Claimed) + Acts(worker[w]) + used'.faults
    BY <1>7
  <2>3. Cardinality(Claimed)' \in Nat OBVIOUS
  <2> QED BY <2>1, <2>2, <2>3, <1>1, <1>2, <1>3, <1>4, <1>5
<1>8. Limit' = Limit BY DEF Limit
<1> QED BY <1>6, <1>7, <1>8 DEF Costed

\* The campaign is paused: what workers and channel hold is all that may still fail.
LEMMA PauseCosts ==
    ASSUME IInv, Typed', Costed, NEW w \in Worker, Pause(w) PROVE Costed'
<1> DEFINE x == [worker[w] EXCEPT !.stage = "forgetting"]
<1>1. worker[w] \in Halting /\ worker[w].stage = "pausing"
  BY Kinds DEF IInv, Pause, At, Stopping
<1>2. x.stage = "forgetting" BY <1>1 DEF Halting
<1>3. /\ worker' = [worker EXCEPT ![w] = x] /\ place' = place /\ status' = "paused"
      /\ UNCHANGED <<breaker, used, streak>>
  BY DEF Pause, Does
<1>4. Acts(worker[w]) = 0 /\ Acts(x) = 0 BY <1>1, <1>2 DEF Acts, Bit, ActiveStages
<1> HIDE DEF x
<1>5. Cardinality(Acting)' = Cardinality(Acting)
  <2>1. /\ Cardinality(Acting)' + Acts(worker[w]) = Cardinality(Acting) + Acts(x)
        /\ Cardinality(Acting)' \in Nat
    BY <1>3, WorkerCounts DEF IInv
  <2> QED BY <2>1, <1>4, WorkerSets
<1>6. /\ Cardinality(Claimed)' = Cardinality(Claimed) /\ Cardinality(Claimed) \in Nat
      /\ Cardinality(Claimed) <= Capacity + BatchSize
      /\ Cardinality(In("batch")') <= BatchSize /\ Cardinality(In("channel")') <= Capacity
  BY <1>3, ClaimedSize DEF Claimed, In, Costed
<1>7. ASSUME used.resumes = 0
      PROVE  streak + Cardinality(Claimed) + Cardinality(Acting) < Limit + used.faults
  <2>1. /\ streak \in Nat /\ used.faults \in Nat /\ FatalThreshold \in Nat
        /\ Capacity \in Nat /\ BatchSize \in Nat
    BY BreakerAssumption DEF IInv, Typed, Bounds
  <2>2. CASE status = "paused" BY <1>7, <2>2 DEF Costed
  <2>3. CASE status = "sending"
    <3>1. streak < FatalThreshold + Cardinality(Pausing) + used.faults
      BY <1>7, <2>3 DEF Costed
    <3> QED BY <3>1, <2>1, <1>6, WorkerSets DEF Limit
  <2> QED BY <2>2, <2>3 DEF IInv, Typed
<1>8. Limit' = Limit /\ status' # "sending" BY <1>3 DEF Limit
<1> QED BY <1>3, <1>5, <1>6, <1>7, <1>8 DEF Costed

\* A stage before pausing counts as acting, and Idle as neither.
LEMMA Stages ==
    /\ \A x : x.stage \in ActiveStages => Acts(x) = 1 /\ ToPause(x) = 0
    /\ \A x : x.stage = "pausing" => Acts(x) = 0 /\ ToPause(x) = 1
    /\ \A x : x.stage = "forgetting" => Acts(x) = 0 /\ ToPause(x) = 0
    /\ Acts(Idle) = 0 /\ ToPause(Idle) = 0 /\ Idle.stage # "forgetting"
BY DEF Acts, ToPause, Bit, ActiveStages, Idle

LEMMA CostInit == Init => Costed
<1> SUFFICES ASSUME Init PROVE Costed OBVIOUS
<1>1. In("batch") = {} /\ In("channel") = {} BY DEF Init, In
<1>2. Cardinality(In("batch")) = 0 /\ Cardinality(In("channel")) = 0 BY <1>1, FS_EmptySet
<1>3. \A w \in Worker : worker[w].stage # "forgetting" BY DEF Init, Idle
<1>4. breaker.fatal = 0 /\ streak = 0 /\ used.faults = 0 /\ status = "sending"
  BY DEF Init, Fresh
<1> QED BY <1>2, <1>3, <1>4, WorkerSets, BreakerAssumption DEF Costed

LEMMA ClaimCosts ==
    ASSUME IInv, Costed, NEW batch \in SUBSET Message, Claim(batch) PROVE Costed'
<1>1. In("batch")' = batch /\ In("channel")' = In("channel") BY DEF Claim, In, IInv, Typed
<1>2. Cardinality(In("batch")') <= BatchSize /\ Cardinality(In("channel")') <= Capacity
  BY <1>1 DEF Claim, Costed
<1>3. UNCHANGED <<status, worker, breaker, used, streak>> /\ status = "sending" BY DEF Claim
<1> QED BY <1>2, <1>3 DEF Costed, Pausing

LEMMA FeedCosts == ASSUME IInv, Costed, NEW m \in Message, Feed(m) PROVE Costed'
<1>1. /\ In("batch")' \subseteq In("batch") /\ In("channel")' = In("channel") \union {m}
      /\ Claimed' = Claimed
  BY DEF Feed, In, Claimed, IInv, Typed
<1>2. In("batch") \in SUBSET Message /\ In("channel") \in SUBSET Message BY DEF In
<1>3. m \notin In("channel") /\ Cardinality(In("channel")) < Capacity BY DEF Feed, In
<1>4. IsFiniteSet(In("channel")) /\ Cardinality(In("channel")) \in Nat BY <1>2, Counts
<1>5. Cardinality(In("channel")') = Cardinality(In("channel")) + 1
  BY <1>1, <1>3, <1>4, FS_AddElement
<1>6. /\ Cardinality(In("batch")') \in Nat /\ Cardinality(In("batch")) \in Nat
      /\ Cardinality(In("batch")') <= Cardinality(In("batch"))
  BY <1>1, <1>2, Counts
<1>7. Cardinality(In("batch")') <= BatchSize /\ Cardinality(In("channel")') <= Capacity
  BY <1>3, <1>4, <1>5, <1>6, BreakerAssumption DEF Costed
<1>8. UNCHANGED <<status, worker, breaker, used, streak>> BY DEF Feed
<1> QED BY <1>1, <1>7, <1>8 DEF Costed, Pausing, Acting, Limit

LEMMA TakeCosts ==
    ASSUME IInv, Typed', Costed, NEW w \in Worker, NEW m \in Message, Take(w, m) PROVE Costed'
<1> DEFINE x == [stage |-> "fetched", of |-> m]
<1>1. x.stage = "fetched" /\ worker[w] = Idle BY Kinds DEF Take, IInv
<1>2. Acts(x) = 1 /\ ToPause(x) = 0 /\ Acts(worker[w]) = 0 /\ ToPause(worker[w]) = 0
  BY <1>1, Stages DEF ActiveStages
<1>3. /\ worker' = [worker EXCEPT ![w] = x] /\ place' = [place EXCEPT ![m] = "held"]
      /\ UNCHANGED <<status, breaker, used, streak>> /\ place[m] = "channel"
  BY DEF Take
<1> HIDE DEF x
<1>4. Claimed \in SUBSET Message BY DEF Claimed, In
<1>5. m \in Claimed /\ Claimed' = Claimed \ {m} BY <1>3 DEF Claimed, In, IInv, Typed
<1>6. IsFiniteSet(Claimed) /\ Cardinality(Claimed) \in Nat BY <1>4, Counts
<1>7. Cardinality(Claimed') = Cardinality(Claimed) - 1 BY <1>5, <1>6, FS_RemoveElement
<1>8. /\ Cardinality(In("batch")') <= BatchSize /\ Cardinality(In("channel")') <= Capacity
      /\ Cardinality(Claimed') \in Nat
  <2>1. Typed /\ "held" \notin {"batch", "channel"} BY DEF IInv
  <2> QED BY <1>3, <2>1, ClaimedLeave
<1>9. streak \in Nat /\ used.faults \in Nat BY DEF IInv, Typed, Bounds
<1>10. streak' + ToPause(worker[w]) + used.faults <= streak + ToPause(x) + used'.faults
  BY <1>2, <1>3, <1>9
<1>11. streak' + Cardinality(Claimed)' + Acts(x) + used.faults
          <= streak + Cardinality(Claimed) + Acts(worker[w]) + used'.faults
  BY <1>2, <1>3, <1>6, <1>7, <1>8, <1>9
<1>12. x.stage # "forgetting" BY <1>1
<1> QED BY <1>3, <1>8, <1>10, <1>11, <1>12, StepCosts

\* A step of a worker that holds a message: on to pausing, on to another stage, or to
\* the end.
LEMMA ActCosts ==
    ASSUME IInv, Typed', Costed, NEW w \in Worker, NEW x, worker[w].stage \in ActiveStages,
           worker' = [worker EXCEPT ![w] = x],
           x.stage \in ActiveStages \union {"pausing"} \/ x = Idle,
           status' = status, used' = used,
           \/ place' = place
           \/ place' = [place EXCEPT ![worker[w].of] = "pending"]
           \/ place' = [place EXCEPT ![worker[w].of] = "done"],
           \/ streak' = streak /\ breaker'.fatal = breaker.fatal
           \/ streak' = 0 /\ breaker'.fatal = 0
           \/ /\ streak' = streak + 1 /\ breaker'.fatal = breaker.fatal + 1
              /\ x.stage = "pausing" \/ (x = Idle /\ breaker.fatal + 1 < FatalThreshold)
    PROVE  Costed'
<1>1. /\ Cardinality(In("batch")') <= BatchSize /\ Cardinality(In("channel")') <= Capacity
      /\ Cardinality(Claimed) \in Nat /\ Cardinality(Claimed') \in Nat
      /\ Cardinality(Claimed') <= Cardinality(Claimed)
  <2>1. \E to \in {"pending", "done"} :
            place' = place \/ place' = [place EXCEPT ![worker[w].of] = to]
    OBVIOUS
  <2>2. PICK to \in {"pending", "done"} :
            place' = place \/ place' = [place EXCEPT ![worker[w].of] = to]
    BY <2>1
  <2>3. to \notin {"batch", "channel"} OBVIOUS
  <2> QED BY <2>2, <2>3, ClaimedLeave DEF IInv
<1>2. Acts(worker[w]) = 1 /\ ToPause(worker[w]) = 0 BY Stages
<1>3. /\ Acts(x) \in {0, 1} /\ ToPause(x) \in {0, 1}
      /\ x.stage = "pausing" => Acts(x) = 0 /\ ToPause(x) = 1
      /\ x = Idle => Acts(x) = 0
  BY Stages DEF Acts, ToPause, Bit
<1>4. x.stage # "forgetting" BY Stages DEF ActiveStages, Idle
<1>5. /\ streak \in Nat /\ streak' \in Nat /\ used.faults \in Nat /\ breaker.fatal \in Nat
      /\ FatalThreshold \in Nat \ {0}
  BY BreakerAssumption DEF IInv, Typed, Bounds, Breakers
<1>6. breaker.fatal = streak => breaker'.fatal = streak' BY <1>5
<1>7. ASSUME breaker.fatal = streak
      PROVE  \/ streak' < FatalThreshold
             \/ streak' + ToPause(worker[w]) + used.faults <= streak + ToPause(x) + used'.faults
  BY <1>2, <1>3, <1>5, <1>7
<1>8. streak' + Cardinality(Claimed)' + Acts(x) + used.faults
         <= streak + Cardinality(Claimed) + Acts(worker[w]) + used'.faults
  <2>1. (streak' <= streak /\ Acts(x) <= 1) \/ (streak' = streak + 1 /\ Acts(x) = 0)
    BY <1>3, <1>5
  <2> QED BY <2>1, <1>1, <1>2, <1>3, <1>5
<1> QED BY <1>1, <1>4, <1>6, <1>7, <1>8, StepCosts

\* A worker ends after pausing, or after it could not.
LEMMA EndCosts ==
    ASSUME IInv, Typed', Costed, NEW w \in Worker, Forget(w) \/ PauseFails(w) PROVE Costed'
<1>1. Stopping(w) /\ worker[w] \in Halting BY Kinds DEF Forget, PauseFails, At, Stopping, IInv
<1>2. /\ worker' = [worker EXCEPT ![w] = Idle] /\ UNCHANGED <<status, streak>>
      /\ place' = place \/ place' = [place EXCEPT ![worker[w].of] = "pending"]
  BY DEF Forget, PauseFails, Afterwards, Ends, Moves
<1>3. /\ Cardinality(In("batch")') <= BatchSize /\ Cardinality(In("channel")') <= Capacity
      /\ Cardinality(Claimed) \in Nat /\ Cardinality(Claimed') \in Nat
      /\ Cardinality(Claimed') <= Cardinality(Claimed)
  BY <1>2, ClaimedLeave DEF IInv
<1>4. /\ Acts(Idle) = 0 /\ ToPause(Idle) = 0 /\ Idle.stage # "forgetting"
      /\ Acts(worker[w]) = 0
  BY <1>1, Stages DEF Stopping
<1>5. streak \in Nat /\ used.faults \in Nat BY DEF IInv, Typed, Bounds
<1>6. CASE PauseFails(w)
  <2>1. used' = [used EXCEPT !.faults = used.faults + 1] /\ breaker' = breaker
    BY <1>6 DEF PauseFails
  <2>2. used'.faults = used.faults + 1 /\ used'.resumes = used.resumes
    BY <2>1 DEF IInv, Typed, Bounds
  <2>3. ToPause(worker[w]) = 1 BY <1>6, Stages DEF PauseFails, At
  <2>4. streak' + ToPause(worker[w]) + used.faults <= streak + ToPause(Idle) + used'.faults
    BY <1>2, <1>4, <1>5, <2>2, <2>3
  <2>5. streak' + Cardinality(Claimed)' + Acts(Idle) + used.faults
           <= streak + Cardinality(Claimed) + Acts(worker[w]) + used'.faults
    BY <1>2, <1>3, <1>4, <1>5, <2>2
  <2> QED BY <1>2, <1>3, <1>4, <2>1, <2>2, <2>4, <2>5, StepCosts
<1>7. CASE Forget(w)
  <2>1. used' = used BY <1>7 DEF Forget
  <2>2. CASE used.resumes # 0 BY <1>3, <2>1, <2>2 DEF Costed
  <2>3. CASE used.resumes = 0
    <3>1. status = "paused" BY <1>7, <2>3 DEF Costed, Forget, At, IInv, Typed
    <3>2. streak' + Cardinality(Claimed)' + Acts(Idle) + used.faults
             <= streak + Cardinality(Claimed) + Acts(worker[w]) + used'.faults
      BY <1>2, <1>3, <1>4, <1>5, <2>1
    <3>3. status # "sending" BY <3>1
    <3> QED BY <1>2, <1>3, <1>4, <2>1, <3>2, <3>3, StepCosts
  <2> QED BY <2>2, <2>3
<1> QED BY <1>6, <1>7

LEMMA ResumeCosts == ASSUME IInv, Costed, Resume PROVE Costed'
<1>1. used'.resumes = used.resumes + 1 /\ used.resumes \in Nat
  BY DEF Resume, IInv, Typed, Bounds
<1>2. used'.resumes # 0 /\ In("batch")' = In("batch") /\ In("channel")' = In("channel")
  BY <1>1 DEF Resume, In
<1> QED BY <1>2 DEF Costed

LEMMA ProcessCosts ==
    ASSUME IInv, Typed', Costed, NEW w \in Worker, Process(w) PROVE Costed'
<1> DEFINE at == worker[w].of
           P(after) == [stage |-> "pausing", of |-> at, after |-> after, since |-> used.resumes]
           G(stage) == [worker[w] EXCEPT !.stage = stage]
<1>1. ASSUME NEW after PROVE P(after).stage = "pausing" OBVIOUS
<1>2. ASSUME NEW stage, worker[w].stage \in {"fetched", "resolved", "rendered"}
      PROVE  G(stage).stage = stage
  BY <1>2, Kinds DEF IInv, Working
<1>3. CASE HeaderFails(w)
  <2>1. worker' = [worker EXCEPT ![w] = P("release")] BY <1>3 DEF HeaderFails, Pauses
  <2>2. worker[w].stage \in ActiveStages /\ UNCHANGED <<status, used, place, streak, breaker>>
    BY <1>3 DEF HeaderFails, At, ActiveStages
  <2> HIDE DEF P
  <2> QED BY <1>1, <2>1, <2>2, ActCosts
<1>4. CASE ProviderBlocked(w)
  <2>1. worker' = [worker EXCEPT ![w] = P("nothing")] BY <1>4 DEF ProviderBlocked, Pauses
  <2>2. /\ worker[w].stage \in ActiveStages /\ UNCHANGED <<status, used, streak, breaker>>
        /\ place' = [place EXCEPT ![at] = "pending"]
    BY <1>4 DEF ProviderBlocked, At, ActiveStages, Moves
  <2> HIDE DEF P
  <2> QED BY <1>1, <2>1, <2>2, ActCosts
<1>5. CASE LoadCredFails(w)
  <2> DEFINE x == [stage |-> "counting", of |-> worker[w].of, count |-> credFails + 1]
  <2>1. worker' = [worker EXCEPT ![w] = x] /\ x.stage \in ActiveStages
    BY <1>5 DEF LoadCredFails, ActiveStages
  <2>2. worker[w].stage \in ActiveStages /\ UNCHANGED <<status, used, place, streak, breaker>>
    BY <1>5 DEF LoadCredFails, At, ActiveStages
  <2> HIDE DEF x
  <2> QED BY <2>1, <2>2, ActCosts
<1>6. CASE StoreCredFails(w)
  <2>1. worker' = [worker EXCEPT ![w] = P("reset")] \/ worker' = [worker EXCEPT ![w] = Idle]
    BY <1>6 DEF StoreCredFails, Pauses, PausesIf, Ends
  <2>2. /\ worker[w].stage \in ActiveStages /\ UNCHANGED <<status, used, streak, breaker>>
        /\ place' = [place EXCEPT ![at] = "pending"]
    BY <1>6 DEF StoreCredFails, At, ActiveStages, Moves
  <2> HIDE DEF P
  <2> QED BY <1>1, <2>1, <2>2, ActCosts
<1>7. CASE Resolve(w)
  <2>1. worker' = [worker EXCEPT ![w] = G("resolved")] /\ worker[w].stage = "fetched"
    BY <1>7 DEF Resolve, Does, At
  <2>2. G("resolved").stage \in ActiveStages /\ worker[w].stage \in ActiveStages
    BY <1>2, <2>1 DEF ActiveStages
  <2>3. UNCHANGED <<status, used, place, streak, breaker>> BY <1>7 DEF Resolve
  <2> HIDE DEF G
  <2> QED BY <2>1, <2>2, <2>3, ActCosts
<1>8. CASE RenderFails(w)
  <2>1. worker' = [worker EXCEPT ![w] = P("nothing")] \/ worker' = [worker EXCEPT ![w] = Idle]
    BY <1>8 DEF RenderFails, Pauses, PausesIf, Ends
  <2>2. /\ worker[w].stage \in ActiveStages /\ UNCHANGED <<status, used, streak>>
        /\ place' = [place EXCEPT ![at] = "done"]
    BY <1>8 DEF RenderFails, At, ActiveStages, Moves
  <2>3. breaker'.fatal = breaker.fatal BY <1>8, RenderFatal DEF RenderFails
  <2> HIDE DEF P
  <2> QED BY <1>1, <2>1, <2>2, <2>3, ActCosts
<1>9. CASE Render(w)
  <2>1. worker' = [worker EXCEPT ![w] = G("rendered")] /\ worker[w].stage = "resolved"
    BY <1>9 DEF Render, Does, At
  <2>2. G("rendered").stage \in ActiveStages /\ worker[w].stage \in ActiveStages
    BY <1>2, <2>1 DEF ActiveStages
  <2>3. UNCHANGED <<status, used, place, streak>> BY <1>9 DEF Render
  <2>4. breaker'.fatal = breaker.fatal BY <1>9, RenderFatal DEF Render
  <2> HIDE DEF G
  <2> QED BY <2>1, <2>2, <2>3, <2>4, ActCosts
<1>10. CASE Sent(w)
  <2>1. worker' = [worker EXCEPT ![w] = Idle] BY <1>10 DEF Sent, Ends
  <2>2. /\ worker[w].stage \in ActiveStages /\ UNCHANGED <<status, used>> /\ streak' = 0
        /\ place' = [place EXCEPT ![at] = "done"]
    BY <1>10 DEF Sent, At, ActiveStages, Moves
  <2>3. breaker'.fatal = 0 BY <1>10 DEF Sent, AfterSuccess, IInv, Typed, Breakers
  <2> QED BY <2>1, <2>2, <2>3, ActCosts
<1>11. CASE Fatal(w)
  <2>1. breaker'.fatal = breaker.fatal + 1
    BY <1>11 DEF Fatal, AfterFatal, IInv, Typed, Breakers
  <2>2. FatalTrips(breaker) <=> breaker.fatal + 1 >= FatalThreshold
    BY DEF FatalTrips, AfterFatal, IInv, Typed, Breakers
  <2>3. breaker.fatal \in Nat /\ FatalThreshold \in Nat
    BY BreakerAssumption DEF IInv, Typed, Breakers
  <2>4. \/ worker' = [worker EXCEPT ![w] = P("nothing")]
        \/ worker' = [worker EXCEPT ![w] = Idle] /\ breaker.fatal + 1 < FatalThreshold
    <3>1. CASE FatalTrips(breaker) BY <1>11, <3>1 DEF Fatal, Pauses, PausesIf
    <3>2. CASE ~FatalTrips(breaker)
      BY <1>11, <2>2, <2>3, <3>2 DEF Fatal, PausesIf, Ends
    <3> QED BY <3>1, <3>2
  <2>5. /\ worker[w].stage \in ActiveStages /\ UNCHANGED <<status, used>>
        /\ streak' = streak + 1 /\ place' = [place EXCEPT ![at] = "pending"]
    BY <1>11 DEF Fatal, At, ActiveStages, Moves
  <2> HIDE DEF P
  <2> QED BY <1>1, <2>1, <2>4, <2>5, ActCosts
<1>12. CASE Retry(w) \/ Refused(w) \/ HeaderUnreadable(w)
  <2>1. worker' = [worker EXCEPT ![w] = Idle] BY <1>12 DEF Retry, Refused, HeaderUnreadable, Ends
  <2>2. /\ worker[w].stage \in ActiveStages /\ UNCHANGED <<status, used, streak, breaker>>
        /\ place' = [place EXCEPT ![at] = "pending"] \/ place' = [place EXCEPT ![at] = "done"]
    BY <1>12 DEF Retry, Refused, HeaderUnreadable, At, ActiveStages, Moves
  <2> QED BY <2>1, <2>2, ActCosts
<1>13. CASE Pause(w) BY <1>13, PauseCosts
<1>14. CASE Forget(w) BY <1>14, EndCosts
<1> QED BY <1>3, <1>4, <1>5, <1>6, <1>7, <1>8, <1>9, <1>10, <1>11, <1>12, <1>13, <1>14
        DEF Process

LEMMA NextCosts == IInv /\ IInv' /\ Costed /\ [Next]_vars => Costed'
<1> SUFFICES ASSUME IInv, IInv', Costed, [Next]_vars PROVE Costed' OBVIOUS
<1>0. Typed' BY DEF IInv
<1>1. CASE (\E batch \in SUBSET Message : Claim(batch)) \/ \E m \in Message : Feed(m)
  BY <1>1, ClaimCosts, FeedCosts
<1>2. ASSUME NEW w \in Worker, NEW m \in Message, Take(w, m) PROVE Costed'
  BY <1>0, <1>2, TakeCosts
<1>3. ASSUME NEW w \in Worker, Process(w) PROVE Costed' BY <1>0, <1>3, ProcessCosts
<1>4. ASSUME NEW w \in Worker, PauseFails(w) PROVE Costed' BY <1>0, <1>4, EndCosts
<1>5. CASE Resume BY <1>5, ResumeCosts
<1>6. CASE UNCHANGED vars BY <1>6 DEF vars, Costed, Claimed, In, Acting, Pausing
<1> QED BY <1>1, <1>2, <1>3, <1>4, <1>5, <1>6 DEF Next

\* Before the first resumption, wrong credentials cost fewer calls than the threshold, the
\* workers, the channel and the claimer's batch together, but for pauses that failed
\* (breaker.go, runtime.go, loop.go).
THEOREM FatalsAreFew == Spec => []FatalsAreBounded
<1>1. IInv /\ Costed => FatalsAreBounded
  <2> SUFFICES ASSUME IInv, Costed, used.resumes = 0
               PROVE  streak < FatalThreshold + Cardinality(Worker) + Capacity + BatchSize
                           + used.faults
    BY DEF FatalsAreBounded
  <2>1. /\ streak \in Nat /\ used.faults \in Nat /\ FatalThreshold \in Nat
        /\ Capacity \in Nat /\ BatchSize \in Nat
        /\ status \in {"sending", "paused"}
    BY BreakerAssumption DEF IInv, Typed, Bounds
  <2>2. Cardinality(Claimed) \in Nat BY ClaimedSize
  <2>3. CASE status = "sending" BY <2>1, <2>3, WorkerSets DEF Costed
  <2>4. CASE status = "paused" BY <2>1, <2>2, <2>4, WorkerSets DEF Costed, Limit
  <2> QED BY <2>1, <2>3, <2>4
<1> QED BY <1>1, CostInit, NextCosts, Invariant, PTL DEF Spec

=============================================================================
