----------------------- MODULE AcquisitionJournalProofs -----------------------
(* Proofs about AcquisitionJournal, for every set of collectors, every order of
   feeds, every interval, margin and sweep, and any number of batches.          *)
EXTENDS AcquisitionJournal, FiniteSetTheorems, WellFoundedInduction, TLAPS

-----------------------------------------------------------------------------
(* Hours.                                                                      *)

IsHour(t) == \E k \in Int : t = k * Interval

LEMMA TimesSame ==
    ASSUME NEW n \in Nat \ {0}, NEW j \in Int, NEW k \in Int, j * n < k * n
    PROVE (j + 1) * n <= k * n
<1>1. j < k
  OBVIOUS
<1>2. PICK d \in Nat : k = j + 1 + d
  <2>1. k - (j + 1) \in Nat /\ k = j + 1 + (k - (j + 1))
    BY <1>1
  <2> QED
    BY <2>1
<1>3. d * n >= 0
  OBVIOUS
<1>4. k * n = (j + 1) * n + d * n
  BY <1>2
<1> QED
  BY <1>3, <1>4

\* Between two hours there is no third.
LEMMA HourGap ==
    ASSUME NEW a \in Int, NEW b \in Int, IsHour(a), IsHour(b), a < b
    PROVE a + Interval <= b
<1>1. PICK j \in Int : a = j * Interval
  BY DEF IsHour
<1>2. PICK k \in Int : b = k * Interval
  BY DEF IsHour
<1>3. Interval \in Nat \ {0}
  BY AcquisitionAssumption
<1>4. (j + 1) * Interval <= k * Interval
  BY <1>1, <1>2, <1>3, TimesSame
<1>5. (j + 1) * Interval = j * Interval + Interval
  BY <1>3
<1> QED
  BY <1>1, <1>2, <1>4, <1>5

LEMMA FloorFacts ==
    ASSUME NEW t \in Int
    PROVE Floor(t) \in Int /\ Floor(t) <= t /\ t < Floor(t) + Interval /\ IsHour(Floor(t))
<1>1. Interval \in Nat \ {0}
  BY AcquisitionAssumption
<1>2. t \div Interval \in Int
  BY <1>1
<1>3. t = Interval * (t \div Interval) + (t % Interval) /\ t % Interval \in 0 .. Interval - 1
  BY <1>1
<1> PICK q \in Int : q = t \div Interval
  BY <1>2
<1>4. Floor(t) = q * Interval
  BY DEF Floor
<1>5. q * Interval \in Int /\ t = q * Interval + (t % Interval)
  BY <1>1, <1>3
<1>6. IsHour(q * Interval)
  BY DEF IsHour
<1> PICK m \in Int : m = q * Interval
  BY <1>5
<1>7. t = m + (t % Interval)
  BY <1>5
<1> QED
  BY <1>1, <1>3, <1>4, <1>6, <1>7

LEMMA FloorLeast ==
    ASSUME NEW a \in Int, NEW t \in Int, IsHour(a), a <= t
    PROVE a <= Floor(t)
<1>1. Floor(t) \in Int /\ t < Floor(t) + Interval /\ IsHour(Floor(t)) /\ Interval \in Nat
  BY FloorFacts, AcquisitionAssumption
<1>2. Floor(t) < a => Floor(t) + Interval <= a
  BY <1>1, HourGap
<1> QED
  BY <1>1, <1>2

LEMMA HourArithmetic ==
    ASSUME NEW a \in Int, IsHour(a)
    PROVE /\ IsHour(a + Interval) /\ IsHour(a - Interval) /\ IsHour(0)
          /\ a % Interval = 0
<1>1. PICK k \in Int : a = k * Interval
  BY DEF IsHour
<1>2. Interval \in Nat \ {0}
  BY AcquisitionAssumption
<1>3. (k + 1) * Interval = a + Interval /\ (k - 1) * Interval = a - Interval
      /\ 0 * Interval = 0
  BY <1>1, <1>2
<1>4. a % Interval = 0
  <2>1. a = Interval * (a \div Interval) + (a % Interval) /\ a % Interval \in 0 .. Interval - 1
        /\ a \div Interval \in Int
    BY <1>2
  <2>2. PICK d \in Int : d = a \div Interval
    BY <2>1
  <2>3. d * Interval <= k * Interval /\ k * Interval < (d + 1) * Interval
    BY <1>1, <1>2, <2>1, <2>2
  <2>4. ~ (d * Interval < k * Interval)
    BY <1>2, <2>3, TimesSame
  <2> QED
    BY <1>1, <1>2, <2>1, <2>2, <2>3, <2>4
<1> QED
  BY <1>2, <1>3, <1>4 DEF IsHour

\* The hours are the multiples of the interval that end by the horizon.
LEMMA HoursFacts ==
    /\ \A h \in Hours : h \in Nat /\ IsHour(h) /\ h <= Horizon - Interval
    /\ \A h \in Nat : IsHour(h) /\ h <= Horizon - Interval => h \in Hours
    /\ Horizon \in Nat /\ IsHour(Horizon)
    /\ \A t \in Times : Floor(t) <= Horizon
<1>1. PICK last \in Times : \A t \in Times : t <= last
  BY AcquisitionAssumption
<1>2. Max(Times) \in Times /\ \A t \in Times : t <= Max(Times)
  BY <1>1, AcquisitionAssumption DEF Max
<1>3. Horizon = Floor(Max(Times)) /\ Max(Times) \in Nat /\ Interval \in Nat \ {0}
  BY <1>2, AcquisitionAssumption DEF Horizon, Floor
<1>4. Horizon \in Int /\ IsHour(Horizon) /\ Horizon <= Max(Times)
  BY <1>3, FloorFacts
<1>5. Horizon >= 0
  <2>1. IsHour(0)
    BY <1>4, HourArithmetic
  <2> QED
    BY <1>3, <2>1, FloorLeast
<1>6. \A t \in Times : Floor(t) <= Horizon
  <2> SUFFICES ASSUME NEW t \in Times PROVE Floor(t) <= Horizon
    OBVIOUS
  <2>1. t \in Int /\ Floor(t) \in Int /\ Floor(t) <= t /\ IsHour(Floor(t)) /\ t <= Max(Times)
    BY <1>2, AcquisitionAssumption, FloorFacts
  <2> QED
    BY <1>3, <2>1, FloorLeast
<1>7. \A h \in Hours : h \in Nat /\ IsHour(h) /\ h <= Horizon - Interval
  <2> SUFFICES ASSUME NEW h \in Hours PROVE h \in Nat /\ IsHour(h) /\ h <= Horizon - Interval
    OBVIOUS
  <2>1. h \in 0 .. Horizon - Interval /\ h % Interval = 0
    BY DEF Hours
  <2>2. h \in Nat /\ h <= Horizon - Interval
    BY <1>3, <1>4, <2>1
  <2>3. h = Interval * (h \div Interval) + (h % Interval) /\ h \div Interval \in Int
    BY <1>3, <2>2
  <2>4. h = (h \div Interval) * Interval
    BY <1>3, <2>1, <2>3
  <2> QED
    BY <2>2, <2>3, <2>4 DEF IsHour
<1>8. \A h \in Nat : IsHour(h) /\ h <= Horizon - Interval => h \in Hours
  BY <1>3, <1>4, HourArithmetic DEF Hours
<1> QED
  BY <1>4, <1>5, <1>6, <1>7, <1>8

-----------------------------------------------------------------------------
(* Least and greatest.                                                         *)

LEMMA OfTwo ==
    ASSUME NEW a \in Int, NEW b \in Int
    PROVE /\ Max({a, b}) = IF a >= b THEN a ELSE b
          /\ Min({a, b}) = IF a <= b THEN a ELSE b
<1>1. Max({a, b}) \in {a, b} /\ Max({a, b}) >= a /\ Max({a, b}) >= b
  BY DEF Max
<1>2. Min({a, b}) \in {a, b} /\ Min({a, b}) <= a /\ Min({a, b}) <= b
  BY DEF Min
<1> QED
  BY <1>1, <1>2

LEMMA LeastFacts ==
    ASSUME NEW S \in SUBSET Nat, S # {}
    PROVE Min(S) \in S /\ \A t \in S : Min(S) <= t
<1>1. PICK m \in S : \A t \in S : ~ (<<t, m>> \in OpToRel(<, Nat))
  BY NatLessThanWellFounded, WFMin
<1>2. \A t \in S : ~ (<<t, m>> \in Nat \X Nat /\ t < m)
  BY <1>1, Zenon DEF OpToRel
<1>3. \A t \in S : m <= t
  <2> SUFFICES ASSUME NEW t \in S PROVE m <= t
    OBVIOUS
  <2>1. t \in Nat /\ m \in Nat
    OBVIOUS
  <2>2. <<t, m>> \in Nat \X Nat
    BY <2>1
  <2>3. ~ (t < m)
    BY <1>2, <2>2
  <2> QED
    BY <2>1, <2>3
<1> QED
  BY <1>3 DEF Min

\* The hour of the first of some times: what is before all of them is before it.
LEMMA FirstHour ==
    ASSUME NEW S \in SUBSET Nat, NEW first, first = IF S = {} THEN 0 ELSE Floor(Min(S))
    PROVE /\ first \in Nat /\ \A t \in S : first <= t
          /\ \A b \in Nat : IsHour(b) /\ (\A t \in S : b <= t) /\ (S # {} \/ b = 0) => b <= first
<1>1. CASE S = {}
  BY <1>1
<1>2. CASE S # {}
  <2> PICK m \in Nat : m = Min(S) /\ m \in S /\ \A t \in S : m <= t
    BY <1>2, LeastFacts
  <2>1. first \in Int /\ first <= m /\ first = Floor(m)
    BY <1>2, FloorFacts
  <2>2. \A b \in Nat : IsHour(b) /\ b <= m => b <= first
    BY <2>1, FloorLeast
  <2>3. first >= 0
    <3>1. IsHour(0)
      BY HourArithmetic, FloorFacts
    <3> QED
      BY <2>2, <3>1
  <2> QED
    BY <1>2, <2>1, <2>2, <2>3
<1> QED
  BY <1>1, <1>2

-----------------------------------------------------------------------------
(* Events.                                                                     *)

LEMMA EventFacts ==
    ASSUME NEW e \in Events
    PROVE /\ e.feed \in Feeds /\ e.opens \in Hours /\ e.opens \in Nat /\ IsHour(e.opens)
          /\ e.time \in Nat /\ e.opens <= e.time /\ e.time < e.opens + Interval
          /\ e.time = IF e.feed \in BarFeeds THEN e.opens + Interval - 1 ELSE e.opens
          /\ e = EventOf(e.feed, e.opens)
<1>1. PICK f \in Feeds, h \in Hours : e = EventOf(f, h)
  BY DEF Events
<1>2. h \in Nat /\ IsHour(h) /\ Interval \in Nat \ {0}
  BY HoursFacts, AcquisitionAssumption
<1>3. e.feed = f /\ e.opens = h
      /\ e.time = IF f \in BarFeeds THEN h + Interval - 1 ELSE h
  BY <1>1 DEF EventOf
<1> QED
  BY <1>1, <1>2, <1>3

LEMMA FeedsFacts == /\ Len(Order) \in Nat \ {0} /\ DOMAIN Order = 1 .. Len(Order)
                    /\ Feeds = {Order[i] : i \in 1 .. Len(Order)} /\ Feeds # {}
BY AcquisitionAssumption DEF Feeds

\* What ends before an hour, of an event that opens before it.
LEMMA EndsBefore ==
    ASSUME NEW e \in Events, NEW t \in Int, IsHour(t)
    PROVE e.opens < t <=> e.time < t
<1>1. e.opens \in Nat /\ IsHour(e.opens) /\ e.time \in Nat /\ e.opens <= e.time
      /\ e.time < e.opens + Interval /\ Interval \in Nat
  BY EventFacts, AcquisitionAssumption
<1>2. e.opens < t => e.opens + Interval <= t
  BY <1>1, HourGap
<1> QED
  BY <1>1, <1>2

\* What is mapped one to one into a finite set is finite, and so is an image.
LEMMA OneToOneFinite ==
    ASSUME NEW S, NEW T, IsFiniteSet(T), NEW f \in [S -> T],
           \A x, y \in S : f[x] = f[y] => x = y
    PROVE IsFiniteSet(S)
<1>1. f \in Injection(S, T)
  BY DEF Injection, IsInjective
<1> QED
  BY <1>1, FS_Injection

LEMMA ImageFinite ==
    ASSUME NEW S, NEW T, IsFiniteSet(S), NEW f \in [S -> T], \A y \in T : \E x \in S : f[x] = y
    PROVE IsFiniteSet(T)
<1>1. f \in Surjection(S, T)
  BY DEF Surjection
<1> QED
  BY <1>1, FS_Surjection

LEMMA EventsFinite == IsFiniteSet(Events)
<1>1. IsFiniteSet(Feeds)
  <2>1. IsFiniteSet(1 .. Len(Order))
    BY FeedsFacts, FS_Interval
  <2>2. [i \in 1 .. Len(Order) |-> Order[i]] \in [1 .. Len(Order) -> Feeds]
    BY FeedsFacts
  <2>3. \A f \in Feeds : \E i \in 1 .. Len(Order) : [j \in 1 .. Len(Order) |-> Order[j]][i] = f
    BY FeedsFacts
  <2> QED
    BY <2>1, <2>2, <2>3, ImageFinite
<1>2. IsFiniteSet(Hours)
  <2>1. Hours \in SUBSET (0 .. Horizon) /\ Horizon \in Int
    BY HoursFacts, AcquisitionAssumption
  <2>2. IsFiniteSet(0 .. Horizon)
    BY <2>1, FS_Interval
  <2> QED
    BY <2>1, <2>2, FS_Subset
<1>3. IsFiniteSet(Feeds \X Hours)
  BY <1>1, <1>2, FS_Product
<1> DEFINE g == [k \in Feeds \X Hours |-> EventOf(k[1], k[2])]
<1>4. g \in [Feeds \X Hours -> Events]
  BY DEF Events
<1>5. \A e \in Events : \E k \in Feeds \X Hours : g[k] = e
  <2> SUFFICES ASSUME NEW f \in Feeds, NEW h \in Hours
               PROVE \E k \in Feeds \X Hours : g[k] = EventOf(f, h)
    BY DEF Events
  <2>1. <<f, h>> \in Feeds \X Hours /\ g[<<f, h>>] = EventOf(f, h)
    OBVIOUS
  <2> QED
    BY <2>1
<1> HIDE DEF g
<1> QED
  BY <1>3, <1>4, <1>5, ImageFinite

-----------------------------------------------------------------------------
(* The journal.                                                                *)

Chain(e) == {o \in observations : o.event = e}

Underway(c) == job[c].pc \notin {"idle", "lost"}

LEMMA RevisionsAre ==
    ASSUME BatchesStand, NEW e
    PROVE Revisions(e) = Chain(e)
BY DEF BatchesStand, Revisions, Chain

LEMMA ChainFacts ==
    ASSUME TypeOK, NEW e \in Events, ChainStands(e), NEW n, n = Cardinality(Chain(e))
    PROVE /\ n \in Nat /\ (n = 0 <=> Chain(e) = {})
          /\ \A o \in Chain(e) : o \in Observation /\ o.revision \in 1 .. n
          /\ \A i \in 1 .. n : \E o \in Chain(e) : o.revision = i
          /\ \A o, p \in Chain(e) : o.revision = p.revision => o = p
<1>1. Chain(e) = {o \in observations : o.event = e}
  BY DEF Chain
<1>2. IsFiniteSet(Chain(e)) /\ {o.revision : o \in Chain(e)} = 1 .. n
  BY <1>1 DEF ChainStands
<1>3. n \in Nat /\ (n = 0 <=> Chain(e) = {})
  BY <1>2, FS_CardinalityType, FS_EmptySet
<1>4. \A o \in Chain(e) : o \in Observation
  BY <1>1 DEF TypeOK
<1>5. \A o, p \in Chain(e) : o.revision = p.revision => o = p
  BY <1>1 DEF ChainStands
<1> QED
  BY <1>2, <1>3, <1>4, <1>5

\* The last revision is there, and its number counts the revisions.
LEMMA LatestFacts ==
    ASSUME TypeOK, BatchesStand, NEW e \in Events, ChainStands(e), Revisions(e) # {}
    PROVE Latest(e) \in Chain(e) /\ Latest(e).revision = Cardinality(Chain(e))
<1> PICK n : n = Cardinality(Chain(e))
  OBVIOUS
<1>1. Chain(e) # {} /\ Revisions(e) = Chain(e)
  BY RevisionsAre
<1>2. n \in Nat \ {0} /\ (\A o \in Chain(e) : o.revision \in 1 .. n)
      /\ \E o \in Chain(e) : o.revision = n
  BY <1>1, ChainFacts
<1>3. PICK o \in Revisions(e) : o.revision = n
  BY <1>1, <1>2
<1>4. \A p \in Revisions(e) : p.revision <= o.revision
  BY <1>1, <1>2, <1>3
<1>5. Latest(e) \in Revisions(e) /\ \A p \in Revisions(e) : p.revision <= Latest(e).revision
  BY <1>3, <1>4 DEF Latest
<1>6. n <= Latest(e).revision /\ Latest(e).revision \in 1 .. n
  BY <1>1, <1>2, <1>3, <1>5
<1> QED
  BY <1>1, <1>2, <1>5, <1>6

LEMMA RowFacts ==
    ASSUME TypeOK, BatchesStand, NEW x \in Candidate, ChainStands(x.event),
           NEW c \in Collectors, job[c].batch \in Batch, NEW n, n = Cardinality(Chain(x.event))
    PROVE /\ RowOf(c, x) \in Observation /\ RowOf(c, x).event = x.event
          /\ RowOf(c, x).payload = x.payload /\ RowOf(c, x).available = x.available
          /\ RowOf(c, x).batch = job[c].batch
          /\ RowOf(c, x).revision = n + 1 /\ RowOf(c, x).supersedes = n
<1>1. x.event \in Events /\ x.payload \in Payloads /\ x.available \in Int
  BY DEF Candidate
<1> PICK last : last = IF Revisions(x.event) = {} THEN 0 ELSE Latest(x.event).revision
  OBVIOUS
<1>2. last = n /\ n \in Nat
  BY <1>1, LatestFacts, ChainFacts, RevisionsAre
<1>3. RowOf(c, x) = [event |-> x.event, payload |-> x.payload, available |-> x.available,
                     batch |-> job[c].batch, revision |-> last + 1, supersedes |-> last]
  BY DEF RowOf
<1> QED
  BY <1>1, <1>2, <1>3 DEF Observation

LEMMA OriginFacts ==
    ASSUME TypeOK, BatchesStand
    PROVE Origin \in Nat /\ \A o \in observations : Origin <= o.event.time
<1> PICK S : S = {o.event.time : o \in {p \in observations : p.batch \in Status("COMPLETE")}}
  OBVIOUS
<1>1. S \in SUBSET Nat
  BY EventFacts DEF TypeOK, Observation
<1>2. Origin = IF S = {} THEN 0 ELSE Floor(Min(S))
  BY DEF Origin
<1>3. \A o \in observations : o.event.time \in S
  BY DEF BatchesStand
<1>4. Origin \in Nat /\ \A t \in S : Origin <= t
  BY <1>1, <1>2, FirstHour
<1> QED
  BY <1>3, <1>4

\* Where a capture begins and ends: up to the last closed hour, from the first
\* recorded hour or from before what is covered.
LEMMA WindowFacts ==
    ASSUME TypeOK, BatchesStand, CheckpointsStand,
           NEW asOf \in Int, Interval + Margin <= asOf, asOf <= now
    PROVE /\ Window(asOf) \in Int \X Int
          /\ Window(asOf)[2] \in Hours \cup {Horizon} /\ IsHour(Window(asOf)[2])
          /\ 0 < Window(asOf)[2] /\ Window(asOf)[2] <= asOf - Margin
          /\ 0 <= Window(asOf)[1]
          /\ Status("COMPLETE") = {} => IsHour(Window(asOf)[1])
                                        /\ Window(asOf)[1] + Interval = Window(asOf)[2]
          /\ Status("COMPLETE") # {} =>
                /\ Origin <= Window(asOf)[1]
                /\ Window(asOf)[1] = Origin
                   \/ \A f \in Feeds : Window(asOf)[1] <= checkpoint[f]
<1>1. /\ Interval \in Nat \ {0} /\ Margin \in Nat /\ Sweep \in Nat /\ now \in Times
      /\ now \in Nat
  BY AcquisitionAssumption DEF TypeOK
<1> PICK l \in Int : l = LatestClosed(asOf)
  BY <1>1, FloorFacts DEF LatestClosed
<1>2. IsHour(l) /\ l <= asOf - Margin /\ l = Floor(asOf - Margin)
  BY <1>1, FloorFacts DEF LatestClosed
<1>3. Interval <= l
  <2>1. IsHour(Interval)
    <3>1. IsHour(0) /\ IsHour(0 + Interval)
      BY <1>2, HourArithmetic
    <3> QED
      BY <1>1, <3>1
  <2> QED
    BY <1>1, <1>2, <2>1, FloorLeast
<1>4. l \in Hours \cup {Horizon}
  <2>1. l <= Floor(now) /\ Floor(now) <= Horizon /\ Horizon \in Nat /\ IsHour(Horizon)
        /\ Floor(now) \in Int
    BY <1>1, <1>2, FloorLeast, FloorFacts, HoursFacts
  <2>2. l < Horizon => l + Interval <= Horizon
    BY <1>2, <2>1, HourGap
  <2>3. l < Horizon => l \in Hours
    BY <1>1, <1>2, <1>3, <2>1, <2>2, HoursFacts
  <2> QED
    BY <2>1, <2>3
<1>5. CASE Status("COMPLETE") = {}
  <2>1. \A f \in Feeds : checkpoint[f] = 0
    BY <1>5 DEF CheckpointsStand
  <2>2. Max({0, l - Interval}) = l - Interval
    BY <1>1, <1>3, OfTwo
  <2>3. Window(asOf) = <<l - Interval, l - Interval + Interval>>
    BY <2>1, <2>2 DEF Window, InitialWindow
  <2>4. Window(asOf) = <<l - Interval, l>>
    BY <1>1, <2>3
  <2>5. IsHour(l - Interval)
    BY <1>2, HourArithmetic
  <2> QED
    BY <1>1, <1>2, <1>3, <1>4, <1>5, <2>4, <2>5
<1>6. CASE Status("COMPLETE") # {}
  <2> PICK f \in Feeds : TRUE
    BY FeedsFacts
  <2> PICK k : k = checkpoint[f]
    OBVIOUS
  <2>1. k \in Nat /\ k # 0 /\ \A g \in Feeds : checkpoint[g] = k
    BY <1>6, HoursFacts DEF CheckpointsStand, TypeOK
  <2>2. Earliest = k
    <3>1. {checkpoint[g] : g \in {h \in Feeds : checkpoint[h] # 0}} = {k}
      BY <2>1
    <3>2. Min({k}) = k
      BY <2>1, OfTwo DEF Min
    <3> QED
      BY <3>1, <3>2 DEF Earliest
  <2> PICK least \in Int : least = Min({k, l}) /\ least <= k
    <3>1. k \in Int /\ l \in Int
      BY <2>1
    <3>2. Min({k, l}) = IF k <= l THEN k ELSE l
      BY <3>1, OfTwo
    <3> QED
      BY <3>1, <3>2
  <2> PICK sweep \in Nat : sweep = Sweep * Interval
    BY <1>1
  <2> PICK origin \in Nat : origin = Origin
    BY OriginFacts
  <2> PICK from \in Int : /\ from = Max({origin, least - sweep}) /\ origin <= from
                          /\ from = origin \/ from = least - sweep
    <3>1. origin \in Int /\ least - sweep \in Int
      OBVIOUS
    <3>2. Max({origin, least - sweep}) = IF origin >= least - sweep THEN origin
                                         ELSE least - sweep
      BY <3>1, OfTwo
    <3> QED
      BY <3>1, <3>2
  <2>3. Window(asOf) = <<from, l>>
    BY <2>1, <2>2 DEF Window, CatchupWindow
  <2>4. from = origin \/ from <= k
    BY <2>1
  <2>5. Window(asOf)[1] = from /\ Window(asOf)[2] = l /\ Window(asOf) \in Int \X Int
    BY <2>3
  <2>6. 0 < l /\ 0 <= from
    BY <1>1, <1>3
  <2>7. from = Origin \/ \A g \in Feeds : from <= checkpoint[g]
    BY <2>1, <2>4
  <2> HIDE DEF Window
  <2> QED
    BY <1>2, <1>4, <1>6, <2>5, <2>6, <2>7
<1> QED
  BY <1>5, <1>6

LEMMA WindowSame ==
    ASSUME UNCHANGED <<batch, observations, checkpoint>>
    PROVE /\ \A a : Window(a)' = Window(a)
          /\ \A s : Status(s)' = Status(s)
          /\ Running' = Running /\ Origin' = Origin
          /\ \A e : Revisions(e)' = Revisions(e) /\ Latest(e)' = Latest(e)
<1>1. \A s : Status(s)' = Status(s)
  BY DEF Status
<1>2. \A e : Revisions(e)' = Revisions(e)
  BY <1>1 DEF Revisions
<1>3. \A e : Latest(e)' = Latest(e)
  BY <1>2 DEF Latest
<1>4. Origin' = Origin /\ Earliest' = Earliest
  BY <1>1 DEF Origin, Earliest
<1>5. \A a : Window(a)' = Window(a)
  BY <1>4 DEF Window, CatchupWindow
<1> QED
  BY <1>1, <1>2, <1>3, <1>4, <1>5 DEF Running

-----------------------------------------------------------------------------
(* Steps.                                                                      *)

\* Who does not hold the lock has nothing under way to lose.
LEMMA OthersStand ==
    ASSUME NEW c \in Collectors, lock \in {c, NoOne},
           NEW d \in Collectors, d # c, JobStands(d), job'[d] = job[d]
    PROVE JobStands(d)'
<1>1. lock # d
  BY AcquisitionAssumption
<1>2. job[d].pc \in {"idle", "lost"} /\ (job[d].pc = "idle" <=> job[d].batch = 0)
      /\ job[d].configs \subseteq {job[d].batch} /\ job[d].configs = {}
  BY <1>1 DEF JobStands
<1> QED
  BY <1>2 DEF JobStands, Capturing

\* Time passes and payloads change: what is recorded and what is held stand.
LEMMA WorldMoves ==
    ASSUME JournalInv, now' \in Times, now <= now', wall' \in Int, wall <= wall',
           book' \in [Events -> Payloads], corrections' \in 0 .. MaxCorrections,
           UNCHANGED <<lock, fileVars, journalVars, job>>
    PROVE JournalInv'
<1> USE DEF journalVars, fileVars
<1>1. /\ \A a : Window(a)' = Window(a)
      /\ \A s : Status(s)' = Status(s)
      /\ Running' = Running /\ Origin' = Origin
      /\ \A e : Revisions(e)' = Revisions(e) /\ Latest(e)' = Latest(e)
  BY WindowSame
<1>2. TypeOK /\ now \in Nat /\ wall \in Int /\ now' \in Nat
  BY AcquisitionAssumption DEF JournalInv, TypeOK
<1>3. TypeOK'
  BY <1>2 DEF TypeOK
<1>4. BatchesStand'
  BY <1>1 DEF JournalInv, BatchesStand, ObservationsOf
<1>5. ASSUME NEW e \in Events PROVE ChainStands(e)'
  <2>1. ChainStands(e) /\ \A o \in observations : o.available \in Int
    BY <1>2 DEF JournalInv, TypeOK, Observation
  <2> QED
    BY <1>2, <2>1 DEF ChainStands
<1>6. CheckpointsStand' /\ FilesStand' /\ CheckpointCovers'
  BY <1>1 DEF JournalInv, CheckpointsStand, FilesStand, CheckpointCovers
<1>7. ASSUME NEW c \in Collectors PROVE JobStands(c)'
  <2>1. JobStands(c) /\ job[c] \in Job
    BY <1>2, <1>7 DEF JournalInv, TypeOK
  <2> PICK j : j = job[c]
    OBVIOUS
  <2>2. j.asOf \in Int /\ \A x \in j.candidates : x.available \in Int
    BY <2>1 DEF Job, Candidate
  <2>3. CandidatesStand(j) => CandidatesStand(j)'
    BY <1>2, <2>2 DEF CandidatesStand
  <2>4. \A x : RowOf(c, x)' = RowOf(c, x) /\ (IsNews(x)' <=> IsNews(x))
    BY <1>1 DEF RowOf, IsNews
  <2>5. j.pc = "rows" => j.asked = Len(Order)
          /\ j.rows = {RowOf(c, x) : x \in {y \in j.candidates : IsNews(y)}}
    BY <2>1 DEF JobStands
  <2>6. {RowOf(c, x) : x \in {y \in j.candidates : IsNews(y)}}'
        = {RowOf(c, x) : x \in {y \in j.candidates : IsNews(y)}}
    BY <2>4
  <2>7. j.asOf <= now => j.asOf <= now'
    BY <1>2, <2>2
  <2>8. j.asOf - MaxOffset <= wall => j.asOf - MaxOffset <= wall'
    <3>1. MaxOffset \in Int
      BY AcquisitionAssumption
    <3>2. wall \in Int /\ wall' \in Int /\ wall <= wall'
      BY <1>2 DEF TypeOK
    <3>3. PICK a \in Int : a = j.asOf - MaxOffset
      BY <2>2, <3>1
    <3> QED
      BY <3>2, <3>3
  <2>9. job'[c] = j
    OBVIOUS
  <2> QED
    BY <1>1, <2>1, <2>3, <2>5, <2>6, <2>7, <2>8, <2>9 DEF JobStands
<1> QED
  BY <1>3, <1>4, <1>5, <1>6, <1>7 DEF JournalInv

LEMMA NoJobTyped ==
    /\ NoJob \in Job
    /\ \A pc \in {"idle", "spot_time", "futures_time", "info", "feeds", "rows", "raise", "lost"},
          b \in Batch : [NoJob EXCEPT !.pc = pc, !.batch = b] \in Job
<1>1. Len(Order) \in Nat /\ 0 \in 0 .. Len(Order) /\ <<0, 0>> \in Int \X Int
  BY FeedsFacts
<1>2. NoJob \in Job
  BY <1>1 DEF NoJob, Job
<1>3. ASSUME NEW pc \in {"idle", "spot_time", "futures_time", "info", "feeds", "rows",
                         "raise", "lost"},
             NEW b \in Batch
      PROVE [NoJob EXCEPT !.pc = pc, !.batch = b] \in Job
  BY <1>2, <1>3 DEF Job
<1> QED
  BY <1>2, <1>3

\* A step of a collector under way that begins no batch and ends none as
\* complete: only its own progress, its receipts and its files may change.
LEMMA CollectorMoves ==
    ASSUME JournalInv, NEW c \in Collectors, NEW j \in Job, NEW b \in Batch,
           lock = c, b \in Running, lock' \in {c, NoOne}, job' = [job EXCEPT ![c] = j],
           receipts' \in [Batch -> Nat], \A d \in Batch : d # b => receipts'[d] = receipts[d],
           configs' \subseteq Batch, \A d \in configs' : receipts'[d] > Len(Clocks),
           UNCHANGED <<now, wall, book, corrections, batch, observations, checkpoint>>,
           FilesStand', JobStands(c)'
    PROVE JournalInv'
<1>1. /\ \A s : Status(s)' = Status(s)
      /\ Running' = Running /\ Origin' = Origin
      /\ \A e : Revisions(e)' = Revisions(e)
  BY WindowSame
<1>2. TypeOK
  BY DEF JournalInv
<1>3. TypeOK'
  <2>1. job' \in [Collectors -> Job] /\ lock' \in Collectors \cup {NoOne}
    BY <1>2 DEF TypeOK
  <2> QED
    BY <1>2, <2>1 DEF TypeOK
<1>4. BatchesStand'
  <2>1. \A d \in Status("COMPLETE") \cup Status("FAILED") \cup Status("NONE") :
          d # b /\ d \in Batch
    BY DEF Status, Running
  <2>2. \A d : ObservationsOf(d)' = ObservationsOf(d)
    BY DEF ObservationsOf
  <2> QED
    BY <1>1, <2>1, <2>2 DEF JournalInv, BatchesStand
<1>5. \A e \in Events : ChainStands(e)'
  BY DEF JournalInv, ChainStands
<1>6. CheckpointsStand' /\ CheckpointCovers'
  BY <1>1 DEF JournalInv, CheckpointsStand, CheckpointCovers
<1>7. ASSUME NEW d \in Collectors PROVE JobStands(d)'
  <2>1. d # c => job'[d] = job[d] /\ JobStands(d)
    BY <1>2, <1>7 DEF JournalInv, TypeOK
  <2> QED
    BY <1>7, <2>1, OthersStand
<1> QED
  BY <1>3, <1>4, <1>5, <1>6, <1>7 DEF JournalInv

\* Who is under way has the lock, a batch, and the journal's promise kept so far.
LEMMA UnderwayFacts ==
    ASSUME JournalInv, NEW c \in Collectors, Underway(c)
    PROVE /\ TypeOK /\ job[c] \in Job /\ lock = c
          /\ job[c].batch \in Running /\ job[c].batch \in Batch
          /\ JobStands(c) /\ FilesStand
<1>1. TypeOK /\ JobStands(c) /\ job[c] \in Job /\ FilesStand
  BY DEF JournalInv, TypeOK
<1>2. lock = c /\ job[c].batch \in Running
  BY <1>1 DEF Underway, JobStands
<1> QED
  BY <1>1, <1>2 DEF Running, Status

\* A receipt more, and with it the configuration the transaction holds.
LEMMA PersistFacts ==
    ASSUME JournalInv, NEW c \in Collectors, Underway(c), NEW bodies, Persist(c, bodies)
    PROVE /\ receipts' \in [Batch -> Nat]
          /\ \A d \in Batch : d # job[c].batch => receipts'[d] = receipts[d]
          /\ receipts'[job[c].batch] = receipts[job[c].batch] + 1
          /\ configs' \subseteq Batch /\ \A d \in configs' : receipts'[d] > Len(Clocks)
          /\ FilesStand'
<1> PICK b \in Batch : b = job[c].batch
  BY UnderwayFacts
<1>1. /\ TypeOK /\ job[c] \in Job /\ JobStands(c) /\ FilesStand /\ BatchesStand
  BY UnderwayFacts DEF JournalInv
<1>2. receipts' = [receipts EXCEPT ![b] = receipts[b] + 1] /\ receipts \in [Batch -> Nat]
  BY <1>1 DEF Persist, TypeOK
<1>3. /\ receipts' \in [Batch -> Nat] /\ receipts'[b] = receipts[b] + 1
      /\ \A d \in Batch : d # b => receipts'[d] = receipts[d]
  BY <1>2
<1>4. configs' = configs \cup job[c].configs /\ job[c].configs \subseteq {b}
  BY <1>1 DEF Persist, JobStands
<1>5. b \in job[c].configs => receipts[b] >= 3
  BY <1>1 DEF JobStands
<1>6. Len(Clocks) = 2
  BY DEF Clocks
<1>7. ASSUME NEW d \in configs' PROVE d \in Batch /\ receipts'[d] > Len(Clocks)
  <2>1. d \in configs \/ (d = b /\ b \in job[c].configs)
    BY <1>4
  <2>2. d \in configs => d \in Batch /\ receipts[d] > 2
    BY <1>1, <1>6 DEF TypeOK, BatchesStand
  <2>3. d \in Batch /\ receipts[d] > 2 /\ receipts[d] \in Nat
    BY <1>2, <1>5, <2>1, <2>2
  <2>4. receipts'[d] = receipts[d] \/ receipts'[d] = receipts[d] + 1
    BY <1>3, <2>3
  <2> QED
    BY <1>6, <2>3, <2>4
<1>8. FilesStand'
  BY <1>1 DEF Persist, FilesStand
<1> QED
  BY <1>3, <1>4, <1>7, <1>8

\* Giving up leaves a batch to be sealed, or one nobody will seal.
LEMMA GivesUp ==
    ASSUME JournalInv, NEW c \in Collectors, Underway(c), NEW pc \in {"raise", "lost"},
           GiveUp(c, pc), lock' \in {c, NoOne}, pc = "raise" => lock' = c,
           receipts' \in [Batch -> Nat],
           \A d \in Batch : d # job[c].batch => receipts'[d] = receipts[d],
           configs' \subseteq Batch, \A d \in configs' : receipts'[d] > Len(Clocks),
           UNCHANGED <<now, wall, book, corrections, batch, observations, checkpoint>>,
           FilesStand'
    PROVE JournalInv'
<1> PICK b \in Batch : b = job[c].batch
  BY UnderwayFacts
<1> PICK j : j = [NoJob EXCEPT !.pc = pc, !.batch = b]
  OBVIOUS
<1>1. j \in Job /\ j.pc = pc /\ j.batch = b /\ j.configs = {}
  BY NoJobTyped DEF NoJob
<1>2. lock = c /\ b \in Running /\ TypeOK
  BY UnderwayFacts
<1>3. job' = [job EXCEPT ![c] = j] /\ job'[c] = j
  BY <1>2 DEF GiveUp, TypeOK
<1>4. Running' = Running
  BY WindowSame
<1>5. b # 0
  BY AcquisitionAssumption DEF Batch
<1>6. CASE pc = "raise"
  <2>0. lock' = c /\ job'[c] = j /\ j.pc = "raise" /\ j.batch \in Running' /\ j.batch # 0
        /\ j.configs = {}
    BY <1>1, <1>2, <1>3, <1>4, <1>5, <1>6
  <2>1. JobStands(c)'
    BY <2>0 DEF JobStands, Capturing
  <2> QED
    BY <1>1, <1>2, <1>3, <2>1, CollectorMoves
<1>7. CASE pc = "lost"
  <2>1. JobStands(c)'
    BY <1>1, <1>3, <1>5, <1>7 DEF JobStands, Capturing
  <2> QED
    BY <1>1, <1>2, <1>3, <2>1, CollectorMoves
<1> QED
  BY <1>6, <1>7

LEMMA NothingWritten ==
    ASSUME JournalInv, UNCHANGED <<receipts, configs>>
    PROVE /\ receipts' \in [Batch -> Nat] /\ \A d \in Batch : receipts'[d] = receipts[d]
          /\ configs' \subseteq Batch /\ \A d \in configs' : receipts'[d] > Len(Clocks)
BY DEF JournalInv, TypeOK, BatchesStand

LEMMA FilesKept ==
    ASSUME FilesStand, NEW c, UNCHANGED registered,
           UNCHANGED fileVars \/ FillBody(c) \/ TearBody(c)
    PROVE FilesStand'
<1>1. CASE UNCHANGED fileVars
  BY <1>1 DEF FilesStand, fileVars
<1>2. CASE FillBody(c)
  BY <1>2 DEF FilesStand, FillBody
<1>3. CASE TearBody(c)
  BY <1>3 DEF FilesStand, TearBody
<1> QED
  BY <1>1, <1>2, <1>3

LEMMA AnsweredFacts ==
    ASSUME NEW c, job[c] \in Job
    PROVE /\ Answered(c) \in Job /\ Answered(c).receipts = job[c].receipts + 1
          /\ Answered(c).configs = {} /\ Answered(c).batch = job[c].batch
          /\ Answered(c).asOf = job[c].asOf /\ Answered(c).window = job[c].window
          /\ Answered(c).candidates = job[c].candidates /\ Answered(c).asked = job[c].asked
<1> PICK j \in Job : j = job[c]
  OBVIOUS
<1> PICK n \in Nat : n = j.receipts + 1
  BY DEF Job
<1>1. Answered(c) = [j EXCEPT !.receipts = n, !.configs = {}]
  BY DEF Answered, Job
<1> QED
  BY <1>1 DEF Job

LEMMA ClockFacts ==
    /\ Interval \in Nat \ {0} /\ Margin \in Nat /\ MaxOffset \in Nat /\ MaxOffset <= Margin
    /\ \A t \in Times : t \in Nat
    /\ \A lag \in Lags : lag \in Nat
    /\ \A t \in Times, lag \in Lags : Interval + Margin <= t - lag
BY AcquisitionAssumption

LEMMA BatchNotZero == \A b \in Batch : b # 0
BY AcquisitionAssumption DEF Batch

LEMMA ReadSpotClockKeeps ==
    ASSUME JournalInv, NEW c \in Collectors, ReadSpotClock(c)
    PROVE JournalInv'
<1>1. Underway(c) /\ job[c].pc = "spot_time" /\ Persist(c, {})
  BY DEF ReadSpotClock, Underway
<1>2. /\ TypeOK /\ job[c] \in Job /\ lock = c /\ job[c].batch \in Running
      /\ job[c].batch \in Batch /\ JobStands(c)
  BY <1>1, UnderwayFacts
<1> PICK b \in Batch : b = job[c].batch
  BY <1>2
<1> PICK h \in BOOLEAN : h <=> Healthy(now)
  OBVIOUS
<1>3. h = Healthy(now)
  BY DEF Healthy
<1> PICK j : j = [Answered(c) EXCEPT !.pc = "futures_time", !.asOf = now, !.healthy = h]
  OBVIOUS
<1>4. now \in Times /\ now \in Int /\ wall \in Int /\ MaxOffset \in Nat
  BY <1>2, AcquisitionAssumption DEF TypeOK
<1>5. /\ j \in Job /\ j.pc = "futures_time" /\ j.asOf = now /\ j.healthy = h
      /\ j.batch = b /\ j.receipts = job[c].receipts + 1 /\ j.configs = {}
      /\ j.candidates = job[c].candidates /\ j.asked = job[c].asked
  BY <1>2, <1>4, AnsweredFacts DEF Job
<1>6. job' = [job EXCEPT ![c] = j] /\ job'[c] = j /\ lock' = c
      /\ UNCHANGED <<now, wall, book, corrections, batch, observations, checkpoint>>
  BY <1>2, <1>3 DEF ReadSpotClock, TypeOK, worldVars
<1>7. /\ receipts' \in [Batch -> Nat]
      /\ \A d \in Batch : d # b => receipts'[d] = receipts[d]
      /\ receipts'[b] = receipts[b] + 1
      /\ configs' \subseteq Batch /\ \A d \in configs' : receipts'[d] > Len(Clocks)
      /\ FilesStand'
  BY <1>1, PersistFacts
<1>8. /\ job[c].receipts = receipts[b] /\ job[c].receipts \in Nat
      /\ job[c].candidates = {} /\ job[c].asked = 0
  BY <1>1, <1>2 DEF JobStands, Job
<1>9. h => now - MaxOffset <= wall
  BY <1>4 DEF Healthy
<1>10. Running' = Running
  BY <1>6, WindowSame
<1>11. JobStands(c)'
  <2>1. /\ j.receipts = receipts'[j.batch] /\ j.receipts >= 1 /\ j.candidates = {}
        /\ j.asked = 0 /\ j.batch \in Running' /\ j.batch # 0
    BY <1>2, <1>5, <1>7, <1>8, <1>10, BatchNotZero
  <2>2. now' = now /\ wall' = wall /\ now <= now
    BY <1>4, <1>6
  <2> QED
    BY <1>4, <1>5, <1>6, <1>9, <2>1, <2>2 DEF JobStands, Capturing
<1>12. b \in Running
  BY <1>2
<1> QED
  BY <1>2, <1>5, <1>6, <1>7, <1>11, <1>12, CollectorMoves

\* Nobody's candidates are disturbed while neither the local clock nor the
\* observations change.
LEMMA CandidatesKept ==
    ASSUME NEW i, NEW j, CandidatesStand(i), UNCHANGED <<wall, observations>>,
           j.candidates = i.candidates, j.asked = i.asked, j.window = i.window
    PROVE CandidatesStand(j)'
BY DEF CandidatesStand

LEMMA EarlierOf ==
    ASSUME NEW s \in Int, NEW t \in Int, NEW m, m = Min({s, t})
    PROVE m <= s /\ (m = s \/ m = t)
BY OfTwo

LEMMA ReadFuturesClockKeeps ==
    ASSUME JournalInv, NEW c \in Collectors, ReadFuturesClock(c)
    PROVE JournalInv'
<1>1. Underway(c) /\ job[c].pc = "futures_time" /\ Persist(c, {})
  BY DEF ReadFuturesClock, Underway
<1>2. /\ TypeOK /\ job[c] \in Job /\ lock = c /\ job[c].batch \in Running
      /\ job[c].batch \in Batch /\ JobStands(c)
  BY <1>1, UnderwayFacts
<1> PICK b \in Batch : b = job[c].batch
  BY <1>2
<1> PICK lag \in Lags :
        LET asOf == Min({job[c].asOf, now - lag})
            window == Window(asOf)
            sound == /\ job[c].healthy /\ Healthy(now - lag)
                     /\ ~GapTooLong(asOf) /\ window[1] <= window[2]
        IN /\ Persist(c, {})
           /\ IF sound
              THEN job' = [job EXCEPT ![c] = [Answered(c) EXCEPT
                             !.pc = "info", !.asOf = asOf, !.window = window]]
              ELSE GiveUp(c, "raise")
  BY DEF ReadFuturesClock
<1> PICK asOf : asOf = Min({job[c].asOf, now - lag})
  OBVIOUS
<1> PICK window : window = Window(asOf)
  OBVIOUS
<1>3. /\ now \in Times /\ now \in Int /\ wall \in Int /\ MaxOffset \in Nat /\ lag \in Nat
      /\ job[c].asOf \in Times /\ job[c].asOf \in Int /\ job[c].asOf <= now
      /\ job[c].healthy => job[c].asOf - MaxOffset <= wall
      /\ Interval + Margin \in Int
  <2>1. /\ job[c].asOf \in Times /\ job[c].asOf <= now
        /\ job[c].healthy => job[c].asOf - MaxOffset <= wall
    BY <1>1, <1>2 DEF JobStands
  <2>2. now \in Times /\ wall \in Int
    BY <1>2 DEF TypeOK
  <2> QED
    BY <2>1, <2>2, ClockFacts
<1>4. /\ asOf \in Int /\ Interval + Margin <= asOf /\ asOf <= now /\ asOf <= job[c].asOf
  <2>1. now - lag \in Int /\ Interval + Margin <= now - lag
        /\ Interval + Margin <= job[c].asOf - lag /\ now - lag <= now
    BY <1>3, ClockFacts
  <2> PICK s \in Int, t \in Int : s = job[c].asOf /\ t = now - lag
    BY <1>3, <2>1
  <2>2. asOf <= s /\ (asOf = s \/ asOf = t)
    BY EarlierOf
  <2>3. Interval + Margin <= s
    BY <1>3, <2>1
  <2>4. s <= now /\ t <= now /\ Interval + Margin <= t
    BY <1>3, <2>1
  <2>5. s \in Int /\ t \in Int /\ s = job[c].asOf
    BY <1>3, <2>1
  <2> QED
    BY <2>2, <2>3, <2>4, <2>5
<1>5. /\ receipts' \in [Batch -> Nat]
      /\ \A d \in Batch : d # b => receipts'[d] = receipts[d]
      /\ receipts'[b] = receipts[b] + 1
      /\ configs' \subseteq Batch /\ \A d \in configs' : receipts'[d] > Len(Clocks)
      /\ FilesStand'
  BY <1>1, PersistFacts
<1>6. lock' = c
      /\ UNCHANGED <<now, wall, book, corrections, batch, observations, checkpoint>>
  BY <1>2 DEF ReadFuturesClock, worldVars
<1>7. ASSUME GiveUp(c, "raise") PROVE JournalInv'
  BY <1>1, <1>5, <1>6, <1>7, GivesUp
<1>8. ASSUME job[c].healthy, window[1] <= window[2],
             job' = [job EXCEPT ![c] = [Answered(c) EXCEPT
                             !.pc = "info", !.asOf = asOf, !.window = window]]
      PROVE JournalInv'
  <2> PICK j : j = [Answered(c) EXCEPT !.pc = "info", !.asOf = asOf, !.window = window]
    OBVIOUS
  <2>1. window \in Int \X Int
    BY <1>2, <1>4, WindowFacts DEF JournalInv
  <2>2. /\ j \in Job /\ j.pc = "info" /\ j.asOf = asOf /\ j.window = window
        /\ j.batch = b /\ j.receipts = job[c].receipts + 1 /\ j.configs = {}
        /\ j.candidates = job[c].candidates /\ j.asked = job[c].asked
    BY <1>2, <1>4, <2>1, AnsweredFacts DEF Job
  <2>3. job' = [job EXCEPT ![c] = j] /\ job'[c] = j
    BY <1>2, <1>8 DEF TypeOK
  <2>4. /\ job[c].receipts = receipts[b] /\ job[c].receipts \in Nat /\ job[c].receipts >= 1
        /\ job[c].candidates = {} /\ job[c].asked = 0
    BY <1>1, <1>2 DEF JobStands, Job
  <2>5. Running' = Running /\ Window(asOf)' = Window(asOf)
    BY <1>6, WindowSame
  <2>6. asOf - MaxOffset <= wall
    BY <1>3, <1>4, <1>8
  <2>7. CandidatesStand(j)'
    BY <2>2, <2>4 DEF CandidatesStand
  <2>8. /\ j.receipts = receipts'[j.batch] /\ j.receipts >= 2 /\ j.candidates = {}
        /\ j.asked = 0 /\ j.batch \in Running' /\ j.batch # 0
    BY <1>2, <1>5, <2>2, <2>4, <2>5, BatchNotZero
  <2>9. j.window = Window(asOf)' /\ j.window[1] <= j.window[2]
        /\ asOf <= now' /\ asOf - MaxOffset <= wall'
    BY <1>4, <1>6, <1>8, <2>2, <2>5, <2>6
  <2>10. lock' = c /\ j.receipts \in Nat /\ j.receipts >= 1
    <3>1. lock' = c /\ j.receipts \in Nat
      BY <1>6, <2>2 DEF Job
    <3> QED
      BY <2>8, <3>1
  <2>11. JobStands(c)'
    BY <1>4, <2>2, <2>3, <2>7, <2>8, <2>9, <2>10 DEF JobStands, Capturing
  <2>12. b \in Running
    BY <1>2
  <2> QED
    BY <1>2, <1>5, <1>6, <2>2, <2>3, <2>11, <2>12, CollectorMoves
<1> QED
  BY <1>7, <1>8

LEMMA ReadFundingInfoKeeps ==
    ASSUME JournalInv, NEW c \in Collectors, ReadFundingInfo(c)
    PROVE JournalInv'
<1>1. Underway(c) /\ job[c].pc = "info" /\ Persist(c, {Info})
  BY DEF ReadFundingInfo, Underway
<1>2. /\ TypeOK /\ job[c] \in Job /\ lock = c /\ job[c].batch \in Running
      /\ job[c].batch \in Batch /\ JobStands(c)
  BY <1>1, UnderwayFacts
<1> PICK b \in Batch : b = job[c].batch
  BY <1>2
<1> PICK j : j = [Answered(c) EXCEPT !.pc = "feeds", !.configs = {b}]
  OBVIOUS
<1>3. /\ j \in Job /\ j.pc = "feeds" /\ j.asOf = job[c].asOf /\ j.window = job[c].window
      /\ j.batch = b /\ j.receipts = job[c].receipts + 1 /\ j.configs = {b}
      /\ j.candidates = job[c].candidates /\ j.asked = job[c].asked
  BY <1>2, AnsweredFacts DEF Job
<1>4. job' = [job EXCEPT ![c] = j] /\ job'[c] = j /\ lock' = c
      /\ UNCHANGED <<now, wall, book, corrections, batch, observations, checkpoint>>
  BY <1>2 DEF ReadFundingInfo, TypeOK, worldVars
<1>5. /\ receipts' \in [Batch -> Nat]
      /\ \A d \in Batch : d # b => receipts'[d] = receipts[d]
      /\ receipts'[b] = receipts[b] + 1
      /\ configs' \subseteq Batch /\ \A d \in configs' : receipts'[d] > Len(Clocks)
      /\ FilesStand'
  BY <1>1, PersistFacts
<1>6. /\ job[c].receipts = receipts[b] /\ job[c].receipts \in Nat /\ job[c].receipts >= 2
      /\ Interval + Margin <= job[c].asOf /\ job[c].asOf <= now
      /\ job[c].asOf - MaxOffset <= wall
      /\ job[c].window = Window(job[c].asOf) /\ job[c].window[1] <= job[c].window[2]
      /\ CandidatesStand(job[c])
  BY <1>1, <1>2 DEF JobStands, Job, Capturing
<1>7. Running' = Running /\ \A a : Window(a)' = Window(a)
  BY <1>4, WindowSame
<1>8. CandidatesStand(j)'
  BY <1>3, <1>4, <1>6, CandidatesKept
<1>9. /\ j.receipts = receipts'[j.batch] /\ j.receipts >= 3
      /\ j.batch \in Running' /\ j.batch # 0
  BY <1>2, <1>3, <1>5, <1>6, <1>7, BatchNotZero
<1>10. j.window = Window(j.asOf)'
  BY <1>3, <1>6, <1>7
<1>11. JobStands(c)'
  <2>0. j.receipts \in Nat
    BY <1>3 DEF Job
  <2>1. j.receipts >= 1 /\ j.receipts >= 2
    BY <1>9, <2>0
  <2> QED
    BY <1>3, <1>4, <1>6, <1>8, <1>9, <1>10, <2>1 DEF JobStands, Capturing
<1> QED
  BY <1>2, <1>3, <1>4, <1>5, <1>11, CollectorMoves

\* While it reads feeds a capture knows where it begins, where it ends, and that
\* its end is closed by both clocks.
LEMMA CapturingFacts ==
    ASSUME JournalInv, NEW c \in Collectors, job[c].pc \in Capturing
    PROVE /\ job[c].window \in Int \X Int /\ job[c].window = Window(job[c].asOf)
          /\ job[c].window[1] \in Int /\ job[c].window[2] \in Int
          /\ 0 <= job[c].window[1] /\ job[c].window[1] <= job[c].window[2]
          /\ job[c].asOf \in Int /\ now \in Int /\ wall \in Int
          /\ Interval + Margin <= job[c].asOf /\ job[c].asOf <= now
          /\ IsHour(job[c].window[2]) /\ 0 < job[c].window[2]
          /\ job[c].window[2] <= job[c].asOf - Margin
          /\ job[c].asOf - Margin <= job[c].asOf
          /\ job[c].asOf - Margin <= wall
          /\ CandidatesStand(job[c]) /\ job[c].receipts >= 2
<1>1. Underway(c)
  BY DEF Underway, Capturing
<1>2. TypeOK /\ job[c] \in Job /\ JobStands(c)
  BY <1>1, UnderwayFacts
<1> PICK asOf : asOf = job[c].asOf
  OBVIOUS
<1> PICK window : window = job[c].window
  OBVIOUS
<1>3. /\ Interval + Margin <= asOf /\ asOf <= now /\ asOf - MaxOffset <= wall
      /\ window = Window(asOf) /\ window[1] <= window[2] /\ CandidatesStand(job[c])
      /\ job[c].receipts >= 2
  BY <1>2 DEF JobStands
<1>4. asOf \in Int /\ now \in Int /\ wall \in Int /\ window \in Int \X Int
  BY <1>2, AcquisitionAssumption DEF TypeOK, Job
<1>5. /\ window[2] <= asOf - Margin /\ IsHour(window[2]) /\ 0 < window[2] /\ 0 <= window[1]
  BY <1>2, <1>3, <1>4, WindowFacts DEF JournalInv
<1>6. asOf - Margin <= asOf /\ asOf - Margin <= wall
  BY <1>3, <1>4, ClockFacts
<1>7. window[1] \in Int /\ window[2] \in Int
  BY <1>4
<1> QED
  BY <1>3, <1>4, <1>5, <1>6, <1>7

LEMMA EndOf ==
    ASSUME NEW from \in Int, NEW to \in Int, from <= to, NEW last, last = Max({from, to - 1})
    PROVE last \in Int /\ from <= last /\ to - 1 <= last /\ last <= to
<1>1. to - 1 \in Int
  OBVIOUS
<1>2. last = IF from >= to - 1 THEN from ELSE to - 1
  BY <1>1, OfTwo
<1> QED
  BY <1>1, <1>2

\* What an answer brings: events of its feed, each once, that are over.
LEMMA AnswerFacts ==
    ASSUME JournalInv, NEW c \in Collectors, job[c].pc = "feeds", job[c].asked < Len(Order),
           NEW C, C = Candidates(c, NextAnswer(c))
    PROVE /\ \A x \in C : /\ x \in Candidate /\ x.event.feed = Order[job[c].asked + 1]
                          /\ job[c].window[1] <= x.event.time
                          /\ x.event.time <= wall /\ x.available = wall
                          /\ x.payload = book[x.event]
          /\ \A e \in Events :
               e.feed = Order[job[c].asked + 1] /\ e.opens \in job[c].window[1] .. job[c].window[2] - 1
                 => \E x \in C : x.event = e
<1> PICK from, to, asOf, f : /\ from = job[c].window[1] /\ to = job[c].window[2]
                             /\ asOf = job[c].asOf /\ f = Order[job[c].asked + 1]
  OBVIOUS
<1>1. /\ from \in Int /\ to \in Int /\ from <= to /\ asOf \in Int /\ now \in Int /\ wall \in Int
      /\ asOf <= now /\ IsHour(to) /\ to <= asOf - Margin /\ asOf - Margin <= wall
      /\ asOf - Margin <= asOf
  BY CapturingFacts DEF Capturing
<1> PICK last : last = Max({from, to - 1})
  OBVIOUS
<1>2. last \in Int /\ from <= last /\ to - 1 <= last /\ last <= to
  BY <1>1, EndOf
<1>3. Interval \in Nat \ {0} /\ Margin \in Nat
  BY ClockFacts
<1> DEFINE A == {[event |-> e, payload |-> book[e]] :
                   e \in {x \in Events : x.feed = f /\ x.opens \in from .. last /\ x.opens <= now}}
           D == {y \in A : Settled(y.event, asOf) /\ y.event.time \in from .. to + Interval - 1}
<1>4. NextAnswer(c) = A
  BY DEF NextAnswer, NextFeed, Answer
<1>5. C = {[event |-> x.event, payload |-> x.payload, available |-> wall] : x \in D}
  BY <1>4 DEF Candidates
<1>6. ASSUME NEW x \in C
      PROVE /\ x \in Candidate /\ x.event.feed = f /\ from <= x.event.time
            /\ x.event.time <= wall /\ x.available = wall /\ x.payload = book[x.event]
  <2> PICK y \in D : x = [event |-> y.event, payload |-> y.payload, available |-> wall]
    BY <1>5
  <2> PICK e \in Events : /\ e.feed = f /\ e.opens \in from .. last /\ e.opens <= now
                          /\ y = [event |-> e, payload |-> book[e]]
                          /\ Settled(e, asOf) /\ e.time \in from .. to + Interval - 1
    <3>1. y \in A /\ Settled(y.event, asOf) /\ y.event.time \in from .. to + Interval - 1
      OBVIOUS
    <3> PICK e \in {x1 \in Events : x1.feed = f /\ x1.opens \in from .. last /\ x1.opens <= now} :
                y = [event |-> e, payload |-> book[e]]
      BY <3>1
    <3>2. y.event = e
      OBVIOUS
    <3> QED
      BY <3>1, <3>2
  <2>1. x = [event |-> e, payload |-> book[e], available |-> wall]
    OBVIOUS
  <2>2. book[e] \in Payloads
    BY DEF JournalInv, TypeOK
  <2>3. e.time \in Int /\ from <= e.time
    BY <1>1, EventFacts
  <2>4. e.time <= wall
    <3>1. CASE e.feed \in BarFeeds
      <4>1. e.time < asOf - Margin
        BY <3>1 DEF Settled
      <4> QED
        BY <1>1, <1>3, <2>3, <4>1
    <3>2. CASE e.feed \notin BarFeeds
      <4>1. e.time = e.opens
        BY <3>2, EventFacts
      <4>2. e.opens <= last
        BY <1>1
      <4> QED
        BY <1>1, <1>2, <1>3, <2>3, <4>1, <4>2
    <3> QED
      BY <3>1, <3>2
  <2> QED
    BY <1>1, <2>1, <2>2, <2>3, <2>4 DEF Candidate
<1>7. ASSUME NEW e \in Events, e.feed = f, e.opens \in from .. to - 1
      PROVE \E x \in C : x.event = e
  <2>1. e.opens \in Int /\ from <= e.opens /\ e.opens <= to - 1
    BY <1>1, <1>7
  <2>2. /\ e.time \in Int /\ e.opens <= e.time /\ e.opens < to
        /\ e.feed \notin BarFeeds => e.time = e.opens
    BY <1>1, <2>1, EventFacts
  <2>3. e.time < to
    BY <1>1, <2>2, EndsBefore
  <2>4. Settled(e, asOf)
    <3> PICK m \in Int : m = asOf - Margin
      BY <1>1, <1>3
    <3>1. e.time < m /\ e.time <= asOf
      BY <1>1, <2>2, <2>3
    <3> QED
      BY <3>1 DEF Settled
  <2>5. e.opens \in from .. last /\ e.opens <= now /\ e.time \in from .. to + Interval - 1
    <3> PICK m \in Int : m = asOf - Margin
      BY <1>1, <1>3
    <3> PICK end \in Int : end = to + Interval - 1 /\ to <= end
      BY <1>1, <1>3
    <3>1. e.opens <= last /\ from <= e.time /\ e.time <= end
      <4>1. e.opens <= last
        BY <1>1, <1>2, <2>1
      <4>2. from <= e.time
        BY <1>1, <2>1, <2>2
      <4>3. e.time <= end
        BY <1>1, <2>2, <2>3
      <4> QED
        BY <4>1, <4>2, <4>3
    <3>2. e.opens <= now
      <4>1. e.opens <= asOf
        BY <1>1, <2>1, <2>2
      <4> QED
        BY <1>1, <2>1, <4>1
    <3> QED
      BY <1>1, <1>2, <2>1, <2>2, <3>1, <3>2
  <2> PICK y : y = [event |-> e, payload |-> book[e]]
    OBVIOUS
  <2>6. y \in A /\ y.event = e
    BY <1>7, <2>5
  <2>7. y \in D
    BY <2>4, <2>5, <2>6
  <2>8. [event |-> y.event, payload |-> y.payload, available |-> wall] \in C
    BY <1>5, <2>7
  <2> QED
    BY <2>6, <2>8
<1> QED
  BY <1>6, <1>7

LEMMA AvailableByNow ==
    ASSUME JournalInv
    PROVE \A o \in observations : o.event \in Events /\ o.available \in Int /\ o.available <= wall
<1> SUFFICES ASSUME NEW o \in observations
             PROVE o.event \in Events /\ o.available \in Int /\ o.available <= wall
  OBVIOUS
<1>1. o \in Observation
  BY DEF JournalInv, TypeOK
<1>2. o.event \in Events /\ o.available \in Int
  BY <1>1 DEF Observation
<1>3. ChainStands(o.event)
  BY <1>2 DEF JournalInv
<1> QED
  BY <1>2, <1>3 DEF ChainStands

LEMMA ReadFeedKeeps ==
    ASSUME JournalInv, NEW c \in Collectors, ReadFeed(c)
    PROVE JournalInv'
<1>1. Underway(c) /\ job[c].pc = "feeds" /\ Persist(c, {FeedBody(NextAnswer(c))})
      /\ job[c].asked < Len(Order)
  BY DEF ReadFeed, Underway
<1>2. /\ TypeOK /\ job[c] \in Job /\ lock = c /\ job[c].batch \in Running
      /\ job[c].batch \in Batch /\ JobStands(c)
  BY <1>1, UnderwayFacts
<1> PICK b \in Batch : b = job[c].batch
  BY <1>2
<1> PICK i : i = job[c]
  OBVIOUS
<1> PICK C : C = Candidates(c, NextAnswer(c))
  OBVIOUS
<1>3. /\ \A x \in C : /\ x \in Candidate /\ x.event.feed = Order[i.asked + 1]
                      /\ i.window[1] <= x.event.time
                      /\ x.event.time <= wall /\ x.available = wall
                      /\ x.payload = book[x.event]
      /\ \A e \in Events :
           e.feed = Order[i.asked + 1] /\ e.opens \in i.window[1] .. i.window[2] - 1
             => \E x \in C : x.event = e
  BY <1>1, AnswerFacts
<1> PICK n : n = i.asked + 1
  OBVIOUS
<1> PICK D : D = i.candidates \cup C
  OBVIOUS
<1> PICK j : j = [Answered(c) EXCEPT !.asked = n, !.candidates = D]
  OBVIOUS
<1>4. i \in Job /\ i.asked \in Nat /\ n \in 1 .. Len(Order) /\ i.candidates \subseteq Candidate
      /\ n = i.asked + 1
  BY <1>1, <1>2, FeedsFacts DEF Job
<1>5. D \subseteq Candidate
  BY <1>3, <1>4
<1>6. /\ j \in Job /\ j.pc = "feeds" /\ j.asOf = i.asOf /\ j.window = i.window
      /\ j.batch = b /\ j.receipts = i.receipts + 1 /\ j.configs = {}
      /\ j.candidates = D /\ j.asked = n
  <2>1. Answered(c).pc = "feeds"
    BY <1>1, <1>2 DEF Answered, Job
  <2>2. n \in 0 .. Len(Order)
    BY <1>4, FeedsFacts
  <2> QED
    BY <1>2, <1>5, <2>1, <2>2, AnsweredFacts DEF Job
<1>7. job' = [job EXCEPT ![c] = j] /\ job'[c] = j /\ lock' = c
      /\ UNCHANGED <<now, wall, book, corrections, batch, observations, checkpoint>>
  <2>1. job' = [job EXCEPT ![c] = [Answered(c) EXCEPT
               !.asked = @ + 1, !.candidates = @ \cup Candidates(c, NextAnswer(c))]]
    BY DEF ReadFeed
  <2>2. [Answered(c) EXCEPT !.asked = @ + 1, !.candidates = @ \cup Candidates(c, NextAnswer(c))] = j
    BY <1>2, AnsweredFacts DEF Job
  <2> QED
    BY <1>2, <2>1, <2>2 DEF ReadFeed, TypeOK, worldVars
<1>8. /\ receipts' \in [Batch -> Nat]
      /\ \A d \in Batch : d # b => receipts'[d] = receipts[d]
      /\ receipts'[b] = receipts[b] + 1
      /\ configs' \subseteq Batch /\ \A d \in configs' : receipts'[d] > Len(Clocks)
      /\ FilesStand'
  BY <1>1, PersistFacts
<1>9. /\ i.receipts = receipts[b] /\ i.receipts \in Nat /\ i.receipts >= 3
      /\ Interval + Margin <= i.asOf /\ i.asOf <= now /\ i.asOf - MaxOffset <= wall
      /\ i.window = Window(i.asOf) /\ i.window[1] <= i.window[2] /\ CandidatesStand(i)
  BY <1>1, <1>2 DEF JobStands, Job, Capturing
<1>10. Running' = Running /\ \A a : Window(a)' = Window(a)
  BY <1>7, WindowSame
<1>11. CandidatesStand(j)'
  <2>1. \A x, y \in i.candidates : x.event = y.event => x = y
    BY <1>9 DEF CandidatesStand
  <2>2. \A x, y \in C : x.event = y.event => x = y
    BY <1>3 DEF Candidate
  <2>3. \A x \in i.candidates, y \in C : x.event # y.event
    <3> SUFFICES ASSUME NEW x \in i.candidates, NEW y \in C, x.event = y.event PROVE FALSE
      OBVIOUS
    <3> PICK k \in 1 .. i.asked : x.event.feed = Order[k]
      BY <1>9 DEF CandidatesStand
    <3>1. Order[k] = Order[n] /\ k \in 1 .. Len(Order) /\ k # n
      BY <1>3, <1>4, FeedsFacts
    <3> QED
      BY <1>4, <3>1, FeedsFacts, AcquisitionAssumption
  <2>4. \A x, y \in D : x.event = y.event => x = y
    BY <2>1, <2>2, <2>3
  <2>5. ASSUME NEW x \in D
        PROVE /\ \E k \in 1 .. n : x.event.feed = Order[k]
              /\ i.window[1] <= x.event.time
              /\ x.event.time <= x.available /\ x.available <= wall
              /\ \A o \in observations : o.available <= x.available
    <3>1. CASE x \in i.candidates
      <4>1. \A k \in 1 .. i.asked : k \in 1 .. n
        BY <1>4, FeedsFacts
      <4> QED
        BY <1>9, <3>1, <4>1 DEF CandidatesStand
    <3>2. CASE x \in C
      <4>1. wall \in Int /\ n \in 1 .. n
        BY <1>2, <1>4, FeedsFacts DEF TypeOK
      <4>2. x.available = wall /\ \A o \in observations : o.available <= wall
        BY <1>3, <3>2, AvailableByNow
      <4> QED
        BY <1>3, <3>2, <4>1, <4>2
    <3> QED
      BY <2>5, <3>1, <3>2
  <2>6. ASSUME NEW k \in 1 .. n, NEW e \in Events, e.feed = Order[k],
               e.opens \in i.window[1] .. i.window[2] - 1
        PROVE \E x \in D : x.event = e
    <3>1. CASE k = n
      BY <1>3, <2>6, <3>1
    <3>2. CASE k # n
      <4>1. k \in 1 .. i.asked
        BY <1>4, <3>2, FeedsFacts
      <4> QED
        BY <1>9, <2>6, <4>1 DEF CandidatesStand
    <3> QED
      BY <3>1, <3>2
  <2>7. wall' = wall /\ observations' = observations
    BY <1>7
  <2> QED
    BY <1>6, <2>4, <2>5, <2>6, <2>7 DEF CandidatesStand
<1>12. /\ j.receipts = receipts'[j.batch] /\ j.receipts >= 3
       /\ j.batch \in Running' /\ j.batch # 0
  BY <1>2, <1>6, <1>8, <1>9, <1>10, BatchNotZero
<1>13. /\ j.window = Window(j.asOf)' /\ Interval + Margin <= j.asOf /\ j.asOf <= now'
       /\ j.asOf - MaxOffset <= wall' /\ j.window[1] <= j.window[2]
  BY <1>6, <1>7, <1>9, <1>10
<1>14. j.receipts >= 1 /\ j.receipts >= 2
  <2>1. j.receipts \in Nat
    BY <1>6 DEF Job
  <2> QED
    BY <1>12, <2>1
<1>15. JobStands(c)'
  BY <1>6, <1>7, <1>11, <1>12, <1>13, <1>14 DEF JobStands, Capturing
<1>16. /\ b \in Running /\ lock = c /\ lock' \in {c, NoOne} /\ j \in Job
       /\ job' = [job EXCEPT ![c] = j]
       /\ UNCHANGED <<now, wall, book, corrections, batch, observations, checkpoint>>
  BY <1>2, <1>6, <1>7
<1> QED
  BY <1>8, <1>15, <1>16, CollectorMoves

LEMMA AddObservationsKeeps ==
    ASSUME JournalInv, NEW c \in Collectors, AddObservations(c)
    PROVE JournalInv'
<1>1. Underway(c) /\ job[c].pc = "feeds" /\ job[c].asked = Len(Order)
  BY DEF AddObservations, Underway
<1>2. /\ TypeOK /\ job[c] \in Job /\ lock = c /\ job[c].batch \in Running
      /\ job[c].batch \in Batch /\ JobStands(c) /\ BatchesStand
  BY <1>1, UnderwayFacts DEF JournalInv
<1> PICK b \in Batch : b = job[c].batch
  BY <1>2
<1> PICK i : i = job[c]
  OBVIOUS
<1> PICK R : R = {RowOf(c, x) : x \in {y \in i.candidates : IsNews(y)}}
  OBVIOUS
<1>3. R \subseteq Observation
  <2> SUFFICES ASSUME NEW x \in i.candidates PROVE RowOf(c, x) \in Observation
    OBVIOUS
  <2>1. x \in Candidate /\ x.event \in Events
    BY <1>2 DEF Job, Candidate
  <2> QED
    BY <1>2, <2>1, RowFacts DEF JournalInv
<1> PICK j : j = [i EXCEPT !.pc = "rows", !.rows = R]
  OBVIOUS
<1>4. /\ j \in Job /\ j.pc = "rows" /\ j.asOf = i.asOf /\ j.window = i.window
      /\ j.batch = b /\ j.receipts = i.receipts /\ j.configs = i.configs
      /\ j.candidates = i.candidates /\ j.asked = Len(Order) /\ j.asked = i.asked /\ j.rows = R
  BY <1>1, <1>2, <1>3 DEF Job
<1>5. /\ job' = [job EXCEPT ![c] = j] /\ job'[c] = j /\ lock' = c
      /\ UNCHANGED <<now, wall, book, corrections, batch, observations, checkpoint>>
      /\ UNCHANGED <<whole, torn, registered, receipts, configs>>
  BY <1>2 DEF AddObservations, TypeOK, worldVars, fileVars, journalVars
<1>6. /\ i.receipts = receipts[b] /\ i.receipts \in Nat /\ i.receipts >= 3
      /\ Interval + Margin <= i.asOf /\ i.asOf <= now /\ i.asOf - MaxOffset <= wall
      /\ i.window = Window(i.asOf) /\ i.window[1] <= i.window[2] /\ CandidatesStand(i)
      /\ i.configs \subseteq {b}
  BY <1>1, <1>2 DEF JobStands, Job, Capturing
<1>7. /\ Running' = Running /\ \A a : Window(a)' = Window(a)
      /\ \A e : Revisions(e)' = Revisions(e) /\ Latest(e)' = Latest(e)
  BY <1>5, WindowSame
<1>8. CandidatesStand(j)'
  <2>1. /\ CandidatesStand(i) /\ UNCHANGED <<wall, observations>>
        /\ j.candidates = i.candidates /\ j.asked = i.asked /\ j.window = i.window
    BY <1>4, <1>5, <1>6
  <2> QED
    BY <2>1, CandidatesKept
<1>9. R = {RowOf(c, x) : x \in {y \in i.candidates : IsNews(y)}}'
  <2>1. job'[c].batch = job[c].batch
    BY <1>4, <1>5
  <2>2. \A x : RowOf(c, x)' = RowOf(c, x) /\ (IsNews(x)' <=> IsNews(x))
    BY <1>7, <2>1 DEF RowOf, IsNews
  <2> QED
    BY <2>2
<1>10. /\ j.receipts = receipts'[j.batch] /\ j.receipts >= 3
       /\ j.batch \in Running' /\ j.batch # 0 /\ j.receipts >= 1 /\ j.receipts >= 2
  BY <1>2, <1>4, <1>5, <1>6, <1>7, BatchNotZero
<1>11. /\ j.window = Window(j.asOf)' /\ Interval + Margin <= j.asOf /\ j.asOf <= now'
       /\ j.asOf - MaxOffset <= wall' /\ j.window[1] <= j.window[2]
       /\ j.configs \subseteq {j.batch}
  BY <1>4, <1>5, <1>6, <1>7
<1>12. JobStands(c)'
  BY <1>4, <1>5, <1>8, <1>9, <1>10, <1>11 DEF JobStands, Capturing
<1>13. /\ b \in Running /\ lock = c /\ lock' \in {c, NoOne} /\ j \in Job
       /\ job' = [job EXCEPT ![c] = j] /\ FilesStand'
       /\ UNCHANGED <<now, wall, book, corrections, batch, observations, checkpoint>>
  BY <1>2, <1>4, <1>5 DEF JournalInv, FilesStand
<1>14. /\ receipts' \in [Batch -> Nat] /\ \A d \in Batch : d # b => receipts'[d] = receipts[d]
       /\ configs' \subseteq Batch /\ \A d \in configs' : receipts'[d] > Len(Clocks)
  BY <1>5, NothingWritten
<1> QED
  BY <1>12, <1>13, <1>14, CollectorMoves

\* A capture that fails, for whatever reason.
LEMMA FailuresKeep ==
    ASSUME JournalInv, NEW c \in Collectors,
           \/ CheckpointRegression(c) \/ RequestFails(c) \/ WriteFails(c) \/ ObjectConflict(c)
           \/ JournalBusy(c) \/ Die(c)
    PROVE JournalInv'
<1> USE DEF worldVars
<1>1. Underway(c)
  BY DEF CheckpointRegression, RequestFails, WriteFails, ObjectConflict, JournalBusy, Die,
         Asking, Underway
<1>2. lock = c /\ FilesStand
  BY <1>1, UnderwayFacts
<1>3. UNCHANGED <<now, wall, book, corrections, batch, observations, checkpoint>>
  BY DEF CheckpointRegression, RequestFails, WriteFails, ObjectConflict, JournalBusy, Die,
         journalVars
<1>4. \E pc \in {"raise", "lost"} : /\ GiveUp(c, pc) /\ lock' \in {c, NoOne}
                                    /\ pc = "raise" => lock' = c
  BY <1>2 DEF CheckpointRegression, RequestFails, WriteFails, ObjectConflict, JournalBusy, Die
<1> PICK pc \in {"raise", "lost"} : /\ GiveUp(c, pc) /\ lock' \in {c, NoOne}
                                    /\ pc = "raise" => lock' = c
  BY <1>4
<1>5. \/ Persist(c, {})
      \/ /\ UNCHANGED <<receipts, registered, configs>>
         /\ UNCHANGED fileVars \/ FillBody(c) \/ TearBody(c)
  BY DEF CheckpointRegression, RequestFails, WriteFails, ObjectConflict, JournalBusy, Die,
         journalVars
<1>6. CASE Persist(c, {})
  BY <1>1, <1>2, <1>3, <1>6, PersistFacts, GivesUp
<1>7. CASE /\ UNCHANGED <<receipts, registered, configs>>
           /\ UNCHANGED fileVars \/ FillBody(c) \/ TearBody(c)
  <2>1. FilesStand'
    BY <1>2, <1>7, FilesKept
  <2>2. /\ receipts' \in [Batch -> Nat] /\ \A d \in Batch : receipts'[d] = receipts[d]
        /\ configs' \subseteq Batch /\ \A d \in configs' : receipts'[d] > Len(Clocks)
    BY <1>7, NothingWritten
  <2> QED
    BY <1>1, <1>3, <2>1, <2>2, GivesUp
<1> QED
  BY <1>5, <1>6, <1>7

\* No batch becomes complete: the readers of the journal see what they saw.
LEMMA CompleteSame ==
    ASSUME TypeOK, NEW b \in Batch, NEW r, batch' = [batch EXCEPT ![b] = r],
           batch[b].status # "COMPLETE", r.status # "COMPLETE", UNCHANGED observations
    PROVE /\ Status("COMPLETE")' = Status("COMPLETE") /\ Origin' = Origin
          /\ \A e : Revisions(e)' = Revisions(e)
          /\ \A d \in Batch : d # b => batch'[d] = batch[d]
          /\ batch'[b] = r
<1>1. (\A d \in Batch : d # b => batch'[d] = batch[d]) /\ batch'[b] = r
  BY DEF TypeOK
<1>2. Status("COMPLETE")' = Status("COMPLETE")
  BY <1>1 DEF Status
<1> QED
  BY <1>1, <1>2 DEF Origin, Revisions

LEMMA BeginKeeps ==
    ASSUME JournalInv, NEW c \in Collectors, Begin(c)
    PROVE JournalInv'
<1> USE DEF worldVars, fileVars
<1> PICK b : b = Min(Status("NONE"))
  OBVIOUS
<1> PICK r : r = Begun("RUNNING")
  OBVIOUS
<1> PICK j : j = [NoJob EXCEPT !.pc = "spot_time", !.batch = b]
  OBVIOUS
<1>1. /\ lock = NoOne /\ Status("NONE") # {} /\ batch' = [batch EXCEPT ![b] = r]
      /\ job' = [job EXCEPT ![c] = j] /\ lock' = c
      /\ UNCHANGED <<now, wall, book, corrections, whole, torn, receipts, registered,
                     observations, checkpoint, configs>>
  BY DEF Begin
<1>2. b \in Batch /\ batch[b].status = "NONE"
  <2>1. Status("NONE") \in SUBSET Nat /\ Batch \in SUBSET Nat
    BY AcquisitionAssumption DEF Status, Batch
  <2>2. b \in Status("NONE")
    BY <1>1, <2>1, LeastFacts
  <2> QED
    BY <2>2 DEF Status
<1>3. r = [status |-> "RUNNING", receipts |-> 0, observed |-> 0] /\ r.status = "RUNNING"
  BY DEF Begun
<1>4. TypeOK /\ BatchesStand
  BY DEF JournalInv
<1>5. /\ Status("COMPLETE")' = Status("COMPLETE") /\ Origin' = Origin
      /\ \A e : Revisions(e)' = Revisions(e)
      /\ \A d \in Batch : d # b => batch'[d] = batch[d]
      /\ batch'[b] = r
  BY <1>1, <1>2, <1>3, <1>4, CompleteSame
<1>6. /\ j \in Job /\ j.pc = "spot_time" /\ j.batch = b /\ j.receipts = 0 /\ j.configs = {}
      /\ j.candidates = {} /\ j.asked = 0
  BY <1>2, NoJobTyped DEF NoJob
<1>7. TypeOK'
  <2>1. batch' \in [Batch -> [status : {"NONE", "RUNNING", "COMPLETE", "FAILED"},
                              receipts : Nat, observed : Nat]]
    BY <1>1, <1>2, <1>3, <1>4 DEF TypeOK
  <2>2. job' \in [Collectors -> Job]
    BY <1>1, <1>4, <1>6 DEF TypeOK
  <2> QED
    BY <1>1, <1>4, <2>1, <2>2 DEF TypeOK
<1>8. BatchesStand'
  <2>1. \A d \in Batch : d # b => batch'[d] = batch[d]
    BY <1>5
  <2>2. \A d : ObservationsOf(d)' = ObservationsOf(d)
    BY <1>1 DEF ObservationsOf
  <2>3. /\ \A d \in Status("FAILED")' : d \in Status("FAILED") /\ d # b
        /\ \A d \in Status("NONE")' : d \in Status("NONE")
        /\ b \notin Status("COMPLETE")'
    BY <1>2, <1>3, <1>5 DEF Status
  <2>4. \A d \in Status("COMPLETE")' \cup Status("FAILED")' :
           batch[d].receipts = receipts[d] /\ batch[d].observed = Cardinality(ObservationsOf(d))
           /\ batch'[d] = batch[d]
    BY <1>4, <1>5, <2>1, <2>3 DEF BatchesStand, Status
  <2>5. \A d \in Status("NONE")' : receipts'[d] = 0
    BY <1>1, <1>4, <2>3 DEF BatchesStand
  <2>6. /\ \A o \in observations' : o.batch \in Status("COMPLETE")'
        /\ \A d \in configs' : receipts'[d] > Len(Clocks)
    BY <1>1, <1>4, <1>5 DEF BatchesStand
  <2> QED
    BY <1>1, <2>2, <2>4, <2>5, <2>6 DEF BatchesStand
<1>9. (\A e \in Events : ChainStands(e)') /\ FilesStand'
  BY <1>1 DEF JournalInv, ChainStands, FilesStand
<1>10. CheckpointsStand' /\ CheckpointCovers'
  BY <1>1, <1>5 DEF JournalInv, CheckpointsStand, CheckpointCovers
<1>11. JobStands(c)'
  <2>1. receipts'[b] = 0
    BY <1>1, <1>2, <1>4 DEF BatchesStand, Status
  <2>2. b \in Running' /\ b # 0 /\ job'[c] = j
    BY <1>1, <1>2, <1>3, <1>4, <1>5, BatchNotZero DEF Running, Status, TypeOK
  <2> QED
    BY <1>1, <1>6, <2>1, <2>2 DEF JobStands, Capturing
<1>12. ASSUME NEW d \in Collectors PROVE JobStands(d)'
  <2>1. d # c => job'[d] = job[d] /\ JobStands(d)
    BY <1>1, <1>4 DEF JournalInv, TypeOK
  <2> QED
    BY <1>1, <1>11, <2>1, OthersStand
<1> QED
  BY <1>7, <1>8, <1>9, <1>10, <1>12 DEF JournalInv

LEMMA MarkFailedKeeps ==
    ASSUME JournalInv, NEW c \in Collectors, MarkFailed(c)
    PROVE JournalInv'
<1> USE DEF worldVars, fileVars
<1>1. Underway(c)
  BY DEF MarkFailed, Underway
<1>2. /\ TypeOK /\ job[c] \in Job /\ lock = c /\ job[c].batch \in Running
      /\ job[c].batch \in Batch /\ BatchesStand
  BY <1>1, UnderwayFacts DEF JournalInv
<1> PICK b \in Batch : b = job[c].batch
  BY <1>2
<1> PICK r : r = [status |-> "FAILED", receipts |-> receipts[b], observed |-> 0]
  OBVIOUS
<1>3. /\ batch' = [batch EXCEPT ![b] = r] /\ job' = [job EXCEPT ![c] = NoJob] /\ lock' = NoOne
      /\ UNCHANGED <<now, wall, book, corrections, whole, torn, receipts, registered,
                     observations, checkpoint, configs>>
  BY DEF MarkFailed
<1>4. batch[b].status = "RUNNING" /\ r.status = "FAILED"
  BY <1>2 DEF Running, Status
<1>5. /\ Status("COMPLETE")' = Status("COMPLETE") /\ Origin' = Origin
      /\ \A e : Revisions(e)' = Revisions(e)
      /\ \A d \in Batch : d # b => batch'[d] = batch[d]
      /\ batch'[b] = r
  BY <1>2, <1>3, <1>4, CompleteSame
<1>6. TypeOK'
  <2>1. receipts[b] \in Nat
    BY <1>2 DEF TypeOK
  <2>2. batch' \in [Batch -> [status : {"NONE", "RUNNING", "COMPLETE", "FAILED"},
                              receipts : Nat, observed : Nat]]
    BY <1>2, <1>3, <2>1 DEF TypeOK
  <2>3. job' \in [Collectors -> Job]
    BY <1>2, <1>3, NoJobTyped DEF TypeOK
  <2> QED
    BY <1>2, <1>3, <2>2, <2>3 DEF TypeOK
<1>7. BatchesStand'
  <2>1. ObservationsOf(b)' = {}
    BY <1>2, <1>3, <1>4 DEF BatchesStand, ObservationsOf, Status
  <2>2. Cardinality(ObservationsOf(b)') = 0
    BY <2>1, FS_EmptySet
  <2>3. \A d : ObservationsOf(d)' = ObservationsOf(d)
    BY <1>3 DEF ObservationsOf
  <2>4. /\ \A d \in Status("FAILED")' : d = b \/ (d \in Status("FAILED") /\ d # b)
        /\ \A d \in Status("NONE")' : d \in Status("NONE")
        /\ b \notin Status("COMPLETE")'
    BY <1>3, <1>4, <1>5 DEF Status
  <2>5. \A d \in Status("COMPLETE")' \cup Status("FAILED")' : d # b =>
           batch[d].receipts = receipts[d] /\ batch[d].observed = Cardinality(ObservationsOf(d))
           /\ batch'[d] = batch[d]
    BY <1>2, <1>5, <2>4 DEF BatchesStand, Status
  <2>6. batch'[b].receipts = receipts'[b] /\ batch'[b].observed = Cardinality(ObservationsOf(b)')
    BY <1>3, <1>5, <2>2
  <2>7. \A d \in Status("NONE")' : receipts'[d] = 0
    BY <1>2, <1>3, <2>4 DEF BatchesStand
  <2>8. /\ \A o \in observations' : o.batch \in Status("COMPLETE")'
        /\ \A d \in configs' : receipts'[d] > Len(Clocks)
    BY <1>2, <1>3, <1>5 DEF BatchesStand
  <2> QED
    BY <1>3, <2>3, <2>5, <2>6, <2>7, <2>8 DEF BatchesStand
<1>8. (\A e \in Events : ChainStands(e)') /\ FilesStand'
  BY <1>3 DEF JournalInv, ChainStands, FilesStand
<1>9. CheckpointsStand' /\ CheckpointCovers'
  BY <1>3, <1>5 DEF JournalInv, CheckpointsStand, CheckpointCovers
<1>10. JobStands(c)'
  <2>1. job'[c] = NoJob
    BY <1>2, <1>3 DEF TypeOK
  <2> QED
    BY <2>1 DEF JobStands, NoJob, Capturing
<1>11. ASSUME NEW d \in Collectors PROVE JobStands(d)'
  <2>1. d # c => job'[d] = job[d] /\ JobStands(d)
    BY <1>2, <1>3 DEF JournalInv, TypeOK
  <2> QED
    BY <1>2, <1>10, <2>1, OthersStand
<1> QED
  BY <1>6, <1>7, <1>8, <1>9, <1>11 DEF JournalInv

\* What a capture that is about to end will write: for every event it read, a
\* row if the journal has none or another payload; the next revision, available
\* after everything the journal has.
LEMMA FinishFacts ==
    ASSUME JournalInv, NEW c \in Collectors, job[c].pc = "rows", NEW R, R = job[c].rows
    PROVE /\ R \subseteq Observation /\ Cardinality(R) \in Nat
          /\ \A p, q \in R : p.event = q.event => p = q
          /\ \A r \in R : /\ r.batch = job[c].batch
                          /\ r.revision = Cardinality(Chain(r.event)) + 1
                          /\ r.supersedes = r.revision - 1
                          /\ job[c].window[1] <= r.event.time
                          /\ r.event.time <= r.available /\ r.available <= wall
                          /\ \A o \in observations : o.available <= r.available
                          /\ Chain(r.event) # {} => Latest(r.event).payload # r.payload
          /\ \A e \in Events : e.opens \in job[c].window[1] .. job[c].window[2] - 1
                => Chain(e) # {} \/ \E r \in R : r.event = e
<1>1. Underway(c)
  BY DEF Underway
<1>2. /\ TypeOK /\ job[c] \in Job /\ job[c].batch \in Batch /\ JobStands(c) /\ BatchesStand
  BY <1>1, UnderwayFacts DEF JournalInv
<1> PICK i : i = job[c]
  OBVIOUS
<1>3. /\ CandidatesStand(i) /\ i.asked = Len(Order) /\ i.candidates \subseteq Candidate
      /\ R = {RowOf(c, x) : x \in {y \in i.candidates : IsNews(y)}}
  BY <1>2 DEF JobStands, Job, Capturing
<1>4. ASSUME NEW x \in i.candidates
      PROVE /\ x \in Candidate /\ x.event \in Events /\ Cardinality(Chain(x.event)) \in Nat
            /\ RowOf(c, x) \in Observation /\ RowOf(c, x).event = x.event
            /\ RowOf(c, x).available = x.available /\ RowOf(c, x).payload = x.payload
            /\ RowOf(c, x).batch = i.batch
            /\ RowOf(c, x).revision = Cardinality(Chain(x.event)) + 1
            /\ RowOf(c, x).supersedes = Cardinality(Chain(x.event))
  <2>1. x \in Candidate /\ x.event \in Events
    BY <1>3 DEF Candidate
  <2>2. ChainStands(x.event)
    BY <2>1 DEF JournalInv
  <2> QED
    BY <1>2, <2>1, <2>2, RowFacts, ChainFacts
<1>5. ASSUME NEW r \in R
      PROVE \E x \in i.candidates : IsNews(x) /\ r = RowOf(c, x)
  BY <1>3
<1>6. R \subseteq Observation
  BY <1>4, <1>5
<1>7. ASSUME NEW p \in R, NEW q \in R, p.event = q.event PROVE p = q
  <2> PICK x \in i.candidates : p = RowOf(c, x)
    BY <1>5
  <2> PICK y \in i.candidates : q = RowOf(c, y)
    BY <1>5
  <2>1. x.event = y.event
    BY <1>4, <1>7
  <2>2. x = y
    BY <1>3, <2>1 DEF CandidatesStand
  <2> QED
    BY <2>2
<1>8. ASSUME NEW r \in R
      PROVE /\ r.batch = i.batch
            /\ r.revision = Cardinality(Chain(r.event)) + 1
            /\ r.supersedes = r.revision - 1
            /\ i.window[1] <= r.event.time
            /\ r.event.time <= r.available /\ r.available <= wall
            /\ \A o \in observations : o.available <= r.available
            /\ Chain(r.event) # {} => Latest(r.event).payload # r.payload
  <2> PICK x \in i.candidates : IsNews(x) /\ r = RowOf(c, x)
    BY <1>5
  <2> PICK n \in Nat : n = Cardinality(Chain(x.event))
    BY <1>4
  <2>1. /\ r.event = x.event /\ r.available = x.available /\ r.batch = i.batch
        /\ r.revision = n + 1 /\ r.supersedes = n
    BY <1>4
  <2>2. /\ i.window[1] <= x.event.time
        /\ x.event.time <= x.available /\ x.available <= wall
        /\ \A o \in observations : o.available <= x.available
    BY <1>3 DEF CandidatesStand
  <2>3. n = (n + 1) - 1
    OBVIOUS
  <2>4. Chain(x.event) # {} => Latest(x.event).payload # x.payload
    BY <1>2, RevisionsAre DEF IsNews
  <2>5. r.payload = x.payload
    BY <1>4
  <2> QED
    BY <2>1, <2>2, <2>3, <2>4, <2>5
<1>9. ASSUME NEW e \in Events, e.opens \in i.window[1] .. i.window[2] - 1
      PROVE Chain(e) # {} \/ \E r \in R : r.event = e
  <2> PICK k \in 1 .. i.asked : e.feed = Order[k]
    BY <1>3, EventFacts, FeedsFacts
  <2> PICK x \in i.candidates : x.event = e
    BY <1>3, <1>9 DEF CandidatesStand
  <2>1. CASE IsNews(x)
    BY <1>3, <1>4, <2>1
  <2>2. CASE ~IsNews(x)
    BY <1>2, <2>2, RevisionsAre DEF IsNews
  <2> QED
    BY <2>1, <2>2
<1>10. Cardinality(R) \in Nat
  <2>1. \A r \in R : r.event \in Events
    BY <1>6 DEF Observation
  <2> DEFINE g == [r \in R |-> r.event]
  <2>2. g \in [R -> Events]
    BY <2>1
  <2>3. \A p, q \in R : g[p] = g[q] => p = q
    BY <1>7
  <2> HIDE DEF g
  <2>4. IsFiniteSet(R)
    BY <2>2, <2>3, EventsFinite, OneToOneFinite
  <2> QED
    BY <2>4, FS_CardinalityType
<1> QED
  BY <1>6, <1>7, <1>8, <1>9, <1>10

\* One revision more, or none.
LEMMA ChainExtended ==
    ASSUME JournalInv, NEW c \in Collectors, job[c].pc = "rows",
           observations' = observations \cup job[c].rows, wall' = wall, NEW e \in Events
    PROVE /\ ChainStands(e)'
          /\ \/ Chain(e)' = Chain(e)
             \/ \E r \in job[c].rows :
                  /\ r.event = e /\ r.revision = Cardinality(Chain(e)) + 1
                  /\ r \in Observation /\ e.time <= r.available
                  /\ \A o \in observations : o.available <= r.available
                  /\ Chain(e) # {} => Latest(e).payload # r.payload
                  /\ Chain(e)' = Chain(e) \cup {r}
                  /\ Cardinality(Chain(e)') = Cardinality(Chain(e)) + 1
<1> PICK R : R = job[c].rows
  OBVIOUS
<1>1. /\ R \subseteq Observation
      /\ \A p, q \in R : p.event = q.event => p = q
      /\ \A r \in R : /\ r.revision = Cardinality(Chain(r.event)) + 1
                      /\ r.supersedes = r.revision - 1
                      /\ r.event.time <= r.available /\ r.available <= wall
                      /\ \A o \in observations : o.available <= r.available
                      /\ Chain(r.event) # {} => Latest(r.event).payload # r.payload
  BY FinishFacts
<1> PICK n : n = Cardinality(Chain(e))
  OBVIOUS
<1>2. TypeOK /\ ChainStands(e)
  BY DEF JournalInv
<1>3. /\ n \in Nat /\ IsFiniteSet(Chain(e)) /\ {o.revision : o \in Chain(e)} = 1 .. n
      /\ \A o, p \in Chain(e) : /\ o.revision = p.revision => o = p
                                /\ p.revision <= o.revision => p.available <= o.available
      /\ \A o \in Chain(e) : /\ o \in Observation /\ o \in observations /\ o.revision \in 1 .. n
                             /\ e.time <= o.available /\ o.available <= wall
                             /\ o.supersedes = o.revision - 1
  <2>1. Chain(e) = {o \in observations : o.event = e}
    BY DEF Chain
  <2>2. n \in Nat /\ \A o \in Chain(e) : o \in Observation /\ o.revision \in 1 .. n
    BY <1>2, ChainFacts
  <2> QED
    BY <1>2, <2>1, <2>2 DEF ChainStands
<1>4. Chain(e)' = Chain(e) \cup {r \in R : r.event = e}
  BY DEF Chain
<1> PICK S : S = Chain(e)'
  OBVIOUS
<1>5. S = {o \in observations : o.event = e}'
  BY DEF Chain
<1>6. CASE \A r \in R : r.event # e
  <2>1. S = Chain(e)
    BY <1>4, <1>6
  <2>2. ChainStands(e)'
    BY <1>2, <1>5, <2>1 DEF ChainStands, Chain
  <2> QED
    BY <2>1, <2>2
<1>7. CASE \E r \in R : r.event = e
  <2> PICK r \in R : r.event = e
    BY <1>7
  <2>1. S = Chain(e) \cup {r}
    BY <1>1, <1>4
  <2>2. /\ r \in Observation /\ r.revision = n + 1 /\ r.supersedes = r.revision - 1
        /\ e.time <= r.available /\ r.available <= wall
        /\ \A o \in Chain(e) : o.available <= r.available
    BY <1>1, <1>3
  <2>3. r \notin Chain(e)
    <3>1. n + 1 \notin 1 .. n
      BY <1>3
    <3> QED
      BY <1>3, <2>2, <3>1
  <2>4. IsFiniteSet(S) /\ Cardinality(S) = n + 1
    BY <1>3, <2>1, <2>3, FS_AddElement
  <2>5. {o.revision : o \in S} = 1 .. (n + 1)
    <3>1. {o.revision : o \in S} = {o.revision : o \in Chain(e)} \cup {r.revision}
      BY <2>1
    <3>2. 1 .. (n + 1) = (1 .. n) \cup {n + 1}
      BY <1>3
    <3> QED
      BY <1>3, <2>2, <3>1, <3>2
  <2>6. \A o, p \in S : /\ o.revision = p.revision => o = p
                        /\ p.revision <= o.revision => p.available <= o.available
    <3>1. \A o \in Chain(e) : o.revision # r.revision /\ ~ (r.revision <= o.revision)
      BY <1>3, <2>2
    <3>2. r.available <= r.available
      BY <2>2 DEF Observation
    <3> QED
      BY <1>3, <2>1, <2>2, <3>1, <3>2
  <2>7. \A o \in S : /\ e.time <= o.available /\ o.available <= wall
                     /\ o.supersedes = o.revision - 1
    BY <1>3, <2>1, <2>2
  <2>8. ChainStands(e)'
    BY <1>5, <2>4, <2>5, <2>6, <2>7 DEF ChainStands
  <2>9. /\ \A o \in observations : o.available <= r.available
        /\ Chain(e) # {} => Latest(e).payload # r.payload
    BY <1>1
  <2> QED
    BY <2>1, <2>2, <2>4, <2>8, <2>9
<1> QED
  BY <1>6, <1>7

LEMMA FinishBatchKeeps ==
    ASSUME JournalInv, NEW c \in Collectors, FinishBatch(c)
    PROVE JournalInv'
<1> USE DEF worldVars, fileVars
<1>1. Underway(c) /\ job[c].pc = "rows" /\ ~Regresses(c)
  BY DEF FinishBatch, Underway
<1>2. /\ TypeOK /\ job[c] \in Job /\ lock = c /\ job[c].batch \in Running
      /\ job[c].batch \in Batch /\ JobStands(c) /\ BatchesStand /\ CheckpointsStand
  BY <1>1, UnderwayFacts DEF JournalInv
<1> PICK b \in Batch : b = job[c].batch
  BY <1>2
<1> PICK i : i = job[c]
  OBVIOUS
<1> PICK R : R = i.rows
  OBVIOUS
<1> PICK from, to : from = i.window[1] /\ to = i.window[2]
  OBVIOUS
<1> PICK r : r = [status |-> "COMPLETE", receipts |-> i.receipts, observed |-> Cardinality(R)]
  OBVIOUS
<1>3. /\ observations' = observations \cup R /\ configs' = configs \cup i.configs
      /\ checkpoint' = [f \in Feeds |-> to] /\ batch' = [batch EXCEPT ![b] = r]
      /\ job' = [job EXCEPT ![c] = NoJob] /\ lock' = NoOne
      /\ UNCHANGED <<now, wall, book, corrections, whole, torn, receipts, registered>>
  BY DEF FinishBatch
<1>4. /\ R \subseteq Observation /\ Cardinality(R) \in Nat
      /\ \A p, q \in R : p.event = q.event => p = q
      /\ \A p \in R : p.batch = b /\ from <= p.event.time
      /\ \A e \in Events : e.opens \in from .. to - 1
                => Chain(e) # {} \/ \E p \in R : p.event = e
  BY <1>1, FinishFacts
<1>5. /\ from \in Int /\ to \in Int /\ 0 <= from /\ from <= to /\ IsHour(to) /\ 0 < to
      /\ i.window = Window(i.asOf)
  BY <1>1, CapturingFacts DEF Capturing
<1>6. /\ to \in Hours \cup {Horizon}
      /\ Status("COMPLETE") = {} => IsHour(from) /\ from + Interval = to
      /\ Status("COMPLETE") # {} =>
            /\ Origin <= from
            /\ from = Origin \/ \A f \in Feeds : from <= checkpoint[f]
  <2>1. i.asOf \in Int /\ Interval + Margin <= i.asOf /\ i.asOf <= now
    BY <1>1, CapturingFacts DEF Capturing
  <2> QED
    BY <1>2, <1>5, <2>1, WindowFacts
<1>7. /\ i.receipts = receipts[b] /\ i.receipts \in Nat /\ i.receipts >= 3 /\ i.configs \subseteq {b}
  BY <1>1, <1>2 DEF JobStands, Job
<1>8. batch[b].status = "RUNNING" /\ r.status = "COMPLETE" /\ r.receipts = i.receipts
      /\ r.observed = Cardinality(R)
  BY <1>2 DEF Running, Status
<1>9. /\ \A d \in Batch : d # b => batch'[d] = batch[d]
      /\ batch'[b] = r
  BY <1>2, <1>3 DEF TypeOK
<1>10. /\ Status("COMPLETE")' = Status("COMPLETE") \cup {b}
       /\ Status("FAILED")' = Status("FAILED") /\ Status("NONE")' = Status("NONE")
       /\ b \notin Status("COMPLETE") /\ b \notin Status("FAILED")
  BY <1>8, <1>9 DEF Status
<1>11. TypeOK'
  <2>1. batch' \in [Batch -> [status : {"NONE", "RUNNING", "COMPLETE", "FAILED"},
                              receipts : Nat, observed : Nat]]
    BY <1>2, <1>3, <1>4, <1>7 DEF TypeOK
  <2>2. job' \in [Collectors -> Job]
    BY <1>2, <1>3, NoJobTyped DEF TypeOK
  <2>3. checkpoint' \in [Feeds -> Hours \cup {Horizon}]
    BY <1>3, <1>6
  <2>4. observations' \subseteq Observation /\ configs' \subseteq Batch
    BY <1>2, <1>3, <1>4, <1>7 DEF TypeOK
  <2> QED
    BY <1>2, <1>3, <2>1, <2>2, <2>3, <2>4 DEF TypeOK
<1>12. BatchesStand'
  <2>1. ObservationsOf(b)' = R
    BY <1>2, <1>3, <1>4, <1>10 DEF BatchesStand, ObservationsOf
  <2>2. \A d : d # b => ObservationsOf(d)' = ObservationsOf(d)
    BY <1>3, <1>4 DEF ObservationsOf
  <2>3. \A d \in Status("COMPLETE")' \cup Status("FAILED")' : d # b =>
           /\ batch'[d].receipts = receipts'[d]
           /\ batch'[d].observed = Cardinality(ObservationsOf(d))
           /\ ObservationsOf(d)' = ObservationsOf(d)
    BY <1>2, <1>3, <1>9, <1>10, <2>2 DEF BatchesStand, Status
  <2>4. batch'[b].receipts = receipts'[b] /\ batch'[b].observed = Cardinality(R)
    BY <1>3, <1>7, <1>8, <1>9
  <2>5. \A d \in Status("NONE")' : receipts'[d] = 0
    BY <1>2, <1>3, <1>10 DEF BatchesStand
  <2>6. \A o \in observations' : o.batch \in Status("COMPLETE")'
    BY <1>2, <1>3, <1>4, <1>10 DEF BatchesStand
  <2>7. \A d \in configs' : receipts'[d] > Len(Clocks)
    <3>1. Len(Clocks) = 2
      BY DEF Clocks
    <3>2. \A d \in configs' : d \in configs \/ d = b
      BY <1>3, <1>7
    <3>3. receipts[b] > 2
      BY <1>7
    <3> QED
      BY <1>2, <1>3, <3>1, <3>2, <3>3 DEF BatchesStand
  <2>8. ASSUME NEW d \in Status("COMPLETE")' \cup Status("FAILED")'
        PROVE batch'[d].receipts = receipts'[d]
              /\ batch'[d].observed = Cardinality(ObservationsOf(d))'
    <3>1. CASE d = b
      BY <2>1, <2>4, <3>1
    <3>2. CASE d # b
      BY <2>3, <3>2
    <3> QED
      BY <3>1, <3>2
  <2> QED
    BY <2>5, <2>6, <2>7, <2>8 DEF BatchesStand
<1>13. ASSUME NEW e \in Events
       PROVE ChainStands(e)'
  BY <1>1, <1>3, ChainExtended
<1>14. CheckpointsStand' /\ FilesStand'
  BY <1>3, <1>5, <1>10 DEF JournalInv, CheckpointsStand, FilesStand
<1>15. CheckpointCovers'
  <2>1. \A e : Revisions(e)' = Chain(e)'
    BY <1>12 DEF BatchesStand, Revisions, Chain
  <2>2. \A e : Chain(e)' = Chain(e) \cup {p \in R : p.event = e}
    BY <1>3 DEF Chain
  <2>3. \A o \in observations : o \in Observation /\ o.event \in Events /\ o.event.time \in Nat
    BY <1>2, EventFacts DEF TypeOK, Observation
  <2>4. \A p \in R : p.event \in Events /\ p.event.time \in Nat
    BY <1>4, EventFacts DEF Observation
  <2> PICK S : S = {o.event.time : o \in {p \in observations : p.batch \in Status("COMPLETE")}}'
    OBVIOUS
  <2>5. S = {o.event.time : o \in observations'}
    BY <1>12 DEF BatchesStand
  <2> PICK first : first = Origin'
    OBVIOUS
  <2>6. first = IF S = {} THEN 0 ELSE Floor(Min(S))
    BY DEF Origin
  <2>7. S \in SUBSET Nat
    BY <1>3, <2>3, <2>4, <2>5
  <2>8. first \in Nat /\ \A k \in Nat : IsHour(k) /\ (\A t \in S : k <= t) /\ (S # {} \/ k = 0)
                             => k <= first
    BY <2>6, <2>7, FirstHour
  <2> SUFFICES ASSUME NEW e \in Events, e.opens >= first, e.time < to
               PROVE Chain(e)' # {}
    BY <1>3, <2>1, EventFacts DEF CheckpointCovers
  <2>9. e.opens \in Nat /\ e.opens < to
    BY <1>5, EventFacts, EndsBefore
  <2>10. CASE from <= e.opens
    <3>1. e.opens \in from .. to - 1
      BY <1>5, <2>9, <2>10
    <3>2. Chain(e) # {} \/ \E p \in R : p.event = e
      BY <1>4, <3>1
    <3> QED
      BY <2>2, <3>2
  <2>11. CASE e.opens < from /\ Status("COMPLETE") = {}
    <3>1. observations = {}
      BY <1>2, <2>11 DEF BatchesStand
    <3>2. IsHour(from) /\ from + Interval = to /\ from \in Nat
      BY <1>5, <1>6, <2>11
    <3>3. from \in Hours
      <4>1. to <= Horizon
        BY <1>5, <1>6, HoursFacts, ClockFacts
      <4>2. from <= Horizon - Interval
        BY <1>5, <3>2, <4>1, HoursFacts, ClockFacts
      <4> QED
        BY <3>2, <4>2, HoursFacts
    <3> PICK f \in Feeds : TRUE
      BY FeedsFacts
    <3> PICK x : x = EventOf(f, from)
      OBVIOUS
    <3>4. x \in Events /\ x.opens = from
      BY <3>3 DEF Events, EventOf
    <3>5. from \in from .. to - 1
      BY <1>5, <3>2, ClockFacts
    <3>6. Chain(x) = {}
      BY <3>1 DEF Chain
    <3>7. \E p \in R : p.event = x
      BY <1>4, <3>4, <3>5, <3>6
    <3>8. S # {}
      BY <1>3, <2>5, <3>7
    <3>9. \A t \in S : from <= t
      BY <1>3, <1>4, <2>5, <3>1
    <3>10. from <= first
      BY <2>8, <3>2, <3>8, <3>9
    <3> QED
      BY <1>5, <2>8, <2>9, <2>11, <3>10
  <2>12. CASE e.opens < from /\ Status("COMPLETE") # {}
    <3> PICK origin : origin = Origin
      OBVIOUS
    <3>1. origin \in Nat /\ \A o \in observations : origin <= o.event.time
      BY <1>2, OriginFacts
    <3>2. origin <= from /\ (from = origin \/ \A f \in Feeds : from <= checkpoint[f])
      BY <1>6, <2>12
    <3>3. IsHour(origin) /\ (S # {} \/ origin = 0)
      <4> PICK T : T = {o.event.time : o \in {p \in observations : p.batch \in Status("COMPLETE")}}
        OBVIOUS
      <4>1. origin = IF T = {} THEN 0 ELSE Floor(Min(T))
        BY DEF Origin
      <4>2. T \in SUBSET Nat /\ T \subseteq S
        BY <1>3, <2>3, <2>5
      <4>3. CASE T = {}
        <5>1. IsHour(0)
          BY <1>5, HourArithmetic
        <5> QED
          BY <4>1, <4>3, <5>1
      <4>4. CASE T # {}
        <5>1. Min(T) \in Nat
          BY <4>2, <4>4, LeastFacts
        <5>2. IsHour(Floor(Min(T)))
          <6>1. Min(T) \in Int
            BY <5>1
          <6> QED
            BY <6>1, FloorFacts
        <5> QED
          BY <4>1, <4>2, <4>4, <5>2
      <4> QED
        BY <4>3, <4>4
    <3>4. \A t \in S : origin <= t
      <4>1. \A p \in R : origin <= p.event.time
        BY <1>4, <1>5, <2>4, <3>1, <3>2
      <4> QED
        BY <1>3, <2>5, <3>1, <4>1
    <3>5. origin <= first
      BY <2>8, <3>1, <3>3, <3>4
    <3>6. origin <= e.opens
      BY <2>8, <2>9, <3>1, <3>5
    <3>7. from # origin
      BY <1>5, <2>9, <2>12, <3>1, <3>6
    <3> PICK k : k = checkpoint[e.feed]
      OBVIOUS
    <3>8. k \in Int /\ IsHour(k) /\ from <= k
      <4>1. e.feed \in Feeds
        BY EventFacts
      <4>2. k \in Hours \cup {Horizon}
        BY <1>2, <4>1 DEF TypeOK
      <4> QED
        BY <3>2, <3>7, <4>1, <4>2, HoursFacts
    <3>9. e.time < k
      <4>1. e.opens < k
        BY <1>5, <2>9, <2>12, <3>8
      <4> QED
        BY <3>8, <4>1, EndsBefore
    <3>10. Revisions(e) # {}
      BY <2>12, <3>6, <3>9 DEF JournalInv, CheckpointCovers
    <3> QED
      BY <1>2, <2>2, <3>10, RevisionsAre
  <2> QED
    BY <1>5, <2>9, <2>10, <2>11, <2>12
<1>16. JobStands(c)'
  <2>1. job'[c] = NoJob
    BY <1>2, <1>3 DEF TypeOK
  <2> QED
    BY <2>1 DEF JobStands, NoJob, Capturing
<1>17. ASSUME NEW d \in Collectors PROVE JobStands(d)'
  <2>1. d # c => job'[d] = job[d] /\ JobStands(d)
    BY <1>2, <1>3 DEF JournalInv, TypeOK
  <2> QED
    BY <1>2, <1>16, <2>1, OthersStand
<1> QED
  BY <1>11, <1>12, <1>13, <1>14, <1>15, <1>17 DEF JournalInv

LEMMA InitKeeps == Init => JournalInv
<1> SUFFICES ASSUME Init PROVE JournalInv
  OBVIOUS
<1>1. now \in Times /\ now \in Nat
  <2>1. Times \in SUBSET Nat /\ Times # {}
    BY AcquisitionAssumption
  <2> QED
    BY <2>1, LeastFacts DEF Init
<1>2. wall \in Int
  BY <1>1, AcquisitionAssumption DEF Init
<1>3. 0 \in Hours \cup {Horizon}
  <2>1. IsHour(0) /\ Horizon \in Nat /\ IsHour(Horizon)
    BY HoursFacts, HourArithmetic
  <2>2. 0 < Horizon => 0 + Interval <= Horizon
    BY <2>1, HourGap
  <2>3. 0 < Horizon => 0 \in Hours
    BY <2>1, <2>2, HoursFacts, ClockFacts
  <2> QED
    BY <2>1, <2>3
<1>4. \A c \in Collectors : job[c] = NoJob
  BY DEF Init
<1>5. TypeOK
  <2>1. corrections \in 0 .. MaxCorrections
    BY AcquisitionAssumption DEF Init
  <2>2. book \in [Events -> Payloads]
    BY DEF Init, Payloads
  <2>3. batch \in [Batch -> [status : {"NONE", "RUNNING", "COMPLETE", "FAILED"},
                             receipts : Nat, observed : Nat]]
    BY DEF Init, Begun
  <2>4. checkpoint \in [Feeds -> Hours \cup {Horizon}] /\ receipts \in [Batch -> Nat]
    BY <1>3 DEF Init
  <2>5. job \in [Collectors -> Job]
    BY NoJobTyped DEF Init
  <2> QED
    BY <1>1, <1>2, <2>1, <2>2, <2>3, <2>4, <2>5 DEF Init, TypeOK
<1>6. Status("COMPLETE") = {} /\ Status("FAILED") = {}
  BY DEF Init, Begun, Status
<1>7. BatchesStand
  BY <1>6 DEF Init, BatchesStand, Status
<1>8. \A e \in Events : ChainStands(e)
  <2> SUFFICES ASSUME NEW e \in Events PROVE ChainStands(e)
    OBVIOUS
  <2>1. {o \in observations : o.event = e} = {} /\ {o.revision : o \in {}} = {}
    BY DEF Init
  <2>2. IsFiniteSet({}) /\ Cardinality({}) = 0 /\ 1 .. 0 = {}
    BY FS_EmptySet
  <2> QED
    BY <2>1, <2>2 DEF ChainStands
<1>9. CheckpointsStand /\ FilesStand /\ CheckpointCovers
  BY <1>6 DEF Init, CheckpointsStand, FilesStand, CheckpointCovers
<1>10. \A c \in Collectors : JobStands(c)
  BY <1>4 DEF JobStands, NoJob, Capturing
<1> QED
  BY <1>5, <1>7, <1>8, <1>9, <1>10 DEF JournalInv

LEMMA StepKeeps == JournalInv /\ [Next]_vars => JournalInv'
<1> SUFFICES ASSUME JournalInv, [Next]_vars PROVE JournalInv'
  OBVIOUS
<1>1. TypeOK /\ now \in Int /\ wall \in Int
  BY AcquisitionAssumption DEF JournalInv, TypeOK
<1>2. CASE UNCHANGED vars
  BY <1>1, <1>2, WorldMoves DEF vars, TypeOK
<1>3. CASE Tick
  <2> PICK t \in Times, s \in Skews : t > now /\ t + s >= wall /\ now' = t /\ wall' = t + s
    BY <1>3 DEF Tick
  <2>1. t \in Int /\ s \in Int
    BY AcquisitionAssumption
  <2>2. now' \in Times /\ now <= now' /\ wall' \in Int /\ wall <= wall'
    BY <1>1, <2>1
  <2> QED
    BY <1>1, <1>3, <2>2, WorldMoves DEF Tick, TypeOK
<1>4. CASE Correct
  <2> PICK e \in Events : book' = [book EXCEPT ![e] = 3 - @]
    BY <1>4 DEF Correct
  <2>1. book' \in [Events -> Payloads]
    <3>1. book[e] \in {1, 2} /\ 3 - book[e] \in {1, 2}
      BY <1>1 DEF TypeOK, Payloads
    <3> QED
      BY <1>1, <3>1 DEF TypeOK, Payloads
  <2>2. corrections' \in 0 .. MaxCorrections
    BY <1>1, <1>4, AcquisitionAssumption DEF Correct, TypeOK
  <2>3. now' \in Times /\ now <= now' /\ wall' \in Int /\ wall <= wall'
    BY <1>1, <1>4 DEF Correct, TypeOK
  <2> QED
    BY <1>4, <2>1, <2>2, <2>3, WorldMoves DEF Correct
<1>5. ASSUME NEW c \in Collectors, Begin(c) \/ CollectorStep(c) \/ Die(c)
      PROVE JournalInv'
  <2>1. CASE Begin(c)
    BY <2>1, BeginKeeps
  <2>2. CASE ReadSpotClock(c)
    BY <2>2, ReadSpotClockKeeps
  <2>3. CASE ReadFuturesClock(c)
    BY <2>3, ReadFuturesClockKeeps
  <2>4. CASE ReadFundingInfo(c)
    BY <2>4, ReadFundingInfoKeeps
  <2>5. CASE ReadFeed(c)
    BY <2>5, ReadFeedKeeps
  <2>6. CASE AddObservations(c)
    BY <2>6, AddObservationsKeeps
  <2>7. CASE FinishBatch(c)
    BY <2>7, FinishBatchKeeps
  <2>8. CASE MarkFailed(c)
    BY <2>8, MarkFailedKeeps
  <2>9. CASE \/ CheckpointRegression(c) \/ RequestFails(c) \/ WriteFails(c)
             \/ ObjectConflict(c) \/ JournalBusy(c) \/ Die(c)
    BY <2>9, FailuresKeep
  <2> QED
    BY <1>5, <2>1, <2>2, <2>3, <2>4, <2>5, <2>6, <2>7, <2>8, <2>9 DEF CollectorStep
<1> QED
  BY <1>2, <1>3, <1>4, <1>5 DEF Next

-----------------------------------------------------------------------------
(* Theorems.                                                                   *)

\* The inductive invariant holds whatever the collectors, the provider, the
\* clocks and the disks do (service.py:_capture_once_with_transport, journal.py).
THEOREM JournalSound == Spec => []JournalInv
BY InitKeeps, StepKeeps, PTL DEF Spec

LEMMA InvVerifies == JournalInv => JournalVerifies
<1> SUFFICES ASSUME JournalInv PROVE JournalVerifies
  OBVIOUS
<1>1. /\ TypeOK /\ BatchesStand /\ CheckpointsStand /\ FilesStand
      /\ \A e \in Events : ChainStands(e)
  BY DEF JournalInv
<1>2. ASSUME NEW o \in observations
      PROVE /\ o.batch \in Status("COMPLETE")
            /\ o.available >= o.event.time
            /\ o.supersedes = o.revision - 1
            /\ o.revision > 1 =>
                 \E p \in Revisions(o.event) :
                   p.revision = o.revision - 1 /\ p.available <= o.available
            /\ \A p \in Revisions(o.event) : p.revision = o.revision => p = o
  <2> PICK e : e = o.event
    OBVIOUS
  <2> PICK n : n = Cardinality(Chain(e))
    OBVIOUS
  <2>1. e \in Events /\ o \in Chain(e) /\ ChainStands(e) /\ Revisions(e) = Chain(e)
    BY <1>1, RevisionsAre DEF TypeOK, Observation, Chain
  <2>2. /\ n \in Nat /\ (\A i \in 1 .. n : \E p \in Chain(e) : p.revision = i)
        /\ (\A p \in Chain(e) : p \in Observation /\ p.revision \in 1 .. n)
        /\ \A p, q \in Chain(e) : p.revision = q.revision => p = q
    BY <1>1, <2>1, ChainFacts
  <2>3. /\ \A p \in Chain(e) : p.revision <= o.revision => p.available <= o.available
        /\ e.time <= o.available /\ o.supersedes = o.revision - 1
    BY <2>1 DEF ChainStands, Chain
  <2>4. o.revision \in 1 .. n /\ o.available \in Int /\ e.time \in Nat
    BY <2>1, <2>2, EventFacts DEF Observation
  <2>5. ASSUME o.revision > 1
        PROVE \E p \in Chain(e) : p.revision = o.revision - 1 /\ p.available <= o.available
    <3>1. o.revision - 1 \in 1 .. n /\ o.revision - 1 <= o.revision
      BY <2>2, <2>4, <2>5
    <3> PICK p \in Chain(e) : p.revision = o.revision - 1
      BY <2>2, <3>1
    <3> QED
      BY <2>3, <3>1
  <2>6. o.batch \in Status("COMPLETE")
    BY <1>1 DEF BatchesStand
  <2> QED
    BY <2>1, <2>2, <2>3, <2>4, <2>5, <2>6
<1> QED
  BY <1>1, <1>2 DEF JournalVerifies, BatchesStand, CheckpointsStand, FilesStand

\* Whenever no capture is open, the journal passes its own verification
\* (journal.py:verify_journal), after any failures, deaths and corrections.
THEOREM JournalSafety == Spec => []JournalVerifies
BY JournalSound, InvVerifies, PTL

\* What lies between the first recorded hour and a checkpoint is recorded
\* (service.py:_capture_window), after any failures, gaps and retries.
THEOREM CoverageSafety == Spec => []CheckpointCovers
<1>1. JournalInv => CheckpointCovers
  BY DEF JournalInv
<1> QED
  BY <1>1, JournalSound, PTL

-----------------------------------------------------------------------------
(* Refinement: the journal keeps the promise of a record only ever extended.   *)

View(o) == [payload |-> o.payload, available |-> o.available]

RecordIn(O, e) ==
  [i \in 1 .. Cardinality({o \in O : o.event = e}) |->
     LET o == CHOOSE x \in O : x.event = e /\ x.revision = i
     IN [payload |-> o.payload, available |-> o.available]]

LEMMA CountedSeq ==
    ASSUME NEW V, NEW n \in Nat, NEW s \in [1 .. n -> V]
    PROVE s \in Seq(V) /\ Len(s) = n /\ DOMAIN s = 1 .. n
OBVIOUS

\* The observations S of the event e among O are numbered from 1 to n.
Numbered(O, e, S, n) ==
  /\ S = {o \in O : o.event = e} /\ n = Cardinality(S)
  /\ \A o \in S : o.revision \in 1 .. n
  /\ \A i \in 1 .. n : \E o \in S : o.revision = i
  /\ \A o, p \in S : o.revision = p.revision => o = p

\* A chain numbered without a gap is read as a sequence.
LEMMA RecordFacts ==
    ASSUME NEW O \in SUBSET Observation, NEW e, NEW S, NEW n \in Nat, Numbered(O, e, S, n)
    PROVE /\ RecordIn(O, e) \in Seq([payload : Payloads, available : Int])
          /\ Len(RecordIn(O, e)) = n /\ DOMAIN RecordIn(O, e) = 1 .. n
          /\ \A o \in S : o.revision \in 1 .. n /\ RecordIn(O, e)[o.revision] = View(o)
<1> USE DEF Numbered
<1> DEFINE chosen(i) == CHOOSE x \in O : x.event = e /\ x.revision = i
           V == [payload : Payloads, available : Int]
<1>1. RecordIn(O, e) = [i \in 1 .. n |-> View(chosen(i))]
  BY DEF RecordIn, View
<1>2. ASSUME NEW o \in S PROVE o.revision \in 1 .. n /\ chosen(o.revision) = o
  <2>1. o \in O /\ o.event = e /\ o.revision \in 1 .. n
    OBVIOUS
  <2>2. chosen(o.revision) \in O /\ chosen(o.revision).event = e
        /\ chosen(o.revision).revision = o.revision
    BY <2>1
  <2>3. chosen(o.revision) \in S
    BY <2>2
  <2> QED
    BY <2>1, <2>2, <2>3
<1>3. \A i \in 1 .. n : \E o \in S : o.revision = i
  OBVIOUS
<1>4. ASSUME NEW i \in 1 .. n PROVE View(chosen(i)) \in V
  <2> PICK o \in S : o.revision = i
    BY <1>3
  <2>1. chosen(i) = o /\ o \in Observation
    BY <1>2
  <2>2. View(o) \in V
    BY <2>1 DEF View, Observation
  <2> QED
    BY <2>1, <2>2
<1> HIDE DEF chosen, V
<1>5. RecordIn(O, e) \in [1 .. n -> V]
  BY <1>1, <1>4
<1>6. \A o \in S : o.revision \in 1 .. n /\ RecordIn(O, e)[o.revision] = View(o)
  BY <1>1, <1>2
<1>7. RecordIn(O, e) \in Seq(V) /\ Len(RecordIn(O, e)) = n /\ DOMAIN RecordIn(O, e) = 1 .. n
  BY <1>5, CountedSeq
<1> QED
  BY <1>6, <1>7 DEF V

\* A sequence one longer that agrees on what was there.
LEMMA OneMore ==
    ASSUME NEW V, NEW old \in Seq(V), NEW new \in Seq(V), NEW n \in Nat,
           Len(old) = n, Len(new) = n + 1, \A i \in 1 .. n : new[i] = old[i]
    PROVE SubSeq(new, 1, Len(old)) = old
<1>1. SubSeq(new, 1, n) = [i \in 1 .. n |-> new[i]]
  OBVIOUS
<1>2. old = [i \in 1 .. n |-> old[i]]
  OBVIOUS
<1> QED
  BY <1>1, <1>2

LEMMA RecordRevised ==
    ASSUME JournalInv, NEW c \in Collectors, FinishBatch(c), NEW e \in Events,
           NEW old, old = RecordOf(e), NEW new, new = RecordOf(e)'
    PROVE new = old \/ Promise!Revised(e, old, new)
<1> PICK O : O = observations
  OBVIOUS
<1> PICK P : P = observations'
  OBVIOUS
<1> PICK S : S = Chain(e)
  OBVIOUS
<1> PICK T : T = Chain(e)'
  OBVIOUS
<1>1. /\ job[c].pc = "rows" /\ observations' = observations \cup job[c].rows /\ wall' = wall
  BY DEF FinishBatch, worldVars
<1>2. /\ ChainStands(e)'
      /\ \/ T = S
         \/ \E r \in job[c].rows :
              /\ r.event = e /\ r.revision = Cardinality(S) + 1
              /\ r \in Observation /\ e.time <= r.available
              /\ \A o \in observations : o.available <= r.available
              /\ S # {} => Latest(e).payload # r.payload
              /\ T = S \cup {r}
              /\ Cardinality(T) = Cardinality(S) + 1
  BY <1>1, ChainExtended
<1>3. /\ TypeOK /\ ChainStands(e) /\ JournalInv'
  BY FinishBatchKeeps DEF JournalInv
<1>4. O \subseteq Observation /\ P \subseteq Observation
  BY <1>3 DEF JournalInv, TypeOK
<1>5. S = {o \in O : o.event = e} /\ T = {o \in P : o.event = e}
  BY DEF Chain
<1>6. /\ IsFiniteSet(S) /\ {o.revision : o \in S} = 1 .. Cardinality(S)
      /\ \A o, p \in S : o.revision = p.revision => o = p
  BY <1>3, <1>5 DEF ChainStands
<1>7. /\ IsFiniteSet(T) /\ {o.revision : o \in T} = 1 .. Cardinality(T)
      /\ \A o, p \in T : o.revision = p.revision => o = p
  BY <1>2, <1>5 DEF ChainStands
<1>8. old = RecordIn(O, e) /\ new = RecordIn(P, e)
  BY DEF RecordOf, RecordIn
<1> PICK n : n = Cardinality(S)
  OBVIOUS
<1> PICK m : m = Cardinality(T)
  OBVIOUS
<1>9. n \in Nat /\ m \in Nat
  BY <1>6, <1>7, FS_CardinalityType
<1> DEFINE V == [payload : Payloads, available : Int]
<1>10. /\ old \in Seq(V) /\ Len(old) = n /\ DOMAIN old = 1 .. n
       /\ \A o \in S : o.revision \in 1 .. n /\ old[o.revision] = View(o)
  <2>1. O \in SUBSET Observation /\ n \in Nat
    BY <1>4, <1>9
  <2>2. Numbered(O, e, S, n)
    BY <1>5, <1>6 DEF Numbered
  <2> HIDE DEF V
  <2>4. /\ RecordIn(O, e) \in Seq([payload : Payloads, available : Int])
        /\ Len(RecordIn(O, e)) = n /\ DOMAIN RecordIn(O, e) = 1 .. n
        /\ \A o \in S : o.revision \in 1 .. n /\ RecordIn(O, e)[o.revision] = View(o)
    BY <2>1, <2>2, RecordFacts
  <2> QED
    BY <1>8, <2>4 DEF V
<1>11. /\ new \in Seq(V) /\ Len(new) = m /\ DOMAIN new = 1 .. m
       /\ \A o \in T : o.revision \in 1 .. m /\ new[o.revision] = View(o)
  <2>1. P \in SUBSET Observation /\ m \in Nat
    BY <1>4, <1>9
  <2>2. Numbered(P, e, T, m)
    BY <1>5, <1>7 DEF Numbered
  <2> HIDE DEF V
  <2>4. /\ RecordIn(P, e) \in Seq([payload : Payloads, available : Int])
        /\ Len(RecordIn(P, e)) = m /\ DOMAIN RecordIn(P, e) = 1 .. m
        /\ \A o \in T : o.revision \in 1 .. m /\ RecordIn(P, e)[o.revision] = View(o)
    BY <2>1, <2>2, RecordFacts
  <2> QED
    BY <1>8, <2>4 DEF V
<1>12. \A i \in 1 .. n : \E o \in S : o.revision = i
  BY <1>6
<1>13. ASSUME NEW i \in 1 .. n, S \subseteq T PROVE new[i] = old[i]
  <2> PICK o \in S : o.revision = i
    BY <1>12
  <2> QED
    BY <1>10, <1>11, <1>13
<1> HIDE DEF V
<1>14. CASE T = S
  <2>1. m = n
    BY <1>14
  <2>2. old = [i \in 1 .. n |-> old[i]] /\ new = [i \in 1 .. n |-> new[i]]
    BY <1>9, <1>10, <1>11, <2>1
  <2> QED
    BY <1>13, <1>14, <2>2
<1>15. CASE T # S
  <2> PICK r : /\ r.event = e /\ r.revision = n + 1
               /\ r \in Observation /\ e.time <= r.available
               /\ \A o \in observations : o.available <= r.available
               /\ S # {} => Latest(e).payload # r.payload
               /\ T = S \cup {r} /\ m = n + 1
    BY <1>2, <1>15
  <2>1. S \subseteq T /\ r \in T
    OBVIOUS
  <2>2. SubSeq(new, 1, Len(old)) = old
    <3>1. \A i \in 1 .. n : new[i] = old[i]
      BY <1>13, <2>1
    <3>2. /\ old \in Seq(V) /\ new \in Seq(V) /\ n \in Nat
          /\ Len(old) = n /\ Len(new) = n + 1
      BY <1>9, <1>10, <1>11
    <3> QED
      BY <3>1, <3>2, OneMore
  <2>3. new[Len(new)] = View(r)
    BY <1>11, <2>1
  <2>4. new[Len(new)].available = r.available /\ new[Len(new)].payload = r.payload
    BY <2>3 DEF View
  <2>5. e.time \in Int /\ r.available \in Int
    BY EventFacts DEF Observation
  <2>6. ASSUME old # <<>>
        PROVE /\ new[Len(new)].payload # old[Len(old)].payload
              /\ new[Len(new)].available >= old[Len(old)].available
    <3>1. n # 0
      <4>1. n = 0 => old = <<>>
        BY <1>10
      <4> QED
        BY <2>6, <4>1
    <3>2. S # {}
      BY <1>9, <1>12, <3>1
    <3>3. Latest(e) \in S /\ Latest(e).revision = n
      <4>1. Revisions(e) # {} /\ BatchesStand
        BY <3>2, RevisionsAre DEF JournalInv
      <4> QED
        BY <1>3, <4>1, LatestFacts
    <3>4. old[Len(old)] = View(Latest(e))
      BY <1>10, <3>3
    <3>5. Latest(e).available <= r.available /\ Latest(e).available \in Int
      BY <1>4, <1>5, <3>3 DEF Observation
    <3>6. /\ old[Len(old)].payload = Latest(e).payload
          /\ old[Len(old)].available = Latest(e).available
      BY <3>4 DEF View
    <3> QED
      BY <2>4, <2>5, <3>2, <3>5, <3>6
  <2>7. Len(new) = Len(old) + 1
    BY <1>10, <1>11
  <2> QED
    BY <2>2, <2>4, <2>5, <2>6, <2>7 DEF Promise!Revised
<1> QED
  BY <1>14, <1>15

\* The journal implements the forward record: what it says of an event is only
\* extended, by whole captures, with what is news and later, and coverage never
\* goes back (journal.py:add_observation, finish_batch).
THEOREM RecordKept == Spec => KeepsRecord
<1>1. Init => Promise!RecordInit
  <2> SUFFICES ASSUME Init PROVE Promise!RecordInit
    OBVIOUS
  <2>1. \A e \in Events : RecordOf(e) = <<>>
    <3> SUFFICES ASSUME NEW e \in Events PROVE RecordOf(e) = <<>>
      OBVIOUS
    <3>1. {o \in observations : o.event = e} = {} /\ Cardinality({}) = 0
      BY FS_EmptySet DEF Init
    <3> PICK n : n = Cardinality({o \in observations : o.event = e})
      OBVIOUS
    <3>2. n = 0 /\ 1 .. n = {}
      BY <3>1
    <3> QED
      BY <3>2 DEF RecordOf
  <2> QED
    BY <2>1 DEF Init, Promise!RecordInit
<1>2. JournalInv /\ [Next]_vars => [Promise!Capture]_Promise!recordVars
  <2> SUFFICES ASSUME JournalInv, [Next]_vars PROVE [Promise!Capture]_Promise!recordVars
    OBVIOUS
  <2>1. ASSUME UNCHANGED <<observations, checkpoint>> PROVE UNCHANGED Promise!recordVars
    <3>1. \A e : RecordOf(e)' = RecordOf(e)
      BY <2>1 DEF RecordOf
    <3> QED
      BY <2>1, <3>1 DEF Promise!recordVars
  <2>2. ASSUME NEW c \in Collectors, FinishBatch(c) PROVE Promise!Capture
    <3>1. \A e \in Events : RecordOf(e)' = RecordOf(e) \/ Promise!Revised(e, RecordOf(e), RecordOf(e)')
      BY <2>2, RecordRevised
    <3> PICK to : to = job[c].window[2]
      OBVIOUS
    <3>2. checkpoint' = [f \in Feeds |-> to] /\ job[c].pc = "rows" /\ ~Regresses(c)
      BY <2>2 DEF FinishBatch
    <3>3. to \in Int /\ 0 < to
      BY <3>2, CapturingFacts DEF Capturing
    <3>4. \A f \in Feeds : checkpoint[f] \in Int
      BY HoursFacts DEF JournalInv, TypeOK
    <3>5. \A f \in Feeds : to >= checkpoint[f]
      <4> SUFFICES ASSUME NEW f \in Feeds PROVE to >= checkpoint[f]
        OBVIOUS
      <4>1. checkpoint[f] = 0 \/ ~ (to < checkpoint[f])
        BY <3>2 DEF Regresses
      <4> QED
        BY <3>3, <3>4, <4>1
    <3>6. \A f, g \in Feeds : checkpoint'[f] = checkpoint'[g] /\ checkpoint'[f] >= checkpoint[f]
      BY <3>2, <3>5
    <3> QED
      BY <3>1, <3>6 DEF Promise!Capture
  <2>3. UNCHANGED <<observations, checkpoint>> \/ \E c \in Collectors : FinishBatch(c)
    BY DEF Next, Tick, Correct, Begin, CollectorStep, ReadSpotClock, ReadFuturesClock,
       ReadFundingInfo, ReadFeed, AddObservations, CheckpointRegression, RequestFails,
       WriteFails, ObjectConflict, MarkFailed, JournalBusy, Die, vars, journalVars
  <2> QED
    BY <2>1, <2>2, <2>3
<1> QED
  BY <1>1, <1>2, JournalSound, PTL DEF Spec, KeepsRecord, Promise!RecordSpec
=============================================================================
