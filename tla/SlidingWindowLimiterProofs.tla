--------------------- MODULE SlidingWindowLimiterProofs ---------------------
(***************************************************************************)
(* For every limit, window, lag, set of clients and set of goroutines, and *)
(* with no bound on the clock that the proofs use: the limiter keeps the   *)
(* promise of RequestQuota, its slices stay within the limit, and a wait   *)
(* it advertised is long enough.                                           *)
(*                                                                         *)
(* None of these is inductive.  The filter and Prune drop hits by `at`,    *)
(* while the promise counts them by `locked`; what ties the two is LogInv  *)
(* (a hit is locked within MaxLag of its time, and slices are in locking   *)
(* order) together with RecentInv: whatever is dropped is already out of   *)
(* the promised span.                                                      *)
(***************************************************************************)
EXTENDS SlidingWindowLimiter, FiniteSetTheorems, TLAPS

(* Every recorded hit was locked no earlier than its time and at most      *)
(* MaxLag after it, and the serial numbers follow the order of locking.    *)
LogInv ==
    \A k \in Keys :
        /\ hits[k] \subseteq log[k]
        /\ \A h \in log[k] :
              /\ h.at <= h.locked
              /\ h.locked <= h.at + MaxLag
              /\ h.locked <= clock
              /\ h.seq <= appended[k]
        /\ \A g, h \in log[k] : g.seq <= h.seq => g.locked <= h.locked

(* No hit inside the promised span has been dropped.                       *)
RecentInv == \A k \in Keys : Recent(k) \subseteq hits[k]

(* A goroutine's time, and a waiting tick, are not in the future.          *)
TimesInv ==
    /\ \A c \in Callers : calls[c].state = "stamped" =>
          calls[c].now <= clock /\ clock <= calls[c].now + MaxLag
    /\ \A t \in tickerC : t <= clock

(* The hits still inside the window at time t.                             *)
AliveAt(k, t) == {h \in hits[k] : h.at + Window > t}

(* At a promised instant there is room.                                    *)
PromiseInv == \A k \in Keys : \A t \in promised[k] : Cardinality(AliveAt(k, t)) < Limit

IInv == TypeOK /\ SliceWithinLimit /\ LogInv /\ RecentInv /\ TimesInv /\ PromiseInv

-----------------------------------------------------------------------------
(* Whole seconds plus one always reach past the remaining time.            *)
LEMMA SecondsReach ==
    ASSUME NEW a \in Int, NEW d \in Nat \ {0}
    PROVE  ((a \div d) + 1) * d > a
  BY SMT

LEMMA SecondsInt ==
    ASSUME NEW a \in Int, NEW d \in Nat \ {0}
    PROVE  a \div d \in Int
  BY SMT

(* A part of a finite set is finite and no larger.                         *)
LEMMA SubsetBound ==
    ASSUME NEW S, IsFiniteSet(S), NEW T \in SUBSET S
    PROVE  /\ IsFiniteSet(T)
           /\ Cardinality(T) \in Nat
           /\ Cardinality(S) \in Nat
           /\ Cardinality(T) <= Cardinality(S)
  BY FS_Subset, FS_CardinalityType

(* What the filter keeps of a slice within the limit.                      *)
LEMMA KeptFacts ==
    ASSUME IInv, LimiterAssumption, NEW c \in Callers
    PROVE  /\ calls[c].key \in Keys
           /\ calls[c].now \in Nat
           /\ Kept(c) \subseteq hits[calls[c].key]
           /\ Kept(c) \subseteq Hit
           /\ IsFiniteSet(Kept(c))
           /\ Cardinality(Kept(c)) \in Nat
           /\ Cardinality(Kept(c)) <= Limit
<1>1. calls[c] \in Call /\ calls[c].key \in Keys /\ calls[c].now \in Nat
  BY DEF IInv, TypeOK, Call
<1>2. Kept(c) \subseteq hits[calls[c].key]
  BY DEF Kept, Live
<1>3. hits[calls[c].key] \subseteq Hit
  BY <1>1 DEF IInv, TypeOK
<1>4. IsFiniteSet(hits[calls[c].key]) /\ Cardinality(hits[calls[c].key]) <= Limit
  BY <1>1 DEF IInv, SliceWithinLimit
<1>5. /\ IsFiniteSet(Kept(c))
      /\ Cardinality(Kept(c)) \in Nat
      /\ Cardinality(hits[calls[c].key]) \in Nat
      /\ Cardinality(Kept(c)) <= Cardinality(hits[calls[c].key])
  BY <1>2, <1>4, SubsetBound
<1>6. Cardinality(Kept(c)) <= Limit
  BY <1>4, <1>5 DEF LimiterAssumption
<1> QED
  BY <1>1, <1>2, <1>3, <1>5, <1>6

(* A hit inside the promised span survives the filter of a stamped call.   *)
LEMMA KeptCoversRecent ==
    ASSUME IInv, LimiterAssumption, NEW c \in Callers, calls[c].state = "stamped"
    PROVE  Recent(calls[c].key) \subseteq Kept(c)
<1> DEFINE k == calls[c].key
<1>1. k \in Keys /\ calls[c].now \in Nat /\ clock \in Nat /\ calls[c].now <= clock
  BY KeptFacts DEF IInv, TypeOK, TimesInv
<1>2. SUFFICES ASSUME NEW h \in Recent(k) PROVE h \in Kept(c)
  OBVIOUS
<1>3. h \in log[k] /\ h \in hits[k] /\ h.locked > clock - (Window - MaxLag)
  BY <1>1 DEF Recent, IInv, RecentInv
<1>4. h \in Hit /\ h.locked <= h.at + MaxLag
  BY <1>1, <1>3 DEF IInv, TypeOK, LogInv
<1>5. h.at > calls[c].now - Window
  BY <1>1, <1>3, <1>4 DEF LimiterAssumption, Hit
<1> QED
  BY <1>3, <1>5 DEF Kept, Live

-----------------------------------------------------------------------------
LEMMA InitIInv == LimiterAssumption /\ Init => IInv
<1> SUFFICES ASSUME LimiterAssumption, Init PROVE IInv
  OBVIOUS
<1>1. TypeOK
  BY DEF Init, TypeOK, Call, Idle
<1>2. SliceWithinLimit
  BY FS_EmptySet DEF Init, SliceWithinLimit, LimiterAssumption
<1>3. LogInv /\ RecentInv /\ TimesInv /\ PromiseInv
  BY DEF Init, LogInv, RecentInv, Recent, TimesInv, PromiseInv, Idle
<1> QED
  BY <1>1, <1>2, <1>3 DEF IInv

(* Time passes: the promised span and the lags move, and nothing else.     *)
LEMMA TickIInv == LimiterAssumption /\ IInv /\ Tick => IInv'
<1> SUFFICES ASSUME LimiterAssumption, IInv, Tick PROVE IInv'
  OBVIOUS
<1> USE DEF Tick
<1>1. TypeOK'
  BY DEF IInv, TypeOK
<1>2. SliceWithinLimit'
  BY DEF IInv, SliceWithinLimit
<1>3. LogInv'
  <2> SUFFICES ASSUME NEW k \in Keys, NEW h \in log[k] PROVE h.locked <= clock + 1
    BY DEF IInv, LogInv
  <2>1. h \in Hit /\ h.locked <= clock /\ clock \in Nat
    BY DEF IInv, TypeOK, LogInv
  <2> QED
    BY <2>1 DEF Hit
<1>4. RecentInv'
  <2>0. log' = log /\ hits' = hits /\ clock' = clock + 1
    OBVIOUS
  <2> HIDE DEF Tick
  <2> SUFFICES ASSUME NEW k \in Keys, NEW h \in Recent(k)' PROVE h \in hits'[k]
    BY DEF RecentInv
  <2>1. h \in log[k] /\ h.locked > clock' - (Window - MaxLag)
    BY <2>0 DEF Recent
  <2>2. h \in Hit /\ clock \in Nat
    BY <2>1 DEF IInv, TypeOK
  <2>3. h \in Recent(k)
    BY <2>0, <2>1, <2>2 DEF Recent, Hit, LimiterAssumption
  <2> QED
    BY <2>0, <2>3 DEF IInv, RecentInv
<1>5. TimesInv'
  <2>1. /\ clock \in Nat
        /\ \A c \in Callers : calls[c].now \in Nat
        /\ \A t \in tickerC : t \in Nat
    BY DEF IInv, TypeOK, Call
  <2> QED
    BY <2>1 DEF IInv, TimesInv, LimiterAssumption
<1>6. PromiseInv'
  BY DEF IInv, PromiseInv, AliveAt
<1> QED
  BY <1>1, <1>2, <1>3, <1>4, <1>5, <1>6 DEF IInv

(* A goroutine reads the clock.                                            *)
LEMMA ArriveIInv ==
    ASSUME LimiterAssumption, IInv, NEW c \in Callers, NEW k \in Keys, Arrive(c, k)
    PROVE  IInv'
<1> USE DEF Arrive
<1>1. TypeOK'
  BY DEF IInv, TypeOK, Call, Stamped
<1>2. SliceWithinLimit' /\ LogInv' /\ RecentInv' /\ PromiseInv'
  BY DEF IInv, SliceWithinLimit, LogInv, RecentInv, Recent, PromiseInv, AliveAt
<1>3. TimesInv'
  <2>1. clock \in Nat /\ calls \in [Callers -> Call]
    BY DEF IInv, TypeOK
  <2>2. \A d \in Callers : calls'[d] = IF d = c THEN Stamped(k, clock) ELSE calls[d]
    BY <2>1
  <2> QED
    BY <2>1, <2>2 DEF IInv, TimesInv, LimiterAssumption, Stamped
<1> QED
  BY <1>1, <1>2, <1>3 DEF IInv

(* What a call that ends does to its own record keeps TimesInv.            *)
LEMMA TimesAfterCall ==
    ASSUME IInv, NEW c \in Callers, NEW call \in Call, call.state # "stamped",
           calls' = [calls EXCEPT ![c] = call], UNCHANGED <<clock, tickerC>>
    PROVE  TimesInv'
<1>1. calls \in [Callers -> Call]
  BY DEF IInv, TypeOK
<1>2. \A d \in Callers : calls'[d] = IF d = c THEN call ELSE calls[d]
  BY <1>1
<1> QED
  BY <1>2 DEF IInv, TimesInv

(* Allow admits: the new hit is the last in order and the latest locked.   *)
LEMMA AdmitIInv ==
    ASSUME LimiterAssumption, IInv, NEW c \in Callers, Admit(c)
    PROVE  IInv'
<1> DEFINE k == calls[c].key
           hit == NewHit(k, calls[c].now)
<1>0. /\ calls[c].state = "stamped"
      /\ ~Full(Kept(c))
      /\ hits' = [hits EXCEPT ![k] = Kept(c) \cup {hit}]
      /\ tracked' = tracked \cup {k}
      /\ appended' = [appended EXCEPT ![k] = @ + 1]
      /\ log' = [log EXCEPT ![k] = @ \cup {hit}]
      /\ promised' = [promised EXCEPT ![k] = {}]
      /\ calls' = [calls EXCEPT ![c] = Idle(k)]
      /\ UNCHANGED <<clock, tickerC>>
  BY DEF Admit
<1>1. /\ k \in Keys
      /\ calls[c].now \in Nat
      /\ Kept(c) \subseteq hits[k]
      /\ Kept(c) \subseteq Hit
      /\ IsFiniteSet(Kept(c))
      /\ Cardinality(Kept(c)) \in Nat
  BY KeptFacts
<1>2. /\ clock \in Nat
      /\ appended[k] \in Nat
      /\ log \in [Keys -> SUBSET Hit]
      /\ hits \in [Keys -> SUBSET Hit]
      /\ appended \in [Keys -> Nat]
      /\ promised \in [Keys -> SUBSET Nat]
      /\ calls[c].now <= clock
      /\ clock <= calls[c].now + MaxLag
  BY <1>0, <1>1 DEF IInv, TypeOK, TimesInv
<1>3. /\ hit \in Hit
      /\ hit.seq = appended[k] + 1
      /\ hit.at = calls[c].now
      /\ hit.locked = clock
  BY <1>1, <1>2 DEF NewHit, Hit
<1> HIDE DEF k, hit
<1>4. /\ \A j \in Keys : hits'[j] = IF j = k THEN Kept(c) \cup {hit} ELSE hits[j]
      /\ \A j \in Keys : log'[j] = IF j = k THEN log[k] \cup {hit} ELSE log[j]
      /\ \A j \in Keys : appended'[j] = IF j = k THEN appended[k] + 1 ELSE appended[j]
      /\ \A j \in Keys : promised'[j] = IF j = k THEN {} ELSE promised[j]
      /\ clock' = clock
  BY <1>0, <1>1, <1>2
<1>5. Idle(k) \in Call /\ Idle(k).state # "stamped"
  BY <1>1 DEF Idle, Call
<1>6. TypeOK'
  BY <1>0, <1>1, <1>2, <1>3, <1>4, <1>5 DEF IInv, TypeOK
<1>7. SliceWithinLimit'
  <2> SUFFICES ASSUME NEW j \in Keys
               PROVE  IsFiniteSet(hits'[j]) /\ Cardinality(hits'[j]) <= Limit
    BY DEF SliceWithinLimit
  <2>1. CASE j # k
    BY <1>4, <2>1 DEF IInv, SliceWithinLimit
  <2>2. CASE j = k
    <3>1. /\ IsFiniteSet(Kept(c) \cup {hit})
          /\ Cardinality(Kept(c) \cup {hit}) = Cardinality(Kept(c))
             \/ Cardinality(Kept(c) \cup {hit}) = Cardinality(Kept(c)) + 1
      BY <1>1, FS_AddElement
    <3>2. Cardinality(Kept(c)) < Limit
      BY <1>0, <1>1 DEF Full, LimiterAssumption
    <3> QED
      BY <1>1, <1>4, <2>2, <3>1, <3>2 DEF LimiterAssumption
  <2> QED
    BY <2>1, <2>2
<1>8. LogInv'
  <2> SUFFICES ASSUME NEW j \in Keys
               PROVE  /\ hits'[j] \subseteq log'[j]
                      /\ \A h \in log'[j] :
                            /\ h.at <= h.locked
                            /\ h.locked <= h.at + MaxLag
                            /\ h.locked <= clock
                            /\ h.seq <= appended'[j]
                      /\ \A g, h \in log'[j] : g.seq <= h.seq => g.locked <= h.locked
    BY <1>4 DEF LogInv
  <2>1. CASE j # k
    BY <1>4, <2>1 DEF IInv, LogInv
  <2>2. CASE j = k
    <3>1. /\ hits[k] \subseteq log[k]
          /\ \A h \in log[k] :
                /\ h \in Hit
                /\ h.at <= h.locked
                /\ h.locked <= h.at + MaxLag
                /\ h.locked <= clock
                /\ h.seq <= appended[k]
          /\ \A g, h \in log[k] : g.seq <= h.seq => g.locked <= h.locked
      BY <1>1, <1>2 DEF IInv, LogInv
    <3>2. hits'[k] \subseteq log'[k]
      BY <1>1, <1>4, <3>1
    <3>3. ASSUME NEW h \in log'[k]
          PROVE  /\ h.at <= h.locked
                 /\ h.locked <= h.at + MaxLag
                 /\ h.locked <= clock
                 /\ h.seq <= appended'[k]
      BY <1>1, <1>2, <1>3, <1>4, <3>1, <3>3 DEF Hit
    <3>4. ASSUME NEW g \in log'[k], NEW h \in log'[k], g.seq <= h.seq
          PROVE  g.locked <= h.locked
      BY <1>1, <1>2, <1>3, <1>4, <3>1, <3>4 DEF Hit
    <3> QED
      BY <2>2, <3>2, <3>3, <3>4
  <2> QED
    BY <2>1, <2>2
<1>9. RecentInv'
  <2> SUFFICES ASSUME NEW j \in Keys, NEW h \in log'[j],
                      h.locked > clock - (Window - MaxLag)
               PROVE  h \in hits'[j]
    BY <1>4 DEF RecentInv, Recent
  <2>1. CASE j # k
    BY <1>4, <2>1 DEF IInv, RecentInv, Recent
  <2>2. CASE j = k
    <3>1. Recent(k) \subseteq Kept(c)
      BY <1>0, KeptCoversRecent DEF k
    <3> QED
      BY <1>1, <1>4, <2>2, <3>1 DEF Recent
  <2> QED
    BY <2>1, <2>2
<1>10. TimesInv'
  BY <1>0, <1>5, TimesAfterCall
<1>11. PromiseInv'
  BY <1>4 DEF IInv, PromiseInv, AliveAt
<1> QED
  BY <1>6, <1>7, <1>8, <1>9, <1>10, <1>11 DEF IInv
----------------------------------------------------------------
(* The call that ends leaves a slice that is a part of the old one, and    *)
(* every other key alone: Reject and PanicOnEmpty.                         *)
LEMMA ShrinkKeeps ==
    ASSUME LimiterAssumption, IInv,
           hits' \in [Keys -> SUBSET Hit],
           \A k \in Keys : hits'[k] \subseteq hits[k],
           \A k \in Keys : Recent(k) \subseteq hits'[k],
           UNCHANGED <<clock, appended, log>>
    PROVE  /\ SliceWithinLimit'
           /\ LogInv'
           /\ RecentInv'
           /\ \A k \in Keys : \A t \in promised[k] : Cardinality(AliveAt(k, t)') < Limit
<1>1. SliceWithinLimit'
  <2> SUFFICES ASSUME NEW k \in Keys
               PROVE  IsFiniteSet(hits'[k]) /\ Cardinality(hits'[k]) <= Limit
    BY DEF SliceWithinLimit
  <2>1. IsFiniteSet(hits[k]) /\ Cardinality(hits[k]) <= Limit /\ hits'[k] \in SUBSET hits[k]
    BY DEF IInv, SliceWithinLimit
  <2> QED
    BY <2>1, SubsetBound DEF LimiterAssumption
<1>2. LogInv'
  BY DEF IInv, LogInv
<1>3. RecentInv'
  BY DEF RecentInv, Recent
<1>4. ASSUME NEW k \in Keys, NEW t \in promised[k]
      PROVE  Cardinality(AliveAt(k, t)') < Limit
  <2>1. AliveAt(k, t)' \in SUBSET AliveAt(k, t)
    BY DEF AliveAt
  <2>2. AliveAt(k, t) \in SUBSET hits[k]
    BY DEF AliveAt
  <2>3. IsFiniteSet(hits[k])
    BY DEF IInv, SliceWithinLimit
  <2>4. IsFiniteSet(AliveAt(k, t)) /\ Cardinality(AliveAt(k, t)) \in Nat
    BY <2>2, <2>3, SubsetBound
  <2>5. /\ Cardinality(AliveAt(k, t)') \in Nat
        /\ Cardinality(AliveAt(k, t)') <= Cardinality(AliveAt(k, t))
    BY <2>1, <2>4, SubsetBound
  <2>6. Cardinality(AliveAt(k, t)) < Limit
    BY <1>4 DEF IInv, PromiseInv
  <2> QED
    BY <2>4, <2>5, <2>6 DEF LimiterAssumption
<1> QED
  BY <1>1, <1>2, <1>3, <1>4

(* Allow rejects: kept[0] is no longer alive at the instant promised, and  *)
(* it was one of at most Limit.                                            *)
LEMMA RejectIInv ==
    ASSUME LimiterAssumption, IInv, NEW c \in Callers, Reject(c)
    PROVE  IInv'
<1> DEFINE k == calls[c].key
           now == calls[c].now
<1>0. /\ calls[c].state = "stamped"
      /\ hits' = [hits EXCEPT ![k] = Kept(c)]
      /\ tracked' = tracked \cup {k}
      /\ UNCHANGED <<clock, tickerC, appended, log>>
  BY DEF Reject
<1>1. PICK first \in Kept(c) :
        /\ calls' = [calls EXCEPT ![c] = Rejected(k, RetryAfter(first, now))]
        /\ promised' = [promised EXCEPT ![k] =
              IF \E t \in @ : t <= clock + RetryAfter(first, now) * TicksPerSecond
              THEN @ ELSE {clock + RetryAfter(first, now) * TicksPerSecond}]
  BY DEF Reject
<1> DEFINE wait == RetryAfter(first, now)
           due == clock + wait * TicksPerSecond
<1>2. /\ k \in Keys
      /\ now \in Nat
      /\ Kept(c) \subseteq hits[k]
      /\ Kept(c) \subseteq Hit
      /\ IsFiniteSet(Kept(c))
      /\ Cardinality(Kept(c)) \in Nat
      /\ Cardinality(Kept(c)) <= Limit
  BY KeptFacts
<1>3. /\ clock \in Nat
      /\ hits \in [Keys -> SUBSET Hit]
      /\ promised \in [Keys -> SUBSET Nat]
      /\ now <= clock
      /\ first \in Hit
  BY <1>0, <1>1, <1>2 DEF IInv, TypeOK, TimesInv
<1> HIDE DEF k, now
<1>4. wait \in Nat /\ due \in Nat /\ first.at + Window < due
  <2> DEFINE left == first.at + Window - now
             seconds == (left \div TicksPerSecond) + 1
  <2>1. left \in Int /\ TicksPerSecond \in Nat \ {0}
    BY <1>2, <1>3 DEF Hit, LimiterAssumption
  <2>2. seconds \in Int /\ seconds * TicksPerSecond > left
    <3> HIDE DEF left
    <3> QED
      BY <2>1, SecondsReach, SecondsInt
  <2>3. wait = IF seconds < 1 THEN 1 ELSE seconds
    BY DEF RetryAfter
  <2> HIDE DEF seconds, wait
  <2>4. wait \in Nat /\ wait >= seconds
    BY <2>2, <2>3
  <2>5. wait * TicksPerSecond >= seconds * TicksPerSecond /\ wait * TicksPerSecond \in Nat
    BY <2>1, <2>2, <2>4
  <2> DEFINE spanned == wait * TicksPerSecond
             reach == seconds * TicksPerSecond
  <2>6. spanned \in Nat /\ reach \in Int /\ spanned >= reach /\ reach > left
    BY <2>1, <2>2, <2>5
  <2> HIDE DEF spanned, reach
  <2>7. due = clock + spanned
    BY DEF spanned
  <2> HIDE DEF due
  <2> QED
    BY <1>2, <1>3, <2>4, <2>6, <2>7 DEF Hit, LimiterAssumption
<1> HIDE DEF wait, due
<1>5. promised' = [promised EXCEPT ![k] = IF \E t \in @ : t <= due THEN @ ELSE {due}]
  BY <1>1 DEF due, wait
<1>6. Rejected(k, wait) \in Call /\ Rejected(k, wait).state # "stamped"
  BY <1>2, <1>4 DEF Rejected, Call
<1>7. calls' = [calls EXCEPT ![c] = Rejected(k, wait)]
  BY <1>1 DEF wait
<1>8. \A j \in Keys : hits'[j] = IF j = k THEN Kept(c) ELSE hits[j]
  BY <1>0, <1>2, <1>3
<1>9. /\ hits' \in [Keys -> SUBSET Hit]
      /\ \A j \in Keys : hits'[j] \subseteq hits[j]
  BY <1>0, <1>2, <1>3, <1>8
<1>10. \A j \in Keys : Recent(j) \subseteq hits'[j]
  <2>1. Recent(k) \subseteq Kept(c)
    BY <1>0, KeptCoversRecent DEF k
  <2> QED
    BY <1>8, <2>1 DEF IInv, RecentInv
<1>11. TypeOK'
  BY <1>0, <1>2, <1>3, <1>4, <1>5, <1>6, <1>7, <1>8, <1>9 DEF IInv, TypeOK
<1>12. TimesInv'
  BY <1>0, <1>6, <1>7, TimesAfterCall
<1>13. /\ SliceWithinLimit'
       /\ LogInv'
       /\ RecentInv'
       /\ \A j \in Keys : \A t \in promised[j] : Cardinality(AliveAt(j, t)') < Limit
  BY <1>0, <1>9, <1>10, ShrinkKeeps
<1> DEFINE left == {h \in hits'[k] : h.at + Window > due}
<1>14. Cardinality(left) < Limit
  <2>1. left \in SUBSET (Kept(c) \ {first})
    <3>1. hits'[k] = Kept(c)
      BY <1>2, <1>8
    <3>2. ~(first.at + Window > due)
      BY <1>3, <1>4 DEF Hit, LimiterAssumption
    <3> QED
      BY <3>1, <3>2
  <2>2. /\ IsFiniteSet(Kept(c) \ {first})
        /\ Cardinality(Kept(c) \ {first}) = Cardinality(Kept(c)) - 1
    BY <1>1, <1>2, FS_RemoveElement
  <2> HIDE DEF left
  <2>3. /\ Cardinality(left) \in Nat
        /\ Cardinality(left) <= Cardinality(Kept(c) \ {first})
    BY <2>1, <2>2, SubsetBound
  <2> QED
    BY <1>2, <2>2, <2>3 DEF LimiterAssumption
<1>15. PromiseInv'
  <2> SUFFICES ASSUME NEW j \in Keys, NEW t \in promised'[j]
               PROVE  Cardinality({h \in hits'[j] : h.at + Window > t}) < Limit
    BY DEF PromiseInv, AliveAt
  <2>1. t \in promised[j] \/ (j = k /\ t = due)
    BY <1>2, <1>3, <1>5
  <2>2. CASE t \in promised[j]
    BY <1>13, <2>2 DEF AliveAt
  <2>3. CASE j = k /\ t = due
    BY <1>14, <2>3
  <2> QED
    BY <2>1, <2>2, <2>3
<1> QED
  BY <1>11, <1>12, <1>13, <1>15 DEF IInv
----------------------------------------------------------------
(* A limit of zero: an empty slice is stored, and nothing was promised.    *)
LEMMA PanicIInv ==
    ASSUME LimiterAssumption, IInv, NEW c \in Callers, PanicOnEmpty(c)
    PROVE  IInv'
<1> DEFINE k == calls[c].key
<1>0. /\ calls[c].state = "stamped"
      /\ Kept(c) = {}
      /\ hits' = [hits EXCEPT ![k] = {}]
      /\ tracked' = tracked \cup {k}
      /\ calls' = [calls EXCEPT ![c] = Panicked(k)]
      /\ UNCHANGED <<clock, tickerC, appended, log, promised>>
  BY DEF PanicOnEmpty
<1>1. k \in Keys
  BY KeptFacts
<1>2. Recent(k) = {}
  BY <1>0, KeptCoversRecent
<1> HIDE DEF k
<1>3. hits \in [Keys -> SUBSET Hit]
  BY DEF IInv, TypeOK
<1>4. \A j \in Keys : hits'[j] = IF j = k THEN {} ELSE hits[j]
  BY <1>0, <1>1, <1>3
<1>5. /\ hits' \in [Keys -> SUBSET Hit]
      /\ \A j \in Keys : hits'[j] \subseteq hits[j]
  BY <1>0, <1>1, <1>3, <1>4
<1>6. \A j \in Keys : Recent(j) \subseteq hits'[j]
  BY <1>2, <1>4 DEF IInv, RecentInv
<1>7. Panicked(k) \in Call /\ Panicked(k).state # "stamped"
  BY <1>1 DEF Panicked, Call
<1>8. TypeOK'
  BY <1>0, <1>1, <1>4, <1>5, <1>7 DEF IInv, TypeOK
<1>9. TimesInv'
  BY <1>0, <1>7, TimesAfterCall
<1>10. SliceWithinLimit' /\ LogInv' /\ RecentInv' /\ PromiseInv'
  BY <1>0, <1>5, <1>6, ShrinkKeeps DEF PromiseInv, AliveAt
<1> QED
  BY <1>8, <1>9, <1>10 DEF IInv

(* The ticker leaves the present time.                                     *)
LEMMA TickerFiresIInv == LimiterAssumption /\ IInv /\ TickerFires => IInv'
<1> SUFFICES ASSUME LimiterAssumption, IInv, TickerFires PROVE IInv'
  OBVIOUS
<1> USE DEF TickerFires
<1>1. TypeOK' /\ TimesInv'
  BY DEF IInv, TypeOK, TimesInv
<1>2. SliceWithinLimit' /\ LogInv' /\ RecentInv' /\ PromiseInv'
  BY DEF IInv, SliceWithinLimit, LogInv, RecentInv, Recent, PromiseInv, AliveAt
<1> QED
  BY <1>1, <1>2 DEF IInv

(* A slice Prune deletes has no hit in the promised span: its last hit is  *)
(* out of the window at the tick, and the others were locked before it.    *)
LEMMA ExpiredNotRecent ==
    ASSUME LimiterAssumption, IInv, NEW k \in Keys, NEW now \in tickerC,
           Expired(hits[k], now - Window)
    PROVE  Recent(k) = {}
<1>1. SUFFICES ASSUME NEW h \in Recent(k) PROVE FALSE
  OBVIOUS
<1>2. h \in hits[k] /\ h \in log[k] /\ h.locked > clock - (Window - MaxLag)
  BY DEF IInv, RecentInv, Recent
<1>3. PICK last \in hits[k] : IsLast(last, hits[k]) /\ last.at <= now - Window
  BY <1>2 DEF Expired
<1>4. /\ last \in log[k] /\ last \in Hit /\ h \in Hit
      /\ last.locked <= last.at + MaxLag
      /\ h.locked <= last.locked
  BY <1>2, <1>3 DEF IInv, LogInv, TypeOK, IsLast
<1>5. now \in Nat /\ clock \in Nat /\ now <= clock
  BY DEF IInv, TypeOK, TimesInv
<1> QED
  BY <1>2, <1>3, <1>4, <1>5 DEF Hit, LimiterAssumption

(* The pruner deletes expired windows.                                     *)
LEMMA PruneIInv == LimiterAssumption /\ IInv /\ Prune => IInv'
<1> SUFFICES ASSUME LimiterAssumption, IInv, Prune PROVE IInv'
  OBVIOUS
<1>1. PICK now \in tickerC :
        /\ tracked' = tracked \ {k \in tracked : Expired(hits[k], now - Window)}
        /\ hits' = [k \in Keys |->
              IF k \in {j \in tracked : Expired(hits[j], now - Window)} THEN {} ELSE hits[k]]
        /\ tickerC' = {}
        /\ UNCHANGED <<clock, calls, appended, log, promised>>
  BY DEF Prune
<1>2. hits \in [Keys -> SUBSET Hit]
  BY DEF IInv, TypeOK
<1>3. /\ hits' \in [Keys -> SUBSET Hit]
      /\ \A k \in Keys : hits'[k] \subseteq hits[k]
  BY <1>1, <1>2
<1>4. ASSUME NEW k \in Keys PROVE Recent(k) \subseteq hits'[k]
  <2>1. CASE hits'[k] = hits[k]
    BY <2>1 DEF IInv, RecentInv
  <2>2. CASE hits'[k] # hits[k]
    BY <1>1, <2>2, ExpiredNotRecent
  <2> QED
    BY <2>1, <2>2
<1>5. TypeOK'
  BY <1>1, <1>3 DEF IInv, TypeOK
<1>6. TimesInv'
  BY <1>1 DEF IInv, TimesInv
<1>7. SliceWithinLimit' /\ LogInv' /\ RecentInv' /\ PromiseInv'
  BY <1>1, <1>3, <1>4, ShrinkKeeps DEF PromiseInv, AliveAt
<1> QED
  BY <1>5, <1>6, <1>7 DEF IInv

(* The strengthened invariant is inductive.                                *)
LEMMA NextIInv == LimiterAssumption /\ IInv /\ [Next]_vars => IInv'
<1> SUFFICES ASSUME LimiterAssumption, IInv, [Next]_vars PROVE IInv'
  OBVIOUS
<1>1. CASE Tick
  BY <1>1, TickIInv
<1>2. CASE TickerFires
  BY <1>2, TickerFiresIInv
<1>3. CASE Prune
  BY <1>3, PruneIInv
<1>4. ASSUME NEW c \in Callers, Allow(c) PROVE IInv'
  BY <1>4, AdmitIInv, RejectIInv, PanicIInv DEF Allow
<1>5. ASSUME NEW c \in Callers, NEW k \in Keys, Arrive(c, k) PROVE IInv'
  BY <1>5, ArriveIInv
<1>6. CASE UNCHANGED vars
  BY <1>6 DEF vars, IInv, TypeOK, SliceWithinLimit, LogInv, RecentInv, Recent, TimesInv, PromiseInv, AliveAt
<1> QED
  BY <1>1, <1>2, <1>3, <1>4, <1>5, <1>6 DEF Next

LEMMA SpecIInv == Spec => []IInv
<1>1. Init => IInv
  BY InitIInv, LimiterAssumption
<1>2. IInv /\ [Next]_vars => IInv'
  BY NextIInv, LimiterAssumption
<1> QED
  BY <1>1, <1>2, PTL DEF Spec

-----------------------------------------------------------------------------
(* The limiter's state stays well formed (ratelimit.go:18-28).             *)
THEOREM TypeCorrect == Spec => []TypeOK
<1>1. IInv => TypeOK
  BY DEF IInv
<1> QED
  BY <1>1, SpecIInv, PTL

(* No slice outgrows the limit (ratelimit.go:45).                          *)
THEOREM SliceBounded == Spec => []SliceWithinLimit
<1>1. IInv => SliceWithinLimit
  BY DEF IInv
<1> QED
  BY <1>1, SpecIInv, PTL

(* No client gets more than Limit calls through in Window - MaxLag ticks,  *)
(* counting every call ever admitted (ratelimit.go:32-56).                 *)
THEOREM WindowKept == Spec => []WindowLimit
<1>1. IInv => WindowLimit
  <2> SUFFICES ASSUME IInv, NEW k \in Keys
               PROVE  IsFiniteSet(Recent(k)) /\ Cardinality(Recent(k)) <= Limit
    BY DEF WindowLimit
  <2>1. Recent(k) \in SUBSET hits[k] /\ IsFiniteSet(hits[k]) /\ Cardinality(hits[k]) <= Limit
    BY DEF IInv, RecentInv, SliceWithinLimit
  <2> QED
    BY <2>1, SubsetBound, LimiterAssumption DEF LimiterAssumption
<1> QED
  BY <1>1, SpecIInv, PTL

(* A rejected client that waits as long as it was told, while nobody else  *)
(* is let through under its key, finds room (ratelimit.go:47-50).          *)
THEOREM WaitSuffices == Spec => []RetryAfterSuffices
<1>1. IInv => RetryAfterSuffices
  <2> SUFFICES ASSUME IInv, NEW k \in Keys, NEW t \in promised[k], clock >= t
               PROVE  ~Full(Live(hits[k], clock - Window))
    BY DEF RetryAfterSuffices
  <2>1. /\ clock \in Nat /\ t \in Nat
        /\ hits[k] \subseteq Hit
        /\ IsFiniteSet(hits[k])
        /\ Cardinality(AliveAt(k, t)) < Limit
    BY DEF IInv, TypeOK, SliceWithinLimit, PromiseInv
  <2>2. Live(hits[k], clock - Window) \in SUBSET AliveAt(k, t)
    BY <2>1, LimiterAssumption DEF Live, AliveAt, Hit, LimiterAssumption
  <2>3. AliveAt(k, t) \in SUBSET hits[k]
    BY DEF AliveAt
  <2>4. IsFiniteSet(AliveAt(k, t)) /\ Cardinality(AliveAt(k, t)) \in Nat
    BY <2>1, <2>3, SubsetBound
  <2>5. /\ Cardinality(Live(hits[k], clock - Window)) \in Nat
        /\ Cardinality(Live(hits[k], clock - Window)) <= Cardinality(AliveAt(k, t))
    BY <2>2, <2>4, SubsetBound
  <2> QED
    BY <2>1, <2>4, <2>5, LimiterAssumption DEF Full, LimiterAssumption
<1> QED
  BY <1>1, SpecIInv, PTL

(* The limiter implements RequestQuota: an admission is a Give, a tick is  *)
(* TimePasses, and every other step stutters.                              *)
THEOREM ImplementsQuota == Spec => KeepsQuota
<1>1. Init => Quota!QuotaInit
  BY DEF Init, Quota!QuotaInit
<1>2. IInv /\ [Next]_vars => [Quota!QuotaNext]_(Quota!quotaVars)
  <2> SUFFICES ASSUME IInv, [Next]_vars PROVE [Quota!QuotaNext]_(Quota!quotaVars)
    OBVIOUS
  <2>1. CASE Tick
    BY <2>1 DEF Tick, Quota!QuotaNext, Quota!TimePasses
  <2>2. ASSUME NEW c \in Callers, Admit(c) PROVE Quota!QuotaNext
    <3>0. PICK k : k = calls[c].key
      OBVIOUS
    <3> DEFINE hit == NewHit(k, calls[c].now)
    <3>1. /\ calls[c].state = "stamped"
          /\ ~Full(Kept(c))
          /\ log' = [log EXCEPT ![k] = @ \cup {hit}]
          /\ clock' = clock
      BY <2>2, <3>0 DEF Admit
    <3>2. k \in Keys /\ IsFiniteSet(Kept(c)) /\ Cardinality(Kept(c)) \in Nat
      BY <2>2, <3>0, KeptFacts, LimiterAssumption DEF Admit
    <3>3. Recent(k) \in SUBSET Kept(c)
      BY <3>0, <3>1, KeptCoversRecent, LimiterAssumption
    <3>4. Cardinality(Recent(k)) < Limit
      BY <3>1, <3>2, <3>3, SubsetBound, LimiterAssumption DEF Full, LimiterAssumption
    <3>5. hit \notin log[k] /\ LockedAt(hit) = clock
      <4>1. hit.seq = appended[k] + 1 /\ hit.locked = clock
        BY DEF NewHit
      <4>2. /\ appended[k] \in Nat
            /\ \A h \in log[k] : h.seq \in Nat /\ h.seq <= appended[k]
        BY <3>2 DEF IInv, TypeOK, LogInv, Hit
      <4> QED
        BY <4>1, <4>2 DEF LockedAt
    <3>6. hit \in log'[k] \ log[k]
      BY <3>1, <3>2, <3>5 DEF IInv, TypeOK
    <3>7. Quota!RecentGrants(k) = Recent(k)
      BY DEF Quota!RecentGrants, Recent, LockedAt
    <3> HIDE DEF hit
    <3>8. Quota!Cardinality(Quota!RecentGrants(k)) < Limit
      BY <3>4, <3>7 DEF Quota!Cardinality, Cardinality
    <3>9. \E g \in log'[k] \ log[k] :
             LockedAt(g) = clock /\ log' = [log EXCEPT ![k] = log[k] \cup {g}]
      BY <3>1, <3>5, <3>6
    <3>10. Quota!Give(k)
      BY <3>1, <3>8, <3>9 DEF Quota!Give
    <3> QED
      BY <3>2, <3>10 DEF Quota!QuotaNext
  <2>3. ASSUME NEW c \in Callers, Reject(c) \/ PanicOnEmpty(c)
        PROVE  UNCHANGED <<clock, log>>
    BY <2>3 DEF Reject, PanicOnEmpty
  <2>4. ASSUME NEW c \in Callers, NEW k \in Keys, Arrive(c, k)
        PROVE  UNCHANGED <<clock, log>>
    BY <2>4 DEF Arrive
  <2>5. CASE TickerFires \/ Prune \/ UNCHANGED vars
    BY <2>5 DEF TickerFires, Prune, vars, Quota!quotaVars
  <2> QED
    BY <2>1, <2>2, <2>3, <2>4, <2>5 DEF Next, Allow, Quota!quotaVars
<1> QED
  BY <1>1, <1>2, SpecIInv, PTL DEF Spec, KeepsQuota, Quota!QuotaSpec
-----------------------------------------------------------------------------
(* The advertised wait, lag included: first may have been locked after the *)
(* time the rejected call carries.                                         *)
WaitInv ==
    \A c \in Callers : calls[c].state = "rejected" =>
        /\ calls[c].retryAfter >= 1
        /\ (calls[c].retryAfter - 1) * TicksPerSecond <= Window + MaxLag

LEMMA SecondsFit ==
    ASSUME NEW a \in Int, NEW d \in Nat \ {0}, NEW b \in Nat, a <= b
    PROVE  /\ a \div d \in Int
           /\ (a \div d) * d <= b
           /\ 0 * d <= b
  BY SMT

LEMMA WaitStep ==
    ASSUME LimiterAssumption, IInv, WaitInv, [Next]_vars
    PROVE  WaitInv'
<1>0. calls \in [Callers -> Call]
  BY DEF IInv, TypeOK
<1>1. ASSUME UNCHANGED calls
      PROVE  WaitInv'
  BY <1>1 DEF WaitInv
<1>2. ASSUME NEW c \in Callers, NEW call, call.state # "rejected",
             calls' = [calls EXCEPT ![c] = call]
      PROVE  WaitInv'
  <2>1. \A d \in Callers : calls'[d] = IF d = c THEN call ELSE calls[d]
    BY <1>0, <1>2
  <2> QED
    BY <1>2, <2>1 DEF WaitInv
<1>3. CASE Tick \/ TickerFires \/ Prune \/ UNCHANGED vars
  BY <1>1, <1>3 DEF Tick, TickerFires, Prune, vars
<1>4. ASSUME NEW c \in Callers, NEW k \in Keys, Arrive(c, k)
      PROVE  WaitInv'
  BY <1>2, <1>4 DEF Arrive, Stamped
<1>5. ASSUME NEW c \in Callers, Admit(c) \/ PanicOnEmpty(c)
      PROVE  WaitInv'
  BY <1>2, <1>5 DEF Admit, PanicOnEmpty, Idle, Panicked
<1>6. ASSUME NEW c \in Callers, Reject(c)
      PROVE  WaitInv'
  <2>1. PICK first \in Kept(c) :
           calls' = [calls EXCEPT ![c] = Rejected(calls[c].key, RetryAfter(first, calls[c].now))]
    BY <1>6 DEF Reject
  <2>2. /\ calls[c].now \in Nat /\ calls[c].key \in Keys
        /\ clock \in Nat /\ clock <= calls[c].now + MaxLag
    BY <1>6, KeptFacts DEF IInv, TypeOK, TimesInv, Reject
  <2>3. first \in Hit /\ first \in log[calls[c].key]
    BY <2>1, <2>2, KeptFacts DEF IInv, LogInv
  <2>4. first.at \in Nat /\ first.at <= clock
    BY <2>2, <2>3 DEF IInv, LogInv, Hit
  <2>5. PICK a \in Int : a = first.at + Window - calls[c].now
    BY <2>2, <2>4 DEF LimiterAssumption
  <2>6. a <= Window + MaxLag /\ Window + MaxLag \in Nat
    BY <2>2, <2>4, <2>5 DEF LimiterAssumption
  <2>7. PICK seconds \in Int : seconds = a \div TicksPerSecond
    BY SecondsInt DEF LimiterAssumption
  <2>8. seconds * TicksPerSecond <= Window + MaxLag /\ 0 * TicksPerSecond <= Window + MaxLag
    BY <2>6, <2>7, SecondsFit DEF LimiterAssumption
  <2>9. RetryAfter(first, calls[c].now) = IF seconds + 1 < 1 THEN 1 ELSE seconds + 1
    BY <2>5, <2>7 DEF RetryAfter
  <2>10. PICK wait \in Int : wait = RetryAfter(first, calls[c].now)
    BY <2>9
  <2>11. wait >= 1 /\ (wait - 1 = 0 \/ wait - 1 = seconds)
    BY <2>9, <2>10
  <2>12. (wait - 1) * TicksPerSecond <= Window + MaxLag
    BY <2>8, <2>11
  <2>13. \A d \in Callers : calls'[d] = IF d = c THEN Rejected(calls[c].key, wait) ELSE calls[d]
    BY <1>0, <2>1, <2>10
  <2>14. Rejected(calls[c].key, wait).retryAfter = wait
    BY DEF Rejected
  <2> QED
    BY <2>11, <2>12, <2>13, <2>14 DEF WaitInv
<1> QED
  BY <1>3, <1>4, <1>5, <1>6 DEF Next, Allow

(* The advertised wait is at least a second, and past the window by no     *)
(* more than the goroutine's lag and the second that is added              *)
(* (ratelimit.go:47).                                                      *)
THEOREM WaitIsBoundedWithLag == Spec => []WaitInv
<1>1. Init => WaitInv
  BY DEF Init, WaitInv, Idle
<1>2. IInv /\ WaitInv /\ [Next]_vars => WaitInv'
  BY WaitStep, LimiterAssumption
<1> QED
  BY <1>1, <1>2, SpecIInv, PTL DEF Spec

(* Where no goroutine loses time before the mutex, the bound of the        *)
(* limiter's own test holds for every limit and window: the advertised     *)
(* wait is between one second and the window plus one (ratelimit.go:47).   *)
THEOREM WaitIsBounded == ASSUME MaxLag = 0 PROVE Spec => []RetryAfterInWindowPlusOne
<1>1. WaitInv => RetryAfterInWindowPlusOne
  BY LimiterAssumption DEF WaitInv, RetryAfterInWindowPlusOne, LimiterAssumption
<1> QED
  BY <1>1, WaitIsBoundedWithLag, PTL

-----------------------------------------------------------------------------
(* What Prune deletes had its latest hit outside the window at a tick that *)
(* is no later than now, and every other hit was locked before that one.   *)
LEMMA DeletedIsOld ==
    ASSUME LimiterAssumption, IInv, [Next]_vars, NEW k \in tracked \ tracked', NEW h \in hits[k]
    PROVE  h.at <= clock - Window + MaxLag
<1>1. Prune
  BY DEF Next, vars, Tick, TickerFires, Arrive, Allow, Admit, Reject, PanicOnEmpty
<1>2. PICK now \in tickerC : Expired(hits[k], now - Window)
  BY <1>1 DEF Prune
<1>3. PICK last \in hits[k] : IsLast(last, hits[k]) /\ last.at <= now - Window
  BY <1>2 DEF Expired
<1>4. k \in Keys /\ now \in Nat /\ clock \in Nat /\ now <= clock
  BY DEF IInv, TypeOK, TimesInv
<1>5. last \in log[k] /\ h \in log[k] /\ last \in Hit /\ h \in Hit
  BY <1>4 DEF IInv, TypeOK, LogInv
<1>6. /\ h.at <= h.locked /\ h.locked <= last.locked
      /\ last.locked <= last.at + MaxLag
  BY <1>3, <1>4, <1>5 DEF IsLast, IInv, LogInv
<1> QED
  BY <1>3, <1>4, <1>5, <1>6 DEF LimiterAssumption, Hit

(* What a pruned key still held was outside the window, or within the lag  *)
(* of leaving it, however stale the tick (ratelimit.go:58-70).             *)
PruneOnlyOld ==
    [][\A k \in tracked \ tracked' : \A h \in hits[k] : h.at <= clock - Window + MaxLag]_vars

(* Prune deletes nothing but that.                                         *)
THEOREM PruneIsSafeWithLag == Spec => PruneOnlyOld
<1>1. IInv /\ [Next]_vars =>
         [\A k \in tracked \ tracked' : \A h \in hits[k] : h.at <= clock - Window + MaxLag]_vars
  BY DeletedIsOld, LimiterAssumption
<1> QED
  BY <1>1, SpecIInv, PTL DEF Spec, PruneOnlyOld

(* Prune deletes no key with a hit inside the window, however stale the    *)
(* tick it runs on, when calls lose no time before the mutex               *)
(* (ratelimit.go:58-70).                                                   *)
THEOREM PruneIsSafe == ASSUME MaxLag = 0 PROVE Spec => PruneOnlyExpired
<1>1. IInv /\ [Next]_vars =>
         [\A k \in tracked \ tracked' : \A h \in hits[k] : h.at <= clock - Window]_vars
  <2> SUFFICES ASSUME IInv, [Next]_vars, NEW k \in tracked \ tracked', NEW h \in hits[k]
               PROVE  h.at <= clock - Window
    OBVIOUS
  <2>1. h.at <= clock - Window + MaxLag
    BY DeletedIsOld, LimiterAssumption
  <2>2. clock \in Nat
    BY DEF IInv, TypeOK
  <2> QED
    BY <2>1, <2>2, LimiterAssumption DEF LimiterAssumption
<1> QED
  BY <1>1, SpecIInv, PTL DEF Spec, PruneOnlyExpired
=============================================================================
