------------------------ MODULE SlidingWindowLimiter ------------------------
(***************************************************************************)
(* backend/internal/api/ratelimit.go: the per-client sliding window, the   *)
(* goroutines that call Allow and the pruning goroutine of StartPruning.   *)
(*                                                                         *)
(* handleScan evaluates s.now() as an argument of Allow, so the time a     *)
(* call carries is read BEFORE Allow takes l.mu and is used after it: calls *)
(* may be applied out of order of their times.  A call is therefore two    *)
(* actions here, Arrive and one of Admit / Reject / PanicOnEmpty, and      *)
(* MaxLag bounds how many ticks a goroutine may lose between them.         *)
(*                                                                         *)
(* A []time.Time slice is the set of its elements; seq is the order they   *)
(* were appended in, which the in-place filter keeps.  Times are ticks of  *)
(* a clock with TicksPerSecond of them to a second.                        *)
(***************************************************************************)
EXTENDS Integers, FiniteSets

CONSTANTS
    Keys,            \* the client keys
    Callers,         \* goroutines serving requests
    Limit,           \* RATE_LIMIT_REQUESTS
    Window,          \* RATE_LIMIT_WINDOW_SECONDS, in ticks
    TicksPerSecond,
    MaxLag,          \* ticks between s.now() and l.mu.Lock(), at most
    LastCall,        \* bound: no request arrives after this tick
    MaxClock         \* bound: the clock stops here

ASSUME LimiterAssumption ==
    /\ Limit \in Nat
    /\ Window \in Nat \ {0}
    /\ TicksPerSecond \in Nat \ {0}
    /\ MaxLag \in Nat
    /\ LastCall \in Nat
    /\ MaxClock \in Nat

VARIABLES
    clock,     \* the wall clock
    calls,     \* calls[c]: what goroutine c is doing and what it was told
    hits,      \* l.hits; an absent key reads as the empty slice
    tracked,   \* the keys present in l.hits
    tickerC,   \* the tick waiting in ticker.C, if any
    appended,  \* ghost: how many hits each key ever had appended
    log,       \* ghost: every hit ever recorded, dropped or not
    promised   \* ghost: the earliest instant a rejected client was told to retry at

vars == <<clock, calls, hits, tracked, tickerC, appended, log, promised>>

-----------------------------------------------------------------------------
(* at: the time the call carried.  locked: the instant it held l.mu, which *)
(* no code reads.                                                          *)
Hit == [seq : Nat, at : Nat, locked : Nat]

Call == [state : {"idle", "stamped", "rejected", "panicked"},
         key : Keys, now : Nat, retryAfter : Int]

(* A goroutine whose call is over keeps no time.                           *)
Idle(k)          == [state |-> "idle",     key |-> k, now |-> 0, retryAfter |-> 0]
Stamped(k, t)    == [state |-> "stamped",  key |-> k, now |-> t, retryAfter |-> 0]
Rejected(k, w)   == [state |-> "rejected", key |-> k, now |-> 0, retryAfter |-> w]
Panicked(k)      == [state |-> "panicked", key |-> k, now |-> 0, retryAfter |-> 0]

LiveAtBoundary(slice, cutoff) == {h \in slice : h.at >= cutoff}

(* The filter loop of Allow: hit.After(cutoff). *)
Live(slice, cutoff) == {h \in slice : h.at > cutoff}

FullPastLimit(kept) == Cardinality(kept) > Limit

(* len(kept) >= l.limit *)
Full(kept) == Cardinality(kept) >= Limit

(* kept[0] and hits[len(hits)-1] *)
IsFirst(h, slice) == h \in slice /\ \A g \in slice : h.seq <= g.seq
IsLast(h, slice)  == h \in slice /\ \A g \in slice : g.seq <= h.seq

WholeSeconds(first, now) == (first.at + Window - now) \div TicksPerSecond
WaitFromNow(first, now) == 1 + (now + Window - first.at) \div TicksPerSecond

(* int(d.Seconds()) + 1: the seconds are truncated, then one is added. *)
RetryAfter(first, now) ==
    LET seconds == ((first.at + Window - now) \div TicksPerSecond) + 1
    IN  IF seconds < 1 THEN 1 ELSE seconds

HitAtCutoff(k, now) == [seq |-> appended[k] + 1, at |-> now - Window, locked |-> clock]

(* append(kept, now) *)
NewHit(k, now) == [seq |-> appended[k] + 1, at |-> now, locked |-> clock]

EmptyOnly(slice, cutoff) == slice = {}
LastExpired(slice, cutoff) == \E h \in slice : IsLast(h, slice) /\ h.at <= cutoff
FirstExpired(slice, cutoff) == slice = {} \/ \E h \in slice : IsFirst(h, slice) /\ h.at <= cutoff

(* Prune's test: empty, or the last element is not after the cutoff. *)
Expired(slice, cutoff) == slice = {} \/ \E h \in slice : IsLast(h, slice) /\ h.at <= cutoff

-----------------------------------------------------------------------------
Init ==
    /\ clock = 0
    /\ calls \in [Callers -> {Idle(k) : k \in Keys}]
    /\ hits = [k \in Keys |-> {}]
    /\ tracked = {}
    /\ tickerC = {}
    /\ appended = [k \in Keys |-> 0]
    /\ log = [k \in Keys |-> {}]
    /\ promised = [k \in Keys |-> {}]

(* Time passes, except that a goroutine loses at most MaxLag ticks between *)
(* reading the clock and holding the mutex.                                *)
Tick ==
    /\ clock < MaxClock
    /\ \A c \in Callers : calls[c].state = "stamped" => clock < calls[c].now + MaxLag
    /\ clock' = clock + 1
    /\ UNCHANGED <<calls, hits, tracked, tickerC, appended, log, promised>>

(* handleScan gets as far as s.limiter.Allow(s.clientKey(r), s.now()). *)
Arrive(c, k) ==
    /\ calls[c].state # "stamped"
    /\ clock <= LastCall
    /\ calls' = [calls EXCEPT ![c] = Stamped(k, clock)]
    /\ UNCHANGED <<clock, hits, tracked, tickerC, appended, log, promised>>

(* What every call of Allow does first, holding l.mu. *)
Kept(c) == Live(hits[calls[c].key], calls[c].now - Window)

(* l.hits[key] = append(kept, now); return true, 0 *)
Admit(c) ==
    LET k == calls[c].key
        hit == NewHit(k, calls[c].now)
    IN  /\ calls[c].state = "stamped"
        /\ ~Full(Kept(c))
        /\ hits' = [hits EXCEPT ![k] = Kept(c) \cup {hit}]
        /\ tracked' = tracked \cup {k}
        /\ appended' = [appended EXCEPT ![k] = @ + 1]
        /\ log' = [log EXCEPT ![k] = @ \cup {hit}]
        /\ promised' = [promised EXCEPT ![k] = {}]
        /\ calls' = [calls EXCEPT ![c] = Idle(k)]
        /\ UNCHANGED <<clock, tickerC>>

(* l.hits[key] = kept; return false, retryAfter.  The client reads the     *)
(* answer no earlier than now, so `due` is the earliest it may come back.  *)
Reject(c) ==
    LET k == calls[c].key
    IN  /\ calls[c].state = "stamped"
        /\ Full(Kept(c))
        /\ hits' = [hits EXCEPT ![k] = Kept(c)]
        /\ tracked' = tracked \cup {k}
        /\ \E first \in Kept(c) :
              LET wait == RetryAfter(first, calls[c].now)
                  due  == clock + wait * TicksPerSecond
              IN  /\ IsFirst(first, Kept(c))
                  /\ calls' = [calls EXCEPT ![c] = Rejected(k, wait)]
                  /\ promised' = [promised EXCEPT ![k] = IF \E t \in @ : t <= due THEN @ ELSE {due}]
        /\ UNCHANGED <<clock, tickerC, appended, log>>

(* A limit of zero: the slice is full and empty, and kept[0] panics after  *)
(* the assignment.  net/http recovers; the deferred Unlock runs.           *)
PanicOnEmpty(c) ==
    LET k == calls[c].key
    IN  /\ calls[c].state = "stamped"
        /\ Full(Kept(c))
        /\ Kept(c) = {}
        /\ hits' = [hits EXCEPT ![k] = {}]
        /\ tracked' = tracked \cup {k}
        /\ calls' = [calls EXCEPT ![c] = Panicked(k)]
        /\ UNCHANGED <<clock, tickerC, appended, log, promised>>

Allow(c) == Admit(c) \/ Reject(c) \/ PanicOnEmpty(c)

(* The ticker sends the time; a tick nobody has received yet is kept. *)
TickerFires ==
    /\ tickerC = {}
    /\ tickerC' = {clock}
    /\ UNCHANGED <<clock, calls, hits, tracked, appended, log, promised>>

(* case now := <-ticker.C: s.limiter.Prune(now) *)
Prune ==
    \E now \in tickerC :
        LET gone == {k \in tracked : Expired(hits[k], now - Window)}
        IN  /\ tracked' = tracked \ gone
            /\ hits' = [k \in Keys |-> IF k \in gone THEN {} ELSE hits[k]]
            /\ tickerC' = {}
            /\ UNCHANGED <<clock, calls, appended, log, promised>>

Next ==
    \/ Tick
    \/ TickerFires
    \/ Prune
    \/ \E c \in Callers : Allow(c)
    \/ \E c \in Callers, k \in Keys : Arrive(c, k)

Spec == Init /\ [][Next]_vars

(* Time passes, the ticker keeps firing, and a goroutine that wants l.mu,  *)
(* or has a tick to receive, is scheduled.  Clients owe nothing.           *)
Fairness ==
    /\ WF_vars(Tick)
    /\ WF_vars(TickerFires)
    /\ WF_vars(Prune)
    /\ \A c \in Callers : WF_vars(Allow(c))

FairSpec == Spec /\ Fairness

-----------------------------------------------------------------------------
(* The state is well formed, and a key deleted from the map has no slice.  *)
TypeOK ==
    /\ clock \in Nat
    /\ calls \in [Callers -> Call]
    /\ hits \in [Keys -> SUBSET Hit]
    /\ tracked \in SUBSET Keys
    /\ tickerC \in SUBSET Nat
    /\ appended \in [Keys -> Nat]
    /\ log \in [Keys -> SUBSET Hit]
    /\ promised \in [Keys -> SUBSET Nat]
    /\ \A k \in Keys \ tracked : hits[k] = {}

(* The limiter's own slice never outgrows the limit, whatever order calls  *)
(* and prunes come in (ratelimit.go:45).                                   *)
SliceWithinLimit == \A k \in Keys : IsFiniteSet(hits[k]) /\ Cardinality(hits[k]) <= Limit

Recent(k) == {h \in log[k] : h.locked > clock - (Window - MaxLag)}

(* "RATE_LIMIT_REQUESTS scans por janela, por cliente": counted by the     *)
(* instant each call held the mutex, a client never gets more than Limit   *)
(* calls through in the last Window - MaxLag ticks -- although calls are   *)
(* applied out of order of the times they carry, the filter drops by those *)
(* times, and Prune runs on a stale tick.                                  *)
WindowLimit == \A k \in Keys : IsFiniteSet(Recent(k)) /\ Cardinality(Recent(k)) <= Limit

(* A client that was turned away, waits retryAfterSeconds and has no other *)
(* call let through meanwhile, finds the window open: the advertised wait  *)
(* is long enough even when kept[0] is not the oldest hit of the slice     *)
(* (ratelimit.go:47).                                                      *)
RetryAfterSuffices ==
    \A k \in Keys : \A t \in promised[k] :
        clock >= t => ~Full(Live(hits[k], clock - Window))

(* "Prune drops windows that fully expired" (ratelimit.go:58): no key is   *)
(* deleted while one of its hits is still inside the window.               *)
PruneOnlyExpired ==
    [][\A k \in tracked \ tracked' : \A h \in hits[k] : h.at <= clock - Window]_vars

(* The bound the limiter's test asserts on the advertised wait             *)
(* (ratelimit_test.go:22): between one second and the window plus one.     *)
RetryAfterInWindowPlusOne ==
    \A c \in Callers : calls[c].state = "rejected" =>
        /\ calls[c].retryAfter >= 1
        /\ (calls[c].retryAfter - 1) * TicksPerSecond <= Window

(* "Allow records one hit for key. It returns false and the seconds to     *)
(* wait when the caller is over the limit" (ratelimit.go:30): it returns.  *)
AllowReturns == \A c \in Callers : calls[c].state # "panicked"

(* "... so idle clients stop costing memory" (ratelimit.go:58): a client   *)
(* that stops calling is deleted from the map.                             *)
IdleClientsForgotten == \A k \in Keys : k \in tracked ~> k \notin tracked

(* The limiter keeps the promise of RequestQuota, over a span shorter than *)
(* the window by the lag.                                                  *)
LockedAt(h) == h.locked
Quota == INSTANCE RequestQuota
         WITH Span <- Window - MaxLag, When <- LockedAt, now <- clock, granted <- log
KeepsQuota == Quota!QuotaSpec
=============================================================================
