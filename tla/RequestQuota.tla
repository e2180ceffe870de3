---------------------------- MODULE RequestQuota ----------------------------
(***************************************************************************)
(* What a rate limiter promises, with no mechanism in it: each client gets *)
(* at most Limit grants in any stretch of Span consecutive instants.       *)
(* backend/internal/api/ratelimit.go is one implementation (see            *)
(* SlidingWindowLimiter); its comment names another, a shared Redis        *)
(* counter, that would have to keep the same promise.                      *)
(***************************************************************************)
EXTENDS Integers, FiniteSets

CONSTANTS
    Keys,     \* the clients
    Limit,    \* grants per client and span
    Span,     \* length of the span, in ticks of the clock
    When(_)   \* the instant a grant was handed out

VARIABLES
    now,      \* the instant
    granted   \* granted[k] = every grant client k was ever given

quotaVars == <<now, granted>>

RecentGrants(k) == {g \in granted[k] : When(g) > now - Span}

QuotaInit ==
    /\ now = 0
    /\ granted = [k \in Keys |-> {}]

(* A new grant, whatever it is made of, while fewer than Limit are recent. *)
Give(k) ==
    /\ Cardinality(RecentGrants(k)) < Limit
    /\ \E g \in granted'[k] \ granted[k] :
          /\ When(g) = now
          /\ granted' = [granted EXCEPT ![k] = @ \cup {g}]
    /\ now' = now

TimePasses ==
    /\ now' = now + 1
    /\ UNCHANGED granted

QuotaNext == TimePasses \/ \E k \in Keys : Give(k)

QuotaSpec == QuotaInit /\ [][QuotaNext]_quotaVars
=============================================================================
