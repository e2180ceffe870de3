---------------------------- MODULE FetchPromise ----------------------------
(***************************************************************************)
(* What FetchHeaders promises its caller, with no URL, DNS or HTTP in it:  *)
(* a bounded number of visits, each to an acceptable place, and then one   *)
(* verdict, after which nothing more is visited.  ScanService relies on    *)
(* this much of a scan and on no more; Scan is shown to implement it.      *)
(***************************************************************************)
EXTENDS Integers, Sequences

CONSTANTS
    Acceptable,   \* the places that may be visited
    MaxVisits     \* how many visits one fetch may make

VARIABLES
    status,   \* "running", "ok" or "failed"
    visits    \* the places visited, in order

promiseVars == <<status, visits>>

PromiseInit == status = "running" /\ visits = <<>>

Visit(place) ==
    /\ status = "running"
    /\ Len(visits) < MaxVisits
    /\ visits' = Append(visits, place)
    /\ status' = status

(* Success needs something to report on.                                   *)
Succeed ==
    /\ status = "running"
    /\ visits # <<>>
    /\ status' = "ok"
    /\ visits' = visits

Fail ==
    /\ status = "running"
    /\ status' = "failed"
    /\ visits' = visits

PromiseNext == Succeed \/ Fail \/ \E place \in Acceptable : Visit(place)

PromiseSpec == PromiseInit /\ [][PromiseNext]_promiseVars

(* The caller holds a slot until the verdict, so there has to be one.      *)
PromiseFairSpec == PromiseSpec /\ WF_promiseVars(Succeed \/ Fail)
=============================================================================
