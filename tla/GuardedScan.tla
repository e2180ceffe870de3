----------------------------- MODULE GuardedScan -----------------------------
(***************************************************************************)
(* Scan with the addresses of AddressGuard: what it takes for public is    *)
(* what IsPublicAddr accepts.                                              *)
(***************************************************************************)
EXTENDS Scan, AddressGuard

CONSTANT InternalAddrs      \* those no stranger's request is to reach

ASSUME GuardAssumption ==
    /\ PublicAddrs = {addr \in Addrs : IsPublicAddr(addr)}
    /\ Unmapped = [addr \in Addrs |-> Unmap(addr)]
    /\ InternalAddrs \subseteq Addrs

(* guard.go, layer 2: at every hop, an answer of DNS is refused for its    *)
(* addresses exactly when one of them is internal, however it is written   *)
(* and wherever in the answer it stands; a site on public addresses, next  *)
(* to an internal range or not, is never turned away as internal.          *)
AnswersAreJudged ==
    [][Len(lookups') > Len(lookups) =>
        LET answers == lookups'[Len(lookups')].answers
        IN  result'.code = "blocked_target" <=> \E i \in DOMAIN answers : answers[i] \in InternalAddrs]_vars
=============================================================================
