----------------------------- MODULE ScanScreen -----------------------------
(***************************************************************************)
(* What the page promises of its results area: types.ts calls it one       *)
(* closed union.  A scan, once on screen, ends in its own report or its    *)
(* own failure and in nothing else; a report is never replaced by an       *)
(* earlier one of the same address; the page never goes back to idle.      *)
(***************************************************************************)
EXTENDS Integers

CONSTANT Urls

VARIABLE screen     \* [status, url, report, failure]

ResultOf(s, u) ==
    \/ s.status = "success" /\ s.report.url = u
    \/ s.status = "error" /\ s.url = u

Busy == screen.status = "scanning"

Newer(s) ==
    screen.status = "success" /\ s.status = "success" /\ screen.report.url = s.report.url
        => screen.report.id <= s.report.id

Init == screen.status = "idle"

(* A scan is started, by the user or because the network came back.        *)
Ask(u) == ~Busy /\ screen'.status = "scanning" /\ screen'.url = u

(* The scan on screen is over.                                             *)
Finish == Busy /\ ResultOf(screen', screen.url)

(* What is known of an address is shown without a scan.                    *)
Recall(u) == ~Busy /\ ResultOf(screen', u) /\ Newer(screen')

Next == Finish \/ \E u \in Urls : Ask(u) \/ Recall(u)

Spec == Init /\ [][Next]_screen
=============================================================================
