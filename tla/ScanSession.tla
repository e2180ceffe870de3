---------------------------- MODULE ScanSession ----------------------------
(***************************************************************************)
(* One visit to the page: ScanForm.tsx, useScan.ts, scanApi.ts, App.tsx    *)
(* and ErrorPanel.tsx, over React Query 5 (external).                      *)
(*                                                                         *)
(* The hook keeps the URL being looked at; React Query keeps an entry per  *)
(* key and runs its fetches; the page shows what it last rendered, which   *)
(* trails the entries until the notified component renders again.  A click *)
(* that changes the URL renders and starts the fetch before it returns.    *)
(*                                                                         *)
(* phase of a fetch:  none     no fetch                                    *)
(*                    held     paused before its first request (offline)   *)
(*                    sending  a request is out                            *)
(*                    resting  waiting out the delay before a retry        *)
(*                    waiting  paused before a retry (offline or hidden)   *)
(* A request is aborted with its fetch, and its answer is then dropped.    *)
(***************************************************************************)
EXTENDS Integers

CONSTANTS
    Urls,           \* trimmed texts the API is asked about
    Texts,          \* what may be typed: [url, faults]
    Examples,       \* the texts behind the example buttons
    ApiCodes,       \* the codes of errors.go that occur
    Null,           \* null
    Undefined,      \* a field that is not there
    Seconds,        \* a number of seconds
    MaxScans,       \* bound on the scans and re-scans asked for
    MaxOutages      \* bound on the times the network goes away

Reports  == [url : Urls, id : Nat]      \* id tells the answers of a key apart
Problems == {"blank", "spaced", "unparsable", "scheme", "undotted"}

ASSUME SessionAssumption ==
    /\ Texts \subseteq [url : Urls, faults : SUBSET Problems]
    /\ Examples \subseteq {text \in Texts : text.faults = {}}
    /\ Null \notin Urls /\ Null \notin Reports
    /\ MaxScans \in Nat
    /\ MaxOutages \in Nat

VARIABLES
    form,       \* [value, problem]: the text typed and the complaint below it
    target,     \* the hook's state: the URL looked at, Null at first
    query,      \* React Query's entry of each key
    shown,      \* what the results area last rendered
    online, focused,
    asks,       \* asks[key]: scans and re-scans the user asked for
    scans,      \* all of asks, bounds the run
    outages     \* bounds the run

vars == <<form, target, query, shown, online, focused, asks, scans, outages>>

-----------------------------------------------------------------------------
(* ScanForm *)

(* The complaints are tried in this order.                                 *)
Rank == [blank |-> 1, spaced |-> 2, unparsable |-> 3, scheme |-> 4, undotted |-> 5]

FirstProblem(text) ==
    IF text.faults = {} THEN Null
    ELSE CHOOSE problem \in text.faults : \A other \in text.faults : Rank[problem] <= Rank[other]

-----------------------------------------------------------------------------
(* scanApi: the failures a request may end in.  The handler's body always  *)
(* has the field, null but for a refused quota; the client's own failures  *)
(* do not have it.                                                         *)
ApiFailures == {[code |-> code, wait |-> Null] : code \in ApiCodes}
               \cup {[code |-> "rate_limited", wait |-> Seconds]}
Network     == [code |-> "network", wait |-> Undefined]
Unexpected  == [code |-> "unexpected", wait |-> Undefined]
Failures    == ApiFailures \cup {Network, Unexpected}

-----------------------------------------------------------------------------
(* useScan *)

OneKey(u) == CHOOSE any \in Urls : TRUE
KeyOf(u)  == u

Trim(text) == text.url

RetriesForever(failures, failure)  == failure.code \in {"network", "unexpected"}
RetriesOnceMore(failures, failure) == failures <= 2 /\ failure.code \in {"network", "unexpected"}
Retry(failures, failure)           == failures < 2 /\ failure.code \in {"network", "unexpected"}

AlwaysStale(entry) == TRUE
IsStale(entry)     == entry.report = Null \/ entry.old

Screen(status, url, report, failure) ==
    [status |-> status, url |-> url, report |-> report, failure |-> failure]

(* isPending: neither a report nor a settled failure; isFetching: not      *)
(* paused.                                                                 *)
IsPending(entry)  == entry.report = Null /\ (entry.phase # "none" \/ entry.failure = Null)
IsFetching(entry) == entry.phase \in {"sending", "resting"}

ToScanState(url, entries) ==
    IF url = Null THEN Screen("idle", Null, Null, Null)
    ELSE LET entry == entries[KeyOf(url)]
         IN  IF IsPending(entry) \/ IsFetching(entry) THEN Screen("scanning", url, Null, Null)
             ELSE IF entry.failure # Null THEN Screen("error", url, Null, entry.failure)
             ELSE Screen("success", Null, entry.report, Null)

-----------------------------------------------------------------------------
(* React Query *)

NoEntry == [url |-> Null, report |-> Null, failure |-> Null, old |-> FALSE,
            phase |-> "none", failures |-> 0, lone |-> FALSE, sent |-> 0]

Send(entry) == [entry EXCEPT !.phase = "sending", !.sent = @ + 1]

(* A new fetch, in place of the one that may be running.                   *)
Begin(entry, u, up) ==
    LET fresh == [entry EXCEPT !.url = u, !.failures = 0, !.lone = FALSE]
    IN  IF up THEN Send(fresh) ELSE [fresh EXCEPT !.phase = "held"]

(* Asking for what is being fetched takes part in that fetch.              *)
Join(entry) == [entry EXCEPT !.lone = FALSE]

Arrive(entry, u, up) ==
    IF ~IsStale(entry) THEN entry
    ELSE IF entry.phase # "none" THEN Join(entry)
    ELSE Begin(entry, u, up)

(* The last observer leaves: the fetch is undone, but one that holds a     *)
(* report and has sent nothing only loses its retries.                     *)
Leave(entry) ==
    IF entry.phase = "held" /\ entry.report # Null
    THEN [entry EXCEPT !.lone = TRUE]
    ELSE [entry EXCEPT !.phase = "none", !.failures = 0, !.lone = FALSE]

ContinueHeld(entry) == IF entry.phase = "held" THEN Send(entry) ELSE entry
Continue(entry)     == IF entry.phase \in {"held", "waiting"} THEN Send(entry) ELSE entry

(* Of the observed entry, when the network is back.                        *)
Refresh(entry, u) == Arrive(entry, u, TRUE)

Observed(key) == target # Null /\ key = KeyOf(target)

-----------------------------------------------------------------------------
Init ==
    /\ form = [value |-> Null, problem |-> Null]
    /\ target = Null
    /\ query = [key \in Urls |-> NoEntry]
    /\ shown = ToScanState(Null, query)
    /\ online = TRUE
    /\ focused = TRUE
    /\ asks = [key \in Urls |-> 0]
    /\ scans = 0
    /\ outages = 0

NeverBusy == FALSE
Busy      == shown.status = "scanning"

TypeKeepsProblem(text) ==
    /\ focused
    /\ form' = [form EXCEPT !.value = text]
    /\ UNCHANGED <<target, query, shown, online, focused, asks, scans, outages>>
Type(text) ==
    /\ focused
    /\ form' = [value |-> text, problem |-> Null]
    /\ UNCHANGED <<target, query, shown, online, focused, asks, scans, outages>>

(* setTarget: the same URL changes nothing; another one leaves the old key *)
(* and arrives at its own.                                                 *)
LookAt(u) ==
    IF u = target THEN UNCHANGED <<target, query, shown, asks, scans>>
    ELSE LET left == [key \in Urls |-> IF Observed(key) THEN Leave(query[key]) ELSE query[key]]
         IN  /\ scans < MaxScans
             /\ scans' = scans + 1
             /\ asks' = [asks EXCEPT ![KeyOf(u)] = @ + 1]
             /\ target' = u
             /\ query' = [left EXCEPT ![KeyOf(u)] = Arrive(@, u, online)]
             /\ shown' = ToScanState(u, query')

(* Both buttons are disabled while the page is scanning.                   *)
Reject ==
    /\ focused /\ ~Busy /\ form.value # Null
    /\ FirstProblem(form.value) # Null
    /\ form' = [form EXCEPT !.problem = FirstProblem(form.value)]
    /\ UNCHANGED <<target, query, shown, online, focused, asks, scans, outages>>

Submit ==
    /\ focused /\ ~Busy /\ form.value # Null
    /\ FirstProblem(form.value) = Null
    /\ form' = [form EXCEPT !.problem = Null]
    /\ LookAt(Trim(form.value))
    /\ UNCHANGED <<online, focused, outages>>

RunExample(text) ==
    /\ focused /\ ~Busy
    /\ form' = [value |-> text, problem |-> Null]
    /\ LookAt(Trim(text))
    /\ UNCHANGED <<online, focused, outages>>

(* The button of a report and of an error panel.  With nothing to show, a  *)
(* fetch that is running goes on.                                          *)
Rescan ==
    /\ focused /\ shown.status \in {"success", "error"}
    /\ LET key == KeyOf(target) IN
        /\ scans < MaxScans
        /\ scans' = scans + 1
        /\ asks' = [asks EXCEPT ![key] = @ + 1]
        /\ query' = [query EXCEPT ![key] =
                        IF @.phase # "none" /\ @.report = Null THEN Join(@) ELSE Begin(@, target, online)]
    /\ UNCHANGED <<form, target, shown, online, focused, outages>>

-----------------------------------------------------------------------------
(* Answers, retries and rendering *)

Deliver(key) ==
    /\ query[key].phase = "sending" /\ online
    /\ query' = [query EXCEPT ![key].report = [url |-> query[key].url, id |-> query[key].sent],
                              ![key].failure = Null, ![key].old = FALSE,
                              ![key].phase = "none", ![key].failures = 0, ![key].lone = FALSE]
    /\ UNCHANGED <<form, target, shown, online, focused, asks, scans, outages>>

Fail(key, failure) ==
    /\ query[key].phase = "sending"
    /\ ~online => failure = Network
    /\ LET entry == query[key] IN
       query' = [query EXCEPT ![key] =
            IF Retry(entry.failures, failure) /\ ~entry.lone
            THEN [entry EXCEPT !.phase = "resting", !.failures = entry.failures + 1]
            ELSE [entry EXCEPT !.failure = failure, !.old = TRUE,
                               !.phase = "none", !.failures = 0, !.lone = FALSE]]
    /\ UNCHANGED <<form, target, shown, online, focused, asks, scans, outages>>

Answer(key) == Deliver(key) \/ \E failure \in Failures : Fail(key, failure)

(* The delay before a retry is over.                                       *)
Wake(key) ==
    /\ query[key].phase = "resting"
    /\ query' = [query EXCEPT ![key] =
                    IF online /\ focused THEN Send(@) ELSE [@ EXCEPT !.phase = "waiting"]]
    /\ UNCHANGED <<form, target, shown, online, focused, asks, scans, outages>>

Render ==
    /\ shown # ToScanState(target, query)
    /\ shown' = ToScanState(target, query)
    /\ UNCHANGED <<form, target, query, online, focused, asks, scans, outages>>

-----------------------------------------------------------------------------
(* The network, the window and time *)

GoOffline ==
    /\ online /\ outages < MaxOutages
    /\ online' = FALSE
    /\ outages' = outages + 1
    /\ UNCHANGED <<form, target, query, shown, focused, asks, scans>>

(* The entry looked at is fetched again if it is stale, then what was      *)
(* paused goes on, unless the window is hidden.                            *)
GoOnline ==
    /\ ~online
    /\ online' = TRUE
    /\ query' = [key \in Urls |->
            LET entry == IF Observed(key) THEN Refresh(query[key], target) ELSE query[key]
            IN  IF focused THEN Continue(entry) ELSE entry]
    /\ UNCHANGED <<form, target, shown, focused, asks, scans, outages>>

Hide ==
    /\ focused
    /\ focused' = FALSE
    /\ UNCHANGED <<form, target, query, shown, online, asks, scans, outages>>

Unhide ==
    /\ ~focused
    /\ focused' = TRUE
    /\ query' = IF online THEN [key \in Urls |-> Continue(query[key])] ELSE query
    /\ UNCHANGED <<form, target, shown, online, asks, scans, outages>>

(* staleTime has passed since the report came.                             *)
Age(key) ==
    /\ query[key].report # Null /\ ~query[key].old
    /\ query' = [query EXCEPT ![key].old = TRUE]
    /\ UNCHANGED <<form, target, shown, online, focused, asks, scans, outages>>

(* gcTime, which is longer, has passed since anyone looked.                *)
Forget(key) ==
    /\ ~Observed(key) /\ query[key].phase = "none" /\ IsStale(query[key])
    /\ query' = [query EXCEPT ![key] = [NoEntry EXCEPT !.sent = query[key].sent]]
    /\ UNCHANGED <<form, target, shown, online, focused, asks, scans, outages>>

Next ==
    \/ \E text \in Texts : Type(text)
    \/ Reject
    \/ Submit
    \/ \E text \in Examples : RunExample(text)
    \/ Rescan
    \/ \E key \in Urls : Answer(key) \/ Wake(key) \/ Age(key) \/ Forget(key)
    \/ Render
    \/ GoOffline \/ GoOnline
    \/ Hide \/ Unhide

Fairness ==
    /\ WF_vars(Render)
    /\ \A key \in Urls : WF_vars(Answer(key)) /\ WF_vars(Wake(key))

Spec == Init /\ [][Next]_vars /\ Fairness

-----------------------------------------------------------------------------
Entries == [url : Urls \cup {Null}, report : Reports \cup {Null}, failure : Failures \cup {Null},
            old : BOOLEAN, phase : {"none", "held", "sending", "resting", "waiting"},
            failures : 0..2, lone : BOOLEAN, sent : Nat]

Screens == [status : {"idle", "scanning", "error", "success"}, url : Urls \cup {Null},
            report : Reports \cup {Null}, failure : Failures \cup {Null}]

(* Every entry has the shape React Query gives it, a request counts for at *)
(* most two retries, and only trimmed texts are looked at.                 *)
TypeOK ==
    /\ form \in [value : Texts \cup {Null}, problem : Problems \cup {Null}]
    /\ target \in Urls \cup {Null}
    /\ query \in [Urls -> Entries]
    /\ shown \in Screens
    /\ online \in BOOLEAN /\ focused \in BOOLEAN
    /\ asks \in [Urls -> Nat]
    /\ scans \in 0..MaxScans
    /\ outages \in 0..MaxOutages

(* useScan.ts: whatever was cached, retried, paused or answered meanwhile, *)
(* the report, the failure or the progress on the page is that of the URL  *)
(* looked at.                                                              *)
ShownIsOfTarget ==
    /\ shown.status = "idle" <=> target = Null
    /\ shown.status = "success" => shown.report.url = target
    /\ shown.status \in {"scanning", "error"} => shown.url = target

(* ScanForm.tsx: a complaint is about the text above it.                   *)
FormSpeaksOfItsText ==
    form.problem # Null => form.value # Null /\ form.problem = FirstProblem(form.value)

(* Every request spends the quota of the visitor.  However outages, hidden *)
(* windows, retries and repeated clicks interleave, a URL is asked of the  *)
(* API at most three times per scan asked for and per return of the        *)
(* network.                                                                *)
RequestBudget == \A key \in Urls : query[key].sent <= 3 * (asks[key] + outages)

(* App.test.tsx: a repeated scan is served from cache instead of hitting   *)
(* the API again, and at once unless that URL is still being fetched.      *)
FreshReportIsFree ==
    [][target' # target /\ query[target'].report # Null /\ ~query[target'].old =>
        /\ query'[target'].sent = query[target'].sent
        /\ query[target'].phase = "none" => shown' = Screen("success", Null, query[target'].report, Null)]_vars

(* types.ts, ScanState: the page is an implementation of ScanScreen.       *)
Promised == INSTANCE ScanScreen WITH screen <- shown
KeepsScreen == Promised!Spec

(* The form is disabled while the page is scanning and there is no button  *)
(* to give up, so a scan on screen has to end: with the network up and the *)
(* window visible for good it does, however often it was paused before.    *)
BusyEnds == <>[](online /\ focused) => []<>~Busy

-----------------------------------------------------------------------------
(* What the invariants rest on.                                            *)

(* An entry only ever holds what was fetched for its own URL.              *)
Own(entry, key) ==
    /\ entry.phase # "none" => entry.url = key
    /\ entry.report # Null => entry.report.url = key /\ entry.report.id <= entry.sent
EntriesAreOwn == \A key \in Urls : Own(query[key], key)

(* A fetch is paid for by a scan or by an outage, and has three requests.  *)
(* While the network is away the fetch of its return is still to come.     *)
Used(entry) == entry.failures + (IF entry.phase = "sending" THEN 1 ELSE 0)
PaidFor(entry, fetches) ==
    entry.sent <= IF entry.phase = "none" THEN 3 * fetches ELSE 3 * (fetches - 1) + Used(entry)
Paid(key) == asks[key] + outages - (IF online THEN 0 ELSE 1)
FetchesArePaid == \A key \in Urls : PaidFor(query[key], Paid(key))

(* The page may trail the entry of its target; it is never ahead of it.    *)
ShownIsBehind ==
    shown.status = "success" =>
        /\ shown.report # Null /\ query[target].report # Null
        /\ shown.report.id <= query[target].report.id

(* Before a scan is over the page says nothing else.                       *)
ShownIsPlain ==
    shown.status \in {"idle", "scanning"} => shown = Screen(shown.status, target, Null, Null)

SessionInv == TypeOK /\ EntriesAreOwn /\ FetchesArePaid /\ ShownIsOfTarget /\ ShownIsBehind

-----------------------------------------------------------------------------
(* ErrorPanel.tsx announces a wait whenever the field is there; types.ts   *)
(* has it absent or a number.                                              *)
AnnouncesWait(failure) == failure.wait # Undefined
AnnouncedWaitIsANumber ==
    shown.status = "error" /\ AnnouncesWait(shown.failure) => shown.failure.wait = Seconds
=============================================================================
