# Verification of security-headers-scanner

This directory holds a TLA+ model of the scanner: a Go service that fetches the
response headers of a URL a stranger typed, and a React front end that grades
them and says what to change. Modules are checked with TLC on small instances; the theorems are proved
with TLAPS for every value of the constants. Paths below are relative to the
repository.

## 1. Inventory

| Component | Source | State | Operations |
| --- | --- | --- | --- |
| Rate limiter | `backend/internal/api/ratelimit.go` | `hits`: a slice of times per client key, under `mu` | `Allow`, `Prune` |
| Pruner | `api.go` `StartPruning` | a ticker with one buffered tick | receive a tick, `Prune` |
| Scan handler | `api.go` `handleScan` | the `slots` channel, the limiter, a context per request | refuse, admit, take a slot or give up, scan, answer, release |
| URL rules | `scanner/guard.go` | none | `NormalizeInput`, `ParseTarget`, `Target.URL` |
| Address rules | `scanner/guard.go` | none | `IsPublicAddr`, `unwrap`, `ResolveAndPin` |
| Fetch | `scanner/fetch.go` | pinned target, redirect chain | `FetchHeaders`, `requestOnce`, `nextHopURL`, the dialer's `Control` |
| Server process | `backend/cmd/server/main.go` | listener, signal context | serve, prune, shut down |
| Netlify function | `backend/netlify/functions/scan/main.go` | one handler per warm instance | adapt a gateway event to a request and back |
| Edge limit | `netlify/edge-functions/api-rate-limit.ts` | Netlify's own counter (20 per minute) | pass or refuse |
| Scan hook | `frontend/src/hooks/useScan.ts`, `api/scanApi.ts` | target, React Query's cache | `scan`, `rescan`, `reset`, retry |
| Analysis | `frontend/src/analysis/` | none | seven checks, the grade, the briefing |
| Presentation | `frontend/src/components/` | a label timer in `CopyButton` | render |

How they interact. A request goes through the edge limit (on Netlify only),
then `handleScan`, which calls `Allow`, makes the request's context, sends a
token to `slots`, calls `FetchHeaders` and takes the token out again in a
deferred function. `FetchHeaders` calls DNS once and opens one connection per
hop, all under that context. The pruner calls `Prune` from a goroutine of its
own. A signal ends the process. The front end only talks to `/api/scan`, through
React Query: the form sets the hook's target, the library fetches, retries,
pauses and caches, the page shows a `ScanState`, and a report is `analyze` of the
answer.

What is hard:

* **Times applied out of order.** `s.now()` is an argument of `Allow`, so it is
  read before the mutex is taken (`api.go:149`).
* **A hand-over under cancellation.** A goroutine blocked on `slots` may be
  woken by a slot or by its context (`api.go:166`).
* **DNS that changes its mind**, once per hop (`fetch.go:226`, `guard.go:325`).
* **A deadline that fires anywhere** in a lookup, a dial or a wait.
* **A URL that is parsed and printed again at every hop** (`guard.go:98`).
* **Boundaries**: the wait a refused client is told, limits of zero, prefixes of
  any length, thresholds of scores.
* **A page that trails its data.** Clicks, retries, outages, a hidden window and
  cached or aged reports follow each other in any order, and nothing cancels a
  scan (`useScan.ts:31`, `51`, `63`).
* **One line graded by several cards.** A fix shipped for one card changes the
  verdict of another (`checks/csp.ts:116`).

What makes each part correct: the limiter never lets more than its limit
through per window, and never makes a client wait for nothing; the handler never
exceeds its slots, answers whatever it admitted and gives every slot back; a
scan connects only to addresses it has just validated, within its redirect
budget and its deadline, reports exactly what it did, and returns; the page
shows the report, failure or progress of the URL looked at, within a bounded
number of requests, and a scan on it ends; what a card claims is what browsers
do with the same lines, and shipping its fix pays.

## 2. Modules

| Module | What it is |
| --- | --- |
| `RequestQuota` | abstract: at most `Limit` grants per `Span` and key |
| `SlidingWindowLimiter` | `Allow`, `Prune`, the ticker and the callers; implements `RequestQuota` |
| `SlidingWindowLimiterProofs` | its theorems |
| `TargetUrl` | the URL functions of `guard.go` and `nextHopURL`, as operators |
| `FetchPromise` | abstract: bounded, acceptable visits, then one verdict |
| `Scan` | `FetchHeaders`; uses `TargetUrl`; implements `FetchPromise` |
| `ScanProofs` | its theorems, on `GuardedScan` |
| `AddressGuard` | the address rules of `guard.go`, over addresses as 16-bit words |
| `GuardedScan` | `Scan` whose public addresses are those `AddressGuard` accepts |
| `ScanService` | `handleScan`, the slots and the contexts; takes the limiter as `RequestQuota` and a scan as `FetchPromise` |
| `ScanServiceProofs` | its theorems |
| `ScanScreen` | abstract: what the results area promises |
| `ScanSession` | form, hook, API client and page over React Query; implements `ScanScreen` |
| `ScanSessionProofs` | its theorems |
| `Headers`, `Checks`, `Report` | the parsers, the seven checks, the score and the briefing, as operators |
| `Protection` | reference: what the same lines make a browser do |
| `Hardening` | a site whose owner edits its headers or ships fixes, and scans again |
| `DataLemmas` | facts about sequences, concatenation and sums, for any length |
| `HeaderProofs` | what the parsers and lookups of `Headers` return for any lines |
| `CheckProofs` | each check against `Protection`, for any lines |
| `HardeningProofs` | the theorems of `Hardening`, from the three above |
| `MC...` | constants of the instances TLC checks |

Operators placed just before the one they resemble (`FullPastLimit` before
`Full`, `RequestBlindly` before `Request`, ...) are *mutants*: the same code with
a plausible bug. `PROJECT.json` says which property notices which.

### SlidingWindowLimiter

`hits[k]` is the slice of key `k`, as a set of records: `at` is the time the
call carried, `seq` the order of appending (so `kept[0]` and the last element
exist), `locked` the instant the mutex was held, which no code reads.
`tracked` are the keys present in the map. A call is two actions: `Arrive` reads
the clock, and `Admit`, `Reject` or `PanicOnEmpty` is the whole critical section
of `Allow`. `MaxLag` bounds the ticks between them. `TickerFires` and `Prune`
are the two halves of the pruning goroutine: the tick received may be old.
`appended`, `log` and `promised` are ghosts.

Because a goroutine may lose `MaxLag` ticks, the window that is really kept is
`Window - MaxLag` ticks of mutex time; with no lag it is the window of the
code. That is what `WindowLimit` and `KeepsQuota` state.

### TargetUrl and Scan

A text is a record of what the code can tell apart: how it is written, scheme,
credentials, host, port, path, and whether `://` occurs after the authority. A
path is a name and the number of times it was percent-encoded, so that printing
and parsing are modelled by what they do and not as inverses. IPv6 literals are
a class of hosts of their own; an IPv4 literal is a name with one answer. NoHost
is any host `ParseTarget` refuses.

A step of `Scan` runs from one blocking call to the next. `LookupAnswers` is
`LookupNetIP`, the judgement of `ResolveAndPin` and the test of the loop
condition, in that order: the last hop is resolved before the budget is found
to be spent. `Request` is `requestOnce` up to the dial; `Connect` passes
`Control`. `Unmapped` is `Addr.Unmap`: what is pinned and compared at the socket
is the IPv4 address of one written as IPv6. `CtxDone` may happen between any two steps, by deadline or by the
client leaving. `lookups`, `conns`, `late` and `input` are ghosts.

`AddressGuard` has the prefixes as the code lists them, and `netip`'s predicates
as prefixes of their own. `GuardedScan` assumes, and TLC evaluates, that the
constants of `Scan` are what these operators compute; that unmapping keeps an
address public, which `Scan` assumes of `Unmapped`, is proved of the operators for
every address. The embedded address and the outer prefix guard the same ground: with
`unwrap` empty the run still passes.

### ScanService

`slots` is the set of requests whose token is in the channel, `queue` the
senders blocked on it, in order: a receive hands its room to the first of them,
as Go's channels do. `TakeSlot`, `NoticeDone` and `JoinQueue` are the outcomes
of the `select`; with both cases ready either is taken. `CtxDone` wakes a
blocked goroutine. `Release` is the deferred receive, after the answer. `Stop`
and `Exit` are the two halves of a shutdown: the signal starts `Shutdown`, which
makes `ListenAndServe` return, and `main` returns after it; nothing waits for
`Shutdown` to have waited.

The composition is by contract. `Quota!Give` is conjoined to `Admit`, and the
limiter is proved to keep it; a scan may succeed or fail at any moment and is
only sure to return once its context is done, which `Scan` keeps
(`KeepsFairPromise`).

### ScanSession

`target` is the hook's state and `query[key]` what React Query keeps of a key;
`shown` is what was last rendered. The page trails the entries: an answer or a
re-scan changes an entry at once and the page only at the next `Render`, while a
click on another URL renders before it returns. `LookAt` is `setTarget` with all
it triggers: the old key loses its observer, the new one fetches if stale.

React Query is external and modelled as this code uses it: a key is its own
entry; `staleTime` and `gcTime` pass with `Age` and `Forget`; a re-scan replaces
a fetch that holds data and joins one that does not; the retry rule of the hook
is asked after each failure; a retry waits, and pauses while offline or hidden;
a fetch pauses before its first request while offline; when the network returns
the observed entry, if stale, is fetched again, for the hook leaves that on; a
key without observers has its fetch undone, or, when it holds a report and has
sent nothing, only stripped of its retries. An aborted request's answer is
dropped. `asks` and `sent` count what the user asked for and what it cost, and
`report.id` tells the answers of one URL apart.

### Headers, Checks, Report, Protection and Hardening

A header line is what its parser can tell apart (see `Headers`). Ratios are
percentages, so that ratio and cost are integers; a weight times a ratio is in
tenths of a point. `HeaderValues` says what a line of each name can hold, and
`Sources` are the source expressions of policies. The score is the exception:
the code adds doubles, and a total of exactly half a point may come out below
it, so `Analyze` is the set of the reports either rounding gives. `Protection`
counts no points: it says, on its own terms, when an injected script runs, who
may frame the page, for how long HTTPS is remembered, and so on. It knows only
what the comments of the checks and the README say of browsers, with two things
taken from the code: the words that mean something (wildcards, nonces, the
tokens browsers know, telltale headers) are the sets of `Checks`, so a word
missing there would go unseen, and so is the rule that the last valid `max-age`
counts. In `Hardening` an owner adds a line, removes a header, ships the fix of
a card that does not pass, or moves to https; each step is followed by a scan.

## 3. Runs

| Run | Instance | Shows |
| --- | --- | --- |
| `limiter_lag` | 1 client, 2 callers, limit 2, window 4 ticks, 2 ticks per second, lag 1 | type, slice and window limits, the wait, refinement, with times out of order; an idle client is forgotten |
| `limiter_exact` | 2 clients, no lag, window 3 | pruning drops expired windows only; the wait's range |
| `limiter_closed` | limit 0 | keys are forgotten even when every call panics |
| `scan_redirects` | 2 names and an IPv6 literal, 12 inputs, 8 Locations, 41 internal addresses and 37 public ones next to them, 2 redirects | everything safe about one scan, which answers are refused, refinement, and the verdict |
| `service_slots` | 3 requests, 2 clients, 1 slot, total timeout 2, span 4, a shutdown | slots, queue, starts per span |
| `service_answers` | 3 requests, 1 client, 1 slot, a shutdown | every admitted request answered unless the process exits, every slot back |
| `session` | 2 URLs, 3 scans, 1 outage, any hiding, a faulty text, an example | the page is of its target, complaints are of their text, three requests per scan or outage, a fresh report is free, refinement, and a scan on screen ends |
| `hardening` | 3 sites over http and https, 14 headers, 2 edits | what a pass and a fail claim, points and score explained, quotes contained, fixes that pass and never cost |

The bounds: `LastCall` and `MaxClock` in the limiter, `MaxClock` in the
service, and the sets of inputs, Locations, answers and requests. In
`limiter_lag` calls come until tick 5 with a window of 4, so a window opens,
fills, expires and fills again, and the clock goes on to 10, so that what was
recorded last can still expire; two callers are enough for two times out of
order, and more only repeat it. In `service_slots` three requests for one slot
give a holder, a waiter and one behind it, which is the least that shows a
hand-over while somebody else's context ends; `MaxClock` 7 lets a request
admitted in one span start in the next. Two redirects are the least with a hop
that is neither first nor last. The internal addresses are the table of
`guard_test.go` and the far ends of all ranges, the public ones their
neighbours: no range can be dropped from the rules, or be a bit shorter or
longer, without one of them being judged otherwise, except where another range
covers the difference. In `session` two URLs and three scans are a visit that
leaves, comes back and re-scans; one outage pauses a fetch before its first
request or before a retry, and one failure of each class (of the quota, of the
network, of the body) is what the retry rule and the panel tell apart, so
`ApiCodes` is empty. In `hardening` the values are one per branch of each
check, and two edits are a first policy and one beside it, or a fix and its
undoing; three starts (nothing sent, everything sent, a typical mix) put every
card on both sides of its thresholds. For the safety properties of the limiter,
of the scan and of the session the theorems remove the bounds.

### Disagreements between the code and what it says

These runs each state one sentence of a comment or a test and find it violated.

* `limiter_limit_zero` (`AllowReturns`): a limit of zero, which the
  configuration accepts, makes `Allow` index an empty slice and panic.
* `scan_path` (`PathSurvives`): a path that needs percent-encoding is encoded
  again each time it is printed, so what is requested is another path.
* `scan_literal` (`ValidatedTargetHasUrl`): an IPv6 literal on the default port
  is validated, resolved and then refused, because its URL lacks brackets.
* `session_wait` (`AnnouncedWaitIsANumber`): every failure but a refused quota
  carries `retryAfterSeconds: null`, which is not `undefined`, so the panel
  announces a wait without its number.

Others were met while modelling and have no run of their own.

* With two hits out of order `Prune`, which looks at the last one only, deletes
  a window that has not expired, against `ratelimit.go:58`; `PruneOnlyExpired`
  therefore holds in `limiter_exact`, without lag, and `WindowLimit` shows the
  harm is bounded by the lag.
* A client refused at the instant of the first hit is told the window plus one
  second, against `ratelimit.go:78` (`RetryAfterInWindowPlusOne` is the bound
  the test uses).
* A typed name whose query contains `://` is not given the `https://` that
  `guard.go:127` promises.
* `unwrap` tests 32 bits of the NAT64 prefix its comment gives as `/96`
  (`guard.go:267`); it errs on the side of refusing.
* Of several policies with `frame-ancestors` the first is graded
  (`framing.ts:13`), while browsers intersect them (`types.ts:12`);
  `FailMeansExposed` and `FixEarnsItsCard` exempt that case, so no property covers it.
* `x-aspnetmvc-version` costs points on a card that does not show it
  (`disclosure.ts:68`).
* `unsafe-eval` is read from `script-src-elem` where there is one
  (`csp.ts:5`, `csp.ts:42`); it is `script-src` that governs it.
* `briefing.ts:168` and `RawHeaders.tsx:8` say the headers are in the order they
  arrived in, `types.ts:15` that they are sorted by name.
* A policy that is only reported earns 15 of 100, which an enforced one with
  every weakness does not reach.
* Submitting again a URL whose scan failed does nothing (`useScan.ts:68`), a
  re-scan while offline shows the old report again, and a first scan while
  offline keeps the form disabled until the network is back. The form refuses
  an IPv6 literal, which has no dot (`ScanForm.tsx:27`), and the API takes it.

## 4. Fairness

* Limiter: the clock, the ticker, the pruner and a goroutine that wants the
  mutex are scheduled (weak fairness); clients owe nothing.
* Scan: what the code does by itself, the deadline, and the return of a blocking
  call **once the context is done**. Nothing is asked of DNS or of the targets.
  `LookupNetIP` and `RoundTrip` both take the context, which is what justifies
  it.
* Service: the clock, the goroutines' own steps, timers, and the return of a
  scan whose context is done. `Tick` waits for timers that are due and for a
  goroutine about to `select`: a goroutine losing time there would only shift
  the bound of `StartsPerSpan`.
* Session: a notified component renders, a request that is out is answered or
  fails (the browser and the server both bound it), the delay before a retry
  ends. Nothing is asked of the visitor, of the network or of the window:
  `BusyEnds` supposes that in the end the network is up and the window visible,
  and without that the page does stay busy.
* The process exits once `Shutdown` has begun.

## 5. Proofs

Every invariant the runs check is also a theorem, for every value of the
constants, and so are all action properties but two (the end of this section).
No theorem rests on anything but the assumptions of the modules, which TLC
evaluates, except where a hypothesis is named below.

**`SlidingWindowLimiterProofs`**, from `LimiterAssumption` alone: any number of
clients and callers, any limit, window and lag. `WindowLimit` is not
inductive: it counts a ghost log. The invariant `IInv` adds that the times of a
stamped call and of every hit lie within the lag of the instants they are used
at (`TimesInv`), that every hit of the log younger than the window less the lag
is still in the slice (`RecentInv`), so that the test on the slice's length
bounds the log, that sequence numbers identify hits (`LogInv`), and that an
advertised wait is no earlier than the expiry of the first element
(`PromiseInv`). `RetryAfterInWindowPlusOne` and `PruneOnlyExpired` are false
with a lag (section 3), so each is proved twice: in the form the lag leaves
true (`WaitIsBoundedWithLag`, `PruneIsSafeWithLag`), and as `limiter_exact`
has it, under `MaxLag = 0` (`WaitIsBounded`, `PruneIsSafe`).

**`ScanProofs`**, from `UrlAssumption` and `ScanAssumption`: any hosts, answers,
Locations and redirect limit. `IInv` ties the lengths of `lookups`, `conns` and
`chain` to the phase (`Progress`), the pinned address to the last lookup
(`Pinned`), the chain to the connections (`Recorded`) and the late connections to
the phase (`Ceiling`). `AnswersJudged` reduces `AnswersAreJudged` to one question
per address: under `RulesKnowInternal` (the rules refuse, among the addresses DNS
may answer, those of the list) an answer of any length is refused exactly when
it holds an internal address. That the rules do agree with the list is a table, and
TLC's to check. `UnmappingIsSafe` shows of every address what `ScanAssumption`
asks of `Unmapped`, by the definition of `IsPublicAddr`.

**`ScanServiceProofs`**, from `ServiceAssumption`: any number of requests, clients and slots, any limit,
span and timeout. `ServiceInv` is one invariant because its parts need each
other. A token is held by a request between its slot and its return (`SlotInv`);
a hand-over keeps the channel within its bound only if the waiter had no token,
and that is `WaitersAreBlocked`, which in turn needs that nobody waits beside
a free slot. `StartsPerSpan` needs the history: each start has a
grant of its own no more than `TotalTimeout` older (`StartInv`), because who may
still start is within its deadline (`TimerInv`) and a deadline is its grant plus
the timeout (`GrantInv`); the starts of a span then inject into the grants of a
longer one (`StartsHaveRecentGrants`), and those the limiter has bounded
(`QuotaInv`). The limiter enters only as `RequestQuota`, which
`SlidingWindowLimiterProofs` shows it implements.

**`ScanSessionProofs`**, from `SessionAssumption`: any URLs, texts, codes and
number of scans and outages. `RequestBudget`
is not inductive: it forgets whether a fetch is under way and how much of it is
left. The invariant keeps books: a fetch is paid for by a scan asked for or by
an outage (`Paid`), has three requests (`Used` counts those of the fetch under
way), and while the network is away the outage's own fetch is still to come
(`FetchesArePaid`). A fetch that is replaced gives up the rest of its three.
`EntriesAreOwn` ties an entry to its URL, through aborted, revived and late
fetches, which makes `ShownIsOfTarget` inductive; `ShownIsBehind` (a page never
ahead of its entry) is what `PageImplementsScreen` needs so that no report gives
way to an earlier one, and `ShownIsPlain` that a repeated busy screen is a
stutter. `FreshReportsAreFree` needs besides that a report with a failure
beside it is no longer fresh (`EntriesAreSettled`): a key that is looked at again
would otherwise show the failure. What
each operation does to one entry is a lemma without state, and the steps of the
machine cite those.

**`HardeningProofs`** and the three modules under it, from the assumptions of
`Report` and `Hardening`: any number of header names, values, directives,
tokens and edits, and any number of lines of the names that may repeat; the
others have one line at most. The state machine is simple and its invariant
short (`HardeningInv`: what is sent can be parsed, a name that is not
repeatable has at most one line, and the report is one `Analyze` makes of
exactly the response). The work is in the data:

* The prover has no induction rule it can instantiate, so the induction is done
  by hand over a set: `DataLemmas` takes the least element of the
  set of counterexamples. On it rest `FlattenFacts` (a concatenation lists every
  element of every sequence once, in order) and `SumRemove` (the fold behind
  `MapThenSumSet` does not depend on the order it picks).
* `HeaderProofs` shows that lookups return the lines that were sent under a name, in
  their order, that the first of a repeated directive counts, the last valid
  `max-age`, and the last allowlist of a feature.
* `CheckProofs` compares each check with `Protection`: the cost of every finding,
  the clamp and the thresholds against what browsers do. The best of several
  policies stops an attack because browsers apply them all.
* `ScoreIsExplained` is arithmetic: seven cards rounded to tenths and a score
  rounded to points are eight roundings, each by at most a half either way.
* `CardShowsWhatItRead` and `QuotesStayQuoted` use that the lines of a card are
  those sent under the names it observes, and that a fence is the maximum over
  lines that include the one quoted.

No backend proves that a literal like `"csp"` is in `STRING`. `WordsAssumption`
therefore says of the words the checks compare with that they are strings, and
`NullAssumption` that null is none of the values a lookup returns; TLC evaluates both.

**Only model-checked.** Everything temporal under fairness (`IdleClientsForgotten`,
`AdmittedIsAnswered`, `SlotsComeBack`, `KeepsFairPromise`, `BusyEnds`), which is
beyond the prover; `FixEarnsItsCard` and `ShippingAFixNeverCosts`, which need
the order in which a fix is appended and a comparison of two reports (section
7); the agreement of `AddressGuard` with the table of internal addresses, which
computes powers of two.

## 6. Not modelled

* Configuration: constants. `FromEnv` takes any integer (`envInt`), the modules
  naturals: a negative limit or timeout acts as zero does, a negative number of
  slots panics in `NewServer`, and a window of zero or less limits nothing.
  No run has zero slots; the safety theorems of `ScanServiceProofs` include it.
* Health, CORS and fixed headers (no state), the wording of errors, Punycode and
  the syntax of host names, zones of IPv6 addresses.
* The values quoted inside a sentence of the briefing, outside its fenced blocks.
* Presentation. `CopyButton`'s label timer is listed as a hazard without a
  property, for nothing says which text the label is about.
* In the session: a 200 answer that is JSON and no report, `reset`, which the
  hook exports and nothing calls, and a submission before anything was typed,
  which only shows a complaint. That a fetch that was left stays, without its
  retries, where its entry holds a report, is a choice about React Query that
  can only add requests.
* The Netlify function and the edge limit. The function builds one handler per
  warm instance, which is `ScanService` with its timeout clamped; that limits
  hold per instance only is a hazard without a property. What the page makes of
  an answer that is not the handler's is `Unexpected` in `ScanSession`.
* Sentences of cards and briefing: names of findings stand for them.

## 7. Plan

1. `FixEarnsItsCard` as a theorem: `HeaderProofs` must also say that a line
   appended under a name is the last one looked up, and `CheckProofs` that each
   fix, beside any other lines, reaches its threshold.
2. `ShippingAFixNeverCosts`: the verdict of every other check before and after a
   fix, and that `Earned` is monotone in each ratio.
3. That an IPv4 address the rules refuse is refused in every way of embedding it.
4. `Deployment`: several instances, each with its own limiter, behind the edge
   limit.
