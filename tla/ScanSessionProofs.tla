------------------------- MODULE ScanSessionProofs -------------------------
(***************************************************************************)
(* Proofs about ScanSession for any URLs, texts, codes and bounds: what    *)
(* each step does to an entry comes first, as lemmas without state; then   *)
(* the inductive invariant, one step per action.                           *)
(***************************************************************************)
EXTENDS ScanSession, TLAPS

(* A fit entry of a key: well typed, holding only what is its own.         *)
Fit(entry, key) == entry \in Entries /\ Own(entry, key)

LEMMA SendType ==
    ASSUME NEW entry \in Entries
    PROVE  /\ Send(entry) \in Entries
           /\ Send(entry).phase = "sending" /\ Send(entry).sent = entry.sent + 1
           /\ Send(entry).url = entry.url /\ Send(entry).report = entry.report
           /\ Send(entry).failures = entry.failures
<1>1. entry.sent + 1 \in Nat
    BY DEF Entries
<1>2. [entry EXCEPT !.phase = "sending", !.sent = @ + 1] \in Entries
    BY <1>1, Zenon DEF Entries
<1> QED
    BY <1>2 DEF Send, Entries

LEMMA SendFits ==
    ASSUME NEW key \in Urls, NEW entry, Fit(entry, key), NEW fetches \in Int, entry.url = key,
           entry.phase # "sending", entry.phase # "none", PaidFor(entry, fetches)
    PROVE  Fit(Send(entry), key) /\ PaidFor(Send(entry), fetches) /\ Send(entry).report = entry.report
<1>1. entry.sent \in Nat /\ entry.failures \in 0..2 /\ entry.report \in Reports \cup {Null}
    BY DEF Fit, Entries
<1>2. entry \in Entries
    BY DEF Fit
<1>3. Own(Send(entry), key)
    BY <1>1, <1>2, SendType DEF Own, Fit, Reports
<1>4. PaidFor(Send(entry), fetches)
    BY <1>1, <1>2, SendType DEF PaidFor, Used
<1> QED
    BY <1>2, <1>3, <1>4, SendType DEF Fit

(* A new fetch has three requests; what was left of the one it replaces is *)
(* given up.                                                               *)
LEMMA BeginFits ==
    ASSUME NEW key \in Urls, NEW entry, Fit(entry, key), NEW fetches \in Int, NEW up \in BOOLEAN,
           PaidFor(entry, fetches)
    PROVE  /\ Fit(Begin(entry, key, up), key)
           /\ PaidFor(Begin(entry, key, up), fetches + 1)
           /\ Begin(entry, key, up).report = entry.report
<1> DEFINE fresh == [entry EXCEPT !.url = key, !.failures = 0, !.lone = FALSE]
           held  == [fresh EXCEPT !.phase = "held"]
<1>1. entry.sent \in Nat /\ entry.failures \in 0..2 /\ entry.report \in Reports \cup {Null}
    BY DEF Fit, Entries
<1>2. entry \in Entries
    BY DEF Fit
<1>3. fresh \in Entries
    <2>1. 0 \in 0..2
        OBVIOUS
    <2> QED
        BY <1>2, <2>1, Zenon DEF Entries
<1>4. held \in Entries
    BY <1>3, Zenon DEF Entries
<1>5. fresh.url = key /\ fresh.failures = 0 /\ fresh.report = entry.report /\ fresh.sent = entry.sent
    BY <1>2 DEF Entries
<1>6. /\ held.url = key /\ held.failures = 0 /\ held.report = entry.report /\ held.sent = entry.sent
      /\ held.phase = "held"
    BY <1>2 DEF Entries
<1>7. entry.sent <= 3 * fetches
    BY <1>1 DEF PaidFor, Used
<1> HIDE DEF fresh, held
<1>8. CASE up
    <2>1. Begin(entry, key, up) = Send(fresh)
        BY <1>8 DEF Begin, fresh
    <2>2. /\ Send(fresh) \in Entries /\ Send(fresh).url = key /\ Send(fresh).report = entry.report
          /\ Send(fresh).failures = 0 /\ Send(fresh).sent = entry.sent + 1 /\ Send(fresh).phase = "sending"
        BY <1>3, <1>5, SendType
    <2>3. Own(Send(fresh), key)
        BY <1>1, <2>2 DEF Own, Fit, Reports
    <2>4. PaidFor(Send(fresh), fetches + 1)
        BY <1>1, <1>7, <2>2 DEF PaidFor, Used
    <2> QED
        BY <2>1, <2>2, <2>3, <2>4 DEF Fit
<1>9. CASE ~up
    <2>1. Begin(entry, key, up) = held
        BY <1>9 DEF Begin, held, fresh
    <2>2. Own(held, key)
        BY <1>1, <1>6 DEF Own, Fit, Reports
    <2>3. PaidFor(held, fetches + 1)
        BY <1>1, <1>6, <1>7 DEF PaidFor, Used
    <2> QED
        BY <1>4, <1>6, <2>1, <2>2, <2>3 DEF Fit
<1> QED
    BY <1>8, <1>9

(* An entry of which nothing changed that the invariants look at.          *)
LEMMA SameFits ==
    ASSUME NEW key \in Urls, NEW entry, Fit(entry, key), NEW fetches \in Int, PaidFor(entry, fetches),
           NEW after \in Entries,
           after.url = entry.url, after.report = entry.report, after.sent = entry.sent,
           \/ after.phase = entry.phase /\ after.failures = entry.failures
           \/ after.phase = "none"
    PROVE  Fit(after, key) /\ PaidFor(after, fetches)
<1>1. entry.sent \in Nat /\ entry.failures \in 0..2
    BY DEF Fit, Entries
<1>2. Own(after, key)
    BY DEF Own, Fit
<1>3. PaidFor(after, fetches)
    BY <1>1 DEF PaidFor, Used
<1> QED
    BY <1>2, <1>3 DEF Fit

LEMMA JoinFits ==
    ASSUME NEW key \in Urls, NEW entry, Fit(entry, key), NEW fetches \in Int, PaidFor(entry, fetches)
    PROVE  Fit(Join(entry), key) /\ PaidFor(Join(entry), fetches) /\ Join(entry).report = entry.report
<1>1. entry \in Entries
    BY DEF Fit
<1>2. Join(entry) \in Entries
    BY <1>1, Zenon DEF Join, Entries
<1>3. /\ Join(entry).url = entry.url /\ Join(entry).report = entry.report /\ Join(entry).sent = entry.sent
      /\ Join(entry).phase = entry.phase /\ Join(entry).failures = entry.failures
    BY <1>1 DEF Join, Entries
<1> QED
    BY <1>2, <1>3, SameFits

LEMMA PaidMore ==
    ASSUME NEW key \in Urls, NEW entry, Fit(entry, key), NEW fetches \in Int, PaidFor(entry, fetches)
    PROVE  PaidFor(entry, fetches + 1)
    BY DEF Fit, Own, Entries, Reports, PaidFor, Used

LEMMA ArriveFits ==
    ASSUME NEW key \in Urls, NEW entry, Fit(entry, key), NEW fetches \in Int, NEW up \in BOOLEAN,
           PaidFor(entry, fetches)
    PROVE  /\ Fit(Arrive(entry, key, up), key)
           /\ PaidFor(Arrive(entry, key, up), fetches + 1)
           /\ Arrive(entry, key, up).report = entry.report
<1>1. CASE ~IsStale(entry)
    BY <1>1, PaidMore DEF Arrive
<1>2. CASE IsStale(entry) /\ entry.phase # "none"
    <2>1. Fit(Join(entry), key) /\ PaidFor(Join(entry), fetches) /\ Join(entry).report = entry.report
        BY JoinFits
    <2>2. PaidFor(Join(entry), fetches + 1)
        BY <2>1, PaidMore
    <2> QED
        BY <1>2, <2>1, <2>2 DEF Arrive
<1>3. CASE IsStale(entry) /\ entry.phase = "none"
    BY <1>3, BeginFits DEF Arrive
<1> QED
    BY <1>1, <1>2, <1>3

LEMMA LeaveFits ==
    ASSUME NEW key \in Urls, NEW entry, Fit(entry, key), NEW fetches \in Int, PaidFor(entry, fetches)
    PROVE  Fit(Leave(entry), key) /\ PaidFor(Leave(entry), fetches) /\ Leave(entry).report = entry.report
<1> DEFINE lone == [entry EXCEPT !.lone = TRUE]
           over == [entry EXCEPT !.phase = "none", !.failures = 0, !.lone = FALSE]
<1>1. entry \in Entries
    BY DEF Fit
<1>2. lone \in Entries
    BY <1>1, Zenon DEF Entries
<1>3. over \in Entries
    <2>1. 0 \in 0..2
        OBVIOUS
    <2> QED
        BY <1>1, <2>1, Zenon DEF Entries
<1>4. /\ lone.url = entry.url /\ lone.report = entry.report /\ lone.sent = entry.sent
      /\ lone.phase = entry.phase /\ lone.failures = entry.failures
    BY <1>1 DEF Entries
<1>5. /\ over.url = entry.url /\ over.report = entry.report /\ over.sent = entry.sent
      /\ over.phase = "none"
    BY <1>1 DEF Entries
<1>6. Leave(entry) = lone \/ Leave(entry) = over
    BY DEF Leave
<1> HIDE DEF lone, over
<1>7. Fit(lone, key) /\ PaidFor(lone, fetches)
    BY <1>2, <1>4, SameFits
<1>8. Fit(over, key) /\ PaidFor(over, fetches)
    BY <1>3, <1>5, SameFits
<1> QED
    BY <1>4, <1>5, <1>6, <1>7, <1>8

LEMMA ContinueFits ==
    ASSUME NEW key \in Urls, NEW entry, Fit(entry, key), NEW fetches \in Int, PaidFor(entry, fetches)
    PROVE  /\ Fit(Continue(entry), key)
           /\ PaidFor(Continue(entry), fetches)
           /\ Continue(entry).report = entry.report
    BY SendFits DEF Continue, Fit, Own

-----------------------------------------------------------------------------
LEMMA FirstProblemType ==
    ASSUME NEW text \in Texts
    PROVE  FirstProblem(text) \in Problems \cup {Null}
<1>1. text.faults \subseteq Problems
    BY SessionAssumption
<1>2. CASE text.faults = {}
    BY <1>2 DEF FirstProblem
<1>3. CASE text.faults # {}
    <2>1. \E problem \in text.faults : \A other \in text.faults : Rank[problem] <= Rank[other]
        <3>1. CASE "blank" \in text.faults
            BY <1>1, <3>1 DEF Problems, Rank
        <3>2. CASE "blank" \notin text.faults /\ "spaced" \in text.faults
            BY <1>1, <3>2 DEF Problems, Rank
        <3>3. CASE text.faults \cap {"blank", "spaced"} = {} /\ "unparsable" \in text.faults
            BY <1>1, <3>3 DEF Problems, Rank
        <3>4. CASE text.faults \cap {"blank", "spaced", "unparsable"} = {} /\ "scheme" \in text.faults
            BY <1>1, <3>4 DEF Problems, Rank
        <3>5. CASE text.faults \cap {"blank", "spaced", "unparsable", "scheme"} = {}
            BY <1>1, <1>3, <3>5 DEF Problems, Rank
        <3> QED
            BY <3>1, <3>2, <3>3, <3>4, <3>5
    <2> QED
        BY <1>1, <1>3, <2>1 DEF FirstProblem
<1> QED
    BY <1>2, <1>3

(* What the page renders for a URL is about that URL.                      *)
LEMMA RendersItsUrl ==
    ASSUME NEW u \in Urls, NEW entries \in [Urls -> Entries], Own(entries[u], u)
    PROVE  LET screen == ToScanState(u, entries) IN
           /\ screen \in Screens
           /\ screen.status \in {"scanning", "error", "success"}
           /\ screen.status \in {"scanning", "error"} => screen.url = u
           /\ screen.status = "success" =>
                /\ screen.report = entries[u].report /\ entries[u].report # Null
                /\ screen.report.url = u
<1> DEFINE entry == entries[u]
<1>1. u # Null
    BY SessionAssumption
<1>2. entry \in Entries
    OBVIOUS
<1>3. /\ entry.report \in Reports \cup {Null} /\ entry.failure \in Failures \cup {Null}
      /\ entry.phase \in {"none", "held", "sending", "resting", "waiting"}
    BY <1>2 DEF Entries
<1>4. CASE IsPending(entry) \/ IsFetching(entry)
    BY <1>1, <1>4 DEF ToScanState, KeyOf, Screen, Screens
<1>5. CASE ~(IsPending(entry) \/ IsFetching(entry)) /\ entry.failure # Null
    BY <1>1, <1>3, <1>5 DEF ToScanState, KeyOf, Screen, Screens
<1>6. CASE ~(IsPending(entry) \/ IsFetching(entry)) /\ entry.failure = Null
    <2>1. entry.report # Null
        BY <1>6 DEF IsPending
    <2> QED
        BY <1>1, <1>3, <1>6, <2>1 DEF ToScanState, KeyOf, Screen, Screens, Own
<1> QED
    BY <1>4, <1>5, <1>6

LEMMA PaidType ==
    ASSUME TypeOK, NEW key \in Urls
    PROVE  Paid(key) \in Int
    BY SessionAssumption DEF TypeOK, Paid

(* A step of the entries that leaves page and target alone keeps the       *)
(* invariant if every entry stays fit and paid for, and the one looked at  *)
(* does not lose its report.                                               *)
LEMMA EntriesMove ==
    ASSUME SessionInv,
           query' \in [Urls -> Entries],
           \A key \in Urls : Fit(query'[key], key) /\ PaidFor(query'[key], Paid(key)'),
           target \in Urls /\ query[target].report # Null =>
                /\ query'[target].report # Null
                /\ query[target].report.id <= query'[target].report.id,
           UNCHANGED <<target, shown>>,
           form' \in [value : Texts \cup {Null}, problem : Problems \cup {Null}],
           online' \in BOOLEAN, focused' \in BOOLEAN,
           asks' \in [Urls -> Nat], scans' \in 0..MaxScans, outages' \in 0..MaxOutages
    PROVE  SessionInv'
<1>1. TypeOK'
    BY DEF SessionInv, TypeOK
<1>2. EntriesAreOwn'
    BY DEF EntriesAreOwn, Fit
<1>3. FetchesArePaid'
    BY DEF FetchesArePaid
<1>4. ShownIsOfTarget'
    BY DEF SessionInv, ShownIsOfTarget
<1>5. ShownIsBehind'
    <2> SUFFICES ASSUME shown.status = "success"
                 PROVE  /\ shown.report # Null /\ query'[target].report # Null
                        /\ shown.report.id <= query'[target].report.id
        BY DEF ShownIsBehind
    <2>1. /\ shown.report # Null /\ query[target].report # Null
          /\ shown.report.id <= query[target].report.id
        BY DEF SessionInv, ShownIsBehind
    <2>2. target \in Urls
        BY DEF SessionInv, TypeOK, ShownIsOfTarget
    <2>3. query[target].report \in Reports /\ query'[target].report \in Reports /\ shown.report \in Reports
        <3>1. query[target] \in Entries /\ query'[target] \in Entries /\ shown \in Screens
            BY <2>2 DEF SessionInv, TypeOK
        <3> QED
            BY <2>1, <2>2, <3>1 DEF Entries, Screens
    <2> QED
        BY <2>1, <2>2, <2>3 DEF Reports
<1> QED
    BY <1>1, <1>2, <1>3, <1>4, <1>5 DEF SessionInv

(* The same for a step of one entry.                                       *)
LEMMA EntryMoves ==
    ASSUME SessionInv, NEW key \in Urls, NEW entry,
           query' = [query EXCEPT ![key] = entry],
           Fit(entry, key), PaidFor(entry, Paid(key)'),
           \A other \in Urls \ {key} : Paid(other)' = Paid(other),
           target = key /\ query[key].report # Null =>
                entry.report # Null /\ query[key].report.id <= entry.report.id,
           UNCHANGED <<form, target, shown, online, focused, outages>>,
           asks' \in [Urls -> Nat], scans' \in 0..MaxScans
    PROVE  SessionInv'
<1>1. query \in [Urls -> Entries]
    BY DEF SessionInv, TypeOK
<1>2. query' \in [Urls -> Entries]
    BY <1>1 DEF Fit
<1>3. ASSUME NEW other \in Urls
      PROVE  Fit(query'[other], other) /\ PaidFor(query'[other], Paid(other)')
    <2>1. CASE other = key
        BY <1>1, <2>1
    <2>2. CASE other # key
        <3>1. query'[other] = query[other]
            BY <1>1, <2>2
        <3>2. Fit(query[other], other)
            BY <1>1 DEF SessionInv, EntriesAreOwn, Fit
        <3>3. PaidFor(query[other], Paid(other))
            BY DEF SessionInv, FetchesArePaid
        <3> QED
            BY <2>2, <3>1, <3>2, <3>3
    <2> QED
        BY <2>1, <2>2
<1>4. target \in Urls /\ query[target].report # Null =>
         query'[target].report # Null /\ query[target].report.id <= query'[target].report.id
    <2> SUFFICES ASSUME target \in Urls, query[target].report # Null
                 PROVE  query'[target].report # Null /\ query[target].report.id <= query'[target].report.id
        OBVIOUS
    <2>1. CASE target = key
        BY <1>1, <2>1
    <2>2. CASE target # key
        <3>1. query'[target] = query[target]
            BY <1>1, <2>2
        <3>2. query[target].report \in Reports
            BY <1>1 DEF Entries
        <3> QED
            BY <3>1, <3>2 DEF Reports
    <2> QED
        BY <2>1, <2>2
<1>5. form' \in [value : Texts \cup {Null}, problem : Problems \cup {Null}]
    BY DEF SessionInv, TypeOK
<1>6. online' \in BOOLEAN /\ focused' \in BOOLEAN /\ outages' \in 0..MaxOutages
    BY DEF SessionInv, TypeOK
<1> QED
    BY <1>2, <1>3, <1>4, <1>5, <1>6, EntriesMove

-----------------------------------------------------------------------------
(* The state part of every entry, read off the invariant.                  *)
LEMMA EntryFacts ==
    ASSUME SessionInv, NEW key \in Urls
    PROVE  /\ query \in [Urls -> Entries]
           /\ query[key] \in Entries /\ Fit(query[key], key)
           /\ Paid(key) \in Int /\ PaidFor(query[key], Paid(key))
           /\ query[key].report # Null => query[key].report \in Reports
<1>1. query \in [Urls -> Entries] /\ Own(query[key], key) /\ PaidFor(query[key], Paid(key))
    BY DEF SessionInv, TypeOK, EntriesAreOwn, FetchesArePaid
<1>2. Paid(key) \in Int
    BY PaidType DEF SessionInv
<1> QED
    BY <1>1, <1>2 DEF Fit, Entries

LEMMA InitInv ==
    ASSUME Init
    PROVE  SessionInv
<1>1. NoEntry \in Entries
    <2>1. 0 \in 0..2 /\ 0 \in Nat
        OBVIOUS
    <2> QED
        BY <2>1, Zenon DEF NoEntry, Entries
<1>2. TypeOK
    <2>1. shown \in Screens
        BY DEF Init, ToScanState, Screen, Screens
    <2> QED
        BY <1>1, <2>1, SessionAssumption DEF Init, TypeOK
<1>3. EntriesAreOwn /\ FetchesArePaid
    BY DEF Init, EntriesAreOwn, Own, FetchesArePaid, PaidFor, Paid, Used, NoEntry
<1>4. ShownIsOfTarget /\ ShownIsBehind
    BY DEF Init, ToScanState, Screen, ShownIsOfTarget, ShownIsBehind
<1> QED
    BY <1>2, <1>3, <1>4 DEF SessionInv

(* Steps of the form alone.                                                *)
LEMMA OnlyForm ==
    ASSUME SessionInv, UNCHANGED <<target, query, shown, online, focused, asks, scans, outages>>,
           form' \in [value : Texts \cup {Null}, problem : Problems \cup {Null}]
    PROVE  SessionInv'
    BY DEF SessionInv, TypeOK, EntriesAreOwn, FetchesArePaid, Paid, ShownIsOfTarget, ShownIsBehind

LEMMA LookAtInv ==
    ASSUME SessionInv, NEW u \in Urls, LookAt(u), UNCHANGED <<online, focused, outages>>,
           form' \in [value : Texts \cup {Null}, problem : Problems \cup {Null}]
    PROVE  SessionInv'
<1>1. CASE u = target
    BY <1>1, OnlyForm DEF LookAt
<1>2. CASE u # target
    <2> DEFINE left == [key \in Urls |-> IF Observed(key) THEN Leave(query[key]) ELSE query[key]]
    <2>1. ASSUME NEW key \in Urls
          PROVE  Fit(left[key], key) /\ PaidFor(left[key], Paid(key))
        BY EntryFacts, LeaveFits
    <2>2. /\ asks' = [asks EXCEPT ![u] = @ + 1]
          /\ query' = [left EXCEPT ![u] = Arrive(left[u], u, online)]
          /\ target' = u /\ shown' = ToScanState(u, query')
          /\ scans < MaxScans /\ scans' = scans + 1
        BY <1>2 DEF LookAt, KeyOf
    <2>3. asks \in [Urls -> Nat] /\ scans \in 0..MaxScans /\ online \in BOOLEAN /\ outages \in 0..MaxOutages
        BY DEF SessionInv, TypeOK
    <2>4. Paid(u)' = Paid(u) + 1 /\ \A key \in Urls \ {u} : Paid(key)' = Paid(key)
        BY <2>2, <2>3, SessionAssumption DEF Paid
    <2>5. Paid(u) \in Int
        BY EntryFacts
    <2>6. /\ Fit(Arrive(left[u], u, online), u)
          /\ PaidFor(Arrive(left[u], u, online), Paid(u)')
        BY <2>1, <2>3, <2>4, <2>5, ArriveFits
    <2>7. ASSUME NEW key \in Urls
          PROVE  Fit(query'[key], key) /\ PaidFor(query'[key], Paid(key)')
        <3>1. CASE key = u
            BY <2>2, <2>6, <3>1
        <3>2. CASE key # u
            <4>1. query'[key] = left[key]
                BY <2>2, <3>2
            <4> QED
                BY <2>1, <2>4, <3>2, <4>1
        <3> QED
            BY <3>1, <3>2
    <2>8. query' \in [Urls -> Entries]
        <3>1. DOMAIN query' = Urls /\ query' = [key \in Urls |-> query'[key]]
            BY <2>2
        <3> QED
            BY <2>7, <3>1 DEF Fit
    <2>9. Own(query'[u], u)
        BY <2>7 DEF Fit
    <2>10. /\ shown' \in Screens
           /\ shown'.status \in {"scanning", "error", "success"}
           /\ shown'.status \in {"scanning", "error"} => shown'.url = u
           /\ shown'.status = "success" =>
                /\ shown'.report = query'[u].report /\ query'[u].report # Null
                /\ shown'.report.url = u
        <3> DEFINE entries == query'
        <3>1. entries \in [Urls -> Entries] /\ Own(entries[u], u) /\ shown' = ToScanState(u, entries)
            BY <2>2, <2>8, <2>9
        <3> HIDE DEF entries
        <3>2. LET screen == ToScanState(u, entries) IN
              /\ screen \in Screens
              /\ screen.status \in {"scanning", "error", "success"}
              /\ screen.status \in {"scanning", "error"} => screen.url = u
              /\ screen.status = "success" =>
                    /\ screen.report = entries[u].report /\ entries[u].report # Null
                    /\ screen.report.url = u
            BY <3>1, RendersItsUrl
        <3> QED
            BY <3>1, <3>2 DEF entries
    <2>11. asks' \in [Urls -> Nat] /\ scans' \in 0..MaxScans
        BY <2>2, <2>3, SessionAssumption
    <2>12. TypeOK'
        BY <2>2, <2>8, <2>10, <2>11 DEF SessionInv, TypeOK
    <2>13. EntriesAreOwn' /\ FetchesArePaid'
        BY <2>7 DEF EntriesAreOwn, FetchesArePaid, Fit
    <2>14. ShownIsOfTarget'
        BY <2>2, <2>10, SessionAssumption DEF ShownIsOfTarget
    <2>15. ShownIsBehind'
        <3>1. query'[u] \in Entries
            BY <2>8
        <3> QED
            BY <2>2, <2>10, <3>1 DEF ShownIsBehind, Entries, Reports
    <2> QED
        BY <2>12, <2>13, <2>14, <2>15 DEF SessionInv
<1> QED
    BY <1>1, <1>2

LEMMA RescanInv ==
    ASSUME SessionInv, Rescan
    PROVE  SessionInv'
<1> DEFINE old   == query[target]
           entry == IF old.phase # "none" /\ old.report = Null THEN Join(old) ELSE Begin(old, target, online)
<1>1. target \in Urls
    BY DEF Rescan, SessionInv, TypeOK, ShownIsOfTarget
<1>2. /\ query' = [query EXCEPT ![target] = entry]
      /\ asks' = [asks EXCEPT ![target] = @ + 1]
      /\ scans < MaxScans /\ scans' = scans + 1
      /\ UNCHANGED <<form, target, shown, online, focused, outages>>
    BY <1>1, EntryFacts DEF Rescan, KeyOf
<1>3. asks \in [Urls -> Nat] /\ scans \in 0..MaxScans /\ online \in BOOLEAN /\ outages \in 0..MaxOutages
    BY DEF SessionInv, TypeOK
<1>4. Paid(target)' = Paid(target) + 1 /\ \A key \in Urls \ {target} : Paid(key)' = Paid(key)
    BY <1>1, <1>2, <1>3, SessionAssumption DEF Paid
<1>5. Fit(old, target) /\ Paid(target) \in Int /\ PaidFor(old, Paid(target))
    BY <1>1, EntryFacts
<1>6. Fit(Join(old), target) /\ PaidFor(Join(old), Paid(target) + 1) /\ Join(old).report = old.report
    BY <1>1, <1>5, JoinFits, PaidMore
<1>7. /\ Fit(Begin(old, target, online), target)
      /\ PaidFor(Begin(old, target, online), Paid(target) + 1)
      /\ Begin(old, target, online).report = old.report
    BY <1>1, <1>3, <1>5, BeginFits
<1>8. Fit(entry, target) /\ PaidFor(entry, Paid(target)') /\ entry.report = old.report
    BY <1>4, <1>6, <1>7
<1>9. old.report # Null => old.report.id <= entry.report.id
    BY <1>1, <1>8, EntryFacts DEF Reports
<1>10. asks' \in [Urls -> Nat] /\ scans' \in 0..MaxScans
    BY <1>1, <1>2, <1>3, SessionAssumption
<1> HIDE DEF entry
<1> QED
    BY <1>1, <1>2, <1>4, <1>8, <1>9, <1>10, EntryMoves

(* Steps of one entry that charge nothing.                                 *)
LEMMA FreeEntryMoves ==
    ASSUME SessionInv, NEW key \in Urls, NEW entry,
           query' = [query EXCEPT ![key] = entry],
           Fit(entry, key), PaidFor(entry, Paid(key)),
           target = key /\ query[key].report # Null =>
                entry.report # Null /\ query[key].report.id <= entry.report.id,
           UNCHANGED <<form, target, shown, online, focused, asks, scans, outages>>
    PROVE  SessionInv'
<1>1. \A other \in Urls : Paid(other)' = Paid(other)
    BY DEF Paid
<1>2. asks' \in [Urls -> Nat] /\ scans' \in 0..MaxScans
    BY DEF SessionInv, TypeOK
<1> QED
    BY <1>1, <1>2, EntryMoves

(* An entry with the same report, address and requests, and no more left   *)
(* of its fetch.                                                           *)
LEMMA SameEntryMoves ==
    ASSUME SessionInv, NEW key \in Urls, NEW entry \in Entries,
           query' = [query EXCEPT ![key] = entry],
           entry.url = query[key].url, entry.report = query[key].report, entry.sent = query[key].sent,
           \/ entry.phase = query[key].phase /\ entry.failures = query[key].failures
           \/ entry.phase = "none",
           UNCHANGED <<form, target, shown, online, focused, asks, scans, outages>>
    PROVE  SessionInv'
<1>1. Fit(entry, key) /\ PaidFor(entry, Paid(key))
    BY EntryFacts, SameFits
<1>2. query[key].report # Null => query[key].report.id <= entry.report.id
    BY EntryFacts DEF Reports
<1> QED
    BY <1>1, <1>2, FreeEntryMoves

LEMMA DeliverInv ==
    ASSUME SessionInv, NEW key \in Urls, Deliver(key)
    PROVE  SessionInv'
<1> DEFINE old    == query[key]
           report == [url |-> old.url, id |-> old.sent]
           entry  == [old EXCEPT !.report = report, !.failure = Null, !.old = FALSE,
                                 !.phase = "none", !.failures = 0, !.lone = FALSE]
<1>1. /\ query \in [Urls -> Entries] /\ old \in Entries /\ Fit(old, key)
      /\ Paid(key) \in Int /\ PaidFor(old, Paid(key))
    BY EntryFacts
<1>2. old.sent \in Nat /\ old.failures \in 0..2 /\ old.url = key /\ old.phase = "sending"
    BY <1>1 DEF Deliver, Fit, Own, Entries
<1>3. query' = [query EXCEPT ![key] = entry]
    BY <1>1 DEF Deliver, Entries
<1>4. report \in Reports
    BY <1>2 DEF Reports
<1>5. entry \in Entries
    <2>1. 0 \in 0..2
        OBVIOUS
    <2> HIDE DEF report
    <2> QED
        BY <1>1, <1>4, <2>1, Zenon DEF Entries
<1>6. /\ entry.phase = "none" /\ entry.sent = old.sent /\ entry.report = report
    BY <1>1 DEF Entries
<1>7. old.report # Null => old.report.id <= report.id
    BY <1>1 DEF Fit, Own
<1> HIDE DEF entry
<1>8. Fit(entry, key)
    BY <1>2, <1>5, <1>6 DEF Fit, Own
<1>9. PaidFor(entry, Paid(key))
    BY <1>1, <1>2, <1>6 DEF PaidFor, Used
<1>10. report # Null
    BY <1>4, SessionAssumption
<1> QED
    BY <1>3, <1>6, <1>7, <1>8, <1>9, <1>10, FreeEntryMoves DEF Deliver

LEMMA FailInv ==
    ASSUME SessionInv, NEW key \in Urls, NEW failure \in Failures, Fail(key, failure)
    PROVE  SessionInv'
<1> DEFINE old     == query[key]
           again   == [old EXCEPT !.phase = "resting", !.failures = old.failures + 1]
           settled == [old EXCEPT !.failure = failure, !.old = TRUE,
                                  !.phase = "none", !.failures = 0, !.lone = FALSE]
<1>1. /\ query \in [Urls -> Entries] /\ old \in Entries /\ Fit(old, key)
      /\ Paid(key) \in Int /\ PaidFor(old, Paid(key))
      /\ old.report # Null => old.report \in Reports
    BY EntryFacts
<1>2. old.sent \in Nat /\ old.failures \in 0..2 /\ old.phase = "sending"
    BY <1>1 DEF Fail, Entries
<1>3. CASE Retry(old.failures, failure) /\ ~old.lone
    <2>1. query' = [query EXCEPT ![key] = again]
        BY <1>1, <1>3 DEF Fail
    <2>2. old.failures + 1 \in 0..2
        BY <1>2, <1>3 DEF Retry
    <2>3. again \in Entries
        BY <1>1, <2>2, Zenon DEF Entries
    <2>4. /\ again.phase = "resting" /\ again.failures = old.failures + 1 /\ again.sent = old.sent
          /\ again.url = old.url /\ again.report = old.report
        BY <1>1 DEF Entries
    <2> HIDE DEF again
    <2>5. Fit(again, key)
        BY <1>1, <1>2, <2>3, <2>4 DEF Fit, Own
    <2>6. PaidFor(again, Paid(key))
        BY <1>1, <1>2, <2>4 DEF PaidFor, Used
    <2>7. old.report # Null => old.report.id <= again.report.id
        BY <1>1, <2>4 DEF Reports
    <2> QED
        BY <2>1, <2>4, <2>5, <2>6, <2>7, FreeEntryMoves DEF Fail
<1>4. CASE ~(Retry(old.failures, failure) /\ ~old.lone)
    <2>1. query' = [query EXCEPT ![key] = settled]
        BY <1>1, <1>4 DEF Fail
    <2>2. settled \in Entries
        <3>1. 0 \in 0..2
            OBVIOUS
        <3> QED
            BY <1>1, <3>1, Zenon DEF Entries
    <2>3. /\ settled.phase = "none" /\ settled.sent = old.sent
          /\ settled.url = old.url /\ settled.report = old.report
        BY <1>1 DEF Entries
    <2> HIDE DEF settled
    <2> QED
        BY <2>1, <2>2, <2>3, SameEntryMoves DEF Fail
<1> QED
    BY <1>3, <1>4

LEMMA WakeInv ==
    ASSUME SessionInv, NEW key \in Urls, Wake(key)
    PROVE  SessionInv'
<1> DEFINE old    == query[key]
           paused == [old EXCEPT !.phase = "waiting"]
<1>1. /\ query \in [Urls -> Entries] /\ old \in Entries /\ Fit(old, key)
      /\ Paid(key) \in Int /\ PaidFor(old, Paid(key))
      /\ old.report # Null => old.report \in Reports
    BY EntryFacts
<1>2. old.phase = "resting" /\ old.url = key /\ old.sent \in Nat /\ old.failures \in 0..2
    BY <1>1 DEF Wake, Fit, Own, Entries
<1>3. old.report # Null => old.report.id <= old.report.id
    BY <1>1 DEF Reports
<1>4. CASE online /\ focused
    <2>1. query' = [query EXCEPT ![key] = Send(old)]
        BY <1>1, <1>4 DEF Wake
    <2>2. Fit(Send(old), key) /\ PaidFor(Send(old), Paid(key)) /\ Send(old).report = old.report
        BY <1>1, <1>2, SendFits
    <2> QED
        BY <1>3, <2>1, <2>2, FreeEntryMoves DEF Wake
<1>5. CASE ~(online /\ focused)
    <2>1. query' = [query EXCEPT ![key] = paused]
        BY <1>1, <1>5 DEF Wake
    <2>2. paused \in Entries
        BY <1>1, Zenon DEF Entries
    <2>3. /\ paused.phase = "waiting" /\ paused.sent = old.sent /\ paused.failures = old.failures
          /\ paused.url = old.url /\ paused.report = old.report
        BY <1>1 DEF Entries
    <2> HIDE DEF paused
    <2>4. Fit(paused, key)
        BY <1>1, <1>2, <2>2, <2>3 DEF Fit, Own
    <2>5. PaidFor(paused, Paid(key))
        BY <1>1, <1>2, <2>3 DEF PaidFor, Used
    <2> QED
        BY <1>3, <2>1, <2>3, <2>4, <2>5, FreeEntryMoves DEF Wake
<1> QED
    BY <1>4, <1>5

LEMMA AgeInv ==
    ASSUME SessionInv, NEW key \in Urls, Age(key)
    PROVE  SessionInv'
<1> DEFINE entry == [query[key] EXCEPT !.old = TRUE]
<1>1. query \in [Urls -> Entries] /\ query[key] \in Entries
    BY EntryFacts
<1>2. entry \in Entries
    BY <1>1, Zenon DEF Entries
<1>3. /\ entry.url = query[key].url /\ entry.report = query[key].report /\ entry.sent = query[key].sent
      /\ entry.phase = query[key].phase /\ entry.failures = query[key].failures
    BY <1>1 DEF Entries
<1>4. query' = [query EXCEPT ![key] = entry]
    BY <1>1 DEF Age
<1> HIDE DEF entry
<1> QED
    BY <1>2, <1>3, <1>4, SameEntryMoves DEF Age

LEMMA ForgetInv ==
    ASSUME SessionInv, NEW key \in Urls, Forget(key)
    PROVE  SessionInv'
<1> DEFINE old   == query[key]
           entry == [NoEntry EXCEPT !.sent = old.sent]
<1>1. /\ query \in [Urls -> Entries] /\ old \in Entries
      /\ Paid(key) \in Int /\ PaidFor(old, Paid(key))
    BY EntryFacts
<1>2. old.phase = "none" /\ old.sent \in Nat /\ target # key
    BY <1>1, SessionAssumption DEF Forget, Observed, KeyOf, Entries
<1>3. entry \in Entries
    <2>1. 0 \in 0..2
        OBVIOUS
    <2> QED
        BY <1>2, <2>1, Zenon DEF Entries, NoEntry
<1>4. entry.phase = "none" /\ entry.sent = old.sent /\ entry.report = Null
    BY DEF NoEntry
<1>5. query' = [query EXCEPT ![key] = entry]
    BY DEF Forget
<1> HIDE DEF entry
<1>6. Fit(entry, key) /\ PaidFor(entry, Paid(key))
    BY <1>1, <1>2, <1>3, <1>4 DEF Fit, Own, PaidFor
<1> QED
    BY <1>2, <1>5, <1>6, FreeEntryMoves DEF Forget

(* The page catches up with the entry of its target.                       *)
LEMMA RenderInv ==
    ASSUME SessionInv, Render
    PROVE  SessionInv'
<1>1. /\ query \in [Urls -> Entries] /\ target \in Urls \cup {Null}
      /\ shown' = ToScanState(target, query)
      /\ UNCHANGED <<form, target, query, online, focused, asks, scans, outages>>
    BY DEF Render, SessionInv, TypeOK
<1>2. (EntriesAreOwn /\ FetchesArePaid)'
    BY <1>1 DEF SessionInv, EntriesAreOwn, FetchesArePaid, Paid
<1>3. CASE target = Null
    <2>1. shown' = Screen("idle", Null, Null, Null)
        BY <1>1, <1>3 DEF ToScanState
    <2>2. shown' \in Screens /\ shown'.status = "idle"
        BY <2>1 DEF Screen, Screens
    <2>3. TypeOK'
        BY <1>1, <2>2 DEF SessionInv, TypeOK
    <2> QED
        BY <1>1, <1>2, <1>3, <2>2, <2>3 DEF SessionInv, ShownIsOfTarget, ShownIsBehind
<1>4. CASE target \in Urls
    <2>1. query[target] \in Entries /\ Own(query[target], target)
        BY <1>4, EntryFacts DEF Fit
    <2>2. /\ shown' \in Screens
          /\ shown'.status \in {"scanning", "error", "success"}
          /\ shown'.status \in {"scanning", "error"} => shown'.url = target
          /\ shown'.status = "success" =>
                /\ shown'.report = query[target].report /\ query[target].report # Null
                /\ shown'.report.url = target
        BY <1>1, <1>4, <2>1, RendersItsUrl
    <2>3. TypeOK'
        BY <1>1, <2>2 DEF SessionInv, TypeOK
    <2>4. ShownIsOfTarget'
        BY <1>1, <1>4, <2>2, SessionAssumption DEF ShownIsOfTarget
    <2>5. ShownIsBehind'
        BY <1>1, <2>1, <2>2 DEF ShownIsBehind, Entries, Reports
    <2> QED
        BY <1>2, <2>3, <2>4, <2>5 DEF SessionInv
<1> QED
    BY <1>1, <1>3, <1>4

LEMMA GoOfflineInv ==
    ASSUME SessionInv, GoOffline
    PROVE  SessionInv'
<1>1. /\ query \in [Urls -> Entries] /\ asks \in [Urls -> Nat] /\ outages \in 0..MaxOutages
      /\ outages < MaxOutages /\ online /\ ~online' /\ outages' = outages + 1
    BY DEF SessionInv, TypeOK, GoOffline
<1>2. \A key \in Urls : Paid(key)' = Paid(key)
    BY <1>1, SessionAssumption DEF GoOffline, Paid
<1>3. TypeOK'
    <2>1. outages' \in 0..MaxOutages
        BY <1>1, SessionAssumption
    <2>2. online' \in BOOLEAN
        BY Zenon DEF GoOffline
    <2> QED
        BY <2>1, <2>2, Zenon DEF SessionInv, TypeOK, GoOffline
<1>4. (EntriesAreOwn /\ FetchesArePaid)'
    BY <1>2 DEF SessionInv, EntriesAreOwn, FetchesArePaid, GoOffline
<1>5. (ShownIsOfTarget /\ ShownIsBehind)'
    BY DEF SessionInv, ShownIsOfTarget, ShownIsBehind, GoOffline
<1> QED
    BY <1>3, <1>4, <1>5 DEF SessionInv

LEMMA GoOnlineInv ==
    ASSUME SessionInv, GoOnline
    PROVE  SessionInv'
<1> DEFINE entry(key) == IF Observed(key) THEN Refresh(query[key], target) ELSE query[key]
           after(key) == IF focused THEN Continue(entry(key)) ELSE entry(key)
<1>1. /\ query \in [Urls -> Entries] /\ asks \in [Urls -> Nat] /\ outages \in 0..MaxOutages
      /\ ~online /\ online' = TRUE
      /\ query' = [key \in Urls |-> after(key)]
      /\ UNCHANGED <<form, target, shown, focused, asks, scans, outages>>
    BY DEF SessionInv, TypeOK, GoOnline
<1>2. \A key \in Urls : Paid(key)' = Paid(key) + 1
    BY <1>1, SessionAssumption DEF Paid
<1>3. ASSUME NEW key \in Urls
      PROVE  /\ Fit(after(key), key) /\ PaidFor(after(key), Paid(key)')
             /\ after(key).report = query[key].report
    <2>1. Fit(query[key], key) /\ Paid(key) \in Int /\ PaidFor(query[key], Paid(key))
        BY EntryFacts
    <2>2. Fit(entry(key), key) /\ PaidFor(entry(key), Paid(key) + 1) /\ entry(key).report = query[key].report
        <3>1. CASE Observed(key)
            <4>1. target = key /\ entry(key) = Arrive(query[key], key, TRUE)
                BY <3>1 DEF Observed, KeyOf, Refresh
            <4>2. PICK before : before = query[key]
                OBVIOUS
            <4>3. PICK paid \in Int : paid = Paid(key)
                BY <2>1
            <4>4. Fit(before, key) /\ PaidFor(before, paid)
                BY Zenon, <2>1, <4>2, <4>3
            <4> HIDE DEF entry
            <4>5. entry(key) = Arrive(before, key, TRUE)
                BY Zenon, <4>1, <4>2
            <4> QED
                BY Zenon, <4>2, <4>3, <4>4, <4>5, ArriveFits
        <3>2. CASE ~Observed(key)
            BY <2>1, <3>2, PaidMore
        <3> QED
            BY <3>1, <3>2
    <2>3. Paid(key) + 1 \in Int
        BY <2>1
    <2> HIDE DEF entry
    <2>4. /\ Fit(Continue(entry(key)), key) /\ PaidFor(Continue(entry(key)), Paid(key) + 1)
          /\ Continue(entry(key)).report = entry(key).report
        BY <2>2, <2>3, ContinueFits
    <2> QED
        BY <1>2, <2>2, <2>4
<1> HIDE DEF after
<1>4. query' \in [Urls -> Entries]
    BY <1>1, <1>3 DEF Fit
<1>5. \A key \in Urls : Fit(query'[key], key) /\ PaidFor(query'[key], Paid(key)')
    BY <1>1, <1>3
<1>6. target \in Urls /\ query[target].report # Null =>
         query'[target].report # Null /\ query[target].report.id <= query'[target].report.id
    BY <1>1, <1>3, EntryFacts DEF Reports
<1>7. /\ form' \in [value : Texts \cup {Null}, problem : Problems \cup {Null}]
      /\ online' \in BOOLEAN /\ focused' \in BOOLEAN
      /\ asks' \in [Urls -> Nat] /\ scans' \in 0..MaxScans /\ outages' \in 0..MaxOutages
    BY <1>1 DEF SessionInv, TypeOK
<1> QED
    BY <1>1, <1>4, <1>5, <1>6, <1>7, EntriesMove

LEMMA UnhideInv ==
    ASSUME SessionInv, Unhide
    PROVE  SessionInv'
<1>1. /\ query \in [Urls -> Entries]
      /\ query' = (IF online THEN [key \in Urls |-> Continue(query[key])] ELSE query)
      /\ UNCHANGED <<form, target, shown, online, asks, scans, outages>>
    BY DEF SessionInv, TypeOK, Unhide
<1>2. \A key \in Urls : Paid(key)' = Paid(key)
    BY <1>1 DEF Paid
<1>3. ASSUME NEW key \in Urls
      PROVE  /\ Fit(query'[key], key) /\ PaidFor(query'[key], Paid(key))
             /\ query'[key].report = query[key].report
    <2>1. Fit(query[key], key) /\ Paid(key) \in Int /\ PaidFor(query[key], Paid(key))
        BY EntryFacts
    <2>2. /\ Fit(Continue(query[key]), key) /\ PaidFor(Continue(query[key]), Paid(key))
          /\ Continue(query[key]).report = query[key].report
        BY <2>1, ContinueFits
    <2>3. query'[key] = query[key] \/ query'[key] = Continue(query[key])
        BY <1>1
    <2> QED
        BY <2>1, <2>2, <2>3
<1>4. query' \in [Urls -> Entries]
    <2>1. query' = [key \in Urls |-> query'[key]]
        BY <1>1
    <2> QED
        BY <1>3, <2>1 DEF Fit
<1>5. \A key \in Urls : Fit(query'[key], key) /\ PaidFor(query'[key], Paid(key)')
    BY <1>2, <1>3
<1>6. target \in Urls /\ query[target].report # Null =>
         query'[target].report # Null /\ query[target].report.id <= query'[target].report.id
    BY <1>3, EntryFacts DEF Reports
<1>7. /\ form' \in [value : Texts \cup {Null}, problem : Problems \cup {Null}]
      /\ online' \in BOOLEAN /\ focused' \in BOOLEAN
      /\ asks' \in [Urls -> Nat] /\ scans' \in 0..MaxScans /\ outages' \in 0..MaxOutages
    BY <1>1 DEF SessionInv, TypeOK, Unhide
<1> QED
    BY <1>1, <1>4, <1>5, <1>6, <1>7, EntriesMove

LEMMA NextInv ==
    ASSUME SessionInv, [Next]_vars
    PROVE  SessionInv'
<1>1. form \in [value : Texts \cup {Null}, problem : Problems \cup {Null}]
    BY DEF SessionInv, TypeOK
<1>2. ASSUME NEW text \in Texts, Type(text)
      PROVE  SessionInv'
    BY <1>2, OnlyForm DEF Type
<1>3. CASE Reject
    <2>1. form.value \in Texts
        BY <1>1, <1>3 DEF Reject
    <2>2. form' \in [value : Texts \cup {Null}, problem : Problems \cup {Null}]
        BY <1>1, <1>3, <2>1, FirstProblemType DEF Reject
    <2> QED
        BY <1>3, <2>2, OnlyForm DEF Reject
<1>4. CASE Submit
    <2>1. form.value \in Texts
        BY <1>1, <1>4 DEF Submit
    <2>2. Trim(form.value) \in Urls
        BY <2>1, SessionAssumption DEF Trim
    <2>3. form' \in [value : Texts \cup {Null}, problem : Problems \cup {Null}]
        BY <1>1, <1>4 DEF Submit
    <2> QED
        BY <1>4, <2>2, <2>3, LookAtInv DEF Submit
<1>5. ASSUME NEW text \in Examples, RunExample(text)
      PROVE  SessionInv'
    <2>1. text \in Texts /\ Trim(text) \in Urls
        BY SessionAssumption DEF Trim
    <2>2. form' \in [value : Texts \cup {Null}, problem : Problems \cup {Null}]
        BY <1>5, <2>1 DEF RunExample
    <2> QED
        BY <1>5, <2>1, <2>2, LookAtInv DEF RunExample
<1>6. CASE Rescan
    BY <1>6, RescanInv
<1>7. ASSUME NEW key \in Urls, Answer(key) \/ Wake(key) \/ Age(key) \/ Forget(key)
      PROVE  SessionInv'
    BY <1>7, DeliverInv, FailInv, WakeInv, AgeInv, ForgetInv DEF Answer
<1>8. CASE Render
    BY <1>8, RenderInv
<1>9. CASE GoOffline \/ GoOnline
    BY <1>9, GoOfflineInv, GoOnlineInv
<1>10. CASE Hide
    <2>1. TypeOK'
        BY <1>10 DEF SessionInv, TypeOK, Hide
    <2> QED
        BY <1>10, <2>1 DEF SessionInv, EntriesAreOwn, FetchesArePaid, Paid, ShownIsOfTarget, ShownIsBehind, Hide
<1>11. CASE Unhide
    BY <1>11, UnhideInv
<1>12. CASE UNCHANGED vars
    BY <1>1, <1>12, OnlyForm DEF vars
<1> QED
    BY <1>2, <1>3, <1>4, <1>5, <1>6, <1>7, <1>8, <1>9, <1>10, <1>11, <1>12 DEF Next

-----------------------------------------------------------------------------
(* What holds in every state and makes the rest provable: entries hold     *)
(* what was fetched for their own URL, each fetch is paid for, and the     *)
(* page is of its target and never ahead of the entry.                     *)
THEOREM SessionInvariant == Spec => []SessionInv
<1>1. Init => SessionInv
    BY InitInv
<1>2. SessionInv /\ [Next]_vars => SessionInv'
    BY NextInv
<1> QED
    BY <1>1, <1>2, PTL DEF Spec

(* Entries, form and page keep their shape; no fetch has more than two     *)
(* retries behind it.                                                      *)
THEOREM SessionTypeCorrect == Spec => []TypeOK
<1>1. SessionInv => TypeOK
    BY DEF SessionInv
<1> QED
    BY <1>1, SessionInvariant, PTL

(* The page is never about a URL other than the one looked at.             *)
THEOREM PageIsOfTarget == Spec => []ShownIsOfTarget
<1>1. SessionInv => ShownIsOfTarget
    BY DEF SessionInv
<1> QED
    BY <1>1, SessionInvariant, PTL

(* At most three requests of a URL per scan asked for and per outage.      *)
THEOREM RequestsAreBounded == Spec => []RequestBudget
<1>1. SessionInv => RequestBudget
    <2> SUFFICES ASSUME SessionInv, NEW key \in Urls
                 PROVE  query[key].sent <= 3 * (asks[key] + outages)
        BY DEF RequestBudget
    <2>1. /\ query[key].sent \in Nat /\ query[key].failures \in 0..2
          /\ PaidFor(query[key], Paid(key)) /\ asks[key] \in Nat /\ outages \in Nat
        BY EntryFacts, SessionAssumption DEF Entries, SessionInv, TypeOK
    <2> QED
        BY <2>1 DEF PaidFor, Paid, Used
<1> QED
    BY <1>1, SessionInvariant, PTL

-----------------------------------------------------------------------------
(* The page implements ScanScreen.                                         *)

LEMMA RendersPlainly ==
    ASSUME NEW u \in Urls \cup {Null}, NEW entries
    PROVE  LET screen == ToScanState(u, entries) IN
           screen.status \in {"idle", "scanning"} => screen = Screen(screen.status, u, Null, Null)
    BY SessionAssumption DEF ToScanState, Screen

(* Only a click on another URL and a rendering change the page.            *)
LEMMA PageSteps ==
    ASSUME SessionInv, [Next]_vars
    PROVE  \/ UNCHANGED <<shown, target>>
           \/ Render
           \/ /\ shown.status # "scanning" /\ target' \in Urls /\ target' # target
              /\ shown' = ToScanState(target', query')
<1>1. ASSUME NEW u \in Urls, LookAt(u), shown.status # "scanning"
      PROVE  \/ UNCHANGED <<shown, target>>
             \/ /\ shown.status # "scanning" /\ target' \in Urls /\ target' # target
                /\ shown' = ToScanState(target', query')
    BY <1>1 DEF LookAt
<1>2. CASE Submit
    <2>1. Trim(form.value) \in Urls
        BY <1>2, SessionAssumption DEF SessionInv, TypeOK, Submit, Trim
    <2> QED
        BY <1>1, <1>2, <2>1 DEF Submit, Busy
<1>3. ASSUME NEW text \in Examples, RunExample(text)
      PROVE  \/ UNCHANGED <<shown, target>>
             \/ /\ shown.status # "scanning" /\ target' \in Urls /\ target' # target
                /\ shown' = ToScanState(target', query')
    <2>1. Trim(text) \in Urls
        BY SessionAssumption DEF Trim
    <2> QED
        BY <1>1, <1>3, <2>1 DEF RunExample, Busy
<1>4. ASSUME NEW text \in Texts, Type(text)
      PROVE  UNCHANGED <<shown, target>>
    BY <1>4 DEF Type
<1>5. ASSUME NEW key \in Urls, Answer(key) \/ Wake(key) \/ Age(key) \/ Forget(key)
      PROVE  UNCHANGED <<shown, target>>
    BY <1>5 DEF Answer, Deliver, Fail, Wake, Age, Forget
<1>6. CASE Reject \/ Rescan
    BY <1>6 DEF Reject, Rescan
<1>7. CASE GoOffline \/ GoOnline \/ Hide \/ Unhide
    BY <1>7 DEF GoOffline, GoOnline, Hide, Unhide
<1>8. CASE UNCHANGED vars
    BY <1>8 DEF vars
<1> QED
    BY <1>2, <1>3, <1>4, <1>5, <1>6, <1>7, <1>8 DEF Next

LEMMA PlainNext ==
    ASSUME SessionInv, ShownIsPlain, [Next]_vars
    PROVE  ShownIsPlain'
<1>1. target \in Urls \cup {Null}
    BY DEF SessionInv, TypeOK
<1>2. CASE UNCHANGED <<shown, target>>
    BY <1>2 DEF ShownIsPlain
<1>3. ASSUME target' \in Urls \cup {Null}, shown' = ToScanState(target', query')
      PROVE  ShownIsPlain'
    BY <1>3, RendersPlainly DEF ShownIsPlain
<1>4. CASE Render
    BY <1>1, <1>3, <1>4 DEF Render
<1> QED
    BY <1>2, <1>3, <1>4, PageSteps

LEMMA PageKeepsPromise ==
    ASSUME SessionInv, SessionInv', ShownIsPlain, ShownIsPlain', [Next]_vars
    PROVE  [Promised!Next]_shown
<1>1. /\ target \in Urls \cup {Null} /\ shown \in Screens /\ target' \in Urls \cup {Null}
      /\ shown' \in Screens /\ ShownIsOfTarget /\ ShownIsOfTarget'
    BY DEF SessionInv, TypeOK
<1>2. ASSUME target' \in Urls
      PROVE  \/ shown'.status = "scanning" /\ shown'.url = target'
             \/ Promised!ResultOf(shown', target')
    BY <1>1, <1>2, SessionAssumption DEF ShownIsOfTarget, Screens, Promised!ResultOf
<1>3. CASE /\ shown.status # "scanning" /\ target' \in Urls /\ target' # target
           /\ shown' = ToScanState(target', query')
    <2>1. Promised!Newer(shown')
        BY <1>1, <1>3 DEF ShownIsOfTarget, Promised!Newer
    <2> QED
        BY <1>2, <1>3, <2>1 DEF Promised!Next, Promised!Ask, Promised!Recall, Promised!Busy
<1>4. CASE Render /\ target = Null
    BY <1>1, <1>4, SessionAssumption DEF Render, ShownIsOfTarget, ShownIsPlain
<1>5. CASE Render /\ target \in Urls
    <2>1. target' = target /\ shown' = ToScanState(target, query)
        BY <1>5 DEF Render
    <2>2. CASE shown.status = "scanning" /\ shown'.status = "scanning"
        BY <1>1, <2>1, <2>2 DEF ShownIsPlain
    <2>3. CASE shown.status = "scanning" /\ shown'.status # "scanning"
        <3>1. Promised!ResultOf(shown', target)
            BY <1>2, <1>5, <2>1, <2>3
        <3>2. shown.url = target
            BY <1>1, <2>3 DEF ShownIsOfTarget
        <3> QED
            BY <2>3, <3>1, <3>2 DEF Promised!Next, Promised!Finish, Promised!Busy
    <2>4. CASE shown.status # "scanning"
        <3>1. query[target] \in Entries /\ Own(query[target], target)
            BY <1>5, EntryFacts DEF Fit
        <3>2. shown'.status = "success" => shown'.report = query[target].report
            BY <1>5, <2>1, <3>1, RendersItsUrl DEF SessionInv, TypeOK
        <3>3. Promised!Newer(shown')
            BY <3>2 DEF SessionInv, ShownIsBehind, Promised!Newer
        <3> QED
            BY <1>2, <1>5, <2>1, <2>4, <3>3
            DEF Promised!Next, Promised!Ask, Promised!Recall, Promised!Busy
    <2> QED
        BY <2>2, <2>3, <2>4
<1>6. CASE UNCHANGED <<shown, target>>
    BY <1>6
<1> QED
    BY <1>1, <1>3, <1>4, <1>5, <1>6, PageSteps

(* The results area implements ScanScreen: a scan on screen ends in its    *)
(* own report or failure, and a report never gives way to an earlier one   *)
(* of its address.                                                         *)
THEOREM PageImplementsScreen == Spec => KeepsScreen
<1>1. Init => Promised!Init /\ ShownIsPlain
    BY DEF Init, ToScanState, Screen, Promised!Init, ShownIsPlain
<1>2. SessionInv /\ ShownIsPlain /\ [Next]_vars => ShownIsPlain'
    BY PlainNext
<1>3. SessionInv /\ SessionInv' /\ ShownIsPlain /\ ShownIsPlain' /\ [Next]_vars
      => [Promised!Next]_shown
    BY PageKeepsPromise
<1> QED
    BY <1>1, <1>2, <1>3, SessionInvariant, PTL DEF Spec, KeepsScreen, Promised!Spec
-----------------------------------------------------------------------------
(* The complaint below the form.                                           *)

(* A complaint only ever comes from testing the text that stays above it.  *)
THEOREM FormIsAboutItsText == Spec => []FormSpeaksOfItsText
<1>1. Init => FormSpeaksOfItsText
    BY DEF Init, FormSpeaksOfItsText
<1>2. SessionInv /\ FormSpeaksOfItsText /\ [Next]_vars => FormSpeaksOfItsText'
    <2> SUFFICES ASSUME SessionInv, FormSpeaksOfItsText, [Next]_vars
                 PROVE  FormSpeaksOfItsText'
        OBVIOUS
    <2>1. form \in [value : Texts \cup {Null}, problem : Problems \cup {Null}]
        BY DEF SessionInv, TypeOK
    <2>2. CASE UNCHANGED form
        BY <2>2 DEF FormSpeaksOfItsText
    <2>3. ASSUME NEW text \in Texts, Type(text) \/ RunExample(text)
          PROVE  FormSpeaksOfItsText'
        BY <2>3 DEF Type, RunExample, FormSpeaksOfItsText
    <2>4. CASE Submit
        BY <2>1, <2>4 DEF Submit, FormSpeaksOfItsText
    <2>5. CASE Reject
        <3>1. form'.problem = FirstProblem(form.value) /\ form'.value = form.value /\ form.value # Null
            BY <2>1, <2>5 DEF Reject
        <3> QED
            BY <3>1 DEF FormSpeaksOfItsText
    <2>6. CASE Rescan \/ Render \/ GoOffline \/ GoOnline \/ Hide \/ Unhide \/ UNCHANGED vars
        BY <2>2, <2>6 DEF Rescan, Render, GoOffline, GoOnline, Hide, Unhide, vars
    <2>7. ASSUME NEW key \in Urls, Answer(key) \/ Wake(key) \/ Age(key) \/ Forget(key)
          PROVE  FormSpeaksOfItsText'
        BY <2>2, <2>7 DEF Answer, Deliver, Fail, Wake, Age, Forget
    <2>8. Examples \subseteq Texts
        BY SessionAssumption
    <2> QED
        BY <2>3, <2>4, <2>5, <2>6, <2>7, <2>8 DEF Next
<1> QED
    BY <1>1, <1>2, SessionInvariant, PTL DEF Spec

-----------------------------------------------------------------------------
(* Looking again at what is fresh.                                         *)

(* A report beside a failure has been superseded by it.                    *)
Settled(entry)     == entry.report # Null /\ entry.failure # Null => entry.old
EntriesAreSettled  == \A key \in Urls : Settled(query[key])

(* Only an answer, its age and being forgotten change what an entry says.  *)
SaysTheSame(after, before) ==
    after.report = before.report /\ after.failure = before.failure /\ after.old = before.old

LEMMA FetchingSaysTheSame ==
    ASSUME NEW entry \in Entries, NEW u \in Urls, NEW up \in BOOLEAN
    PROVE  /\ SaysTheSame(Send(entry), entry)
           /\ SaysTheSame(Join(entry), entry)
           /\ SaysTheSame(Begin(entry, u, up), entry)
           /\ SaysTheSame(Arrive(entry, u, up), entry)
           /\ SaysTheSame(Leave(entry), entry)
           /\ SaysTheSame(Continue(entry), entry)
<1> DEFINE fresh == [entry EXCEPT !.url = u, !.failures = 0, !.lone = FALSE]
<1>1. SaysTheSame(Send(entry), entry) /\ SaysTheSame(Join(entry), entry) /\ SaysTheSame(Leave(entry), entry)
    BY DEF Entries, SaysTheSame, Send, Join, Leave
<1>2. SaysTheSame(fresh, entry)
    BY DEF Entries, SaysTheSame
<1>3. fresh \in Entries
    <2>1. 0 \in 0..2
        OBVIOUS
    <2> QED
        BY <2>1, Zenon DEF Entries
<1>4. Begin(entry, u, up) = IF up THEN Send(fresh) ELSE [fresh EXCEPT !.phase = "held"]
    BY DEF Begin
<1> HIDE DEF fresh
<1>5. SaysTheSame(Begin(entry, u, up), entry)
    BY <1>2, <1>3, <1>4 DEF Entries, SaysTheSame, Send
<1>6. SaysTheSame(Arrive(entry, u, up), entry)
    BY <1>1, <1>5 DEF Arrive, SaysTheSame
<1>7. SaysTheSame(Continue(entry), entry)
    BY <1>1 DEF Continue, SaysTheSame
<1> QED
    BY <1>1, <1>5, <1>6, <1>7

LEMMA SettledNext ==
    ASSUME SessionInv, EntriesAreSettled, [Next]_vars
    PROVE  EntriesAreSettled'
<1>0. query \in [Urls -> Entries] /\ target \in Urls \cup {Null} /\ online \in BOOLEAN
    BY DEF SessionInv, TypeOK
<1>1. ASSUME NEW after \in [Urls -> Entries], query' = after,
             \A key \in Urls : SaysTheSame(after[key], query[key])
      PROVE  EntriesAreSettled'
    BY <1>1 DEF EntriesAreSettled, Settled, SaysTheSame
<1>2. CASE UNCHANGED query
    BY <1>2 DEF EntriesAreSettled
<1>3. ASSUME NEW key \in Urls, NEW entry, query' = [query EXCEPT ![key] = entry], Settled(entry)
      PROVE  EntriesAreSettled'
    <2>1. \A other \in Urls : query'[other] = IF other = key THEN entry ELSE query[other]
        BY <1>0, <1>3
    <2> QED
        BY <1>3, <2>1 DEF EntriesAreSettled
<1>4. \A key \in Urls : query[key] \in Entries /\ Settled(query[key])
    BY <1>0 DEF EntriesAreSettled
<1>5. ASSUME NEW u \in Urls, LookAt(u)
      PROVE  EntriesAreSettled'
    <2>1. CASE u = target
        BY <1>2, <1>5, <2>1 DEF LookAt
    <2>2. CASE u # target
        <3> DEFINE left == [key \in Urls |-> IF Observed(key) THEN Leave(query[key]) ELSE query[key]]
        <3>1. query' = [left EXCEPT ![u] = Arrive(left[u], u, online)]
            BY <1>5, <2>2 DEF LookAt, KeyOf
        <3>2. left[u] = query[u]
            BY <2>2 DEF Observed, KeyOf
        <3>3. \A key \in Urls : SaysTheSame(left[key], query[key])
            BY <1>4, FetchingSaysTheSame DEF SaysTheSame
        <3>4. SaysTheSame(Arrive(left[u], u, online), query[u])
            BY <1>0, <1>4, <3>2, FetchingSaysTheSame
        <3>5. \A key \in Urls : query'[key] = IF key = u THEN Arrive(left[u], u, online) ELSE left[key]
            BY <3>1
        <3> HIDE DEF left
        <3>6. \A key \in Urls : SaysTheSame(query'[key], query[key])
            BY <3>3, <3>4, <3>5
        <3> QED
            BY <1>4, <3>6 DEF EntriesAreSettled, Settled, SaysTheSame
    <2> QED
        BY <2>1, <2>2
<1>6. CASE Submit
    BY <1>0, <1>5, <1>6, SessionAssumption DEF Submit, Trim, SessionInv, TypeOK
<1>7. ASSUME NEW text \in Examples, RunExample(text)
      PROVE  EntriesAreSettled'
    <2>1. Trim(text) \in Urls
        BY SessionAssumption DEF Trim
    <2> QED
        BY <1>5, <1>7, <2>1 DEF RunExample
<1>8. CASE Rescan
    <2>1. target \in Urls
        BY <1>8 DEF SessionInv, ShownIsOfTarget, TypeOK, Rescan
    <2>2. PICK entry \in {Join(query[target]), Begin(query[target], target, online)} :
             query' = [query EXCEPT ![target] = entry]
        BY <1>8 DEF Rescan, KeyOf
    <2>3. SaysTheSame(entry, query[target])
        BY <1>0, <1>4, <2>1, <2>2, FetchingSaysTheSame
    <2> QED
        BY <1>3, <1>4, <2>1, <2>2, <2>3 DEF Settled, SaysTheSame
<1>9. ASSUME NEW key \in Urls, Deliver(key)
      PROVE  EntriesAreSettled'
    <2>1. query'[key].failure = Null /\ \A other \in Urls \ {key} : query'[other] = query[other]
        BY <1>0, <1>4, <1>9 DEF Deliver, Entries
    <2> QED
        BY <1>4, <2>1 DEF EntriesAreSettled, Settled
<1>10. ASSUME NEW key \in Urls, NEW failure \in Failures, Fail(key, failure)
       PROVE  EntriesAreSettled'
    <2> DEFINE entry == query[key]
    <2>1. PICK after \in {[entry EXCEPT !.phase = "resting", !.failures = entry.failures + 1],
                          [entry EXCEPT !.failure = failure, !.old = TRUE,
                                        !.phase = "none", !.failures = 0, !.lone = FALSE]} :
             query' = [query EXCEPT ![key] = after]
        BY <1>10 DEF Fail
    <2>2. Settled(after)
        BY <1>4, <2>1 DEF Settled, Entries
    <2> QED
        BY <1>3, <2>1, <2>2
<1>11. ASSUME NEW key \in Urls, Wake(key)
       PROVE  EntriesAreSettled'
    <2>1. PICK after \in {Send(query[key]), [query[key] EXCEPT !.phase = "waiting"]} :
             query' = [query EXCEPT ![key] = after]
        BY <1>11 DEF Wake
    <2>2. Settled(after)
        BY <1>4, <2>1 DEF Settled, Entries, Send
    <2> QED
        BY <1>3, <2>1, <2>2
<1>12. ASSUME NEW key \in Urls, Age(key)
       PROVE  EntriesAreSettled'
    <2>1. query'[key].old = TRUE /\ \A other \in Urls \ {key} : query'[other] = query[other]
        BY <1>0, <1>4, <1>12 DEF Age, Entries
    <2> QED
        BY <1>4, <2>1 DEF EntriesAreSettled, Settled
<1>13. ASSUME NEW key \in Urls, Forget(key)
       PROVE  EntriesAreSettled'
    <2>1. [NoEntry EXCEPT !.sent = query[key].sent].report = Null
        BY DEF NoEntry
    <2> QED
        BY <1>3, <1>13, <2>1 DEF Forget, Settled
<1>14. CASE GoOnline
    <2>1. ASSUME NEW key \in Urls
          PROVE  SaysTheSame(query'[key], query[key])
        <3>1. PICK entry : entry = IF Observed(key) THEN Refresh(query[key], target) ELSE query[key]
            OBVIOUS
        <3>2. entry \in Entries /\ SaysTheSame(entry, query[key])
            <4>1. CASE Observed(key)
                <5>1. target = key /\ key \in Urls
                    BY <4>1 DEF Observed, KeyOf
                <5>2. Fit(query[key], key) /\ Paid(key) \in Int /\ PaidFor(query[key], Paid(key))
                    BY EntryFacts
                <5> QED
                    BY <1>4, <3>1, <4>1, <5>1, <5>2, ArriveFits, FetchingSaysTheSame DEF Refresh, Fit
            <4>2. CASE ~Observed(key)
                BY <1>4, <3>1, <4>2 DEF SaysTheSame
            <4> QED
                BY <4>1, <4>2
        <3>3. query'[key] = IF focused THEN Continue(entry) ELSE entry
            BY <1>14, <3>1 DEF GoOnline
        <3>4. SaysTheSame(Continue(entry), entry)
            BY <3>2, FetchingSaysTheSame
        <3> QED
            BY <3>2, <3>3, <3>4 DEF SaysTheSame
    <2> QED
        BY <1>4, <2>1 DEF EntriesAreSettled, Settled, SaysTheSame
<1>15. CASE Unhide
    <2>1. ASSUME NEW key \in Urls
          PROVE  SaysTheSame(query'[key], query[key])
        BY <1>0, <1>4, <1>15, FetchingSaysTheSame DEF Unhide, SaysTheSame
    <2> QED
        BY <1>4, <2>1 DEF EntriesAreSettled, Settled, SaysTheSame
<1>16. CASE Reject \/ Render \/ GoOffline \/ Hide \/ UNCHANGED vars
    BY <1>2, <1>16 DEF Reject, Render, GoOffline, Hide, vars
<1>17. ASSUME NEW text \in Texts, Type(text)
       PROVE  EntriesAreSettled'
    BY <1>2, <1>17 DEF Type
<1> QED
    BY <1>6, <1>7, <1>8, <1>9, <1>10, <1>11, <1>12, <1>13, <1>14, <1>15, <1>16, <1>17 DEF Next, Answer

(* Only looking at another URL changes the target.                         *)
LEMMA TargetMoves ==
    ASSUME SessionInv, [Next]_vars, target' # target
    PROVE  target' \in Urls /\ LookAt(target')
<1>1. ASSUME NEW u \in Urls, LookAt(u)
      PROVE  target' \in Urls /\ LookAt(target')
    BY <1>1 DEF LookAt
<1>2. CASE Submit
    <2>1. Trim(form.value) \in Urls
        BY <1>2, SessionAssumption DEF SessionInv, TypeOK, Submit, Trim
    <2> QED
        BY <1>1, <1>2, <2>1 DEF Submit
<1>3. ASSUME NEW text \in Examples, RunExample(text)
      PROVE  target' \in Urls /\ LookAt(target')
    <2>1. Trim(text) \in Urls
        BY SessionAssumption DEF Trim
    <2> QED
        BY <1>1, <1>3, <2>1 DEF RunExample
<1>4. ASSUME NEW text \in Texts, Type(text)
      PROVE  FALSE
    BY <1>4 DEF Type
<1>5. ASSUME NEW key \in Urls, Answer(key) \/ Wake(key) \/ Age(key) \/ Forget(key)
      PROVE  FALSE
    BY <1>5 DEF Answer, Deliver, Fail, Wake, Age, Forget
<1>6. ~(Reject \/ Rescan \/ Render \/ GoOffline \/ GoOnline \/ Hide \/ Unhide \/ UNCHANGED vars)
    BY DEF Reject, Rescan, Render, GoOffline, GoOnline, Hide, Unhide, vars
<1> QED
    BY <1>2, <1>3, <1>4, <1>5, <1>6 DEF Next

(* A URL that is looked at again while its report is fresh costs no        *)
(* request, and its report is on the page at once unless that URL is still *)
(* being fetched (App.test.tsx:141).                                       *)
THEOREM FreshReportsAreFree == Spec => FreshReportIsFree
<1>1. Init => EntriesAreSettled
    BY DEF Init, EntriesAreSettled, Settled, NoEntry
<1>2. SessionInv /\ EntriesAreSettled /\ [Next]_vars => EntriesAreSettled'
    BY SettledNext
<1>3. SessionInv /\ EntriesAreSettled /\ [Next]_vars =>
         [target' # target /\ query[target'].report # Null /\ ~query[target'].old =>
            /\ query'[target'].sent = query[target'].sent
            /\ query[target'].phase = "none" =>
                  shown' = Screen("success", Null, query[target'].report, Null)]_vars
    <2> SUFFICES ASSUME SessionInv, EntriesAreSettled, [Next]_vars, target' # target,
                        NEW u, u = target', query[u].report # Null, ~query[u].old
                 PROVE  /\ query'[u].sent = query[u].sent
                        /\ query[u].phase = "none" =>
                              shown' = Screen("success", Null, query[u].report, Null)
        OBVIOUS
    <2>1. u \in Urls /\ LookAt(u)
        BY TargetMoves
    <2> DEFINE left == [key \in Urls |-> IF Observed(key) THEN Leave(query[key]) ELSE query[key]]
    <2>2. /\ query' = [left EXCEPT ![u] = Arrive(left[u], u, online)]
          /\ shown' = ToScanState(u, query')
        BY <2>1 DEF LookAt, KeyOf
    <2>3. left[u] = query[u]
        BY <2>1 DEF Observed, KeyOf
    <2>4. Arrive(query[u], u, online) = query[u]
        BY DEF Arrive, IsStale
    <2> HIDE DEF left
    <2>5. query'[u] = query[u]
        <3>1. DOMAIN left = Urls
            BY DEF left
        <3> QED
            BY <2>1, <2>2, <2>3, <2>4, <3>1
    <2>6. query[u].failure = Null /\ u # Null
        BY <2>1, SessionAssumption DEF EntriesAreSettled, Settled
    <2>7. query[u].phase = "none" =>
             ToScanState(u, query') = Screen("success", Null, query[u].report, Null)
        BY <2>5, <2>6 DEF ToScanState, KeyOf, IsPending, IsFetching
    <2> QED
        BY <2>2, <2>5, <2>7
<1> QED
    BY <1>1, <1>2, <1>3, SessionInvariant, PTL DEF Spec, FreshReportIsFree
=============================================================================
