------------------------------- MODULE Report -------------------------------
(***************************************************************************)
(* frontend/src/analysis/analyze.ts and briefing.ts: from a response to    *)
(* the graded report, and from a report to the text given to an assistant. *)
(*                                                                         *)
(* Earned weight is counted in hundredths of a point, points in tenths.    *)
(* The code adds doubles: a total that is exactly half a point may have    *)
(* become slightly less, and is then rounded down, depending on which      *)
(* checks it came from.  Both roundings are kept as outcomes.              *)
(***************************************************************************)
EXTENDS Checks

(* What the lines of a header hold, as its parser reads them.              *)
Policies         == Seq([name : STRING, values : SUBSET Sources])
HstsTokens       == Seq([is : STRING, seconds : Int])
FeatureSegments  == Seq([feature : STRING, allowlist : STRING])
SoftwareNames    == [version : BOOLEAN, ticks : Nat]
HeaderValues(name) ==
    CASE name \in {"content-security-policy", "content-security-policy-report-only"} -> Policies
      [] name = "strict-transport-security" -> HstsTokens
      [] name = "permissions-policy"        -> FeatureSegments
      [] name = "referrer-policy"           -> Seq(STRING)
      [] name \in TelltaleHeaders           -> SoftwareNames
      [] OTHER                              -> STRING

(* null is none of the values a lookup returns.                            *)
ASSUME NullAssumption ==
    /\ Null \notin STRING /\ Null \notin Int /\ \A sources \in SUBSET Sources : Null # sources
    /\ Null \notin Policies /\ Null \notin HstsTokens /\ Null \notin FeatureSegments
    /\ Null \notin Seq(STRING) /\ Null \notin SoftwareNames

(* The words the checks compare with, and those their fixes are made of,   *)
(* are text like any other.                                                *)
ASSUME WordsAssumption ==
    /\ {"nosniff", "deny", "sameorigin", "allow-from", "0", ""} \cup AllKnown \subseteq STRING
    /\ {"default-src", "script-src", "object-src", "base-uri", "frame-ancestors"} \subseteq STRING
    /\ {"max-age", "includesubdomains", "preload", "()"} \cup SensitiveFeatures \subseteq STRING

InsecureTransportCap == 45

GradeFor(score) ==
    CASE score >= 90 -> "A"
      [] score >= 80 /\ score < 90 -> "B"
      [] score >= 70 /\ score < 80 -> "C"
      [] score >= 60 /\ score < 70 -> "D"
      [] score >= 50 /\ score < 60 -> "E"
      [] score < 50 -> "F"

Points(id, outcome) == (outcome.ratio * Definition(id).weight + 5) \div 10

Earned(outcomes) ==
    MapThenSumSet(LAMBDA id : outcomes[id].ratio * Definition(id).weight, DOMAIN outcomes)

RoundedScores(earned) ==
    {(earned + 50) \div 100} \cup {score \in {earned \div 100} : earned % 100 = 50}

Uncapped(score, isHttps) == score
Capped(score, isHttps) == IF isHttps THEN score ELSE Min({score, InsecureTransportCap})

(* The observed lines of a card, by name and then in wire order.           *)
Observed(id, headers) ==
    FlattenSeq([i \in DOMAIN Definition(id).observed |->
        LET name == Definition(id).observed[i]
        IN  [j \in DOMAIN All(headers, name) |-> [name |-> name, value |-> All(headers, name)[j]]]])

(* What analyze may return for a response.                                 *)
Analyze(response) ==
    LET context  == BuildContext(response)
        outcomes == [id \in ToSet(CheckIds) |-> Run(id, context)]
        Scored(raw) ==
            LET score == Capped(raw, context.isHttps)
            IN  [score |-> score, grade |-> GradeFor(score), checks |-> outcomes,
                 points   |-> [id \in ToSet(CheckIds) |-> Points(id, outcomes[id])],
                 observed |-> [id \in ToSet(CheckIds) |-> Observed(id, context.headers)],
                 headers  |-> response.lines, insecureTransport |-> ~context.isHttps]
    IN  {Scored(raw) : raw \in RoundedScores(Earned(outcomes))}

-----------------------------------------------------------------------------
(* briefing.ts *)

(* Only the names of software are taken to hold backticks.                 *)
Ticks(line) == IF line.name \in TelltaleHeaders THEN line.value.ticks ELSE 0

(* A block of quoted lines and the length of the fence around it.          *)
FenceAsLong(lines) ==
    [fence |-> Max({3} \cup {Ticks(lines[i]) : i \in DOMAIN lines}), lines |-> lines]
Fence(lines) ==
    [fence |-> Max({3} \cup {Ticks(lines[i]) + 1 : i \in DOMAIN lines}), lines |-> lines]

(* The checks of one status, in the order of the report.                   *)
Group(report, status) == SelectSeq(CheckIds, LAMBDA id : report.checks[id].status = status)

ToLlmBriefing(report) ==
    [alert  |-> report.insecureTransport,
     failed |-> Group(report, "fail"), warned |-> Group(report, "warn"), passed |-> Group(report, "pass"),
     quoted |-> [id \in {c \in ToSet(CheckIds) : report.checks[c].status # "pass"} |->
                    Fence(report.observed[id])],
     raw    |-> Fence(report.headers)]
=============================================================================
