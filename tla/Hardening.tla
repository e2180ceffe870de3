------------------------------ MODULE Hardening ------------------------------
(***************************************************************************)
(* A site being hardened with the report.  Its owner edits the headers it  *)
(* sends, by hand or by shipping the fix of a card, and scans it again:    *)
(* every step ends with the report analyze makes of the new response.      *)
(***************************************************************************)
EXTENDS Report, Protection

CONSTANTS
    Names,          \* header names, in the order the API sends them
    ValuesOf,       \* ValuesOf[name]: the values an owner may write
    Starts,         \* what the site sends at first: a value list per name
    MaxEdits        \* bound on the number of edits

(* Names of which several lines are sent side by side.                     *)
Repeatable == {"content-security-policy", "content-security-policy-report-only",
               "strict-transport-security", "referrer-policy"}

ASSUME HardeningAssumption ==
    /\ Names \in Seq(STRING)
    /\ {"'self'", "'nonce-x'", "'none'"} \subseteq Sources
    /\ \A i, j \in DOMAIN Names : Names[i] = Names[j] => i = j
    /\ Repeatable \cup TelltaleHeaders \subseteq ToSet(Names)
    /\ \A name \in ToSet(Names) : \A value \in ValuesOf[name] : value \in HeaderValues(name)
    /\ \A start \in Starts :
        /\ start = [name \in ToSet(Names) |-> start[name]]
        /\ \A name \in ToSet(Names) : start[name] \in Seq(HeaderValues(name))
        /\ \A name \in ToSet(Names) \ Repeatable : Len(start[name]) <= 1
    /\ MaxEdits \in Nat

VARIABLES
    sent,       \* sent[name]: the values of the lines sent under that name
    https,      \* the final URL is https
    report,     \* what the last scan showed
    edits       \* bounds the run

vars == <<sent, https, report, edits>>

(* collectHeaders: lines sorted by name, repeats in the order they came.   *)
WireLines(bag) ==
    FlattenSeq([i \in DOMAIN Names |->
        [j \in DOMAIN bag[Names[i]] |-> [name |-> Names[i], value |-> bag[Names[i]][j]]]])

Response == [https |-> https, lines |-> WireLines(sent)]

(* Deploying headers and scanning the site once more.                      *)
Deploy(bag, secure) ==
    /\ edits < MaxEdits
    /\ edits' = edits + 1
    /\ sent' = bag
    /\ https' = secure
    /\ report' \in Analyze([https |-> secure, lines |-> WireLines(bag)])

(* A server's configuration either adds a line or sets the only one.       *)
WithLine(name, value) ==
    [sent EXCEPT ![name] = IF name \in Repeatable THEN Append(@, value) ELSE <<value>>]

(* The fix of each card.  Policies are added beside the ones there; what   *)
(* discloses software is removed.                                          *)
WithFix(id) ==
    CASE id = "csp"                  -> WithLine("content-security-policy", CspFix)
      [] id = "hsts"                 -> [sent EXCEPT !["strict-transport-security"] = <<HstsFix>>]
      [] id = "frame-ancestors"      -> WithLine("content-security-policy", FramingFix)
      [] id = "content-type-options" -> WithLine("x-content-type-options", ContentTypeFix)
      [] id = "referrer-policy"      -> WithLine("referrer-policy", ReferrerFix)
      [] id = "permissions-policy"   -> WithLine("permissions-policy", PermissionsFix)
      [] id = "info-disclosure"      -> [n \in DOMAIN sent |-> IF n \in TelltaleHeaders THEN <<>> ELSE sent[n]]

Init ==
    /\ sent \in Starts
    /\ https \in BOOLEAN
    /\ report \in Analyze(Response)
    /\ edits = 0

AddLine(name, value) == Deploy(WithLine(name, value), https)
RemoveHeader(name)   == sent[name] # <<>> /\ Deploy([sent EXCEPT ![name] = <<>>], https)
ShipFix(id)          == report.checks[id].status # "pass" /\ Deploy(WithFix(id), https)
MoveToHttps          == ~https /\ Deploy(sent, TRUE)

Next ==
    \/ \E name \in ToSet(Names) : \E value \in ValuesOf[name] : AddLine(name, value)
    \/ \E name \in ToSet(Names) : RemoveHeader(name)
    \/ \E id \in ToSet(CheckIds) : ShipFix(id)
    \/ MoveToHttps

Spec == Init /\ [][Next]_vars

-----------------------------------------------------------------------------
Status(id) == report.checks[id].status
Ratio(id)  == report.checks[id].ratio

(* Every check has an outcome the cards can show, and ratios, points and   *)
(* the score stay within what they are fractions of.                       *)
TypeOK ==
    /\ DOMAIN sent = ToSet(Names)
    /\ https \in BOOLEAN
    /\ edits \in 0..MaxEdits
    /\ report.score \in 0..100
    /\ report.checks \in [ToSet(CheckIds) -> [status : {"pass", "warn", "fail"}, ratio : 0..100,
                                              findings : SUBSET Findings]]
    /\ \A id \in ToSet(CheckIds) : report.points[id] \in 0..(10 * Definition(id).weight)

(* types.ts: a check that passes is configured well.  What the summary of  *)
(* a passing card claims is what browsers then do, whichever lines,        *)
(* directives and tokens led there; the thresholds and the costs have to   *)
(* agree for that.                                                         *)
PassMeansProtected ==
    /\ Status("csp") = "pass" => ~InlineScriptsRun(Response) /\ ~AnyHostServesScripts(Response)
    /\ Status("hsts") = "pass" => HttpsFor(Response, OneYear) /\ SubDomainsToo(Response)
    /\ Status("frame-ancestors") = "pass" => ~AnySiteFrames(Response)
    /\ Status("content-type-options") = "pass" => ~Sniffs(Response)
    /\ Status("referrer-policy") = "pass" => ~SendsFullUrl(Response)
    /\ Status("permissions-policy") = "pass" => \A f \in SensitiveFeatures : Denied(Response, f)
    /\ Status("info-disclosure") = "pass" => ~NamesSoftware(Response)

(* types.ts: behind a check that fails there is a concrete attack, so the  *)
(* response leaves it open.  Several policies with frame-ancestors are     *)
(* left out: the check reads the first, browsers apply them all.           *)
FailMeansExposed ==
    /\ Status("csp") = "fail" => InlineScriptsRun(Response)
    /\ Status("hsts") = "fail" => ~HttpsFor(Response, OneDay)
    /\ Status("frame-ancestors") = "fail" =>
            AnySiteFrames(Response) \/ Cardinality(AncestorPolicies(Response)) > 1
    /\ Status("content-type-options") = "fail" => Sniffs(Response)
    /\ Status("referrer-policy") = "fail" => SendsFullUrl(Response)
    /\ Status("permissions-policy") # "fail" /\ Status("info-disclosure") # "fail"

(* A card that withholds points says why.                                  *)
LostPointsAreExplained ==
    \A id \in ToSet(CheckIds) : Ratio(id) < 100 => report.checks[id].findings # {}

(* briefing.ts: the score is the sum of the weights earned.  The points    *)
(* shown on the cards add up to it but for what rounding eight numbers can *)
(* lose, or the connection is plain HTTP and the grade is F.               *)
ScoreIsExplained ==
    LET total == MapThenSumSet(LAMBDA id : report.points[id], ToSet(CheckIds))
    IN  IF https
        THEN 10 * report.score - total \in -8..8
        ELSE report.score <= InsecureTransportCap /\ report.grade = "F"

(* registry.ts: a card shows the lines it graded.  With none to show it    *)
(* only finds things missing.  x-aspnetmvc-version is graded and not       *)
(* shown.                                                                  *)
CardShowsWhatItRead ==
    \A id \in ToSet(CheckIds) :
        \/ report.observed[id] # <<>>
        \/ report.checks[id].findings \subseteq {"absent", "plainHttp"}
        \/ id = "info-disclosure" /\ sent["x-aspnetmvc-version"] # <<>>

(* briefing.ts: no line a site sent ends the block it is quoted in.        *)
QuotesStayQuoted ==
    LET briefing == ToLlmBriefing(report)
        blocks   == {briefing.raw} \cup {briefing.quoted[id] : id \in DOMAIN briefing.quoted}
    IN  \A block \in blocks : \A i \in DOMAIN block.lines : Ticks(block.lines[i]) < block.fence

(* README: the report gives the exact value to correct each card with.     *)
(* Shipping it makes the card pass, unless the site is on plain HTTP, an   *)
(* earlier policy lets any site frame it, or the dead header is sent.      *)
FixEarnsItsCard ==
    [][\A id \in ToSet(CheckIds) : ShipFix(id) =>
        \/ report'.checks[id].status = "pass"
        \/ id = "hsts" /\ ~https
        \/ id = "frame-ancestors" /\ \E ancestors \in AncestorPolicies(Response) : "*" \in ancestors
        \/ id = "info-disclosure" /\ sent["x-xss-protection"] # <<>>]_vars

(* The cards draw on the same lines: a policy added for one of them is     *)
(* graded by two.  Whatever else is sent, no fix makes the site earn less, *)
(* and earning more never scores less.                                     *)
EarnedOf(shown) == Earned(shown.checks)
ShippingAFixNeverCosts ==
    [][\A id \in ToSet(CheckIds) : ShipFix(id) =>
        /\ EarnedOf(report') >= EarnedOf(report)
        /\ EarnedOf(report') > EarnedOf(report) => report'.score >= report.score]_vars
=============================================================================
