------------------------------- MODULE Checks -------------------------------
(***************************************************************************)
(* frontend/src/analysis/checks: the seven checks and their registry.  A   *)
(* check turns a context into an outcome: a status, the percentage of its  *)
(* weight that was earned, and the findings, which are names for the       *)
(* sentences of the code.  A check's fix never depends on the response.    *)
(***************************************************************************)
EXTENDS Headers, FiniteSetsExt

Findings ==
    {"absent", "reportOnly", "intersected", "noScriptSources", "unsafeInline", "unsafeEval", "wildcard",
     "noObjectNone", "noBaseUri", "plainHttp", "noMaxAge", "shortAge", "noSubDomains", "noPreload",
     "anyAncestor", "noFrameOptions", "oldMechanism", "removedValue", "unknownValue", "fullUrlLeaks",
     "originLeaks", "manyValues", "unrestricted", "openToAll", "version", "software", "deadHeader"}

Outcome(status, ratio, findings) == [status |-> status, ratio |-> ratio, findings |-> findings]

(* The sum of what each finding costs.                                     *)
Cost(costs, findings) == MapThenSumSet(LAMBDA finding : costs[finding], findings)

-----------------------------------------------------------------------------
(* checks/csp.ts *)

ScriptChain == <<"script-src-elem", "script-src", "default-src">>
ObjectChain == <<"object-src", "default-src">>
NonceOrHash     == {"'nonce-x'", "'sha256-x'"}
WildcardSources == {"*", "http:", "https:", "data:", "blob:"}

CspCosts == [noScriptSources |-> 50, unsafeInline |-> 35, unsafeEval |-> 12, wildcard |-> 25,
             noObjectNone |-> 8, noBaseUri |-> 10]

(* A nonce, a hash or 'strict-dynamic' makes browsers ignore               *)
(* 'unsafe-inline'; 'strict-dynamic' makes them ignore wildcards.          *)
ScriptFindings(sources) ==
    LET strict == "'strict-dynamic'" \in sources
    IN  {f \in {"unsafeInline"} : "'unsafe-inline'" \in sources /\ sources \cap NonceOrHash = {} /\ ~strict}
        \cup {f \in {"unsafeEval"} : "'unsafe-eval'" \in sources}
        \cup {f \in {"wildcard"} : sources \cap WildcardSources # {} /\ ~strict}

PolicyFindings(policy) ==
    LET directives == ParseCsp(policy)
        scripts    == EffectiveSources(directives, ScriptChain)
        objects    == EffectiveSources(directives, ObjectChain)
    IN  (IF scripts = Null THEN {"noScriptSources"} ELSE ScriptFindings(scripts))
        \cup {f \in {"noObjectNone"} : IF objects = Null THEN TRUE ELSE "'none'" \notin objects}
        \cup {f \in {"noBaseUri"} : "base-uri" \notin DOMAIN directives}

EvaluatePolicy(policy) ==
    [ratio    |-> ClampRatio(100 - Cost(CspCosts, PolicyFindings(policy))),
     findings |-> PolicyFindings(policy)]

(* The verdict kept is the first of the highest.                           *)
LastVerdict(verdicts) == verdicts[Len(verdicts)]
Best(verdicts) ==
    verdicts[SelectInSeq(verdicts, LAMBDA v : \A i \in DOMAIN verdicts : verdicts[i].ratio <= v.ratio)]

RunCsp(context) ==
    LET policies   == All(context.headers, "content-security-policy")
        reportOnly == All(context.headers, "content-security-policy-report-only")
        verdicts   == [i \in DOMAIN policies |-> EvaluatePolicy(policies[i])]
        best       == Best(verdicts)
        status     == IF best.ratio >= 90 THEN "pass" ELSE IF best.ratio >= 35 THEN "warn" ELSE "fail"
    IN  CASE policies = <<>> /\ reportOnly # <<>> -> Outcome("warn", 15, {"reportOnly"})
          [] policies = <<>> /\ reportOnly = <<>> -> Outcome("fail", 0, {"absent"})
          [] OTHER -> Outcome(status, best.ratio,
                              best.findings \cup {f \in {"intersected"} : Len(policies) > 1})

CspCheck == [weight |-> 30,
             observed |-> <<"content-security-policy", "content-security-policy-report-only">>]
CspFix == <<[name |-> "default-src", values |-> {"'self'"}],
            [name |-> "script-src", values |-> {"'self'", "'nonce-x'"}],
            [name |-> "object-src", values |-> {"'none'"}],
            [name |-> "base-uri", values |-> {"'self'"}],
            [name |-> "frame-ancestors", values |-> {"'none'"}]>>

-----------------------------------------------------------------------------
(* checks/hsts.ts *)

OneYear   == 31536000
SixMonths == 15768000
OneDay    == 86400

AgeRatio(maxAge) ==
    CASE maxAge >= OneYear -> 80
      [] maxAge >= SixMonths /\ maxAge < OneYear -> 65
      [] maxAge >= OneDay /\ maxAge < SixMonths -> 40
      [] maxAge < OneDay -> 15

PreloadForgotten(hsts) ==
    LET ratio  == ClampRatio(AgeRatio(hsts.maxAge) + (IF hsts.includeSubDomains THEN 15 ELSE 0)
                                                   + (IF hsts.preload THEN 5 ELSE 0))
        status == IF ratio >= 90 THEN "pass" ELSE IF ratio >= 40 THEN "warn" ELSE "fail"
    IN  Outcome(status, ratio, {f \in {"shortAge"} : hsts.maxAge < OneYear}
                               \cup {f \in {"noSubDomains"} : ~hsts.includeSubDomains})
HstsOutcome(hsts) ==
    LET ratio  == ClampRatio(AgeRatio(hsts.maxAge) + (IF hsts.includeSubDomains THEN 15 ELSE 0)
                                                   + (IF hsts.preload THEN 5 ELSE 0))
        status == IF ratio >= 90 THEN "pass" ELSE IF ratio >= 40 THEN "warn" ELSE "fail"
    IN  Outcome(status, ratio, {f \in {"shortAge"} : hsts.maxAge < OneYear}
                               \cup {f \in {"noSubDomains"} : ~hsts.includeSubDomains}
                               \cup {f \in {"noPreload"} : ~hsts.preload})

RunHsts(context) ==
    LET value == First(context.headers, "strict-transport-security")
    IN  CASE ~context.isHttps -> Outcome("fail", 0, {"plainHttp"})
          [] context.isHttps /\ value = Null -> Outcome("fail", 0, {"absent"})
          [] OTHER -> LET hsts == ParseHsts(value)
                      IN  IF hsts.maxAge = Null THEN Outcome("fail", 5, {"noMaxAge"}) ELSE HstsOutcome(hsts)

HstsCheck == [weight |-> 20, observed |-> <<"strict-transport-security">>]
HstsFix == <<[is |-> "max-age", seconds |-> OneYear], [is |-> "includesubdomains", seconds |-> -1],
             [is |-> "preload", seconds |-> -1]>>

-----------------------------------------------------------------------------
(* checks/framing.ts *)

(* The first policy that sets frame-ancestors decides.                     *)
ReadFrameAncestors(context) ==
    LET policies == All(context.headers, "content-security-policy")
        i == SelectInSeq(policies, LAMBDA policy : "frame-ancestors" \in DOMAIN ParseCsp(policy))
    IN  IF i = 0 THEN Null ELSE ParseCsp(policies[i])["frame-ancestors"]

RunFraming(context) ==
    LET ancestors == ReadFrameAncestors(context)
        xfo       == First(context.headers, "x-frame-options")
    IN  IF ancestors # Null
        THEN IF "*" \in ancestors
             THEN Outcome("fail", 0, {"anyAncestor"})
             ELSE Outcome("pass", 100, {f \in {"noFrameOptions"} : xfo = Null})
        ELSE CASE xfo = Null                    -> Outcome("fail", 0, {"absent"})
               [] xfo \in {"deny", "sameorigin"} -> Outcome("pass", 85, {"oldMechanism"})
               [] xfo = "allow-from"            -> Outcome("fail", 10, {"removedValue"})
               [] OTHER                         -> Outcome("fail", 0, {"unknownValue"})

FramingShowsOldHeader == [weight |-> 15, observed |-> <<"x-frame-options">>]
FramingCheck == [weight |-> 15, observed |-> <<"x-frame-options", "content-security-policy">>]
FramingFix == <<[name |-> "frame-ancestors", values |-> {"'none'"}]>>

-----------------------------------------------------------------------------
(* checks/contentType.ts *)

RunContentType(context) ==
    LET value == First(context.headers, "x-content-type-options")
    IN  CASE value = Null      -> Outcome("fail", 0, {"absent"})
          [] value = "nosniff" -> Outcome("pass", 100, {})
          [] OTHER             -> Outcome("fail", 0, {"unknownValue"})

ContentTypeCheck == [weight |-> 10, observed |-> <<"x-content-type-options">>]
ContentTypeFix == "nosniff"

-----------------------------------------------------------------------------
(* checks/referrer.ts *)

Strong    == {"no-referrer", "same-origin", "strict-origin", "strict-origin-when-cross-origin"}
Weak      == {"origin", "origin-when-cross-origin", "no-referrer-when-downgrade"}
Dangerous == "unsafe-url"
AllKnown  == Strong \cup Weak \cup {Dangerous}

FirstKnown(tokens) ==
    LET i == SelectInSeq(tokens, LAMBDA token : token \in AllKnown)
    IN  IF i = 0 THEN Null ELSE tokens[i]
(* The last token that is known.                                           *)
Effective(tokens) ==
    LET i == SelectLastInSeq(tokens, LAMBDA token : token \in AllKnown)
    IN  IF i = 0 THEN Null ELSE tokens[i]

RunReferrer(context) ==
    LET tokens    == ParseTokenList(All(context.headers, "referrer-policy"))
        effective == Effective(tokens)
    IN  CASE tokens = <<>>                        -> Outcome("warn", 50, {"absent"})
          [] tokens # <<>> /\ effective = Null    -> Outcome("warn", 50, {"unknownValue"})
          [] effective = Dangerous                -> Outcome("fail", 0, {"fullUrlLeaks"})
          [] effective \in Weak                   -> Outcome("warn", 60, {"originLeaks"})
          [] OTHER -> Outcome("pass", 100, {f \in {"manyValues"} : Len(tokens) > 1})

ReferrerCheck == [weight |-> 10, observed |-> <<"referrer-policy">>]
ReferrerFix == <<"strict-origin-when-cross-origin">>

-----------------------------------------------------------------------------
(* checks/permissions.ts *)

SensitiveFeatures == {"camera", "microphone", "geolocation", "payment", "usb"}
LockedLists       == {"()", "(none)", ""}
StarredLists      == {"*", "(*)", "(self *)"}

LockedIn(features)   == {f \in SensitiveFeatures \cap DOMAIN features : features[f] \in LockedLists}
WideOpenIn(features) == {f \in SensitiveFeatures \cap DOMAIN features : features[f] \in StarredLists}

RunPermissions(context) ==
    LET value    == First(context.headers, "permissions-policy")
        features == ParsePermissionsPolicy(value)
        locked   == LockedIn(features)
        wideOpen == WideOpenIn(features)
        ratio    == ClampRatio(35 + (65 * Cardinality(locked)) \div 5 - 20 * Cardinality(wideOpen))
    IN  IF value = Null
        THEN Outcome("warn", 0, {"absent"})
        ELSE Outcome(IF ratio >= 90 THEN "pass" ELSE "warn", ratio,
                     {f \in {"unrestricted"} : locked \cup wideOpen # SensitiveFeatures}
                     \cup {f \in {"openToAll"} : wideOpen # {}})

PermissionsCheck == [weight |-> 10, observed |-> <<"permissions-policy", "feature-policy">>]
PermissionsFix == SetToSeq({[feature |-> f, allowlist |-> "()"] : f \in SensitiveFeatures})

-----------------------------------------------------------------------------
(* checks/disclosure.ts *)

TelltaleHeaders == {"server", "x-powered-by", "x-aspnet-version", "x-aspnetmvc-version", "x-generator"}

(* An absent X-XSS-Protection, an empty one and 0 are as good.             *)
XssFilterOn(headers) == First(headers, "x-xss-protection") \notin {Null, "0", ""}

RunDisclosure(context) ==
    LET headers  == context.headers
        exposed  == {name \in TelltaleHeaders : First(headers, name) # Null}
        versions == {name \in exposed : First(headers, name).version}
        findings == {f \in {"version"} : versions # {}}
                    \cup {f \in {"software"} : exposed # {} /\ versions = {}}
                    \cup {f \in {"deadHeader"} : XssFilterOn(headers)}
        ratio    == ClampRatio(100 - Cost([version |-> 60, software |-> 25, deadHeader |-> 15], findings))
    IN  Outcome(IF ratio >= 90 THEN "pass" ELSE "warn", ratio, findings)

DisclosureCheck == [weight |-> 5,
                    observed |-> <<"server", "x-powered-by", "x-aspnet-version", "x-generator",
                                   "x-xss-protection">>]

-----------------------------------------------------------------------------
(* checks/index.ts and registry.ts: the checks, worst consequence first.   *)

CheckIds == <<"csp", "hsts", "frame-ancestors", "content-type-options", "referrer-policy",
              "permissions-policy", "info-disclosure">>

Definition(id) ==
    CASE id = "csp"                  -> CspCheck
      [] id = "hsts"                 -> HstsCheck
      [] id = "frame-ancestors"      -> FramingCheck
      [] id = "content-type-options" -> ContentTypeCheck
      [] id = "referrer-policy"      -> ReferrerCheck
      [] id = "permissions-policy"   -> PermissionsCheck
      [] id = "info-disclosure"      -> DisclosureCheck

Run(id, context) ==
    CASE id = "csp"                  -> RunCsp(context)
      [] id = "hsts"                 -> RunHsts(context)
      [] id = "frame-ancestors"      -> RunFraming(context)
      [] id = "content-type-options" -> RunContentType(context)
      [] id = "referrer-policy"      -> RunReferrer(context)
      [] id = "permissions-policy"   -> RunPermissions(context)
      [] id = "info-disclosure"      -> RunDisclosure(context)
=============================================================================
