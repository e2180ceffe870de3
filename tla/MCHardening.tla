---------------------------- MODULE MCHardening ----------------------------
(* A site and the header values its owner knows, for TLC. *)
EXTENDS Hardening

HeaderNames == <<"content-security-policy", "content-security-policy-report-only", "feature-policy",
                 "permissions-policy", "referrer-policy", "server", "strict-transport-security",
                 "x-aspnet-version", "x-aspnetmvc-version", "x-content-type-options", "x-frame-options",
                 "x-generator", "x-powered-by", "x-xss-protection">>

D(name, values) == [name |-> name, values |-> values]
T(is, seconds)  == [is |-> is, seconds |-> seconds]
P(feature, allowlist) == [feature |-> feature, allowlist |-> allowlist]

AnyAncestor   == <<D("frame-ancestors", {"*"})>>
Permissive    == <<D("script-src", {"'self'", "'unsafe-inline'", "'unsafe-eval'", "*"})>>
NonceFallback == <<D("script-src", {"'nonce-x'", "'unsafe-inline'"}), D("object-src", {"'none'"})>>
DefaultNone   == <<D("default-src", {"'none'"}), D("base-uri", {})>>
TrustedLoader == <<D("script-src", {"'strict-dynamic'", "https:", "'unsafe-inline'"}), D("base-uri", {"'self'"})>>
Repeated      == <<D("script-src", {"'self'"}), D("script-src", {"'unsafe-inline'"}), D("object-src", {"'none'"}),
                   D("base-uri", {"'self'"})>>
LooseRepeat   == <<D("script-src", {"'self'"}), D("script-src", {"'unsafe-inline'", "'unsafe-eval'", "*"})>>
ElementsOnly  == <<D("default-src", {"'self'"}), D("script-src-elem", {"'unsafe-inline'", "data:"}),
                   D("base-uri", {"'self'"})>>

AllFive(list) == SetToSeq({P(f, list) : f \in SensitiveFeatures})

Values == [name \in ToSet(HeaderNames) |->
    CASE name = "content-security-policy" ->
            {AnyAncestor, Permissive, NonceFallback, DefaultNone, TrustedLoader, Repeated, LooseRepeat, ElementsOnly, <<>>}
      [] name = "content-security-policy-report-only" -> {DefaultNone}
      [] name = "feature-policy" -> {"camera 'none'"}
      [] name = "permissions-policy" ->
            {AllFive("(self)"), AllFive("*"), AllFive("(none)") \o <<P("usb", "(self *)"), P("camera", NoEquals)>>}
      [] name = "referrer-policy" ->
            {<<"unsafe-url">>, <<"strict-origin", "unknown">>, <<"origin">>, <<"no-referrer", "unsafe-url">>}
      [] name \in TelltaleHeaders -> {}
      [] name = "strict-transport-security" ->
            {<<T("max-age", OneDay)>>, <<T("max-age", OneYear), T("includesubdomains", -1), T("max-age", -1)>>,
             <<T("max-age", SixMonths), T("preload", -1), T("includesubdomains", -1)>>, <<T("preload", -1)>>,
             <<T("max-age", OneYear), T("max-age", OneDay - 1), T("includesubdomains", -1), T("preload", -1)>>}
      [] name = "x-content-type-options" -> {"none"}
      [] name = "x-frame-options" -> {"deny", "allow-from", "allowall"}
      [] name = "x-xss-protection" -> {"0", "1", ""}]

Software == [version |-> FALSE, ticks |-> 0]
Release  == [version |-> TRUE, ticks |-> 3]
AllValues == [name \in DOMAIN Values |->
    IF name = "server" THEN {Software, Release}
    ELSE IF name \in {"x-powered-by", "x-aspnetmvc-version"} THEN {Release} ELSE Values[name]]

AllSources == {"'self'", "'none'", "'nonce-x'", "'unsafe-inline'", "'unsafe-eval'", "'strict-dynamic'",
               "*", "https:", "data:"}

Nothing == [name \in ToSet(HeaderNames) |-> <<>>]
Hardened == [Nothing EXCEPT !["content-security-policy"] = <<CspFix>>,
                            !["strict-transport-security"] = <<HstsFix>>,
                            !["x-frame-options"] = <<"deny">>,
                            !["x-content-type-options"] = <<"nosniff">>,
                            !["referrer-policy"] = <<ReferrerFix>>,
                            !["permissions-policy"] = <<PermissionsFix>>]
Typical == [Nothing EXCEPT !["server"] = <<Release>>, !["x-frame-options"] = <<"sameorigin">>,
                           !["content-security-policy"] = <<Permissive>>,
                           !["strict-transport-security"] = <<<<T("max-age", SixMonths)>>>>]
ThreeStarts == {Nothing, Hardened, Typical}
=============================================================================
