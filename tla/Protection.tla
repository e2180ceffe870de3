----------------------------- MODULE Protection -----------------------------
(***************************************************************************)
(* What the headers of a response make a browser do, stated on its own     *)
(* terms: the reference the checks are compared with.  Nothing here counts *)
(* points.  It is limited to what the comments of the checks and the       *)
(* README say browsers do: policies are intersected, a repeated directive  *)
(* is ignored, frame-ancestors prevails over X-Frame-Options, the last     *)
(* known Referrer-Policy token applies, HSTS is ignored over plain HTTP.   *)
(***************************************************************************)
EXTENDS Checks

Sends(response, name) == {response.lines[i].value : i \in {j \in DOMAIN response.lines :
                                                                 response.lines[j].name = name}}

(* The one directive of that name the browser keeps, if any.               *)
Kept(policy, name) ==
    {policy[i].values : i \in {j \in DOMAIN policy :
        /\ policy[j].name = name
        /\ \A k \in 1..(j - 1) : policy[k].name # name}}

(* The sources that govern <script> elements: none at all, or one set.     *)
ScriptSources(policy) ==
    LET elem == Kept(policy, "script-src-elem")
        src  == Kept(policy, "script-src")
    IN  IF elem # {} THEN elem ELSE IF src # {} THEN src ELSE Kept(policy, "default-src")

Trusts(sources) == "'strict-dynamic'" \in sources

(* An injected inline <script> runs when every policy lets it.             *)
InlineScriptsRun(response) ==
    \A policy \in Sends(response, "content-security-policy") :
        \A sources \in ScriptSources(policy) :
            "'unsafe-inline'" \in sources /\ sources \cap NonceOrHash = {} /\ ~Trusts(sources)

(* A script of any host is loaded when every policy lets it.               *)
AnyHostServesScripts(response) ==
    \A policy \in Sends(response, "content-security-policy") :
        \A sources \in ScriptSources(policy) : sources \cap WildcardSources # {} /\ ~Trusts(sources)

(* Any site may put the page in a frame.                                   *)
AncestorPolicies(response) ==
    UNION {Kept(policy, "frame-ancestors") : policy \in Sends(response, "content-security-policy")}
AnySiteFrames(response) ==
    IF AncestorPolicies(response) # {}
    THEN \A ancestors \in AncestorPolicies(response) : "*" \in ancestors
    ELSE Sends(response, "x-frame-options") \cap {"deny", "sameorigin"} = {}

(* The browser remembers to use HTTPS, by the first line and its last      *)
(* valid max-age.                                                          *)
HstsKept(response) ==
    {response.lines[i].value : i \in {j \in DOMAIN response.lines :
        /\ response.https
        /\ response.lines[j].name = "strict-transport-security"
        /\ \A k \in 1..(j - 1) : response.lines[k].name # "strict-transport-security"}}

HttpsFor(response, seconds) ==
    \E value \in HstsKept(response) : \E k \in DOMAIN value :
        /\ value[k].is = "max-age" /\ value[k].seconds >= seconds
        /\ \A m \in (k + 1)..Len(value) : value[m].is # "max-age" \/ value[m].seconds < 0

SubDomainsToo(response) ==
    \E value \in HstsKept(response) : \E k \in DOMAIN value : value[k].is = "includesubdomains"

(* What the address in the Referer may hold, for the last known token.     *)
SendsFullUrl(response) ==
    \E i \in DOMAIN response.lines :
        LET value == response.lines[i].value
        IN  /\ response.lines[i].name = "referrer-policy"
            /\ \E k \in DOMAIN value :
                /\ value[k] = Dangerous
                /\ \A m \in (k + 1)..Len(value) : value[m] \notin AllKnown
            /\ \A j \in (i + 1)..Len(response.lines) :
                response.lines[j].name = "referrer-policy" => ToSet(response.lines[j].value) \cap AllKnown = {}

(* A feature is denied by the last segment about it.                       *)
Denied(response, feature) ==
    \E value \in Sends(response, "permissions-policy") :
        \E k \in DOMAIN value :
            /\ value[k].feature = feature /\ value[k].allowlist \in LockedLists
            /\ \A m \in (k + 1)..Len(value) : value[m].feature # feature \/ value[m].allowlist = NoEquals

NamesSoftware(response) == \E name \in TelltaleHeaders : Sends(response, name) # {}
Sniffs(response) == Sends(response, "x-content-type-options") # {"nosniff"}
=============================================================================
