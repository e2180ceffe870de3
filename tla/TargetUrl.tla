----------------------------- MODULE TargetUrl -----------------------------
(***************************************************************************)
(* The URL half of backend/internal/scanner/guard.go and fetch.go: what    *)
(* NormalizeInput, ParseTarget, Target.URL and nextHopURL make of a text.  *)
(*                                                                         *)
(* A text is a record of what these functions can tell apart.  form says   *)
(* how it is written:                                                      *)
(*   "blank"      nothing, or too much of it                               *)
(*   "malformed"  url.Parse refuses it                                     *)
(*   "absolute"   scheme://authority/path                                  *)
(*   "bare"       authority/path, or scheme:opaque, with no "//"           *)
(*   "network"    //authority/path            (a Location only)            *)
(*   "path"       /path                       (a Location only)            *)
(*   "query"      ?query or #fragment         (a Location only)            *)
(* sep says that "://" occurs somewhere after the authority.  A path is a  *)
(* name and the number of times it has been percent-encoded.  Hosts that   *)
(* differ in case or in a trailing dot are one host, and NoHost stands for *)
(* every host ParseTarget refuses.                                         *)
(***************************************************************************)
EXTENDS Integers

CONSTANTS
    Names,          \* host names DNS can be asked about
    Literals6,      \* IPv6 literals used as hosts
    NoHost,         \* no host, or one that is too long or not encodable
    PathNames,
    SpecialPaths,   \* paths with a character that must be percent-encoded
    AllowedPorts

ASSUME UrlAssumption ==
    /\ SpecialPaths \subseteq PathNames
    /\ NoHost \notin Names \cup Literals6
    /\ AllowedPorts \subseteq Nat

Hosts  == Names \cup Literals6
NoPort == -1
Forms  == {"blank", "malformed", "absolute", "bare", "network", "path", "query"}
Schemes == {"none", "http", "https", "other"}
Path   == [name : PathNames, escapes : Nat]
Text   == [form : Forms, scheme : Schemes, user : BOOLEAN, host : Hosts \cup {NoHost},
           port : Int, path : Path, sep : BOOLEAN]

(* Target: a URL that passed structural validation, not yet resolved.      *)
Target == [scheme : {"http", "https"}, host : Hosts, port : AllowedPorts, path : Path]

-----------------------------------------------------------------------------
(* url.URL.EscapedPath of a parsed text: an encoding already there stays.  *)
EscapedPath(p) == IF p.name \in SpecialPaths /\ p.escapes = 0 THEN [p EXCEPT !.escapes = 1] ELSE p

(* Putting an encoded path in url.URL.Path and printing the URL: every "%" *)
(* is encoded again.                                                       *)
Escape(p) == IF p.name \in SpecialPaths THEN [p EXCEPT !.escapes = @ + 1] ELSE p

DefaultPort(scheme) == IF scheme = "https" THEN 443 ELSE 80

(* strings.Contains(candidate, "://") is asked of the whole text.          *)
Prefix(text) ==
    IF text.form = "bare" /\ ~text.sep
    THEN [text EXCEPT !.form = "absolute", !.scheme = "https"]
    ELSE text

Port(text) == IF text.port = NoPort THEN DefaultPort(text.scheme) ELSE text.port

(* The refusals of NormalizeInput and ParseTarget, in the order the code   *)
(* makes them: everything that is invalid_url, then the port.              *)
WellShaped(text) ==
    /\ text.form = "absolute"
    /\ text.scheme \in {"http", "https"}
    /\ ~text.user
    /\ text.host # NoHost
    /\ Port(text) <= 65535

Allowed(text) == Port(text) \in AllowedPorts

TargetAsGiven(text) ==
    [scheme |-> text.scheme, host |-> text.host, port |-> text.port, path |-> EscapedPath(text.path)]

TargetOf(text) ==
    [scheme |-> text.scheme, host |-> text.host, port |-> Port(text), path |-> EscapedPath(text.path)]

IsDefaultPort(t) == t.port = DefaultPort(t.scheme)

(* Target.URL: the port, and with it the brackets of an IPv6 literal, only *)
(* when it is not the scheme's own.                                        *)
UrlOf(t) ==
    [form   |-> IF t.host \in Literals6 /\ IsDefaultPort(t) THEN "malformed" ELSE "absolute",
     scheme |-> t.scheme, user |-> FALSE, host |-> t.host,
     port   |-> IF IsDefaultPort(t) THEN NoPort ELSE t.port,
     path   |-> Escape(t.path), sep |-> FALSE]

(* base.ResolveReference(next), for a base that parses.                    *)
ResolveReference(base, location) ==
    CASE location.form = "network" -> [location EXCEPT !.form = "absolute", !.scheme = base.scheme]
      [] location.form = "path"    -> [base EXCEPT !.path = EscapedPath(location.path)]
      [] location.form = "query"   -> base
      [] OTHER                     -> location

(* nextHopURL: the base is the logical URL of the hop.                     *)
NextHopUrl(current, location) == ResolveReference(UrlOf(current), location)
=============================================================================
