-------------------------------- MODULE Scan --------------------------------
(***************************************************************************)
(* One run of Scanner.FetchHeaders (backend/internal/scanner/fetch.go):    *)
(* validate, dial the pinned address, follow redirects by hand, under a    *)
(* context the caller may cancel or that may time out at any moment.       *)
(*                                                                         *)
(* A step runs from one blocking call to the next (LookupNetIP, the dial,  *)
(* the wait for response headers); what the network answers is a choice.   *)
(* DNS may answer differently every time it is asked.                      *)
(***************************************************************************)
EXTENDS TargetUrl, Sequences

CONSTANTS
    Inputs,          \* what a user may type
    Locations,       \* what a Location header may hold
    Addrs,           \* IP addresses
    PublicAddrs,     \* those IsPublicAddr accepts
    Unmapped,        \* Unmapped[a]: a, as IPv4 if it is IPv4 written as IPv6
    LiteralAddr,     \* LiteralAddr[h] = the address an IPv6 literal spells
    Answers,         \* what DNS may answer for a name: sequences of addresses
    MaxRedirects,    \* SCAN_MAX_REDIRECTS
    Nothing          \* an absent value

ASSUME ScanAssumption ==
    /\ Inputs \subseteq Text
    /\ Locations \subseteq Text
    /\ \A text \in Inputs : text.form \in {"blank", "malformed", "absolute", "bare"}
    /\ PublicAddrs \subseteq Addrs
    /\ Unmapped \in [Addrs -> Addrs]
    /\ \A a \in Addrs : Unmapped[Unmapped[a]] = Unmapped[a]
    /\ \A a \in PublicAddrs : Unmapped[a] \in PublicAddrs
    /\ LiteralAddr \in [Literals6 -> Addrs]
    /\ Answers \subseteq Seq(Addrs)
    /\ MaxRedirects \in Int
    /\ Nothing \notin Text \cup Target \cup Addrs

VARIABLES
    phase,     \* where FetchHeaders is
    ctx,       \* ctx.Err(): "live", "deadline" or "canceled"
    input,     \* ghost: what the user typed
    target,    \* the target being validated or visited
    ip,        \* pinned.IP
    chain,     \* redirectChain
    result,    \* what FetchHeaders returned
    lookups,   \* ghost: every host asked about, with the answer acted on
    conns,     \* ghost: every connection opened
    late       \* ghost: how many of them after ctx was done

vars == <<phase, ctx, input, target, ip, chain, result, lookups, conns, late>>

-----------------------------------------------------------------------------
Codes == {"none", "ok", "invalid_url", "blocked_target", "dns_failure", "unreachable",
          "timeout", "too_many_redirects"}

Result == [code : Codes, final : Text \cup {Nothing}, redirects : Seq(Text), ip : Addrs \cup {Nothing}]

Phases == {"start", "resolving", "requesting", "dialling", "waiting", "done"}

(* An error carries a code and nothing else; "none" is no result yet.      *)
Failure(code) == [code |-> code, final |-> Nothing, redirects |-> <<>>, ip |-> Nothing]

FirstPublic(answers) == answers[1] \in PublicAddrs

(* ResolveAndPin: one internal answer refuses the whole host.              *)
AllPublic(answers) == \A i \in 1..Len(answers) : answers[i] \in PublicAddrs

LastAnswer(answers) == answers[Len(answers)]

(* addresses[0].Unmap()                                                    *)
Pin(answers) == Unmapped[answers[1]]

(* LookupNetIP returns a literal as it is, without asking anybody.         *)
AnswersFor(host) == IF host \in Literals6 THEN {<<LiteralAddr[host]>>} ELSE Answers

(* net.Dialer.Control, on the address the kernel is about to connect to.   *)
Control(address) == Unmapped[address] = ip /\ address \in PublicAddrs

PastTheEnd(redirects) == redirects <= MaxRedirects + 1

(* The loop condition, with as many hops behind us as redirects followed.  *)
HopsLeft(redirects) == redirects <= MaxRedirects

UrlsWithNext(urls) == Append(urls, UrlOf(target'))

(* redirectChain = append(redirectChain, pinned.Target.URL())              *)
UrlsSoFar(urls) == Append(urls, UrlOf(target))

Return(code) ==
    /\ phase' = "done"
    /\ result' = Failure(code)

ReturnSuccess ==
    /\ phase' = "done"
    /\ result' = [code |-> "ok", final |-> UrlOf(target), redirects |-> chain, ip |-> ip]

(* Validate up to its LookupNetIP: NormalizeInput, then ParseTarget.       *)
Validate(text) ==
    LET candidate == Prefix(text)
    IN  \/ /\ ~WellShaped(candidate)
           /\ Return("invalid_url")
           /\ UNCHANGED target
        \/ /\ WellShaped(candidate)
           /\ ~Allowed(candidate)
           /\ Return("blocked_target")
           /\ UNCHANGED target
        \/ /\ WellShaped(candidate)
           /\ Allowed(candidate)
           /\ phase' = "resolving"
           /\ target' = TargetOf(candidate)
           /\ UNCHANGED result

-----------------------------------------------------------------------------
Init ==
    /\ phase = "start"
    /\ ctx = "live"
    /\ input \in Inputs
    /\ target = Nothing
    /\ ip = Nothing
    /\ chain = <<>>
    /\ result = Failure("none")
    /\ lookups = <<>>
    /\ conns = <<>>
    /\ late = 0

(* FetchHeaders normalises what was typed, and Validate normalises it again. *)
Start ==
    /\ phase = "start"
    /\ Validate(Prefix(input))
    /\ UNCHANGED <<ctx, input, ip, chain, lookups, conns, late>>

LookupFailsWhileLive ==
    /\ phase = "resolving"
    /\ target.host \notin Literals6
    /\ ctx = "live"
    /\ Return("dns_failure")
    /\ UNCHANGED <<ctx, input, target, ip, chain, lookups, conns, late>>

(* LookupNetIP fails, because of DNS or because of ctx.  A literal cannot. *)
LookupFails ==
    /\ phase = "resolving"
    /\ target.host \notin Literals6
    /\ Return("dns_failure")
    /\ UNCHANGED <<ctx, input, target, ip, chain, lookups, conns, late>>

(* LookupNetIP answers; ResolveAndPin judges; the loop condition is tested. *)
LookupAnswers ==
    /\ phase = "resolving"
    /\ \E answers \in AnswersFor(target.host) :
          /\ lookups' = Append(lookups, [host |-> target.host, answers |-> answers])
          /\ \/ /\ answers = <<>>
                /\ Return("dns_failure")
                /\ UNCHANGED ip
             \/ /\ answers # <<>>
                /\ ~AllPublic(answers)
                /\ Return("blocked_target")
                /\ UNCHANGED ip
             \/ /\ answers # <<>>
                /\ AllPublic(answers)
                /\ ip' = Pin(answers)
                /\ \/ /\ HopsLeft(Len(chain))
                      /\ phase' = "requesting"
                      /\ UNCHANGED result
                   \/ /\ ~HopsLeft(Len(chain))
                      /\ Return("too_many_redirects")
    /\ UNCHANGED <<ctx, input, target, chain, conns, late>>

RequestBlindly ==
    /\ phase = "requesting"
    /\ phase' = "dialling"
    /\ UNCHANGED <<ctx, input, target, ip, chain, result, lookups, conns, late>>

(* requestOnce up to the dial: http.NewRequest parses Target.URL(), and    *)
(* RoundTrip asks ctx before it does anything else.                        *)
Request ==
    /\ phase = "requesting"
    /\ \/ /\ UrlOf(target).form # "absolute"
          /\ Return("invalid_url")
       \/ /\ UrlOf(target).form = "absolute"
          /\ ctx = "deadline"
          /\ Return("timeout")
       \/ /\ UrlOf(target).form = "absolute"
          /\ ctx = "canceled"
          /\ Return("unreachable")
       \/ /\ UrlOf(target).form = "absolute"
          /\ ctx = "live"
          /\ phase' = "dialling"
          /\ UNCHANGED result
    /\ UNCHANGED <<ctx, input, target, ip, chain, lookups, conns, late>>

(* The socket opens, whether or not ctx was done meanwhile.                *)
Connect ==
    /\ phase = "dialling"
    /\ Control(ip)
    /\ phase' = "waiting"
    /\ conns' = Append(conns, [host |-> target.host, port |-> target.port, ip |-> ip,
                               given |-> target.path, asked |-> UrlOf(target)])
    /\ late' = IF ctx = "live" THEN late ELSE late + 1
    /\ UNCHANGED <<ctx, input, target, ip, chain, result, lookups>>

(* describeDialFailure: refused, unreachable, a TLS failure, or a timeout  *)
(* of the dial, of the handshake, of the headers or of the whole scan.     *)
RoundTripFails ==
    /\ phase \in {"dialling", "waiting"}
    /\ \E code \in {"unreachable", "timeout"} : Return(code)
    /\ UNCHANGED <<ctx, input, target, ip, chain, lookups, conns, late>>

(* Response headers that end the scan: not a 3xx, or one with no Location. *)
FinalResponse ==
    /\ phase = "waiting"
    /\ ReturnSuccess
    /\ UNCHANGED <<ctx, input, target, ip, chain, lookups, conns, late>>

(* A 3xx with a Location: the hop is recorded, and the next is validated   *)
(* from scratch.  A Location that does not parse ends the scan unrecorded. *)
Redirect ==
    /\ phase = "waiting"
    /\ \E location \in Locations :
          \/ /\ location.form = "malformed"
             /\ Return("invalid_url")
             /\ UNCHANGED <<target, chain>>
          \/ /\ location.form # "malformed"
             /\ Validate(NextHopUrl(target, location))
             /\ chain' = UrlsSoFar(chain)
    /\ UNCHANGED <<ctx, input, ip, lookups, conns, late>>

(* SCAN_TOTAL_TIMEOUT runs out, or the client goes away.                   *)
CtxDone ==
    /\ phase # "done"
    /\ ctx = "live"
    /\ ctx' \in {"deadline", "canceled"}
    /\ UNCHANGED <<phase, input, target, ip, chain, result, lookups, conns, late>>

Step == Start \/ LookupFails \/ LookupAnswers \/ Request \/ Connect \/ RoundTripFails
        \/ FinalResponse \/ Redirect

Next == Step \/ CtxDone

Spec == Init /\ [][Next]_vars

(* What the code does by itself is done promptly.  Nothing is asked of DNS *)
(* or of the targets: once ctx is done, and the deadline sees to that, the *)
(* blocking calls return.                                                  *)
GiveUp == ctx # "live" /\ (LookupFails \/ RoundTripFails)
LookupLiteral == phase = "resolving" /\ target.host \in Literals6 /\ LookupAnswers

Fairness ==
    /\ WF_vars(Start)
    /\ WF_vars(Request)
    /\ WF_vars(LookupLiteral)
    /\ WF_vars(CtxDone)
    /\ WF_vars(GiveUp)

FairSpec == Spec /\ Fairness

-----------------------------------------------------------------------------
Lookup     == [host : Hosts, answers : Seq(Addrs)]
Connection == [host : Hosts, port : Nat, ip : Addrs, given : Path, asked : Text]

(* The state is well formed; a pinned address and a target exist from the  *)
(* moment the code has them.                                               *)
TypeOK ==
    /\ phase \in Phases
    /\ ctx \in {"live", "deadline", "canceled"}
    /\ input \in Inputs
    /\ target \in Target \cup {Nothing}
    /\ ip \in Addrs \cup {Nothing}
    /\ chain \in Seq(Text)
    /\ result \in Result
    /\ lookups \in Seq(Lookup)
    /\ conns \in Seq(Connection)
    /\ late \in Nat
    /\ phase \in {"resolving", "requesting", "dialling", "waiting"} => target \in Target
    /\ phase \in {"requesting", "dialling", "waiting"} => ip \in Addrs

(* Layers 2 to 4 of guard.go: the i-th connection goes to the address the  *)
(* i-th lookup pinned, for that lookup's host, on an allowed port, and no  *)
(* address of that lookup was internal -- whatever DNS says next time and  *)
(* however many hops came before.                                          *)
PinnedToOwnLookup ==
    /\ Len(conns) <= Len(lookups)
    /\ \A i \in 1..Len(conns) :
          /\ conns[i].host = lookups[i].host
          /\ lookups[i].answers # <<>>
          /\ \A j \in 1..Len(lookups[i].answers) : lookups[i].answers[j] \in PublicAddrs
          /\ conns[i].ip = Unmapped[lookups[i].answers[1]]
          /\ conns[i].port \in AllowedPorts

(* SCAN_MAX_REDIRECTS: at most one request more than that, at most one     *)
(* lookup more than requests, and too_many_redirects only when the budget  *)
(* is spent to the last request (fetch.go:226, 265).                       *)
RedirectBudget ==
    /\ Len(conns) <= MaxRedirects + 1 \/ conns = <<>>
    /\ Len(lookups) <= Len(conns) + 1
    /\ result.code = "too_many_redirects" => Len(conns) = MaxRedirects + 1 \/ conns = <<>>

(* What a scan reports is what it did: a URL of the chain for every        *)
(* connection but the last, and the last one's URL and address as final    *)
(* and resolvedIp (fetch.go:235-248).                                      *)
ReportMatchesConnections ==
    result.code = "ok" =>
        /\ Len(conns) = Len(result.redirects) + 1
        /\ \A i \in 1..Len(result.redirects) : result.redirects[i] = conns[i].asked
        /\ result.final = conns[Len(conns)].asked
        /\ result.ip = conns[Len(conns)].ip

(* "this is the hard ceiling for the whole scan" (api.go:161): once ctx is *)
(* done no request starts, so at most the one already being dialled opens. *)
CeilingHolds == late <= 1

(* A scan is a run of FetchPromise.                                        *)
StatusOf ==
    IF phase # "done" THEN "running" ELSE IF result.code = "ok" THEN "ok" ELSE "failed"

Promise == INSTANCE FetchPromise
           WITH Acceptable <- PublicAddrs \X AllowedPorts,
                MaxVisits  <- MaxRedirects + 1,
                status     <- StatusOf,
                visits     <- [i \in 1..Len(conns) |-> <<conns[i].ip, conns[i].port>>]
KeepsPromise     == Promise!PromiseSpec
KeepsFairPromise == Promise!PromiseFairSpec

(* "path and query survive" (guard_test.go:129): the path asked for on the *)
(* wire is the one that was given.                                         *)
PathSurvives == \A i \in 1..Len(conns) : conns[i].asked.path = conns[i].given

(* "Target is a URL that passed structural validation" (guard.go:78): the  *)
(* URL it prints is a URL.                                                 *)
ValidatedTargetHasUrl == phase = "requesting" => UrlOf(target).form = "absolute"
=============================================================================
