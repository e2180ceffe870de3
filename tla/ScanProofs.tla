----------------------------- MODULE ScanProofs -----------------------------
(***************************************************************************)
(* For every set of inputs, redirects, addresses and DNS answers, and for  *)
(* every redirect limit: the safety properties of Scan, and that Scan      *)
(* implements FetchPromise.                                                *)
(*                                                                         *)
(* The properties speak of the whole history (every lookup, every          *)
(* connection); what makes them inductive is Progress, which says how long *)
(* each history is at each phase, and Pinned, which says that the target   *)
(* and address about to be dialled are those of the last lookup.           *)
(***************************************************************************)
EXTENDS GuardedScan, TLAPS

(* How many lookups, connections and recorded redirects lie behind us.     *)
Progress ==
    /\ Len(chain) = 0 \/ Len(chain) <= MaxRedirects + 1
    /\ Len(chain) <= Len(conns)
    /\ Len(conns) <= Len(chain) + 1
    /\ Len(conns) <= Len(lookups)
    /\ Len(lookups) <= Len(conns) + 1
    /\ Len(conns) = 0 \/ Len(conns) <= MaxRedirects + 1
    /\ phase = "start" => Len(lookups) = 0 /\ Len(conns) = 0 /\ Len(chain) = 0
    /\ phase = "resolving" => Len(lookups) = Len(chain) /\ Len(conns) = Len(chain)
    /\ phase \in {"requesting", "dialling"} =>
          Len(lookups) = Len(chain) + 1 /\ Len(conns) = Len(chain) /\ Len(chain) <= MaxRedirects
    /\ phase = "waiting" =>
          Len(lookups) = Len(chain) + 1 /\ Len(conns) = Len(chain) + 1 /\ Len(chain) <= MaxRedirects

(* The address about to be dialled is the one the last lookup pinned.      *)
Pinned ==
    phase \in {"requesting", "dialling"} =>
        /\ lookups[Len(lookups)].host = target.host
        /\ lookups[Len(lookups)].answers # <<>>
        /\ \A j \in 1..Len(lookups[Len(lookups)].answers) :
              lookups[Len(lookups)].answers[j] \in PublicAddrs
        /\ ip = Unmapped[lookups[Len(lookups)].answers[1]]

(* The recorded redirects are the connections made so far, and the         *)
(* connection being read is the current target's.                          *)
Recorded ==
    /\ \A i \in 1..Len(chain) : chain[i] = conns[i].asked
    /\ phase = "waiting" =>
          conns[Len(conns)].asked = UrlOf(target) /\ conns[Len(conns)].ip = ip

(* A request is dialled only under a live context.                         *)
Ceiling ==
    /\ CeilingHolds
    /\ ctx = "live" => late = 0
    /\ phase = "dialling" => late = 0

(* There is a result exactly when the scan is over.                        *)
ResultInv == (phase = "done") <=> (result.code # "none")

IInv ==
    /\ TypeOK
    /\ Progress
    /\ Pinned
    /\ Recorded
    /\ Ceiling
    /\ ResultInv
    /\ PinnedToOwnLookup
    /\ RedirectBudget
    /\ ReportMatchesConnections

-----------------------------------------------------------------------------
(* What the text functions return has the shape it should.                 *)
LEMMA EscapedPathType == ASSUME NEW p \in Path PROVE EscapedPath(p) \in Path
  BY DEF EscapedPath, Path

LEMMA EscapeType == ASSUME NEW p \in Path PROVE Escape(p) \in Path
  BY DEF Escape, Path

LEMMA PrefixType == ASSUME NEW text \in Text PROVE Prefix(text) \in Text
  BY DEF Prefix, Text, Forms, Schemes

LEMMA TargetOfType ==
    ASSUME NEW text \in Text, WellShaped(text), Allowed(text)
    PROVE  TargetOf(text) \in Target
<1>1. EscapedPath(text.path) \in Path
  BY EscapedPathType DEF Text
<1>2. text.host \in Hosts /\ text.scheme \in {"http", "https"} /\ Port(text) \in AllowedPorts
  BY DEF WellShaped, Allowed, Text
<1> QED
  BY <1>1, <1>2 DEF TargetOf, Target

LEMMA AllowedPortType == ASSUME NEW port \in AllowedPorts PROVE port \in Nat
  BY UrlAssumption DEF UrlAssumption

LEMMA UrlOfType == ASSUME NEW t \in Target PROVE UrlOf(t) \in Text
<1>1. Escape(t.path) \in Path
  BY EscapeType DEF Target
<1>2. t.port \in Int
  BY AllowedPortType DEF Target
<1> QED
  BY <1>1, <1>2 DEF UrlOf, Target, Text, Forms, Schemes, NoPort

LEMMA NextHopUrlType ==
    ASSUME NEW t \in Target, NEW location \in Text
    PROVE  NextHopUrl(t, location) \in Text
<1>1. UrlOf(t) \in Text
  BY UrlOfType
<1>2. EscapedPath(location.path) \in Path
  BY EscapedPathType DEF Text
<1> QED
  BY <1>1, <1>2 DEF NextHopUrl, ResolveReference, Text, Forms, Schemes

(* Validate either returns an error or leaves a target to look up.         *)
LEMMA ValidateFacts ==
    ASSUME NEW text \in Text, Validate(text)
    PROVE  \/ /\ phase' = "done"
              /\ \E code \in {"invalid_url", "blocked_target"} : result' = Failure(code)
              /\ target' = target
           \/ /\ phase' = "resolving"
              /\ target' \in Target
              /\ result' = result
<1>1. Prefix(text) \in Text
  BY PrefixType
<1> QED
  BY <1>1, TargetOfType DEF Validate, Return

(* A returned error is a well-formed result that reports nothing.          *)
LEMMA FailureResult == ASSUME NEW code \in Codes PROVE Failure(code) \in Result /\ Failure(code).code = code
<1>1. <<>> \in Seq(Text)
  OBVIOUS
<1> QED
  BY <1>1 DEF Failure, Result

-----------------------------------------------------------------------------
LEMMA InitIInv == Init => IInv
<1> SUFFICES ASSUME Init PROVE IInv
  OBVIOUS
<1>1. TypeOK
  BY DEF Init, TypeOK, Failure, Result, Codes, Phases
<1>2. Progress /\ Pinned /\ Recorded /\ Ceiling /\ ResultInv
  BY ScanAssumption DEF Init, Progress, Pinned, Recorded, Ceiling, CeilingHolds, ResultInv, Failure, ScanAssumption
<1>3. PinnedToOwnLookup /\ RedirectBudget /\ ReportMatchesConnections
  BY DEF Init, PinnedToOwnLookup, RedirectBudget, ReportMatchesConnections, Failure
<1> QED
  BY <1>1, <1>2, <1>3 DEF IInv
----------------------------------------------------------------
(* A blocking call failed: the scan ends where it was.                     *)
LEMMA EndsInFailure ==
    ASSUME IInv, phase # "done",
           NEW code \in Codes \ {"none", "ok", "too_many_redirects"},
           phase' = "done", result' = Failure(code),
           UNCHANGED <<ctx, input, target, ip, chain, lookups, conns, late>>
    PROVE  IInv'
<1>1. Failure(code) \in Result /\ Failure(code).code = code
  BY FailureResult
<1>2. TypeOK'
  BY <1>1 DEF IInv, TypeOK, Phases
<1>3. Progress'
  BY DEF IInv, Progress
<1>4. Pinned' /\ Recorded' /\ Ceiling' /\ ResultInv'
  BY <1>1 DEF IInv, Pinned, Recorded, Ceiling, CeilingHolds, ResultInv
<1>5. PinnedToOwnLookup' /\ RedirectBudget' /\ ReportMatchesConnections'
  BY <1>1 DEF IInv, PinnedToOwnLookup, RedirectBudget, ReportMatchesConnections
<1> QED
  BY <1>2, <1>3, <1>4, <1>5 DEF IInv

LEMMA LookupFailsIInv == IInv /\ LookupFails => IInv'
  BY EndsInFailure DEF LookupFails, Return, Codes

LEMMA RoundTripFailsIInv == IInv /\ RoundTripFails => IInv'
  BY EndsInFailure DEF RoundTripFails, Return, Codes

LEMMA CtxDoneIInv == IInv /\ CtxDone => IInv'
<1> SUFFICES ASSUME IInv, CtxDone PROVE IInv'
  OBVIOUS
<1> USE DEF CtxDone
<1>1. TypeOK' /\ Progress'
  BY DEF IInv, TypeOK, Progress
<1>2. Pinned' /\ Recorded' /\ Ceiling' /\ ResultInv'
  BY DEF IInv, Pinned, Recorded, Ceiling, CeilingHolds, ResultInv
<1>3. PinnedToOwnLookup' /\ RedirectBudget' /\ ReportMatchesConnections'
  BY DEF IInv, PinnedToOwnLookup, RedirectBudget, ReportMatchesConnections
<1> QED
  BY <1>1, <1>2, <1>3 DEF IInv

(* The first validation.                                                   *)
LEMMA StartIInv == IInv /\ Start => IInv'
<1> SUFFICES ASSUME IInv, Start PROVE IInv'
  OBVIOUS
<1>0. /\ phase = "start"
      /\ Validate(Prefix(input))
      /\ UNCHANGED <<ctx, input, ip, chain, lookups, conns, late>>
  BY DEF Start
<1>1. Prefix(input) \in Text
  BY PrefixType, ScanAssumption DEF IInv, TypeOK, ScanAssumption
<1>2. CASE \E code \in {"invalid_url", "blocked_target"} :
              phase' = "done" /\ result' = Failure(code) /\ target' = target
  BY <1>0, <1>2, EndsInFailure DEF Codes
<1>3. CASE phase' = "resolving" /\ target' \in Target /\ result' = result
  <2>1. TypeOK' /\ Progress'
    BY <1>0, <1>3 DEF IInv, TypeOK, Progress, Phases
  <2>2. Pinned' /\ Recorded' /\ Ceiling' /\ ResultInv'
    BY <1>0, <1>3 DEF IInv, Pinned, Recorded, Ceiling, CeilingHolds, ResultInv
  <2>3. PinnedToOwnLookup' /\ RedirectBudget' /\ ReportMatchesConnections'
    BY <1>0, <1>3 DEF IInv, PinnedToOwnLookup, RedirectBudget, ReportMatchesConnections
  <2> QED
    BY <2>1, <2>2, <2>3 DEF IInv
<1> QED
  BY <1>0, <1>1, <1>2, <1>3, ValidateFacts

LEMMA RequestIInv == IInv /\ Request => IInv'
<1> SUFFICES ASSUME IInv, Request PROVE IInv'
  OBVIOUS
<1>0. phase = "requesting" /\ UNCHANGED <<ctx, input, target, ip, chain, lookups, conns, late>>
  BY DEF Request
<1>1. CASE \E code \in {"invalid_url", "timeout", "unreachable"} : Return(code)
  BY <1>0, <1>1, EndsInFailure DEF Return, Codes
<1>2. CASE ctx = "live" /\ phase' = "dialling" /\ result' = result
  <2>1. TypeOK' /\ Progress'
    BY <1>0, <1>2 DEF IInv, TypeOK, Progress, Phases
  <2>2. Pinned' /\ Recorded' /\ Ceiling' /\ ResultInv'
    BY <1>0, <1>2 DEF IInv, Pinned, Recorded, Ceiling, CeilingHolds, ResultInv
  <2>3. PinnedToOwnLookup' /\ RedirectBudget' /\ ReportMatchesConnections'
    BY <1>0, <1>2 DEF IInv, PinnedToOwnLookup, RedirectBudget, ReportMatchesConnections
  <2> QED
    BY <2>1, <2>2, <2>3 DEF IInv
<1> QED
  BY <1>1, <1>2 DEF Request

LEMMA FinalResponseIInv == IInv /\ FinalResponse => IInv'
<1> SUFFICES ASSUME IInv, FinalResponse PROVE IInv'
  OBVIOUS
<1>0. /\ phase = "waiting"
      /\ phase' = "done"
      /\ result' = [code |-> "ok", final |-> UrlOf(target), redirects |-> chain, ip |-> ip]
      /\ UNCHANGED <<ctx, input, target, ip, chain, lookups, conns, late>>
  BY DEF FinalResponse, ReturnSuccess
<1>1. UrlOf(target) \in Text
  BY <1>0, UrlOfType DEF IInv, TypeOK
<1>2. TypeOK'
  BY <1>0, <1>1 DEF IInv, TypeOK, Phases, Result, Codes
<1>3. Progress'
  BY <1>0 DEF IInv, Progress
<1>4. Pinned' /\ Recorded' /\ Ceiling' /\ ResultInv'
  BY <1>0 DEF IInv, Pinned, Recorded, Ceiling, CeilingHolds, ResultInv
<1>5. PinnedToOwnLookup' /\ RedirectBudget'
  BY <1>0 DEF IInv, PinnedToOwnLookup, RedirectBudget
<1>6. ReportMatchesConnections'
  BY <1>0 DEF IInv, Progress, Recorded, ReportMatchesConnections
<1> QED
  BY <1>2, <1>3, <1>4, <1>5, <1>6 DEF IInv

(* A redirect is recorded; the connection it came over was the last.       *)
LEMMA RedirectIInv == IInv /\ Redirect => IInv'
<1> SUFFICES ASSUME IInv, Redirect PROVE IInv'
  OBVIOUS
<1>0. phase = "waiting" /\ UNCHANGED <<ctx, input, ip, lookups, conns, late>>
  BY DEF Redirect
<1>1. PICK location \in Locations :
        \/ /\ location.form = "malformed"
           /\ Return("invalid_url")
           /\ UNCHANGED <<target, chain>>
        \/ /\ location.form # "malformed"
           /\ Validate(NextHopUrl(target, location))
           /\ chain' = UrlsSoFar(chain)
  BY DEF Redirect
<1>2. CASE Return("invalid_url") /\ UNCHANGED <<target, chain>>
  BY <1>0, <1>2, EndsInFailure DEF Return, Codes
<1>3. CASE Validate(NextHopUrl(target, location)) /\ chain' = UrlsSoFar(chain)
  <2>1. /\ target \in Target
        /\ NextHopUrl(target, location) \in Text
        /\ UrlOf(target) \in Text
    BY <1>0, UrlOfType, NextHopUrlType, ScanAssumption DEF IInv, TypeOK, ScanAssumption
  <2>2. /\ chain \in Seq(Text)
        /\ chain' = Append(chain, UrlOf(target))
        /\ chain' \in Seq(Text)
        /\ Len(chain) \in Nat
        /\ Len(chain') = Len(chain) + 1
        /\ \A i \in 1..Len(chain) : chain'[i] = chain[i]
        /\ chain'[Len(chain) + 1] = UrlOf(target)
    BY <1>3, <2>1 DEF IInv, TypeOK, UrlsSoFar
  <2>3. Len(conns) = Len(chain) + 1 /\ Len(lookups) = Len(chain) + 1 /\ Len(chain) <= MaxRedirects
    BY <1>0 DEF IInv, Progress
  <2>4. \/ /\ phase' = "done"
           /\ \E code \in {"invalid_url", "blocked_target"} : result' = Failure(code)
           /\ target' = target
        \/ /\ phase' = "resolving"
           /\ target' \in Target
           /\ result' = result
    BY <1>3, <2>1, ValidateFacts
  <2>5. /\ result' \in Result
        /\ result'.code \notin {"ok", "too_many_redirects"}
        /\ phase' = "done" <=> result'.code # "none"
    BY <1>0, <2>4, FailureResult DEF IInv, TypeOK, ResultInv, ReportMatchesConnections, Codes
  <2>6. TypeOK'
    BY <1>0, <2>1, <2>2, <2>4, <2>5 DEF IInv, TypeOK, Phases
  <2>7. Progress'
    BY <1>0, <2>2, <2>3, <2>4, ScanAssumption DEF IInv, Progress, ScanAssumption
  <2>8. Recorded'
    BY <1>0, <2>2, <2>3, <2>4 DEF IInv, Recorded
  <2>9. Pinned' /\ Ceiling' /\ ResultInv'
    BY <1>0, <2>4, <2>5 DEF IInv, Pinned, Ceiling, CeilingHolds, ResultInv
  <2>10. PinnedToOwnLookup' /\ RedirectBudget' /\ ReportMatchesConnections'
    BY <1>0, <2>5 DEF IInv, PinnedToOwnLookup, RedirectBudget, ReportMatchesConnections
  <2> QED
    BY <2>6, <2>7, <2>8, <2>9, <2>10 DEF IInv
<1> QED
  BY <1>1, <1>2, <1>3
----------------------------------------------------------------
(* A connection is the pinned one, and the last lookup is its own.         *)
LEMMA ConnectIInv == IInv /\ Connect => IInv'
<1> SUFFICES ASSUME IInv, Connect PROVE IInv'
  OBVIOUS
<1> DEFINE conn == [host |-> target.host, port |-> target.port, ip |-> ip,
                    given |-> target.path, asked |-> UrlOf(target)]
<1>0. /\ phase = "dialling"
      /\ phase' = "waiting"
      /\ conns' = Append(conns, conn)
      /\ late' = IF ctx = "live" THEN late ELSE late + 1
      /\ UNCHANGED <<ctx, input, target, ip, chain, result, lookups>>
  BY DEF Connect
<1>1. target \in Target /\ ip \in Addrs /\ UrlOf(target) \in Text
  BY <1>0, UrlOfType DEF IInv, TypeOK
<1>2. /\ conn \in Connection
      /\ conn.host = target.host
      /\ conn.port \in AllowedPorts
      /\ conn.ip = ip
      /\ conn.asked = UrlOf(target)
  BY <1>1, AllowedPortType DEF Connection, Target
<1> HIDE DEF conn
<1>3. /\ conns \in Seq(Connection)
      /\ conns' \in Seq(Connection)
      /\ Len(conns) \in Nat
      /\ Len(conns') = Len(conns) + 1
      /\ \A i \in 1..Len(conns) : conns'[i] = conns[i]
      /\ conns'[Len(conns) + 1] = conn
  BY <1>0, <1>2 DEF IInv, TypeOK
<1>4. /\ Len(conns) = Len(chain)
      /\ Len(lookups) = Len(chain) + 1
      /\ Len(chain) \in Nat
      /\ Len(chain) <= MaxRedirects
  BY <1>0 DEF IInv, Progress, TypeOK
<1>5. TypeOK'
  BY <1>0, <1>1, <1>3 DEF IInv, TypeOK, Phases
<1>6. Progress'
  BY <1>0, <1>3, <1>4, ScanAssumption DEF IInv, Progress, ScanAssumption
<1>7. Recorded'
  BY <1>0, <1>2, <1>3, <1>4 DEF IInv, Recorded
<1>8. Pinned' /\ Ceiling' /\ ResultInv'
  BY <1>0 DEF IInv, Pinned, Ceiling, CeilingHolds, ResultInv, TypeOK
<1>9. PinnedToOwnLookup'
  <2> SUFFICES ASSUME NEW i \in 1..Len(conns')
               PROVE  /\ conns'[i].host = lookups[i].host
                      /\ lookups[i].answers # <<>>
                      /\ \A j \in 1..Len(lookups[i].answers) : lookups[i].answers[j] \in PublicAddrs
                      /\ conns'[i].ip = Unmapped[lookups[i].answers[1]]
                      /\ conns'[i].port \in AllowedPorts
    BY <1>0, <1>3, <1>4 DEF PinnedToOwnLookup
  <2>1. CASE i \in 1..Len(conns)
    BY <1>3, <2>1 DEF IInv, PinnedToOwnLookup
  <2>2. CASE i = Len(conns) + 1
    BY <1>0, <1>2, <1>3, <1>4, <2>2 DEF IInv, Pinned
  <2> QED
    BY <1>3, <2>1, <2>2
<1>10. RedirectBudget' /\ ReportMatchesConnections'
  <2>1. result'.code = "none"
    BY <1>0 DEF IInv, ResultInv
  <2> QED
    BY <1>0, <1>3, <1>4, <2>1, ScanAssumption DEF RedirectBudget, ReportMatchesConnections, ScanAssumption
<1> QED
  BY <1>5, <1>6, <1>7, <1>8, <1>9, <1>10 DEF IInv

(* A lookup answers, and is either refused or pinned.                      *)
LEMMA LookupAnswersIInv == IInv /\ LookupAnswers => IInv'
<1> SUFFICES ASSUME IInv, LookupAnswers PROVE IInv'
  OBVIOUS
<1>0. phase = "resolving" /\ UNCHANGED <<ctx, input, target, chain, conns, late>>
  BY DEF LookupAnswers
<1>1. PICK answers \in AnswersFor(target.host) :
        /\ lookups' = Append(lookups, [host |-> target.host, answers |-> answers])
        /\ \/ /\ answers = <<>>
              /\ Return("dns_failure")
              /\ UNCHANGED ip
           \/ /\ answers # <<>>
              /\ ~AllPublic(answers)
              /\ Return("blocked_target")
              /\ UNCHANGED ip
           \/ /\ answers # <<>>
              /\ AllPublic(answers)
              /\ ip' = Pin(answers)
              /\ \/ /\ HopsLeft(Len(chain))
                    /\ phase' = "requesting"
                    /\ UNCHANGED result
                 \/ /\ ~HopsLeft(Len(chain))
                    /\ Return("too_many_redirects")
  BY DEF LookupAnswers
<1> DEFINE lookup == [host |-> target.host, answers |-> answers]
<1>2. target \in Target /\ target.host \in Hosts
  BY <1>0 DEF IInv, TypeOK, Target
<1>3. answers \in Seq(Addrs)
  <2>1. CASE target.host \in Literals6
    <3>1. LiteralAddr[target.host] \in Addrs
      BY <2>1, ScanAssumption DEF ScanAssumption
    <3>2. answers = <<LiteralAddr[target.host]>>
      BY <2>1 DEF AnswersFor
    <3> QED
      BY <3>1, <3>2
  <2>2. CASE target.host \notin Literals6
    BY <2>2, ScanAssumption DEF AnswersFor, ScanAssumption
  <2> QED
    BY <2>1, <2>2
<1>4. lookup \in Lookup /\ lookup.host = target.host /\ lookup.answers = answers
  BY <1>2, <1>3 DEF Lookup
<1> HIDE DEF lookup
<1>5. /\ lookups \in Seq(Lookup)
      /\ lookups' \in Seq(Lookup)
      /\ Len(lookups) \in Nat
      /\ Len(lookups') = Len(lookups) + 1
      /\ \A i \in 1..Len(lookups) : lookups'[i] = lookups[i]
      /\ lookups'[Len(lookups) + 1] = lookup
  BY <1>1, <1>4 DEF IInv, TypeOK, lookup
<1>6. /\ Len(lookups) = Len(chain)
      /\ Len(conns) = Len(chain)
      /\ Len(chain) \in Nat
      /\ Len(chain) = 0 \/ Len(chain) <= MaxRedirects + 1
      /\ MaxRedirects \in Int
  BY <1>0, ScanAssumption DEF IInv, Progress, TypeOK, ScanAssumption
<1>7. PinnedToOwnLookup'
  <2> SUFFICES ASSUME NEW i \in 1..Len(conns) PROVE lookups'[i] = lookups[i]
    BY <1>0, <1>5, <1>6 DEF IInv, PinnedToOwnLookup
  <2> QED
    BY <1>5, <1>6
<1>8. CASE /\ phase' = "done"
           /\ \E code \in {"dns_failure", "blocked_target"} : result' = Failure(code)
           /\ UNCHANGED ip
  <2>1. /\ result' \in Result
        /\ result'.code \notin {"none", "ok", "too_many_redirects"}
    BY <1>8, FailureResult DEF Codes
  <2>2. TypeOK'
    BY <1>0, <1>2, <1>5, <1>8, <2>1 DEF IInv, TypeOK, Phases
  <2>3. Progress'
    BY <1>0, <1>5, <1>6, <1>8 DEF IInv, Progress
  <2>4. Pinned' /\ Recorded' /\ Ceiling' /\ ResultInv'
    BY <1>0, <1>8, <2>1 DEF IInv, Pinned, Recorded, Ceiling, CeilingHolds, ResultInv
  <2>5. RedirectBudget' /\ ReportMatchesConnections'
    BY <1>0, <1>5, <1>6, <2>1 DEF IInv, RedirectBudget, ReportMatchesConnections
  <2> QED
    BY <1>7, <2>2, <2>3, <2>4, <2>5 DEF IInv
<1>9. CASE answers # <<>> /\ AllPublic(answers) /\ ip' = Pin(answers)
  <2>1. /\ answers[1] \in Addrs
        /\ ip' = Unmapped[answers[1]] /\ ip' \in Addrs
        /\ \A j \in 1..Len(answers) : answers[j] \in PublicAddrs
    BY <1>3, <1>9, ScanAssumption DEF Pin, AllPublic
  <2>2. CASE HopsLeft(Len(chain)) /\ phase' = "requesting" /\ UNCHANGED result
    <3>1. TypeOK'
      BY <1>0, <1>2, <1>5, <2>1, <2>2 DEF IInv, TypeOK, Phases
    <3>2. Progress'
      BY <1>0, <1>5, <1>6, <2>2 DEF IInv, Progress, HopsLeft
    <3>3. Pinned'
      BY <1>0, <1>4, <1>5, <1>9, <2>1 DEF Pinned
    <3>4. Recorded' /\ Ceiling' /\ ResultInv'
      BY <1>0, <2>2 DEF IInv, Recorded, Ceiling, CeilingHolds, ResultInv
    <3>5. RedirectBudget' /\ ReportMatchesConnections'
      <4>1. result'.code = "none"
        BY <1>0, <2>2 DEF IInv, ResultInv
      <4> QED
        BY <1>0, <1>5, <1>6, <4>1 DEF IInv, RedirectBudget, ReportMatchesConnections
    <3> QED
      BY <1>7, <3>1, <3>2, <3>3, <3>4, <3>5 DEF IInv
  <2>3. CASE ~HopsLeft(Len(chain)) /\ phase' = "done" /\ result' = Failure("too_many_redirects")
    <3>1. result' \in Result /\ result'.code = "too_many_redirects"
      BY <2>3, FailureResult DEF Codes
    <3>2. TypeOK'
      BY <1>0, <1>2, <1>5, <2>1, <2>3, <3>1 DEF IInv, TypeOK, Phases
    <3>3. Progress'
      BY <1>0, <1>5, <1>6, <2>3 DEF IInv, Progress
    <3>4. Pinned' /\ Recorded' /\ Ceiling' /\ ResultInv'
      BY <1>0, <2>3, <3>1 DEF IInv, Pinned, Recorded, Ceiling, CeilingHolds, ResultInv
    <3>5. Len(conns) = MaxRedirects + 1 \/ conns = <<>>
      BY <1>6, <2>3 DEF HopsLeft, IInv, TypeOK
    <3>6. RedirectBudget' /\ ReportMatchesConnections'
      BY <1>0, <1>5, <1>6, <3>1, <3>5 DEF IInv, RedirectBudget, ReportMatchesConnections
    <3> QED
      BY <1>7, <3>2, <3>3, <3>4, <3>6 DEF IInv
  <2> QED
    BY <1>1, <1>9, <2>2, <2>3 DEF Return
<1> QED
  BY <1>1, <1>8, <1>9 DEF Return

LEMMA NextIInv == IInv /\ [Next]_vars => IInv'
<1> SUFFICES ASSUME IInv, [Next]_vars PROVE IInv'
  OBVIOUS
<1>1. CASE UNCHANGED vars
  BY <1>1 DEF vars, IInv, TypeOK, Progress, Pinned, Recorded, Ceiling, CeilingHolds, ResultInv,
              PinnedToOwnLookup, RedirectBudget, ReportMatchesConnections
<1> QED
  BY <1>1, StartIInv, LookupFailsIInv, LookupAnswersIInv, RequestIInv, ConnectIInv,
     RoundTripFailsIInv, FinalResponseIInv, RedirectIInv, CtxDoneIInv
  DEF Next, Step

LEMMA SpecIInv == Spec => []IInv
  BY InitIInv, NextIInv, PTL DEF Spec

-----------------------------------------------------------------------------
(* The scan's state stays well formed (fetch.go:211-267).                  *)
THEOREM TypeCorrect == Spec => []TypeOK
<1>1. IInv => TypeOK
  BY DEF IInv
<1> QED
  BY <1>1, SpecIInv, PTL

(* Every connection goes where its own hop's lookup pinned it, to a host   *)
(* none of whose addresses was internal (guard.go:318-345, fetch.go:93).   *)
THEOREM PinningHolds == Spec => []PinnedToOwnLookup
<1>1. IInv => PinnedToOwnLookup
  BY DEF IInv
<1> QED
  BY <1>1, SpecIInv, PTL

(* Requests, lookups and too_many_redirects keep to the limit              *)
(* (fetch.go:226, 265).                                                    *)
THEOREM BudgetHolds == Spec => []RedirectBudget
<1>1. IInv => RedirectBudget
  BY DEF IInv
<1> QED
  BY <1>1, SpecIInv, PTL

(* What is reported is what was done (fetch.go:235-248).                   *)
THEOREM ReportIsTrue == Spec => []ReportMatchesConnections
<1>1. IInv => ReportMatchesConnections
  BY DEF IInv
<1> QED
  BY <1>1, SpecIInv, PTL

(* At most one connection opens once the context is done (fetch.go:132).   *)
THEOREM CeilingIsHard == Spec => []CeilingHolds
<1>1. IInv => CeilingHolds
  BY DEF IInv, Ceiling
<1> QED
  BY <1>1, SpecIInv, PTL
----------------------------------------------------------------
(* Scan implements FetchPromise: a connection is a Visit, the end of the   *)
(* scan is Succeed or Fail, and everything else stutters.                  *)
THEOREM ImplementsPromise == Spec => KeepsPromise
<1> DEFINE Place(conn) == <<conn.ip, conn.port>>
           Visits == [i \in 1..Len(conns) |-> <<conns[i].ip, conns[i].port>>]
<1>1. Init => Promise!PromiseInit
  <2> SUFFICES ASSUME Init PROVE Promise!PromiseInit
    OBVIOUS
  <2>1. Visits = <<>>
    BY DEF Init
  <2> QED
    BY <2>1 DEF Init, Promise!PromiseInit, StatusOf
<1>2. IInv /\ IInv' /\ [Next]_vars => [Promise!PromiseNext]_(Promise!promiseVars)
  <2> SUFFICES ASSUME IInv, IInv', [Next]_vars
               PROVE  [Promise!PromiseNext]_(Promise!promiseVars)
    OBVIOUS
  <2>1. CASE Connect
    <3>1. /\ phase = "dialling"
          /\ phase' = "waiting"
          /\ Len(conns') = Len(conns) + 1
          /\ Len(conns) \in Nat
          /\ \A i \in 1..Len(conns) : conns'[i] = conns[i]
          /\ conns'[Len(conns')] = conns'[Len(conns) + 1]
      <4>1. conns \in Seq(Connection) /\ conns' \in Seq(Connection)
        BY DEF IInv, TypeOK
      <4> QED
        BY <2>1, <4>1 DEF Connect
    <3> DEFINE newest == Place(conns'[Len(conns) + 1])
    <3>0. newest \in PublicAddrs \X AllowedPorts
      <4>1. PICK i \in Nat : i = Len(conns')
        BY <3>1
      <4>2. i \in 1..Len(conns') /\ i = Len(conns) + 1
        BY <3>1, <4>1
      <4>3. lookups' \in Seq(Lookup) /\ PinnedToOwnLookup'
        BY DEF IInv, TypeOK
      <4>4. i \in 1..Len(lookups')
        BY <4>2, <4>3 DEF PinnedToOwnLookup
      <4>5. lookups'[i].answers \in Seq(Addrs)
        <5>1. lookups'[i] \in Lookup
          BY <4>3, <4>4
        <5> QED
          BY <5>1 DEF Lookup
      <4>6. /\ lookups'[i].answers # <<>>
            /\ \A j \in 1..Len(lookups'[i].answers) : lookups'[i].answers[j] \in PublicAddrs
            /\ conns'[i].ip = Unmapped[lookups'[i].answers[1]]
            /\ conns'[i].port \in AllowedPorts
        BY <4>2, <4>3 DEF PinnedToOwnLookup
      <4>7. lookups'[i].answers[1] \in PublicAddrs
        BY <4>5, <4>6
      <4> QED
        BY <4>2, <4>6, <4>7, ScanAssumption
    <3> HIDE DEF newest
    <3>2. PICK place \in PublicAddrs \X AllowedPorts : place = newest
      BY <3>0
    <3> USE DEF newest
    <3>3. Len(conns) < MaxRedirects + 1
      BY <2>1, ScanAssumption DEF Connect, IInv, Progress, ScanAssumption
    <3>4. Visits \in Seq({Place(conns[i]) : i \in 1..Len(conns)}) /\ Len(Visits) = Len(conns)
      BY <3>1
    <3>5. Visits' = Append(Visits, place)
      BY <3>1, <3>2, <3>4
    <3>6. Promise!Visit(place)
      BY <3>1, <3>3, <3>4, <3>5 DEF Promise!Visit, StatusOf
    <3> QED
      BY <3>6 DEF Promise!PromiseNext
  <2>2. CASE FinalResponse
    <3>1. /\ phase = "waiting"
          /\ phase' = "done"
          /\ result'.code = "ok"
          /\ conns' = conns
      BY <2>2 DEF FinalResponse, ReturnSuccess
    <3>2. Visits # <<>>
      <4>1. Len(conns) \in Nat /\ Len(conns) >= 1
        BY <3>1 DEF IInv, Progress, TypeOK
      <4>2. 1 \in DOMAIN Visits
        BY <4>1
      <4> QED
        BY <4>2
    <3> QED
      BY <3>1, <3>2 DEF Promise!PromiseNext, Promise!Succeed, StatusOf
  <2>3. CASE conns' = conns /\ phase # "done" /\ phase' = "done" /\ result'.code # "ok"
    BY <2>3 DEF Promise!PromiseNext, Promise!Fail, StatusOf
  <2>4. CASE conns' = conns /\ phase # "done" /\ phase' # "done"
    BY <2>4 DEF Promise!promiseVars, StatusOf
  <2>5. CASE UNCHANGED vars
    BY <2>5 DEF vars, Promise!promiseVars, StatusOf
  <2>6. \A code \in Codes : Failure(code).code = code
    BY FailureResult
  <2>7. CASE Start \/ Redirect
    <3>1. conns' = conns /\ phase # "done"
      BY <2>7 DEF Start, Redirect
    <3>2. phase' = "done" => result'.code # "ok"
      BY <2>6, <2>7 DEF Start, Redirect, Validate, Return, Codes
    <3> QED
      BY <2>3, <2>4, <3>1, <3>2
  <2>8. CASE LookupFails \/ LookupAnswers \/ Request \/ RoundTripFails
    <3>1. conns' = conns /\ phase # "done"
      BY <2>8 DEF LookupFails, LookupAnswers, Request, RoundTripFails
    <3>2. phase' = "done" => result'.code # "ok"
      BY <2>6, <2>8 DEF LookupFails, LookupAnswers, Request, RoundTripFails, Return, Codes
    <3> QED
      BY <2>3, <2>4, <3>1, <3>2
  <2>9. CASE CtxDone
    BY <2>4, <2>9 DEF CtxDone
  <2> QED
    BY <2>1, <2>2, <2>5, <2>7, <2>8, <2>9 DEF Next, Step
<1> QED
  BY <1>1, <1>2, SpecIInv, PTL DEF Spec, KeepsPromise, Promise!PromiseSpec
-----------------------------------------------------------------------------
(* The rules and the list of internal addresses agree on every answer a    *)
(* lookup may give; whether they do is for TLC to say of each address.     *)
RulesKnowInternal ==
    \A host \in Hosts : \A answers \in AnswersFor(host) : \A i \in 1..Len(answers) :
        answers[i] \in InternalAddrs <=> answers[i] \notin PublicAddrs

(* A lookup that answers is judged in the same step, on all its addresses. *)
LEMMA LookupIsJudged ==
    ASSUME IInv, RulesKnowInternal, LookupAnswers
    PROVE  LET answers == lookups'[Len(lookups')].answers
           IN  result'.code = "blocked_target" <=> \E i \in DOMAIN answers : answers[i] \in InternalAddrs
<1>1. PICK answers \in AnswersFor(target.host) :
        /\ lookups' = Append(lookups, [host |-> target.host, answers |-> answers])
        /\ \/ answers = <<>> /\ Return("dns_failure")
           \/ answers # <<>> /\ ~AllPublic(answers) /\ Return("blocked_target")
           \/ /\ answers # <<>>
              /\ AllPublic(answers)
              /\ UNCHANGED result \/ Return("too_many_redirects")
  BY DEF LookupAnswers
<1>2. lookups'[Len(lookups')].answers = answers
  BY <1>1 DEF IInv, TypeOK
<1>3. DOMAIN answers = 1..Len(answers)
  <2>1. CASE target.host \in Literals6
    <3>1. PICK literal : literal = LiteralAddr[target.host]
      OBVIOUS
    <3>2. answers = <<literal>>
      BY <1>1, <2>1, <3>1 DEF AnswersFor
    <3> QED
      BY <3>2
  <2>2. CASE target.host \notin Literals6
    <3>1. answers \in Seq(Addrs)
      BY <1>1, <2>2, ScanAssumption DEF AnswersFor, ScanAssumption
    <3> QED
      BY <3>1
  <2> QED
    BY <2>1, <2>2
<1>4. (\E i \in DOMAIN answers : answers[i] \in InternalAddrs) <=> ~AllPublic(answers)
  <2>1. target.host \in Hosts
    BY DEF LookupAnswers, IInv, TypeOK, Target
  <2> QED
    BY <1>1, <1>3, <2>1 DEF RulesKnowInternal, AllPublic
<1>5. result.code = "none"
  BY DEF IInv, ResultInv, LookupAnswers
<1>6. answers = <<>> => AllPublic(answers)
  BY DEF AllPublic
<1>7. result'.code = "blocked_target" <=> ~AllPublic(answers)
  BY <1>1, <1>5, <1>6 DEF Return, Failure
<1> QED
  BY <1>2, <1>4, <1>7

(* A host is refused for its addresses exactly when a lookup of it gave an *)
(* internal one, at whatever place (guard.go:205-222).                     *)
THEOREM AnswersJudged == ASSUME RulesKnowInternal PROVE Spec => AnswersAreJudged
<1>1. IInv /\ [Next]_vars => [Len(lookups') > Len(lookups) =>
            LET answers == lookups'[Len(lookups')].answers
            IN  result'.code = "blocked_target" <=> \E i \in DOMAIN answers : answers[i] \in InternalAddrs]_vars
  <2> SUFFICES ASSUME IInv, Next, Len(lookups') > Len(lookups)
               PROVE  LET answers == lookups'[Len(lookups')].answers
                      IN  result'.code = "blocked_target"
                              <=> \E i \in DOMAIN answers : answers[i] \in InternalAddrs
    OBVIOUS
  <2>1. lookups \in Seq(Lookup)
    BY DEF IInv, TypeOK
  <2>2. lookups' # lookups
    BY <2>1
  <2>3. LookupAnswers
    BY <2>2 DEF Next, Step, Start, LookupFails, Request, Connect, RoundTripFails, FinalResponse, Redirect, CtxDone
  <2> QED
    BY <2>3, LookupIsJudged
<1> QED
  BY <1>1, SpecIInv, PTL DEF Spec, AnswersAreJudged

-----------------------------------------------------------------------------
(* The addresses netip knows, each as its words.                           *)
Words == 0..65535
Valid == {addr \in Seq(Words) : IsValid(addr)}

(* An element of a sequence over a set is in the set.                      *)
LEMMA ElementOfSequence == ASSUME NEW S, NEW s \in Seq(S) PROVE \A i \in 1..Len(s) : s[i] \in S
OBVIOUS

(* An IPv4 address is not one written as IPv6, and embeds nothing.         *)
LEMMA Ipv4IsPlain ==
    ASSUME NEW addr, Len(addr) = 2
    PROVE  ~Is4In6(addr) /\ Unmap(addr) = addr /\ unwrap(addr) = {}
<1>1. Len(IPv6(<<0, 0, 0, 0, 0, \hffff>>)) = 8
  BY DEF IPv6
<1>2. ~Is4In6(addr)
  BY <1>1 DEF Is4In6, Covers, Net
<1> QED
  BY <1>2 DEF Unmap, unwrap, Is4

(* fetch.go:121: what is compared at the socket is the unmapped address,   *)
(* and what was judged the one given: unmapping twice is unmapping once,   *)
(* and it never makes an internal address of a public one.  Scan assumes   *)
(* both of its addresses; here they are shown of all there are.            *)
THEOREM UnmappingIsSafe ==
    ASSUME NEW addr \in Valid
    PROVE  /\ Unmap(addr) \in Valid
           /\ Unmap(Unmap(addr)) = Unmap(addr)
           /\ IsPublicAddr(addr) => IsPublicAddr(Unmap(addr))
<1>1. CASE ~Is4In6(addr)
  BY <1>1 DEF Unmap
<1>2. CASE Is4In6(addr)
  <2>1. PICK plain : plain = <<addr[7], addr[8]>>
    OBVIOUS
  <2>2. Len(addr) = 8
    <3>1. Len(IPv6(<<0, 0, 0, 0, 0, \hffff>>)) = 8
      BY DEF IPv6
    <3> QED
      BY <1>2, <3>1 DEF Is4In6, Covers, Net
  <2>3. addr[7] \in Words /\ addr[8] \in Words
    <3>1. addr \in Seq(Words)
      BY DEF Valid
    <3>2. \A i \in 1..Len(addr) : addr[i] \in Words
      BY Zenon, <3>1, ElementOfSequence
    <3>3. 7 \in 1..Len(addr) /\ 8 \in 1..Len(addr)
      BY <2>2
    <3> QED
      BY Zenon, <3>2, <3>3
  <2>4. Len(plain) = 2 /\ plain \in Seq(Words)
    BY <2>1, <2>3
  <2>5. Unmap(addr) = plain /\ unwrap(addr) = {plain}
    BY <1>2, <2>1 DEF Unmap, unwrap
  <2>6. Unmap(plain) = plain /\ unwrap(plain) = {}
    BY <2>4, Ipv4IsPlain
  <2>7. IsValid(plain)
    BY <2>4 DEF IsValid
  <2>8. plain \in Valid
    BY <2>4, <2>7 DEF Valid
  <2>9. IsPublicAddr(addr) => IsPublicAddr(plain)
    BY <2>5, <2>6, <2>7 DEF IsPublicAddr
  <2> QED
    BY <2>5, <2>6, <2>8, <2>9
<1> QED
  BY <1>1, <1>2
=============================================================================
