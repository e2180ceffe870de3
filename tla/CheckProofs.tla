---------------------------- MODULE CheckProofs ----------------------------
(***************************************************************************)
(* What the seven checks compute for every response: any number of lines,  *)
(* in any order, with any values their parsers can tell apart.  A status   *)
(* is compared with what Protection says browsers do.                      *)
(***************************************************************************)
EXTENDS HeaderProofs

(* A response as the scan returns it.                                      *)
Sane(response) == WellFormed(response.lines)

(* At most one line has the name.                                          *)
Single(response, name) ==
    \A i, j \in 1..Len(response.lines) :
        response.lines[i].name = name /\ response.lines[j].name = name => i = j

(* An outcome a card can show, which says why points are withheld.         *)
Graded(outcome) ==
    /\ outcome \in [status : {"pass", "warn", "fail"}, ratio : 0..100, findings : SUBSET Findings]
    /\ outcome.ratio < 100 => outcome.findings # {}

(* An outcome has the parts it was made of, and can be shown.              *)
LEMMA OutcomeFacts ==
    ASSUME NEW status \in {"pass", "warn", "fail"}, NEW ratio \in 0..100, NEW findings \in SUBSET Findings,
           ratio < 100 => findings # {}
    PROVE  /\ Graded(Outcome(status, ratio, findings))
           /\ Outcome(status, ratio, findings).status = status
           /\ Outcome(status, ratio, findings).ratio = ratio
           /\ Outcome(status, ratio, findings).findings = findings
BY DEF Outcome, Graded

(* The same for the many outcomes with one finding.                        *)
LEMMA OneFinding ==
    ASSUME NEW status \in {"pass", "warn", "fail"}, NEW ratio \in 0..100, NEW finding \in Findings
    PROVE  /\ Graded(Outcome(status, ratio, {finding}))
           /\ Outcome(status, ratio, {finding}).status = status
           /\ Outcome(status, ratio, {finding}).ratio = ratio
           /\ Outcome(status, ratio, {finding}).findings = {finding}
<1>1. PICK findings : findings = {finding}
  OBVIOUS
<1>2. findings \in SUBSET Findings /\ findings # {}
  BY <1>1
<1>3. /\ Graded(Outcome(status, ratio, findings))
      /\ Outcome(status, ratio, findings).status = status
      /\ Outcome(status, ratio, findings).ratio = ratio
      /\ Outcome(status, ratio, findings).findings = findings
  BY <1>2, OutcomeFacts
<1> QED
  BY <1>1, <1>3

(* What the lines of each header hold.                                     *)
LEMMA Kinds ==
    /\ HeaderValues("content-security-policy") = Policies
    /\ HeaderValues("strict-transport-security") = HstsTokens
    /\ HeaderValues("permissions-policy") = FeatureSegments
    /\ HeaderValues("referrer-policy") = Seq(STRING)
    /\ HeaderValues("x-frame-options") = STRING
<1>1. HeaderValues("content-security-policy") = Policies
  BY DEF HeaderValues, TelltaleHeaders
<1>2. HeaderValues("strict-transport-security") = HstsTokens
  BY DEF HeaderValues, TelltaleHeaders
<1>3. HeaderValues("permissions-policy") = FeatureSegments
  BY DEF HeaderValues, TelltaleHeaders
<1>4. HeaderValues("referrer-policy") = Seq(STRING)
  BY DEF HeaderValues, TelltaleHeaders
<1>5. HeaderValues("x-frame-options") = STRING
  BY DEF HeaderValues, TelltaleHeaders
<1> QED
  BY <1>1, <1>2, <1>3, <1>4, <1>5

(* What a context is made of.                                              *)
LEMMA ContextFacts ==
    ASSUME NEW response, NEW context, context = BuildContext(response)
    PROVE  context.headers = HeaderBag(response.lines) /\ context.isHttps = response.https
BY DEF BuildContext

(* null is no value of any header.                                         *)
LEMMA NullFacts == \A name : Null \notin HeaderValues(name)
BY NullAssumption DEF NullAssumption, HeaderValues

(* The value a check reads is sent, and null when none is.                 *)
LEMMA FirstIsSent ==
    ASSUME NEW response, Sane(response), NEW name, NEW first, IsFirst(response.lines, name, first)
    PROVE  /\ first = Null => Sends(response, name) = {}
           /\ first # Null => /\ first \in HeaderValues(name) /\ first \in Sends(response, name)
                              /\ Single(response, name) => Sends(response, name) = {first}
<1>1. PICK lines : lines = response.lines
  OBVIOUS
<1>2. DOMAIN lines = 1..Len(lines)
  BY <1>1 DEF Sane, WellFormed
<1>3. Sends(response, name) = {lines[i].value : i \in {j \in 1..Len(lines) : lines[j].name = name}}
  BY <1>1, <1>2 DEF Sends
<1>4. IsFirst(lines, name, first)
  BY <1>1
<1>5. first = Null => Sends(response, name) = {}
  BY <1>3, <1>4 DEF IsFirst
<1>6. ASSUME first # Null
      PROVE  /\ first \in HeaderValues(name) /\ first \in Sends(response, name)
             /\ Single(response, name) => Sends(response, name) = {first}
  <2>1. PICK i \in 1..Len(lines) : lines[i].name = name /\ first = lines[i].value
    BY <1>4, <1>6 DEF IsFirst
  <2>2. Single(response, name) => \A j \in 1..Len(lines) : lines[j].name = name => j = i
    BY <1>1, <2>1 DEF Single
  <2>3. first \in HeaderValues(name)
    BY <1>4, <1>6 DEF IsFirst
  <2> QED
    BY <1>3, <2>1, <2>2, <2>3
<1> QED
  BY <1>5, <1>6

(* A check that reads the first value of a header reads that of the        *)
(* response.                                                               *)
LEMMA FirstRead ==
    ASSUME NEW response, Sane(response), NEW context, context = BuildContext(response), NEW name,
           NEW first, first = First(context.headers, name)
    PROVE  IsFirst(response.lines, name, first)
<1>1. PICK lines : lines = response.lines
  OBVIOUS
<1>2. first = First(HeaderBag(lines), name)
  BY <1>1, ContextFacts
<1>3. WellFormed(lines)
  BY <1>1 DEF Sane
<1> QED
  BY <1>1, <1>2, <1>3, FirstFacts, NullFacts

-----------------------------------------------------------------------------
(* contentType.ts: it passes when browsers do not sniff, and fails when    *)
(* they do.                                                                *)
LEMMA ContentTypeFacts ==
    ASSUME NEW response, Sane(response), NEW outcome, outcome = RunContentType(BuildContext(response))
    PROVE  /\ Graded(outcome)
           /\ outcome.status = "pass" /\ Single(response, "x-content-type-options") => ~Sniffs(response)
           /\ outcome.status = "fail" => Sniffs(response)
           /\ Sends(response, "x-content-type-options") = {} => outcome.findings = {"absent"}
<1>1. PICK context : context = BuildContext(response)
  OBVIOUS
<1>2. PICK name : name = "x-content-type-options"
  OBVIOUS
<1>3. PICK first : first = First(context.headers, name)
  OBVIOUS
<1>4. /\ first = Null => Sends(response, name) = {}
      /\ first # Null => /\ first \in Sends(response, name)
                         /\ Single(response, name) => Sends(response, name) = {first}
  BY <1>1, <1>3, FirstRead, FirstIsSent
<1>5. Sniffs(response) <=> Sends(response, name) # {"nosniff"}
  BY <1>2 DEF Sniffs
<1>6. outcome = CASE first = Null      -> Outcome("fail", 0, {"absent"})
                  [] first = "nosniff" -> Outcome("pass", 100, {})
                  [] OTHER             -> Outcome("fail", 0, {"unknownValue"})
  BY Zenon, <1>1, <1>2, <1>3 DEF RunContentType
<1>7. Null # "nosniff"
  BY NullAssumption, WordsAssumption DEF NullAssumption, WordsAssumption
<1>8. CASE first = Null
  <2>1. outcome = Outcome("fail", 0, {"absent"})
    BY <1>6, <1>7, <1>8
  <2>2. "fail" \in {"pass", "warn", "fail"} /\ 0 \in 0..100 /\ "absent" \in Findings
    BY DEF Findings
  <2>3. Graded(outcome) /\ outcome.status = "fail" /\ outcome.findings = {"absent"}
    BY <2>1, <2>2, OneFinding
  <2> QED
    BY <1>4, <1>5, <1>8, <2>3
<1>9. CASE first = "nosniff"
  <2>1. outcome = Outcome("pass", 100, {})
    BY <1>6, <1>7, <1>9
  <2>2. Graded(outcome) /\ outcome.status = "pass"
    BY <2>1, OutcomeFacts
  <2> QED
    BY <1>2, <1>4, <1>5, <1>7, <1>9, <2>2
<1>10. CASE first # Null /\ first # "nosniff"
  <2>1. outcome = Outcome("fail", 0, {"unknownValue"})
    BY <1>6, <1>10
  <2>2. Graded(outcome) /\ outcome.status = "fail"
    BY <2>1, OutcomeFacts DEF Findings
  <2> QED
    BY <1>2, <1>4, <1>5, <1>10, <2>2
<1> QED
  BY <1>8, <1>9, <1>10

-----------------------------------------------------------------------------
(* The costs of a set of findings: none for none, and no less than that of *)
(* any finding in it.                                                      *)
LEMMA CostAtLeast ==
    ASSUME NEW D, IsFiniteSet(D), NEW costs \in [D -> Nat], NEW found \in SUBSET D
    PROVE  /\ Cost(costs, found) \in Nat
           /\ found = {} => Cost(costs, found) = 0
           /\ \A x \in found : costs[x] <= Cost(costs, found)
<1>1. Cost(costs, found) \in Nat
  BY CostBounds
<1>2. found = {} => Cost(costs, found) = 0
  BY CostBounds
<1>3. ASSUME NEW x \in found
      PROVE  costs[x] <= Cost(costs, found)
  <2>1. found \ {x} \in SUBSET D
    OBVIOUS
  <2>2. Cost(costs, found) = costs[x] + Cost(costs, found \ {x})
    BY CostBounds
  <2>3. Cost(costs, found \ {x}) \in Nat /\ costs[x] \in Nat
    BY <2>1, CostBounds
  <2> QED
    BY <1>1, <2>2, <2>3
<1> QED
  BY <1>1, <1>2, <1>3

DisclosureCosts == [version |-> 60, software |-> 25, deadHeader |-> 15]

(* Any finding of the disclosure check costs at least 15.                  *)
LEMMA DisclosureCost ==
    ASSUME NEW found \in SUBSET {"version", "software", "deadHeader"}
    PROVE  /\ Cost(DisclosureCosts, found) \in Nat
           /\ found = {} => Cost(DisclosureCosts, found) = 0
           /\ found # {} => 15 <= Cost(DisclosureCosts, found)
<1> DEFINE D == {"version", "software", "deadHeader"}
<1>1. IsFiniteSet({"version"})
  BY FS_Singleton
<1>2. IsFiniteSet({"version"} \cup {"software"})
  BY <1>1, FS_AddElement
<1>3. IsFiniteSet(({"version"} \cup {"software"}) \cup {"deadHeader"})
  BY <1>2, FS_AddElement
<1>4. D = ({"version"} \cup {"software"}) \cup {"deadHeader"}
  OBVIOUS
<1>5. IsFiniteSet(D)
  BY <1>3, <1>4
<1>6. DisclosureCosts \in [D -> Nat] /\ \A x \in D : 15 <= DisclosureCosts[x]
  BY DEF DisclosureCosts
<1>7. PICK costs : costs = DisclosureCosts
  OBVIOUS
<1>8. costs \in [D -> Nat] /\ \A x \in D : 15 <= costs[x]
  BY <1>6, <1>7
<1> HIDE DEF D
<1>9. found \in SUBSET D
  BY DEF D
<1>10. /\ Cost(costs, found) \in Nat
       /\ found = {} => Cost(costs, found) = 0
       /\ \A x \in found : costs[x] <= Cost(costs, found)
  BY <1>5, <1>8, <1>9, CostAtLeast
<1>11. ASSUME NEW x \in found
       PROVE  15 <= Cost(costs, found)
  <2>1. costs[x] \in Nat /\ 15 <= costs[x] /\ costs[x] <= Cost(costs, found)
    BY <1>8, <1>9, <1>10
  <2> QED
    BY <1>10, <2>1
<1> QED
  BY <1>7, <1>10, <1>11

(* disclosure.ts: it passes only when no software is named, and never      *)
(* fails.                                                                  *)
LEMMA DisclosureFacts ==
    ASSUME NEW response, Sane(response), NEW outcome, outcome = RunDisclosure(BuildContext(response))
    PROVE  /\ Graded(outcome) /\ outcome.status # "fail"
           /\ outcome.status = "pass" => ~NamesSoftware(response)
           /\ ~NamesSoftware(response) /\ Sends(response, "x-xss-protection") = {} => outcome.findings = {}
<1>1. PICK context : context = BuildContext(response)
  OBVIOUS
<1>2. PICK headers : headers = context.headers
  OBVIOUS
<1>3. ASSUME NEW name
      PROVE  First(headers, name) = Null <=> Sends(response, name) = {}
  <2>1. PICK first : first = First(context.headers, name)
    OBVIOUS
  <2>2. /\ first = Null => Sends(response, name) = {}
        /\ first # Null => first \in Sends(response, name)
    BY <1>1, <2>1, FirstRead, FirstIsSent
  <2> QED
    BY <1>2, <2>1, <2>2
<1>4. PICK exposed : exposed = {name \in TelltaleHeaders : First(headers, name) # Null}
  OBVIOUS
<1>5. PICK versions : versions = {name \in exposed : First(headers, name).version}
  OBVIOUS
<1>6. PICK found : found = {f \in {"version"} : versions # {}}
                           \cup {f \in {"software"} : exposed # {} /\ versions = {}}
                           \cup {f \in {"deadHeader"} : XssFilterOn(headers)}
  OBVIOUS
<1>7. PICK ratio : ratio = ClampRatio(100 - Cost(DisclosureCosts, found))
  OBVIOUS
<1>8. outcome = Outcome(IF ratio >= 90 THEN "pass" ELSE "warn", ratio, found)
  BY Zenon, <1>1, <1>2, <1>4, <1>5, <1>6, <1>7 DEF RunDisclosure, DisclosureCosts
<1>9. found \in SUBSET {"version", "software", "deadHeader"} /\ found \in SUBSET Findings
  BY <1>6 DEF Findings
<1>10. PICK cost \in Nat : /\ cost = Cost(DisclosureCosts, found)
                           /\ found = {} => cost = 0
                           /\ found # {} => 15 <= cost
  BY <1>9, DisclosureCost
<1>11. /\ ratio \in 0..100 /\ (found = {} => ratio = 100) /\ (found # {} => ratio <= 85)
  BY <1>7, <1>10 DEF ClampRatio
<1>12. PICK status \in {"pass", "warn"} : status = (IF ratio >= 90 THEN "pass" ELSE "warn")
  OBVIOUS
<1>12a. status = "pass" => found = {}
  BY <1>11, <1>12
<1>13. outcome = Outcome(status, ratio, found)
  BY Zenon, <1>8, <1>12
<1>13a. ratio < 100 => found # {}
  BY <1>11
<1>14. Graded(outcome) /\ outcome.status = status /\ outcome.findings = found
  BY <1>9, <1>11, <1>13, <1>13a, OutcomeFacts
<1>15. exposed = {} <=> ~NamesSoftware(response)
  BY <1>3, <1>4 DEF NamesSoftware
<1>16. exposed # {} => found # {}
  BY <1>6
<1>17. exposed = {} /\ Sends(response, "x-xss-protection") = {} => found = {}
  <2>1. exposed = {} => versions = {}
    BY <1>5
  <2>2. Sends(response, "x-xss-protection") = {} => ~XssFilterOn(headers)
    BY <1>3 DEF XssFilterOn
  <2> QED
    BY <1>6, <2>1, <2>2
<1>18. status # "fail"
  OBVIOUS
<1>19. outcome.status = "pass" => ~NamesSoftware(response)
  BY <1>12a, <1>14, <1>15, <1>16
<1> QED
  BY <1>14, <1>15, <1>17, <1>18, <1>19

-----------------------------------------------------------------------------
(* The allowlist of a feature is that of the last segment that gives one.  *)
LEMMA FeatureFacts ==
    ASSUME NEW value, Len(value) \in Nat, DOMAIN value = 1..Len(value),
           NEW f \in DOMAIN ParsePermissionsPolicy(value)
    PROVE  \E k \in 1..Len(value) :
                /\ value[k].feature = f /\ value[k].allowlist = ParsePermissionsPolicy(value)[f]
                /\ \A m \in (k + 1)..Len(value) : value[m].feature # f \/ value[m].allowlist = NoEquals
<1> DEFINE n == Len(value)
           I == {i \in 1..n : value[i].feature = f /\ value[i].allowlist # NoEquals}
           last == IF I # {} THEN Max(I) ELSE 0
<1>1. last # 0 /\ ParsePermissionsPolicy(value)[f] = value[last].allowlist
  BY DEF ParsePermissionsPolicy, SelectLastInSeq
<1>2. I # {} /\ last = Max(I)
  BY <1>1
<1>3. I \in SUBSET (1..n)
  OBVIOUS
<1>4. last \in I /\ last \in 1..n /\ \A j \in I : j <= last
  <2> HIDE DEF I
  <2> QED
    BY <1>2, <1>3, LastIndex
<1> HIDE DEF last
<1>5. value[last].feature = f
  BY <1>4
<1>6. ASSUME NEW m \in (last + 1)..n
      PROVE  value[m].feature # f \/ value[m].allowlist = NoEquals
  <2>1. m \in 1..n /\ ~(m <= last)
    BY <1>4
  <2> QED
    BY <1>4, <2>1
<1> QED
  BY <1>1, <1>4, <1>5, <1>6

(* There are five sensitive features.                                      *)
LEMMA FiveFeatures == IsFiniteSet(SensitiveFeatures) /\ Cardinality(SensitiveFeatures) = 5
<1>1. IsFiniteSet({"camera"}) /\ Cardinality({"camera"}) = 1
  BY FS_Singleton
<1>2. IsFiniteSet({"camera"} \cup {"microphone"}) /\ Cardinality({"camera"} \cup {"microphone"}) = 2
  BY <1>1, FS_AddElement
<1>3. {"camera"} \cup {"microphone"} = {"camera", "microphone"}
  OBVIOUS
<1>4. IsFiniteSet({"camera", "microphone"}) /\ Cardinality({"camera", "microphone"}) = 2
  BY <1>2, <1>3
<1>5. /\ IsFiniteSet({"camera", "microphone"} \cup {"geolocation"})
      /\ Cardinality({"camera", "microphone"} \cup {"geolocation"}) = 3
  BY <1>4, FS_AddElement
<1>6. {"camera", "microphone"} \cup {"geolocation"} = {"camera", "microphone", "geolocation"}
  OBVIOUS
<1>7. /\ IsFiniteSet({"camera", "microphone", "geolocation"})
      /\ Cardinality({"camera", "microphone", "geolocation"}) = 3
  BY <1>5, <1>6
<1>8. /\ IsFiniteSet({"camera", "microphone", "geolocation"} \cup {"payment"})
      /\ Cardinality({"camera", "microphone", "geolocation"} \cup {"payment"}) = 4
  BY <1>7, FS_AddElement
<1>9. {"camera", "microphone", "geolocation"} \cup {"payment"} = {"camera", "microphone", "geolocation", "payment"}
  OBVIOUS
<1>10. /\ IsFiniteSet({"camera", "microphone", "geolocation", "payment"})
       /\ Cardinality({"camera", "microphone", "geolocation", "payment"}) = 4
  BY <1>8, <1>9
<1>11. /\ IsFiniteSet({"camera", "microphone", "geolocation", "payment"} \cup {"usb"})
       /\ Cardinality({"camera", "microphone", "geolocation", "payment"} \cup {"usb"}) = 5
  BY <1>10, FS_AddElement
<1>12. {"camera", "microphone", "geolocation", "payment"} \cup {"usb"} = SensitiveFeatures
  BY DEF SensitiveFeatures
<1> QED
  BY <1>11, <1>12

EarnedBy(locked, open, ratio) == ratio = ClampRatio(35 + (65 * locked) \div 5 - 20 * open)

(* Only five locked features reach the threshold.                          *)
LEMMA PermissionsRatio ==
    ASSUME NEW locked \in Nat, locked <= 5, NEW open \in Nat, NEW ratio, EarnedBy(locked, open, ratio)
    PROVE  ratio \in 0..100 /\ (ratio >= 90 => locked = 5) /\ (locked = 5 /\ open = 0 => ratio = 100)
<1>1. (65 * locked) \div 5 = 13 * locked
  OBVIOUS
<1>2. PICK raw \in Int : raw = (35 + 13 * locked) - 20 * open
  OBVIOUS
<1>3. ratio = IF raw < 0 THEN 0 ELSE IF raw > 100 THEN 100 ELSE raw
  BY <1>1, <1>2 DEF ClampRatio, EarnedBy
<1> QED
  BY <1>2, <1>3

(* permissions.ts: it passes only when all five features are denied, and   *)
(* never fails.                                                            *)
LEMMA PermissionsFacts ==
    ASSUME NEW response, Sane(response), NEW outcome, outcome = RunPermissions(BuildContext(response))
    PROVE  /\ Graded(outcome) /\ outcome.status # "fail"
           /\ outcome.status = "pass" => \A f \in SensitiveFeatures : Denied(response, f)
           /\ Sends(response, "permissions-policy") = {} => outcome.findings = {"absent"}
<1>1. PICK context : context = BuildContext(response)
  OBVIOUS
<1>2. PICK name : name = "permissions-policy"
  OBVIOUS
<1>3. PICK first : first = First(context.headers, name)
  OBVIOUS
<1>4. /\ first = Null => Sends(response, name) = {}
      /\ first # Null => first \in HeaderValues(name) /\ first \in Sends(response, name)
  BY <1>1, <1>3, FirstRead, FirstIsSent
<1>5. PICK features : features = ParsePermissionsPolicy(first)
  OBVIOUS
<1>6. PICK locked : locked = LockedIn(features)
  OBVIOUS
<1>7. PICK wideOpen : wideOpen = WideOpenIn(features)
  OBVIOUS
<1>8. PICK ratio : ratio = ClampRatio(35 + (65 * Cardinality(locked)) \div 5 - 20 * Cardinality(wideOpen))
  OBVIOUS
<1>9. PICK status \in {"pass", "warn"} : status = (IF ratio >= 90 THEN "pass" ELSE "warn")
  OBVIOUS
<1>10. PICK found : found = {f \in {"unrestricted"} : locked \cup wideOpen # SensitiveFeatures}
                            \cup {f \in {"openToAll"} : wideOpen # {}}
  OBVIOUS
<1>11. outcome = IF first = Null THEN Outcome("warn", 0, {"absent"}) ELSE Outcome(status, ratio, found)
  BY Zenon, <1>1, <1>2, <1>3, <1>5, <1>6, <1>7, <1>8, <1>9, <1>10 DEF RunPermissions
<1>12. locked \in SUBSET SensitiveFeatures /\ wideOpen \in SUBSET SensitiveFeatures
  BY <1>6, <1>7 DEF LockedIn, WideOpenIn
<1>13. PICK l \in Nat : l = Cardinality(locked) /\ l <= 5 /\ (l = 5 => locked = SensitiveFeatures)
  <2>1. /\ IsFiniteSet(locked) /\ Cardinality(locked) <= 5
        /\ Cardinality(locked) = 5 => locked = SensitiveFeatures
    BY <1>12, FiveFeatures, FS_Subset
  <2>2. Cardinality(locked) \in Nat
    BY <2>1, FS_CardinalityType
  <2> QED
    BY <2>1, <2>2
<1>14. PICK w \in Nat : w = Cardinality(wideOpen) /\ (wideOpen = {} => w = 0)
  <2>1. IsFiniteSet(wideOpen)
    BY <1>12, FiveFeatures, FS_Subset
  <2> QED
    BY <2>1, FS_CardinalityType, FS_EmptySet
<1>15. ratio \in 0..100 /\ (ratio >= 90 => l = 5) /\ (l = 5 /\ w = 0 => ratio = 100)
  <2>1. l = Cardinality(locked) /\ w = Cardinality(wideOpen) /\ l <= 5
    BY <1>13, <1>14
  <2>2. EarnedBy(l, w, ratio)
    BY Zenon, <1>8, <2>1 DEF EarnedBy
  <2> QED
    BY <1>13, <1>14, <2>1, <2>2, PermissionsRatio
<1>16. ratio < 100 => found # {}
  <2>1. CASE wideOpen # {}
    BY <1>10, <2>1
  <2>2. CASE wideOpen = {} /\ locked # SensitiveFeatures
    BY <1>10, <2>2
  <2>3. CASE wideOpen = {} /\ locked = SensitiveFeatures
    BY <1>13, <1>14, <1>15, <2>3, FiveFeatures
  <2> QED
    BY <2>1, <2>2, <2>3
<1>17. found \in SUBSET Findings /\ "absent" \in Findings
  BY <1>10 DEF Findings
<1>18. CASE first = Null
  <2>1. outcome = Outcome("warn", 0, {"absent"})
    BY <1>11, <1>18
  <2>2. Graded(outcome) /\ outcome.status = "warn" /\ outcome.findings = {"absent"}
    BY <1>17, <2>1, OneFinding
  <2> QED
    BY <2>2
<1>19. CASE first # Null
  <2>1. outcome = Outcome(status, ratio, found)
    BY <1>11, <1>19
  <2>1a. status \in {"pass", "warn", "fail"}
    OBVIOUS
  <2>2. Graded(outcome) /\ outcome.status = status
    BY <2>1a, <1>15, <1>16, <1>17, <2>1, OutcomeFacts
  <2>3. Sends(response, "permissions-policy") # {} /\ first \in Sends(response, "permissions-policy")
    BY <1>2, <1>4, <1>19
  <2>4. Len(first) \in Nat /\ DOMAIN first = 1..Len(first)
    <3>1. first \in FeatureSegments
      BY <1>2, <1>4, <1>19, Kinds
    <3> QED
      BY <3>1 DEF FeatureSegments
  <2>5. ASSUME status = "pass", NEW f \in SensitiveFeatures
        PROVE  Denied(response, f)
    <3>1. locked = SensitiveFeatures
      BY <1>9, <1>13, <1>15, <2>5
    <3>2. f \in DOMAIN features /\ features[f] \in LockedLists
      BY <1>6, <3>1 DEF LockedIn
    <3>3. PICK k \in 1..Len(first) :
                /\ first[k].feature = f /\ first[k].allowlist = features[f]
                /\ \A m \in (k + 1)..Len(first) : first[m].feature # f \/ first[m].allowlist = NoEquals
      BY <1>5, <2>4, <3>2, FeatureFacts
    <3> QED
      BY <2>3, <2>4, <3>2, <3>3 DEF Denied
  <2>6. status # "fail"
    OBVIOUS
  <2> QED
    BY <2>2, <2>3, <2>5, <2>6
<1> QED
  BY <1>18, <1>19

-----------------------------------------------------------------------------
(* A header that keeps the browser on HTTPS for that long.                 *)
Holds(value, seconds) ==
    \E k \in DOMAIN value :
        /\ value[k].is = "max-age" /\ value[k].seconds >= seconds
        /\ \A m \in (k + 1)..Len(value) : value[m].is # "max-age" \/ value[m].seconds < 0

(* The parser keeps the last max-age that is valid.                        *)
LEMMA MaxAgeFacts ==
    ASSUME NEW value \in HstsTokens, NEW hsts, hsts = ParseHsts(value)
    PROVE  /\ hsts.maxAge = Null => \A seconds \in Nat : ~Holds(value, seconds)
           /\ hsts.maxAge # Null =>
                hsts.maxAge \in Nat /\ \A seconds \in Nat : Holds(value, seconds) <=> hsts.maxAge >= seconds
           /\ hsts.includeSubDomains <=> \E k \in DOMAIN value : value[k].is = "includesubdomains"
<1> DEFINE n == Len(value)
           I == {i \in 1..n : value[i].is = "max-age" /\ value[i].seconds >= 0}
           last == IF I # {} THEN Max(I) ELSE 0
<1>1. n \in Nat /\ DOMAIN value = 1..n
  BY DEF HstsTokens
<1>2. \A i \in 1..n : value[i].seconds \in Int
  <2> TAKE i \in 1..n
  <2>1. value[i] \in [is : STRING, seconds : Int]
    BY ElementOf DEF HstsTokens
  <2> QED
    BY <2>1
<1>3. /\ hsts.maxAge = IF last = 0 THEN Null ELSE value[last].seconds
      /\ hsts.includeSubDomains = \E k \in DOMAIN value : value[k].is = "includesubdomains"
  BY DEF ParseHsts, SelectLastInSeq
<1>4. I \in SUBSET (1..n)
  OBVIOUS
<1> HIDE DEF n
<1>5. I # {} => last \in I /\ last \in 1..n /\ \A j \in I : j <= last
  <2> HIDE DEF I
  <2> QED
    BY <1>1, <1>4, LastIndex
<1>6. I = {} => last = 0
  OBVIOUS
<1> HIDE DEF last
<1>7. CASE I = {}
  <2>1. hsts.maxAge = Null
    BY <1>3, <1>6, <1>7
  <2>2. ASSUME NEW seconds \in Nat, Holds(value, seconds)
        PROVE  FALSE
    <3>1. PICK k \in 1..n : value[k].is = "max-age" /\ value[k].seconds >= seconds
      BY <1>1, <2>2 DEF Holds
    <3>2. value[k].seconds >= 0
      BY <1>2, <3>1
    <3> QED
      BY <1>7, <3>1, <3>2
  <2> QED
    BY <1>3, <2>1, <2>2
<1>8. CASE I # {}
  <2>1. /\ last \in 1..n /\ value[last].is = "max-age" /\ value[last].seconds >= 0
        /\ \A j \in 1..n : value[j].is = "max-age" /\ value[j].seconds >= 0 => j <= last
    BY <1>5, <1>8
  <2>2. PICK age \in Nat : age = value[last].seconds
    BY <1>2, <2>1
  <2>3. hsts.maxAge = age
    BY <1>1, <1>3, <2>1, <2>2
  <2>4. age # Null
    BY NullAssumption DEF NullAssumption
  <2>5. ASSUME NEW seconds \in Nat, Holds(value, seconds)
        PROVE  age >= seconds
    <3>1. PICK k \in 1..n : /\ value[k].is = "max-age" /\ value[k].seconds >= seconds
                            /\ \A m \in (k + 1)..n : value[m].is # "max-age" \/ value[m].seconds < 0
      BY <1>1, <2>5 DEF Holds, n
    <3>2. value[k].seconds \in Int /\ value[k].seconds >= 0
      BY <1>2, <3>1
    <3>3. k <= last
      BY <2>1, <3>1, <3>2
    <3>4. last \notin (k + 1)..n
      BY <1>2, <2>1, <3>1
    <3>5. last = k
      BY <1>1, <2>1, <3>3, <3>4
    <3> QED
      BY <2>2, <3>1, <3>5
  <2>6. ASSUME NEW seconds \in Nat, age >= seconds
        PROVE  Holds(value, seconds)
    <3>1. ASSUME NEW m \in (last + 1)..n
          PROVE  value[m].is # "max-age" \/ value[m].seconds < 0
      <4>1. m \in 1..n /\ ~(m <= last)
        BY <1>1, <2>1
      <4>2. value[m].seconds \in Int
        BY <1>2, <4>1
      <4> QED
        BY <2>1, <4>1, <4>2
    <3> QED
      BY <1>1, <2>1, <2>2, <2>6, <3>1 DEF Holds, n
  <2> QED
    BY <1>3, <2>3, <2>4, <2>5, <2>6
<1> QED
  BY <1>7, <1>8

(* The value the browser keeps is the one the check reads.                 *)
LEMMA HstsKeptFacts ==
    ASSUME NEW response, Sane(response), NEW first, IsFirst(response.lines, "strict-transport-security", first)
    PROVE  HstsKept(response) = IF response.https /\ first # Null THEN {first} ELSE {}
<1>1. PICK lines : lines = response.lines
  OBVIOUS
<1>2. PICK name : name = "strict-transport-security"
  OBVIOUS
<1>3. Len(lines) \in Nat /\ DOMAIN lines = 1..Len(lines)
  BY <1>1 DEF Sane, WellFormed
<1>4. HstsKept(response) = {lines[i].value : i \in {j \in 1..Len(lines) :
            response.https /\ lines[j].name = name /\ \A k \in 1..(j - 1) : lines[k].name # name}}
  BY <1>1, <1>2, <1>3 DEF HstsKept
<1>5. IsFirst(lines, name, first)
  BY <1>1, <1>2
<1>6. CASE first = Null
  <2>1. \A i \in 1..Len(lines) : lines[i].name # name
    BY <1>5, <1>6 DEF IsFirst
  <2> QED
    BY <1>4, <1>6, <2>1
<1>7. CASE first # Null
  <2>1. PICK i \in 1..Len(lines) : /\ lines[i].name = name /\ first = lines[i].value
                                  /\ \A j \in 1..(i - 1) : lines[j].name # name
    BY <1>5, <1>7 DEF IsFirst
  <2>2. ASSUME NEW j \in 1..Len(lines), lines[j].name = name, \A k \in 1..(j - 1) : lines[k].name # name
        PROVE  j = i
    <3>1. i \notin 1..(j - 1) /\ j \notin 1..(i - 1)
      BY <2>1, <2>2
    <3> QED
      BY <1>3, <3>1
  <2>3. {j \in 1..Len(lines) : lines[j].name = name /\ \A k \in 1..(j - 1) : lines[k].name # name} = {i}
    BY <2>1, <2>2
  <2>4. CASE response.https
    <3>1. HstsKept(response) = {lines[j].value : j \in {i}}
      BY <1>4, <2>3, <2>4
    <3> QED
      BY <1>7, <2>1, <2>4, <3>1
  <2>5. CASE ~response.https
    BY <1>4, <2>5
  <2> QED
    BY <2>4, <2>5
<1> QED
  BY <1>6, <1>7

HstsRatio(maxAge, subDomains, preload) ==
    ClampRatio(AgeRatio(maxAge) + (IF subDomains THEN 15 ELSE 0) + (IF preload THEN 5 ELSE 0))

HstsVerdict(maxAge, subDomains, preload) ==
    Outcome(IF HstsRatio(maxAge, subDomains, preload) >= 90 THEN "pass"
                ELSE IF HstsRatio(maxAge, subDomains, preload) >= 40 THEN "warn" ELSE "fail",
            HstsRatio(maxAge, subDomains, preload),
            {f \in {"shortAge"} : maxAge < OneYear} \cup {f \in {"noSubDomains"} : ~subDomains}
                \cup {f \in {"noPreload"} : ~preload})

(* A long age and its subdomains reach the threshold, and nothing less.    *)
LEMMA HstsRatioFacts ==
    ASSUME NEW maxAge \in Nat, NEW subDomains \in BOOLEAN, NEW preload \in BOOLEAN
    PROVE  /\ HstsRatio(maxAge, subDomains, preload) \in 0..100
           /\ HstsRatio(maxAge, subDomains, preload) >= 90 => maxAge >= OneYear /\ subDomains
           /\ HstsRatio(maxAge, subDomains, preload) < 40 => maxAge < OneDay
           /\ maxAge >= OneYear /\ subDomains /\ preload => HstsRatio(maxAge, subDomains, preload) = 100
<1>1. PICK age \in Int : age = IF maxAge >= OneYear THEN 80 ELSE IF maxAge >= SixMonths THEN 65
                               ELSE IF maxAge >= OneDay THEN 40 ELSE 15
  OBVIOUS
<1>2. AgeRatio(maxAge) = age
  BY <1>1 DEF AgeRatio, OneYear, SixMonths, OneDay
<1>3. PICK more \in Int : more = (IF subDomains THEN 15 ELSE 0)
  OBVIOUS
<1>4. PICK most \in Int : most = (IF preload THEN 5 ELSE 0)
  OBVIOUS
<1>5. HstsRatio(maxAge, subDomains, preload) = ClampRatio(age + more + most)
  BY Zenon, <1>2, <1>3, <1>4 DEF HstsRatio
<1> QED
  BY <1>1, <1>3, <1>4, <1>5 DEF ClampRatio, OneYear, SixMonths, OneDay

(* hsts.ts: it passes when HTTPS is remembered for a year with all         *)
(* subdomains, and fails when not for a day.                               *)
LEMMA HstsFacts ==
    ASSUME NEW response, Sane(response), response.https \in BOOLEAN,
           NEW outcome, outcome = RunHsts(BuildContext(response))
    PROVE  /\ Graded(outcome)
           /\ outcome.status = "pass" => HttpsFor(response, OneYear) /\ SubDomainsToo(response)
           /\ outcome.status = "fail" => ~HttpsFor(response, OneDay)
           /\ Sends(response, "strict-transport-security") = {} =>
                outcome.findings \subseteq {"absent", "plainHttp"}
<1>1. PICK context : context = BuildContext(response)
  OBVIOUS
<1>2. PICK name : name = "strict-transport-security"
  OBVIOUS
<1>3. PICK first : first = First(context.headers, name)
  OBVIOUS
<1>4. IsFirst(response.lines, name, first)
  BY <1>1, <1>3, FirstRead
<1>5. first # Null => first \in HstsTokens /\ Sends(response, name) # {}
  BY <1>2, <1>4, FirstIsSent, Kinds
<1>6. HstsKept(response) = IF response.https /\ first # Null THEN {first} ELSE {}
  BY <1>2, <1>4, HstsKeptFacts
<1>7. /\ \A seconds : HttpsFor(response, seconds) <=> \E value \in HstsKept(response) : Holds(value, seconds)
      /\ SubDomainsToo(response) <=>
            \E value \in HstsKept(response) : \E k \in DOMAIN value : value[k].is = "includesubdomains"
  BY DEF HttpsFor, SubDomainsToo, Holds
<1>8. PICK hsts : hsts = ParseHsts(first)
  OBVIOUS
<1>9. PICK https \in BOOLEAN : https = response.https
  OBVIOUS
<1>10. context.isHttps = https
  BY <1>1, <1>9, ContextFacts
<1>11. outcome = CASE ~https -> Outcome("fail", 0, {"plainHttp"})
                   [] https /\ first = Null -> Outcome("fail", 0, {"absent"})
                   [] OTHER -> IF hsts.maxAge = Null THEN Outcome("fail", 5, {"noMaxAge"}) ELSE HstsOutcome(hsts)
  BY Zenon, <1>1, <1>2, <1>3, <1>8, <1>10 DEF RunHsts
<1>12. OneYear \in Nat /\ OneDay \in Nat
  BY DEF OneYear, OneDay
<1>13. "plainHttp" \in Findings /\ "absent" \in Findings /\ "noMaxAge" \in Findings
  BY DEF Findings
<1>14. CASE ~https
  <2>1. outcome = Outcome("fail", 0, {"plainHttp"})
    BY <1>11, <1>14
  <2>2. Graded(outcome) /\ outcome.status = "fail" /\ outcome.findings = {"plainHttp"}
    BY <1>13, <2>1, OneFinding
  <2> QED
    BY <1>6, <1>7, <1>9, <1>14, <2>2
<1>15. CASE https /\ first = Null
  <2>1. outcome = Outcome("fail", 0, {"absent"})
    BY <1>11, <1>15
  <2>2. Graded(outcome) /\ outcome.status = "fail" /\ outcome.findings = {"absent"}
    BY <1>13, <2>1, OneFinding
  <2> QED
    BY <1>6, <1>7, <1>15, <2>2
<1>16. CASE https /\ first # Null /\ hsts.maxAge = Null
  <2>1. outcome = Outcome("fail", 5, {"noMaxAge"})
    BY <1>11, <1>16
  <2>2. Graded(outcome) /\ outcome.status = "fail"
    BY <1>13, <2>1, OneFinding
  <2>3. ~Holds(first, OneDay)
    BY <1>5, <1>8, <1>12, <1>16, MaxAgeFacts
  <2> QED
    BY <1>2, <1>5, <1>6, <1>7, <1>16, <2>2, <2>3
<1>17. CASE https /\ first # Null /\ hsts.maxAge # Null
  <2>1. outcome = HstsOutcome(hsts)
    BY <1>11, <1>17
  <2>2. PICK maxAge \in Nat : maxAge = hsts.maxAge /\ \A seconds \in Nat : Holds(first, seconds) <=> maxAge >= seconds
    BY <1>5, <1>8, <1>17, MaxAgeFacts
  <2>3. PICK subDomains \in BOOLEAN : /\ subDomains = hsts.includeSubDomains
                                      /\ subDomains <=> \E k \in DOMAIN first : first[k].is = "includesubdomains"
    BY <1>8 DEF ParseHsts
  <2>4. PICK preload \in BOOLEAN : preload = hsts.preload
    BY <1>8 DEF ParseHsts
  <2>5. PICK ratio : ratio = HstsRatio(maxAge, subDomains, preload)
    OBVIOUS
  <2>6. PICK status \in {"pass", "warn", "fail"} :
            status = (IF ratio >= 90 THEN "pass" ELSE IF ratio >= 40 THEN "warn" ELSE "fail")
    OBVIOUS
  <2>7. PICK found : found = {f \in {"shortAge"} : maxAge < OneYear} \cup {f \in {"noSubDomains"} : ~subDomains}
                             \cup {f \in {"noPreload"} : ~preload}
    OBVIOUS
  <2>8. outcome = Outcome(status, ratio, found)
    <3>1. HstsOutcome(hsts) = HstsVerdict(hsts.maxAge, hsts.includeSubDomains, hsts.preload)
      BY Zenon DEF HstsOutcome, HstsRatio, HstsVerdict
    <3>2. HstsVerdict(maxAge, subDomains, preload) = Outcome(status, ratio, found)
      BY Zenon, <2>5, <2>6, <2>7 DEF HstsVerdict
    <3> QED
      BY Zenon, <2>1, <2>2, <2>3, <2>4, <3>1, <3>2
  <2>9. /\ ratio \in 0..100
        /\ ratio >= 90 => maxAge >= OneYear /\ subDomains
        /\ ratio < 40 => maxAge < OneDay
        /\ maxAge >= OneYear /\ subDomains /\ preload => ratio = 100
    BY <2>5, HstsRatioFacts
  <2>10. found \in SUBSET Findings
    BY <2>7 DEF Findings
  <2>11. ratio < 100 => found # {}
    BY <1>12, <2>7, <2>9
  <2>12. Graded(outcome) /\ outcome.status = status
    BY <2>8, <2>9, <2>10, <2>11, OutcomeFacts
  <2>13. HstsKept(response) = {first}
    BY <1>6, <1>9, <1>17
  <2>14. status = "pass" => HttpsFor(response, OneYear) /\ SubDomainsToo(response)
    BY <1>7, <1>12, <2>2, <2>3, <2>6, <2>9, <2>13
  <2>15. status = "fail" => ~HttpsFor(response, OneDay)
    BY <1>7, <1>12, <2>2, <2>6, <2>9, <2>13
  <2>16. Sends(response, "strict-transport-security") # {}
    BY <1>2, <1>5, <1>17
  <2> QED
    BY <2>12, <2>14, <2>15, <2>16
<1> QED
  BY <1>14, <1>15, <1>16, <1>17

-----------------------------------------------------------------------------
(* All the values of a name, as a check reads them, are those sent.        *)
LEMMA AllRead ==
    ASSUME NEW response, Sane(response), NEW context, context = BuildContext(response), NEW name,
           NEW values, values = All(context.headers, name)
    PROVE  /\ values \in Seq(HeaderValues(name))
           /\ Sends(response, name) = {values[k] : k \in 1..Len(values)}
<1>1. PICK lines : lines = response.lines
  OBVIOUS
<1>2. WellFormed(lines)
  BY <1>1 DEF Sane
<1>3. values = SentAs(lines, name)
  <2>1. values = All(HeaderBag(lines), name)
    BY <1>1, ContextFacts
  <2> QED
    BY <1>2, <2>1, AllFacts
<1>4. values \in Seq(HeaderValues(name))
  BY <1>2, <1>3, SentFacts
<1>5. PICK pos \in [1..Len(values) -> 1..Len(lines)] : IsSent(lines, name, values, pos)
  BY <1>2, <1>3, SentFacts
<1>6. Sends(response, name) = {lines[i].value : i \in {j \in 1..Len(lines) : lines[j].name = name}}
  BY <1>1, <1>2 DEF Sends, WellFormed
<1>7. ASSUME NEW k \in 1..Len(values)
      PROVE  values[k] \in Sends(response, name)
  <2>1. pos[k] \in 1..Len(lines) /\ lines[pos[k]].name = name /\ values[k] = lines[pos[k]].value
    BY <1>5 DEF IsSent
  <2> QED
    BY Zenon, <1>6, <2>1
<1>8. ASSUME NEW i \in 1..Len(lines), lines[i].name = name
      PROVE  \E k \in 1..Len(values) : lines[i].value = values[k]
  <2>1. PICK k \in 1..Len(values) : pos[k] = i
    BY <1>5, <1>8 DEF IsSent
  <2> QED
    BY <1>5, <2>1 DEF IsSent
<1>9. Sends(response, name) = {values[k] : k \in 1..Len(values)}
  <2>1. ASSUME NEW x \in Sends(response, name)
        PROVE  \E k \in 1..Len(values) : x = values[k]
    <3>1. PICK i \in 1..Len(lines) : lines[i].name = name /\ x = lines[i].value
      BY <1>6
    <3> QED
      BY Zenon, <1>8, <3>1
  <2> QED
    BY Zenon, <1>7, <2>1
<1> QED
  BY Zenon, <1>4, <1>9

(* The elements of a sequence form a finite set.                           *)
LEMMA FiniteRange == ASSUME NEW n \in Nat, NEW f PROVE IsFiniteSet({f[i] : i \in 1..n})
<1> DEFINE T == {f[i] : i \in 1..n}
           g == [i \in 1..n |-> f[i]]
<1>1. IsFiniteSet(1..n)
  BY FS_Interval
<1>2. g \in Surjection(1..n, T)
  BY DEF Surjection
<1> HIDE DEF g, T
<1>3. IsFiniteSet(T)
  BY <1>1, <1>2, FS_Surjection
<1> QED
  BY <1>3 DEF T

(* Two different elements of a range make it larger than one.              *)
LEMMA TwoOfARange ==
    ASSUME NEW n \in Nat, NEW f, NEW S, S \subseteq {f[i] : i \in 1..n},
           NEW x \in S, NEW y \in S, x # y
    PROVE  Cardinality(S) > 1
<1>1. PICK T : T = {f[i] : i \in 1..n}
  OBVIOUS
<1>2. IsFiniteSet(T) /\ S \in SUBSET T
  BY <1>1, FiniteRange
<1>3. IsFiniteSet(S)
  BY <1>2, FS_Subset
<1>4. Cardinality(S) \in Nat
  BY <1>3, FS_CardinalityType
<1>5. Cardinality(S) # 0
  BY <1>3, FS_EmptySet
<1>6. Cardinality(S) # 1
  <2>1. ASSUME NEW z, S = {z}
        PROVE  FALSE
    BY <2>1
  <2> QED
    BY <1>3, <2>1, FS_Singleton
<1> QED
  BY <1>4, <1>5, <1>6

(* framing.ts: it passes when other sites cannot frame the page, and fails *)
(* when they can, unless several policies say who can.                     *)
LEMMA FramingFacts ==
    ASSUME NEW response, Sane(response), NEW outcome, outcome = RunFraming(BuildContext(response))
    PROVE  /\ Graded(outcome)
           /\ outcome.status = "pass" => ~AnySiteFrames(response)
           /\ outcome.status = "fail" /\ Single(response, "x-frame-options") =>
                AnySiteFrames(response) \/ Cardinality(AncestorPolicies(response)) > 1
           /\ Sends(response, "x-frame-options") = {} /\ Sends(response, "content-security-policy") = {} =>
                outcome.findings = {"absent"}
<1>1. PICK context : context = BuildContext(response)
  OBVIOUS
<1>2. PICK csp, fa : csp = "content-security-policy" /\ fa = "frame-ancestors"
  OBVIOUS
<1>3. PICK policies : policies = All(context.headers, csp)
  OBVIOUS
<1>4. policies \in Seq(Policies) /\ Sends(response, csp) = {policies[k] : k \in 1..Len(policies)}
  <2>1. HeaderValues(csp) = Policies
    BY <1>2, Kinds
  <2> QED
    BY <1>1, <1>3, <2>1, AllRead
<1>5. PICK n \in Nat : n = Len(policies)
  BY <1>4
<1> DEFINE I == {i \in 1..n : fa \in DOMAIN ParseCsp(policies[i])}
           first == IF I # {} THEN Min(I) ELSE 0
<1>6. PICK ancestors : ancestors = ReadFrameAncestors(context)
  OBVIOUS
<1>7. ancestors = IF first = 0 THEN Null ELSE ParseCsp(policies[first])[fa]
  BY <1>2, <1>3, <1>5, <1>6 DEF ReadFrameAncestors, SelectInSeq
<1>8. I # {} => first \in I /\ first \in 1..n
  <2>1. I \in SUBSET (1..n)
    OBVIOUS
  <2> HIDE DEF I
  <2> QED
    BY <2>1, FirstIndex
<1>9. ASSUME NEW i \in 1..n
      PROVE  /\ i \in I => /\ Kept(policies[i], fa) = {ParseCsp(policies[i])[fa]}
                           /\ ParseCsp(policies[i])[fa] \in SUBSET Sources
             /\ i \notin I => Kept(policies[i], fa) = {}
  <2>1. PICK policy : policy = policies[i]
    OBVIOUS
  <2>2. policy \in Policies
    BY <1>4, <1>5, <2>1, ElementOf
  <2>3. /\ Len(policy) \in Nat /\ DOMAIN policy = 1..Len(policy)
        /\ \A j \in 1..Len(policy) : policy[j].values \in SUBSET Sources
    BY <2>2, PolicyFacts
  <2>4. /\ fa \in DOMAIN ParseCsp(policy) =>
                /\ Kept(policy, fa) = {ParseCsp(policy)[fa]}
                /\ \E j \in 1..Len(policy) : policy[j].name = fa /\ ParseCsp(policy)[fa] = policy[j].values
        /\ fa \notin DOMAIN ParseCsp(policy) => Kept(policy, fa) = {}
    BY <2>3, KeptFacts
  <2> QED
    BY <2>1, <2>3, <2>4
<1>10. AncestorPolicies(response) = UNION {Kept(policies[i], fa) : i \in 1..n}
  BY <1>2, <1>4, <1>5 DEF AncestorPolicies
<1>11. PICK all : all = AncestorPolicies(response)
  OBVIOUS
<1>12. all = {ParseCsp(policies[i])[fa] : i \in I}
  <2>1. ASSUME NEW x
        PROVE  x \in all <=> \E i \in I : x = ParseCsp(policies[i])[fa]
    <3>1. ASSUME NEW i \in 1..n
          PROVE  x \in Kept(policies[i], fa) <=> i \in I /\ x = ParseCsp(policies[i])[fa]
      <4>1. PICK own : own = ParseCsp(policies[i])[fa]
        OBVIOUS
      <4> HIDE DEF I
      <4> QED
        BY <1>9, <4>1
    <3>2. x \in all <=> \E i \in 1..n : x \in Kept(policies[i], fa)
      BY <1>10, <1>11
    <3>3. I \subseteq 1..n
      OBVIOUS
    <3> HIDE DEF I
    <3> QED
      BY <3>1, <3>2, <3>3
  <2> HIDE DEF I
  <2> QED
    BY <2>1
<1>12a. all # {} => Sends(response, csp) # {}
  <2>1. ASSUME NEW i \in 1..n
        PROVE  policies[i] \in Sends(response, csp)
    BY <1>4, <1>5
  <2>2. all # {} => \E i \in 1..n : TRUE
    BY <1>10, <1>11
  <2> QED
    BY <2>1, <2>2
<1>13. /\ ancestors = Null => all = {}
       /\ ancestors # Null => ancestors \in all
  <2>1. CASE I = {}
    BY <1>7, <1>12, <2>1
  <2>2. CASE I # {}
    <3>1. PICK i \in I : i = first /\ i \in 1..n
      BY <1>8, <2>2
    <3>2. ancestors = ParseCsp(policies[i])[fa]
      BY <1>7, <3>1
    <3>3. ancestors # Null
      BY <1>9, <3>1, <3>2, NullAssumption DEF NullAssumption
    <3> QED
      BY <1>12, <3>1, <3>2, <3>3
  <2> QED
    BY <2>1, <2>2
<1> HIDE DEF first
<1>14. PICK options : options = "x-frame-options"
  OBVIOUS
<1>15. PICK xfo : xfo = First(context.headers, options)
  OBVIOUS
<1>16. /\ xfo = Null => Sends(response, options) = {}
       /\ xfo # Null => /\ xfo \in Sends(response, options)
                        /\ Single(response, options) => Sends(response, options) = {xfo}
  BY <1>1, <1>15, FirstRead, FirstIsSent
<1>17. AnySiteFrames(response) <=>
            IF all # {} THEN \A sources \in all : "*" \in sources
            ELSE Sends(response, options) \cap {"deny", "sameorigin"} = {}
  BY <1>11, <1>14 DEF AnySiteFrames
<1>18. {"anyAncestor", "absent", "noFrameOptions", "oldMechanism", "removedValue", "unknownValue"} \subseteq Findings
  BY DEF Findings
<1>19. CASE ancestors # Null /\ "*" \in ancestors
  <2>1. outcome = Outcome("fail", 0, {"anyAncestor"})
    BY Zenon, <1>1, <1>6, <1>19 DEF RunFraming
  <2>2. Graded(outcome) /\ outcome.status = "fail"
    BY <1>18, <2>1, OneFinding
  <2>3. AnySiteFrames(response) \/ Cardinality(all) > 1
    <3>1. SUFFICES ASSUME NEW other \in all, "*" \notin other
                   PROVE  Cardinality(all) > 1
      BY <1>13, <1>17, <1>19
    <3>2. ancestors \in all /\ ancestors # other
      BY <1>13, <1>19, <3>1
    <3>3. PICK values : values = [i \in 1..n |-> ParseCsp(policies[i])[fa]]
      OBVIOUS
    <3>4. all \subseteq {values[i] : i \in 1..n}
      BY <1>12, <3>3
    <3> QED
      BY <3>2, <3>4, TwoOfARange
  <2>4. Sends(response, csp) # {}
    BY <1>12a, <1>13, <1>19
  <2> QED
    BY <1>2, <1>11, <2>2, <2>3, <2>4
<1>20. CASE ancestors # Null /\ "*" \notin ancestors
  <2>1. PICK found : found = {f \in {"noFrameOptions"} : xfo = Null}
    OBVIOUS
  <2>2. outcome = Outcome("pass", 100, found)
    BY Zenon, <1>1, <1>6, <1>14, <1>15, <1>20, <2>1 DEF RunFraming
  <2>3. found \in SUBSET Findings
    BY <1>18, <2>1
  <2>4. Graded(outcome) /\ outcome.status = "pass"
    BY <2>2, <2>3, OutcomeFacts
  <2>5. ~AnySiteFrames(response)
    BY <1>13, <1>17, <1>20
  <2>6. Sends(response, csp) # {}
    BY <1>12a, <1>13, <1>20
  <2> QED
    BY <1>2, <2>4, <2>5, <2>6
<1>21. CASE ancestors = Null
  <2>1. outcome = CASE xfo = Null                    -> Outcome("fail", 0, {"absent"})
                    [] xfo \in {"deny", "sameorigin"} -> Outcome("pass", 85, {"oldMechanism"})
                    [] xfo = "allow-from"            -> Outcome("fail", 10, {"removedValue"})
                    [] OTHER                         -> Outcome("fail", 0, {"unknownValue"})
    BY Zenon, <1>1, <1>6, <1>14, <1>15, <1>21 DEF RunFraming
  <2>2. Null # "deny" /\ Null # "sameorigin" /\ Null # "allow-from"
    BY NullAssumption, WordsAssumption DEF NullAssumption, WordsAssumption
  <2>3. AnySiteFrames(response) <=> Sends(response, options) \cap {"deny", "sameorigin"} = {}
    BY <1>13, <1>17, <1>21
  <2>4. CASE xfo = Null
    <3>1. outcome = Outcome("fail", 0, {"absent"})
      BY <2>1, <2>2, <2>4
    <3>2. Graded(outcome) /\ outcome.status = "fail" /\ outcome.findings = {"absent"}
      BY <1>18, <3>1, OneFinding
    <3> QED
      BY <1>16, <2>3, <2>4, <3>2
  <2>5. CASE xfo \in {"deny", "sameorigin"}
    <3>1. outcome = Outcome("pass", 85, {"oldMechanism"})
      BY <2>1, <2>2, <2>5
    <3>2. Graded(outcome) /\ outcome.status = "pass"
      BY <1>18, <3>1, OneFinding
    <3> QED
      BY <1>14, <1>16, <2>2, <2>3, <2>5, <3>2
  <2>6. CASE xfo # Null /\ xfo \notin {"deny", "sameorigin"}
    <3>1. outcome = Outcome("fail", 10, {"removedValue"}) \/ outcome = Outcome("fail", 0, {"unknownValue"})
      BY <2>1, <2>6
    <3>2. Graded(outcome) /\ outcome.status = "fail"
      BY <1>18, <3>1, OneFinding
    <3> QED
      BY <1>14, <1>16, <2>3, <2>6, <3>2
  <2> QED
    BY <2>4, <2>5, <2>6
<1> QED
  BY <1>19, <1>20, <1>21

-----------------------------------------------------------------------------
CspFindings == {"noScriptSources", "unsafeInline", "unsafeEval", "wildcard", "noObjectNone", "noBaseUri"}
Milder      == {"unsafeEval", "wildcard", "noObjectNone", "noBaseUri"}

(* What each finding of csp.ts costs.                                      *)
LEMMA CspCostsFacts ==
    /\ IsFiniteSet(CspFindings) /\ CspCosts \in [CspFindings -> Nat]
    /\ CspCosts["noScriptSources"] = 50 /\ CspCosts["unsafeInline"] = 35 /\ CspCosts["unsafeEval"] = 12
    /\ CspCosts["wildcard"] = 25 /\ CspCosts["noObjectNone"] = 8 /\ CspCosts["noBaseUri"] = 10
    /\ \A x \in CspFindings : 0 < CspCosts[x]
<1>1. CspCosts \in [CspFindings -> Nat]
  BY DEF CspCosts, CspFindings
<1>2. /\ CspCosts["noScriptSources"] = 50 /\ CspCosts["unsafeInline"] = 35 /\ CspCosts["unsafeEval"] = 12
      /\ CspCosts["wildcard"] = 25 /\ CspCosts["noObjectNone"] = 8 /\ CspCosts["noBaseUri"] = 10
  BY DEF CspCosts
<1>3. \A x \in CspFindings : 0 < CspCosts[x]
  BY DEF CspCosts, CspFindings
<1>4. PICK values : values = <<"noScriptSources", "unsafeInline", "unsafeEval", "wildcard", "noObjectNone", "noBaseUri">>
  OBVIOUS
<1>5. CspFindings = {values[i] : i \in 1..6}
  BY <1>4 DEF CspFindings
<1>6. IsFiniteSet({values[i] : i \in 1..6})
  BY FiniteRange
<1> QED
  BY <1>1, <1>2, <1>3, <1>5, <1>6

(* Without inline scripts a policy with sources keeps more than a third.   *)
LEMMA MilderCost == Cost(CspCosts, Milder) = 55
<1>1. PICK costs : costs = CspCosts
  OBVIOUS
<1>2. IsFiniteSet(CspFindings) /\ costs \in [CspFindings -> Nat]
  BY <1>1, CspCostsFacts
<1>3. ASSUME NEW F \in SUBSET CspFindings, NEW x \in F
      PROVE  Cost(costs, F) = costs[x] + Cost(costs, F \ {x})
  BY <1>2, CostBounds
<1>4. Milder \in SUBSET CspFindings /\ "unsafeEval" \in Milder
  BY DEF Milder, CspFindings
<1>5. Cost(costs, Milder) = costs["unsafeEval"] + Cost(costs, Milder \ {"unsafeEval"})
  BY <1>3, <1>4
<1>6. Milder \ {"unsafeEval"} = {"wildcard", "noObjectNone", "noBaseUri"}
  BY DEF Milder
<1>7. PICK three : three = {"wildcard", "noObjectNone", "noBaseUri"}
  OBVIOUS
<1>8. three \in SUBSET CspFindings /\ "wildcard" \in three
  BY <1>7 DEF CspFindings
<1>9. Cost(costs, three) = costs["wildcard"] + Cost(costs, three \ {"wildcard"})
  BY <1>3, <1>8
<1>10. PICK two : two = {"noObjectNone", "noBaseUri"}
  OBVIOUS
<1>11. two \in SUBSET CspFindings /\ "noObjectNone" \in two /\ three \ {"wildcard"} = two
  BY <1>7, <1>10 DEF CspFindings
<1>12. Cost(costs, two) = costs["noObjectNone"] + Cost(costs, two \ {"noObjectNone"})
  BY <1>3, <1>11
<1>13. PICK one : one = {"noBaseUri"}
  OBVIOUS
<1>14. /\ one \in SUBSET CspFindings /\ "noBaseUri" \in one /\ two \ {"noObjectNone"} = one
       /\ one \ {"noBaseUri"} = {}
  BY <1>10, <1>13 DEF CspFindings
<1>15. Cost(costs, one) = costs["noBaseUri"] + Cost(costs, one \ {"noBaseUri"})
  BY <1>3, <1>14
<1>16. Cost(costs, {}) = 0
  BY <1>2, CostBounds
<1>17. Cost(costs, one) = 10
  BY <1>1, <1>14, <1>15, <1>16, CspCostsFacts
<1>18. Cost(costs, two) = 18
  BY <1>1, <1>11, <1>12, <1>14, <1>17, CspCostsFacts
<1>19. Cost(costs, three) = 43
  BY <1>1, <1>9, <1>11, <1>18, CspCostsFacts
<1> QED
  BY <1>1, <1>5, <1>6, <1>7, <1>19, CspCostsFacts

Inline(sources) == "'unsafe-inline'" \in sources /\ sources \cap NonceOrHash = {} /\ ~Trusts(sources)
Wild(sources)   == sources \cap WildcardSources # {} /\ ~Trusts(sources)

(* csp.ts: what is found in the sources of scripts is what browsers would  *)
(* let happen.                                                             *)
LEMMA ScriptFindingsFacts ==
    ASSUME NEW sources
    PROVE  /\ ScriptFindings(sources) \subseteq {"unsafeInline", "unsafeEval", "wildcard"}
           /\ "unsafeInline" \in ScriptFindings(sources) <=> Inline(sources)
           /\ "wildcard" \in ScriptFindings(sources) <=> Wild(sources)
<1>1. ScriptFindings(sources) = {f \in {"unsafeInline"} : Inline(sources)}
                                \cup {f \in {"unsafeEval"} : "'unsafe-eval'" \in sources}
                                \cup {f \in {"wildcard"} : Wild(sources)}
  BY DEF ScriptFindings, Inline, Wild, Trusts
<1> QED
  BY <1>1

(* csp.ts: a policy is found to lack script sources, or to have the        *)
(* weaknesses of those that govern scripts.                                *)
LEMMA PolicyFindingsFacts ==
    ASSUME NEW policy \in Policies
    PROVE  /\ PolicyFindings(policy) \in SUBSET CspFindings
           /\ \/ ScriptSources(policy) = {} /\ "noScriptSources" \in PolicyFindings(policy)
              \/ \E sources : /\ ScriptSources(policy) = {sources}
                              /\ "noScriptSources" \notin PolicyFindings(policy)
                              /\ "unsafeInline" \in PolicyFindings(policy) <=> Inline(sources)
                              /\ "wildcard" \in PolicyFindings(policy) <=> Wild(sources)
<1>1. PICK scripts : scripts = EffectiveSources(ParseCsp(policy), ScriptChain)
  OBVIOUS
<1>2. \/ scripts = Null /\ ScriptSources(policy) = {}
      \/ scripts # Null /\ ScriptSources(policy) = {scripts}
  BY <1>1, ScriptFacts, NullAssumption DEF NullAssumption
<1>3. PICK objects : objects = EffectiveSources(ParseCsp(policy), ObjectChain)
  OBVIOUS
<1>4. PICK own : own = IF scripts = Null THEN {"noScriptSources"} ELSE ScriptFindings(scripts)
  OBVIOUS
<1>5. PICK rest : rest = {f \in {"noObjectNone"} : IF objects = Null THEN TRUE ELSE "'none'" \notin objects}
                         \cup {f \in {"noBaseUri"} : "base-uri" \notin DOMAIN ParseCsp(policy)}
  OBVIOUS
<1>6. PolicyFindings(policy) = own \cup rest
  <2>1. PolicyFindings(policy) =
            own \cup {f \in {"noObjectNone"} : IF objects = Null THEN TRUE ELSE "'none'" \notin objects}
                \cup {f \in {"noBaseUri"} : "base-uri" \notin DOMAIN ParseCsp(policy)}
    BY Zenon, <1>1, <1>3, <1>4 DEF PolicyFindings
  <2> QED
    BY <1>5, <2>1
<1>7. rest \subseteq {"noObjectNone", "noBaseUri"}
  BY <1>5
<1>8. CASE scripts = Null
  <2>1. own = {"noScriptSources"}
    BY <1>4, <1>8
  <2> QED
    BY <1>2, <1>6, <1>7, <1>8, <2>1 DEF CspFindings
<1>9. CASE scripts # Null
  <2>1. /\ own \subseteq {"unsafeInline", "unsafeEval", "wildcard"}
        /\ "unsafeInline" \in own <=> Inline(scripts)
        /\ "wildcard" \in own <=> Wild(scripts)
    BY <1>4, <1>9, ScriptFindingsFacts
  <2>2. PolicyFindings(policy) \in SUBSET CspFindings
    BY <1>6, <1>7, <2>1 DEF CspFindings
  <2>3. /\ "noScriptSources" \notin PolicyFindings(policy)
        /\ "unsafeInline" \in PolicyFindings(policy) <=> Inline(scripts)
        /\ "wildcard" \in PolicyFindings(policy) <=> Wild(scripts)
    BY <1>6, <1>7, <2>1
  <2> QED
    BY <1>2, <1>9, <2>2, <2>3
<1> QED
  BY <1>8, <1>9

(* What a verdict says of the policy it is about.                          *)
Judged(policy, verdict) ==
    /\ verdict.ratio \in 0..100 /\ verdict.findings \in SUBSET CspFindings
    /\ verdict.ratio < 100 => verdict.findings # {}
    /\ verdict.ratio >= 90 => \E sources \in ScriptSources(policy) : ~Inline(sources) /\ ~Wild(sources)
    /\ verdict.ratio < 35 => \A sources \in ScriptSources(policy) : Inline(sources)

(* csp.ts: the thresholds of 90 and 35 separate what is claimed of a       *)
(* policy.                                                                 *)
LEMMA VerdictFacts ==
    ASSUME NEW policy \in Policies
    PROVE  Judged(policy, EvaluatePolicy(policy))
<1>1. PICK found : found = PolicyFindings(policy)
  OBVIOUS
<1>2. found \in SUBSET CspFindings
  BY <1>1, PolicyFindingsFacts
<1>3. PICK costs : costs = CspCosts
  OBVIOUS
<1>4. IsFiniteSet(CspFindings) /\ costs \in [CspFindings -> Nat]
  BY <1>3, CspCostsFacts
<1>5. PICK cost \in Nat : /\ cost = Cost(costs, found)
                          /\ found = {} => cost = 0
                          /\ \A x \in found : costs[x] <= cost
  BY <1>2, <1>4, CostAtLeast
<1>6. PICK ratio : ratio = ClampRatio(100 - cost)
  OBVIOUS
<1>7. EvaluatePolicy(policy) = [ratio |-> ratio, findings |-> found]
  <2>1. EvaluatePolicy(policy) = [ratio |-> ClampRatio(100 - Cost(costs, found)), findings |-> found]
    BY Zenon, <1>1, <1>3 DEF EvaluatePolicy
  <2>2. cost = Cost(costs, found)
    BY <1>5
  <2> QED
    BY Zenon, <1>6, <2>1, <2>2
<1>8. ratio \in 0..100 /\ (ratio >= 90 => cost <= 10) /\ (ratio < 35 => cost > 65) /\ (ratio < 100 => cost # 0)
  BY <1>5, <1>6 DEF ClampRatio
<1>9. ratio < 100 => found # {}
  BY <1>5, <1>8
<1>10. ASSUME ratio >= 90
       PROVE  \E sources \in ScriptSources(policy) : ~Inline(sources) /\ ~Wild(sources)
  <2>1. cost <= 10
    BY <1>8, <1>10
  <2>2. costs["noScriptSources"] = 50 /\ costs["unsafeInline"] = 35 /\ costs["wildcard"] = 25
    BY <1>3, CspCostsFacts
  <2>3. "noScriptSources" \notin found /\ "unsafeInline" \notin found /\ "wildcard" \notin found
    BY <1>5, <2>1, <2>2
  <2> QED
    BY <1>1, <2>3, PolicyFindingsFacts
<1>11. ASSUME ratio < 35, NEW sources \in ScriptSources(policy)
       PROVE  Inline(sources)
  <2>1. cost > 65
    BY <1>8, <1>11
  <2>2. "noScriptSources" \notin found /\ ("unsafeInline" \in found <=> Inline(sources))
    BY <1>1, <1>11, PolicyFindingsFacts
  <2>3. ASSUME "unsafeInline" \notin found
        PROVE  FALSE
    <3>1. found \in SUBSET Milder /\ Milder \in SUBSET CspFindings
      BY <1>2, <2>2, <2>3 DEF CspFindings, Milder
    <3>2. Cost(costs, found) <= Cost(costs, Milder)
      BY <1>4, <3>1, CostBounds
    <3>3. Cost(costs, Milder) = 55
      BY <1>3, MilderCost
    <3> QED
      BY <1>5, <2>1, <3>2, <3>3
  <2> QED
    BY <2>2, <2>3
<1>12. PICK verdict : verdict = EvaluatePolicy(policy)
  OBVIOUS
<1>13. verdict.ratio = ratio /\ verdict.findings = found
  BY <1>7, <1>12
<1> QED
  BY <1>2, <1>8, <1>9, <1>10, <1>11, <1>12, <1>13 DEF Judged

(* Ratios are integers of at most 100.                                     *)
LEMMA AtMostHundred == \A y \in 0..100 : y \in Int /\ y <= 100
OBVIOUS

(* The best of some verdicts is one of them, and none is higher.           *)
LEMMA BestFacts ==
    ASSUME NEW n \in Nat, n # 0, NEW verdicts, Len(verdicts) = n, DOMAIN verdicts = 1..n,
           \A i \in 1..n : verdicts[i].ratio \in 0..100
    PROVE  \E k \in 1..n : Best(verdicts) = verdicts[k] /\ \A i \in 1..n : verdicts[i].ratio <= verdicts[k].ratio
<1> DEFINE T == {verdicts[i].ratio : i \in 1..n}
           I == {k \in 1..n : \A i \in 1..n : verdicts[i].ratio <= verdicts[k].ratio}
           best == IF I # {} THEN Min(I) ELSE 0
<1>1. PICK b \in Int : b = 100
  OBVIOUS
<1>1a. T \subseteq Int /\ \A y \in T : y <= b
  <2>1. ASSUME NEW y \in T
        PROVE  y \in Int /\ y <= b
    <3>1. PICK i \in 1..n : y = verdicts[i].ratio
      OBVIOUS
    <3>2. y \in 0..100
      BY <3>1
    <3> QED
      BY Zenon, <1>1, <3>2, AtMostHundred
  <2> QED
    BY <2>1
<1>1b. T # {}
  <2>1. 1 \in 1..n
    OBVIOUS
  <2>2. verdicts[1].ratio \in T
    BY <2>1
  <2> QED
    BY <2>2
<1>2. Max(T) \in T /\ \A y \in T : y <= Max(T)
  <2> HIDE DEF T
  <2> QED
    BY <1>1a, <1>1b, MaxFacts
<1>3. I # {}
  <2>1. PICK top : top = Max(T)
    OBVIOUS
  <2>2. PICK k \in 1..n : top = verdicts[k].ratio
    BY <1>2, <2>1
  <2>3. \A i \in 1..n : verdicts[i].ratio <= top
    BY <1>2, <2>1
  <2> QED
    BY <2>2, <2>3
<1>4. Best(verdicts) = verdicts[best]
  BY DEF Best, SelectInSeq
<1>5. best \in I /\ best \in 1..n
  <2>1. I \in SUBSET (1..n)
    OBVIOUS
  <2> HIDE DEF I
  <2> QED
    BY <1>3, <2>1, FirstIndex
<1> HIDE DEF best
<1> QED
  BY <1>4, <1>5

(* csp.ts: it passes when a policy stops inline scripts and one stops      *)
(* foreign hosts, and fails when every policy lets inline scripts run.     *)
LEMMA CspFacts ==
    ASSUME NEW response, Sane(response), NEW outcome, outcome = RunCsp(BuildContext(response))
    PROVE  /\ Graded(outcome)
           /\ outcome.status = "pass" => ~InlineScriptsRun(response) /\ ~AnyHostServesScripts(response)
           /\ outcome.status = "fail" => InlineScriptsRun(response)
           /\ (/\ Sends(response, "content-security-policy") = {}
               /\ Sends(response, "content-security-policy-report-only") = {}) => outcome.findings = {"absent"}
<1>1. PICK context : context = BuildContext(response)
  OBVIOUS
<1>2. PICK csp, reportName : csp = "content-security-policy" /\ reportName = "content-security-policy-report-only"
  OBVIOUS
<1>3. PICK policies : policies = All(context.headers, csp)
  OBVIOUS
<1>4. PICK reportOnly : reportOnly = All(context.headers, reportName)
  OBVIOUS
<1>5. policies \in Seq(Policies) /\ Sends(response, csp) = {policies[k] : k \in 1..Len(policies)}
  <2>1. HeaderValues(csp) = Policies
    BY <1>2, Kinds
  <2> QED
    BY <1>1, <1>3, <2>1, AllRead
<1>6. reportOnly # <<>> => Sends(response, reportName) # {}
  <2>1. /\ reportOnly \in Seq(HeaderValues(reportName))
        /\ Sends(response, reportName) = {reportOnly[k] : k \in 1..Len(reportOnly)}
    BY <1>1, <1>4, AllRead
  <2>2. reportOnly # <<>> => 1 \in 1..Len(reportOnly)
    BY <2>1
  <2> QED
    BY <2>1, <2>2
<1>7. PICK n \in Nat : n = Len(policies)
  BY <1>5
<1>8. PICK verdicts : verdicts = [i \in DOMAIN policies |-> EvaluatePolicy(policies[i])]
  OBVIOUS
<1>9. DOMAIN verdicts = 1..n /\ Len(verdicts) = n
  BY <1>5, <1>7, <1>8
<1>10. PICK best : best = Best(verdicts)
  OBVIOUS
<1>11. PICK status \in {"pass", "warn", "fail"} :
            status = (IF best.ratio >= 90 THEN "pass" ELSE IF best.ratio >= 35 THEN "warn" ELSE "fail")
  OBVIOUS
<1>12. PICK found : found = best.findings \cup {f \in {"intersected"} : Len(policies) > 1}
  OBVIOUS
<1>13. outcome = CASE policies = <<>> /\ reportOnly # <<>> -> Outcome("warn", 15, {"reportOnly"})
                   [] policies = <<>> /\ reportOnly = <<>> -> Outcome("fail", 0, {"absent"})
                   [] OTHER -> Outcome(status, best.ratio, found)
  BY Zenon, <1>1, <1>2, <1>3, <1>4, <1>8, <1>10, <1>11, <1>12 DEF RunCsp
<1>14. /\ InlineScriptsRun(response) <=>
            \A policy \in Sends(response, csp) : \A sources \in ScriptSources(policy) : Inline(sources)
       /\ AnyHostServesScripts(response) <=>
            \A policy \in Sends(response, csp) : \A sources \in ScriptSources(policy) : Wild(sources)
  BY <1>2 DEF InlineScriptsRun, AnyHostServesScripts, Inline, Wild
<1>15. "reportOnly" \in Findings /\ "absent" \in Findings /\ "intersected" \in Findings /\ CspFindings \subseteq Findings
  BY DEF Findings, CspFindings
<1>16. CASE policies = <<>> /\ reportOnly # <<>>
  <2>1. outcome = Outcome("warn", 15, {"reportOnly"})
    BY <1>13, <1>16
  <2>2. Graded(outcome) /\ outcome.status = "warn"
    BY <1>15, <2>1, OneFinding
  <2> QED
    BY <1>2, <1>6, <1>16, <2>2
<1>17. CASE policies = <<>> /\ reportOnly = <<>>
  <2>1. outcome = Outcome("fail", 0, {"absent"})
    BY <1>13, <1>17
  <2>2. Graded(outcome) /\ outcome.status = "fail" /\ outcome.findings = {"absent"}
    BY <1>15, <2>1, OneFinding
  <2>3. Sends(response, csp) = {}
    <3>1. 1..Len(policies) = {}
      BY <1>17
    <3> QED
      BY <1>5, <3>1
  <2> QED
    BY <1>14, <2>2, <2>3
<1>18. CASE policies # <<>>
  <2>1. outcome = Outcome(status, best.ratio, found)
    BY <1>13, <1>18
  <2>2. ASSUME NEW i \in 1..n
        PROVE  /\ policies[i] \in Policies /\ policies[i] \in Sends(response, csp)
               /\ Judged(policies[i], verdicts[i])
    <3>1. policies[i] \in Policies
      BY <1>5, <1>7, ElementOf
    <3>2. policies[i] \in Sends(response, csp)
      BY <1>5, <1>7
    <3>3. verdicts[i] = EvaluatePolicy(policies[i])
      BY <1>5, <1>7, <1>8
    <3>4. Judged(policies[i], EvaluatePolicy(policies[i]))
      BY <3>1, VerdictFacts
    <3> QED
      BY <3>1, <3>2, <3>3, <3>4
  <2>3. n # 0
    BY <1>5, <1>7, <1>18
  <2>4. \A i \in 1..n : verdicts[i].ratio \in 0..100
    BY <2>2 DEF Judged
  <2>5. PICK k \in 1..n : best = verdicts[k] /\ \A i \in 1..n : verdicts[i].ratio <= verdicts[k].ratio
    BY <1>9, <1>10, <2>3, <2>4, BestFacts
  <2>6. PICK policy, ratio : policy = policies[k] /\ ratio = best.ratio
    OBVIOUS
  <2>7. policy \in Sends(response, csp) /\ Judged(policy, best)
    BY <2>2, <2>5, <2>6
  <2>8. /\ ratio \in 0..100 /\ best.findings \in SUBSET CspFindings /\ (ratio < 100 => best.findings # {})
        /\ ratio >= 90 => \E sources \in ScriptSources(policy) : ~Inline(sources) /\ ~Wild(sources)
    BY <2>6, <2>7 DEF Judged
  <2>9. found \in SUBSET Findings /\ (ratio < 100 => found # {})
    <3>1. best.findings \subseteq Findings
      BY <1>15, <2>8
    <3> QED
      BY <1>12, <1>15, <2>8, <3>1
  <2>10. outcome = Outcome(status, ratio, found)
    BY <2>1, <2>6
  <2>11. Graded(outcome) /\ outcome.status = status
    BY <1>11, <2>8, <2>9, <2>10, OutcomeFacts
  <2>12. status = "pass" => ratio >= 90
    BY <1>11, <2>6
  <2>13. status = "fail" => ratio < 35
    BY <1>11, <2>6, <2>8
  <2>14. status = "pass" => ~InlineScriptsRun(response) /\ ~AnyHostServesScripts(response)
    BY <1>14, <2>7, <2>8, <2>12
  <2>15. ASSUME status = "fail"
         PROVE  InlineScriptsRun(response)
    <3>1. ASSUME NEW i \in 1..n
          PROVE  \A sources \in ScriptSources(policies[i]) : Inline(sources)
      <4>1. verdicts[i].ratio \in 0..100 /\ verdicts[i].ratio <= ratio /\ ratio < 35
        BY <2>4, <2>5, <2>6, <2>13, <2>15
      <4>2. verdicts[i].ratio < 35
        BY <2>8, <4>1
      <4> QED
        BY <2>2, <4>2 DEF Judged
    <3> QED
      BY <1>5, <1>7, <1>14, <3>1
  <2>16. Sends(response, csp) # {}
    BY <2>7
  <2> QED
    BY <1>2, <2>11, <2>14, <2>15, <2>16
<1> QED
  BY <1>16, <1>17, <1>18

-----------------------------------------------------------------------------
(* The last known token of all the lines is unsafe-url exactly when the    *)
(* browser sends full addresses.                                           *)
LEMMA EffectiveFacts ==
    ASSUME NEW response, Sane(response), NEW context, context = BuildContext(response),
           NEW tokens, tokens = ParseTokenList(All(context.headers, "referrer-policy")),
           NEW effective, effective = Effective(tokens)
    PROVE  /\ Len(tokens) \in Nat
           /\ effective = Null \/ effective \in AllKnown
           /\ tokens = <<>> => effective = Null
           /\ Sends(response, "referrer-policy") = {} => tokens = <<>>
           /\ effective = Dangerous <=> SendsFullUrl(response)
<1>1. PICK name, lines : name = "referrer-policy" /\ lines = response.lines
  OBVIOUS
<1>2. WellFormed(lines)
  BY <1>1 DEF Sane
<1>3. PICK values : values = SentAs(lines, name)
  OBVIOUS
<1>3a. All(context.headers, name) = values
  BY <1>1, <1>2, <1>3, ContextFacts, AllFacts
<1>4. tokens = FlattenSeq(values)
  BY <1>1, <1>3a DEF ParseTokenList
<1>5. values \in Seq(Seq(STRING))
  <2>1. HeaderValues(name) = Seq(STRING)
    BY <1>1, Kinds
  <2> QED
    BY <1>2, <1>3, <2>1, SentFacts
<1>6. PICK pos \in [1..Len(values) -> 1..Len(lines)] : IsSent(lines, name, values, pos)
  BY <1>2, <1>3, SentFacts
<1>7. tokens \in Seq(STRING) /\ Listed(values, Len(values), tokens)
  BY <1>4, <1>5, FlattenFacts
<1>8. PICK row, col \in [1..Len(tokens) -> Nat] : Lists(values, Len(values), tokens, row, col)
  BY <1>7 DEF Listed
<1>8a. Len(tokens) \in Nat /\ Len(values) \in Nat
  BY <1>5, <1>7
<1>8b. Len(lines) \in Nat
  BY <1>2 DEF WellFormed
<1>9. PICK n \in Nat, r \in Nat, l \in Nat : n = Len(tokens) /\ r = Len(values) /\ l = Len(lines)
  BY Zenon, <1>8a, <1>8b
<1> DEFINE I == {i \in 1..n : tokens[i] \in AllKnown}
           last == IF I # {} THEN Max(I) ELSE 0
<1>10. effective = IF last = 0 THEN Null ELSE tokens[last]
  BY <1>9 DEF Effective, SelectLastInSeq
<1>11. I # {} => last \in I /\ last \in 1..n /\ \A j \in I : j <= last
  <2>1. I \in SUBSET (1..n)
    OBVIOUS
  <2> HIDE DEF I
  <2> QED
    BY <1>9, <2>1, LastIndex
<1>12. I = {} => last = 0
  OBVIOUS
<1> HIDE DEF last
<1>13. ASSUME NEW i \in 1..n, tokens[i] \in AllKnown
       PROVE  last \in 1..n /\ tokens[last] \in AllKnown /\ i <= last
  BY <1>11, <1>13
<1>14. effective = Null \/ effective \in AllKnown
  BY <1>10, <1>11, <1>12
<1>15. tokens = <<>> => effective = Null
  <2>1. tokens = <<>> => 1..n = {}
    BY <1>9
  <2> QED
    BY <1>10, <1>12, <2>1
<1>16. Sends(response, name) = {} => tokens = <<>>
  <2>1. Sends(response, name) = {values[k] : k \in 1..Len(values)}
    BY <1>3a, AllRead
  <2>2. ASSUME NEW k \in 1..Len(values)
        PROVE  values[k] \in Sends(response, name)
    BY <2>1
  <2>3. values # <<>> => 1 \in 1..Len(values)
    BY <1>5
  <2>4. values = <<>> => FlattenSeq(values) = <<>>
    BY DEF FlattenSeq
  <2>5. Sends(response, name) = {} => values = <<>>
    BY <2>2, <2>3
  <2> QED
    BY <1>4, <2>4, <2>5
(* Every token of a line is in the list, and has a place in a line.        *)
<1>17. ASSUME NEW i \in 1..n
       PROVE  /\ row[i] \in 1..r /\ col[i] \in 1..Len(values[row[i]])
              /\ tokens[i] = values[row[i]][col[i]]
  BY <1>8, <1>9 DEF Lists
<1>18. ASSUME NEW i \in 1..n, NEW j \in 1..n, i < j
       PROVE  row[i] < row[j] \/ (row[i] = row[j] /\ col[i] < col[j])
  BY <1>8, <1>9, <1>18 DEF Lists
<1>19. ASSUME NEW a \in 1..r, NEW b \in 1..Len(values[a])
       PROVE  \E i \in 1..n : row[i] = a /\ col[i] = b
  BY <1>8, <1>9 DEF Lists
<1>20. ASSUME NEW a \in 1..r
       PROVE  /\ pos[a] \in 1..l /\ lines[pos[a]].name = name /\ lines[pos[a]].value = values[a]
              /\ Len(values[a]) \in Nat /\ DOMAIN values[a] = 1..Len(values[a])
  <2>1. values[a] \in Seq(STRING)
    BY <1>5, <1>9, ElementOf
  <2>2. Len(values[a]) \in Nat /\ DOMAIN values[a] = 1..Len(values[a])
    <3>1. PICK tokensOf \in Seq(STRING) : tokensOf = values[a]
      BY Zenon, <2>1
    <3> QED
      BY <3>1
  <2>3. pos[a] \in 1..l
    BY <1>6, <1>9
  <2>4. lines[pos[a]].name = name /\ lines[pos[a]].value = values[a]
    BY Zenon, <1>6, <1>9 DEF IsSent
  <2> QED
    BY Zenon, <2>2, <2>3, <2>4
<1>21. ASSUME NEW a \in 1..r, NEW b \in 1..r, a < b
       PROVE  pos[a] < pos[b]
  BY <1>6, <1>9, <1>21 DEF IsSent
<1>22. ASSUME NEW i \in 1..l, lines[i].name = name
       PROVE  \E a \in 1..r : pos[a] = i
  BY <1>6, <1>9, <1>22 DEF IsSent
<1>23. DOMAIN lines = 1..l
  BY <1>2, <1>9 DEF WellFormed
<1>24. Dangerous \in AllKnown /\ Null \notin AllKnown
  BY NullAssumption, WordsAssumption DEF AllKnown, NullAssumption, WordsAssumption
<1>25. ASSUME effective = Dangerous
       PROVE  SendsFullUrl(response)
  <2>1. last \in 1..n /\ tokens[last] = Dangerous /\ \A j \in 1..n : tokens[j] \in AllKnown => j <= last
    BY <1>10, <1>11, <1>12, <1>24, <1>25
  <2>2. PICK a \in 1..r : a = row[last]
    BY <1>17, <2>1
  <2>3. PICK b \in 1..Len(values[a]) : b = col[last] /\ values[a][b] = Dangerous
    BY <1>17, <2>1, <2>2
  <2>4. PICK line \in 1..l : line = pos[a] /\ lines[line].name = name /\ lines[line].value = values[a]
    BY <1>20, <2>2
  <2>5. ASSUME NEW m \in (b + 1)..Len(values[a]), values[a][m] \in AllKnown
        PROVE  FALSE
    <3>0. b \in Nat /\ Len(values[a]) \in Nat
      BY <1>20, <2>3
    <3>1. m \in 1..Len(values[a]) /\ ~(m <= b)
      BY <3>0
    <3>2. PICK i \in 1..n : row[i] = a /\ col[i] = m
      BY <1>19, <3>1
    <3>3. tokens[i] \in AllKnown
      BY <1>17, <2>5, <3>2
    <3>4. i <= last
      BY <2>1, <3>3
    <3>5. i # last
      BY <2>3, <3>0, <3>1, <3>2
    <3>6. i < last
      BY <1>9, <2>1, <3>4, <3>5
    <3>7. a < a \/ m < b
      BY <1>18, <2>1, <2>2, <2>3, <3>2, <3>6
    <3> QED
      BY <2>2, <3>0, <3>1, <3>7
  <2>6. ASSUME NEW j \in (line + 1)..l, lines[j].name = name, NEW word \in ToSet(lines[j].value), word \in AllKnown
        PROVE  FALSE
    <3>1. j \in 1..l /\ line < j
      BY <1>9, <2>4
    <3>2. PICK c \in 1..r : pos[c] = j
      BY <1>22, <2>6, <3>1
    <3>3. lines[j].value = values[c]
      BY <1>20, <3>2
    <3>4. PICK m \in 1..Len(values[c]) : word = values[c][m]
      BY <1>20, <2>6, <3>3 DEF ToSet
    <3>5. PICK i \in 1..n : row[i] = c /\ col[i] = m
      BY <1>19, <3>4
    <3>6. tokens[i] \in AllKnown
      BY <1>17, <2>6, <3>4, <3>5
    <3>7. i <= last
      BY <2>1, <3>6
    <3>8. c # a /\ ~(c < a)
      <4>1. ASSUME c < a
            PROVE  FALSE
        <5>1. pos[c] < pos[a]
          BY Zenon, <1>21, <2>2, <3>2, <4>1
        <5>2. j < line /\ j \in Nat /\ line \in Nat
          BY <1>9, <2>4, <3>1, <3>2, <5>1
        <5> QED
          BY <3>1, <5>2
      <4>2. c # a
        BY <1>9, <2>4, <3>1, <3>2
      <4> QED
        BY <4>1, <4>2
    <3>9. i # last
      BY <2>2, <3>5, <3>8
    <3>10. i < last
      BY <1>9, <2>1, <3>7, <3>9
    <3>11. c < a \/ c = a
      BY <1>18, <2>1, <2>2, <3>5, <3>10
    <3> QED
      BY <3>8, <3>11
  <2>7. \A j \in (line + 1)..l : lines[j].name = name => ToSet(lines[j].value) \cap AllKnown = {}
    BY <2>6
  <2>8. b \in DOMAIN values[a] /\ \A m \in (b + 1)..Len(values[a]) : values[a][m] \notin AllKnown
    BY <1>20, <2>5
  <2>9. \E k \in DOMAIN values[a] : /\ values[a][k] = Dangerous
                                    /\ \A m \in (k + 1)..Len(values[a]) : values[a][m] \notin AllKnown
    BY <2>3, <2>8
  <2>10. PICK value : value = values[a]
    OBVIOUS
  <2>11. /\ line \in DOMAIN response.lines /\ response.lines[line].name = "referrer-policy"
         /\ response.lines[line].value = value
    BY <1>1, <1>23, <2>4, <2>10
  <2>12. \A j \in (line + 1)..Len(response.lines) :
                response.lines[j].name = "referrer-policy" => ToSet(response.lines[j].value) \cap AllKnown = {}
    BY <1>1, <1>9, <2>7
  <2>13. \E k \in DOMAIN value : /\ value[k] = Dangerous
                                 /\ \A m \in (k + 1)..Len(value) : value[m] \notin AllKnown
    BY <2>9, <2>10
  <2> QED
    BY Zenon, <2>11, <2>12, <2>13 DEF SendsFullUrl
<1>26. ASSUME SendsFullUrl(response)
       PROVE  effective = Dangerous
  <2>1. PICK line \in 1..l :
            /\ lines[line].name = name
            /\ \E k \in DOMAIN lines[line].value :
                /\ lines[line].value[k] = Dangerous
                /\ \A m \in (k + 1)..Len(lines[line].value) : lines[line].value[m] \notin AllKnown
            /\ \A j \in (line + 1)..l : lines[j].name = name => ToSet(lines[j].value) \cap AllKnown = {}
    BY <1>1, <1>9, <1>23, <1>26 DEF SendsFullUrl
  <2>2. PICK a \in 1..r : pos[a] = line
    BY <1>22, <2>1
  <2>3. lines[line].value = values[a]
    BY <1>20, <2>2
  <2>4. PICK b \in 1..Len(values[a]) : /\ values[a][b] = Dangerous
                                       /\ \A m \in (b + 1)..Len(values[a]) : values[a][m] \notin AllKnown
    BY <1>20, <2>1, <2>3
  <2>5. PICK i \in 1..n : row[i] = a /\ col[i] = b
    BY <1>19, <2>4
  <2>6. tokens[i] = Dangerous
    BY <1>17, <2>4, <2>5
  <2>7. last \in 1..n /\ tokens[last] \in AllKnown /\ i <= last
    BY <1>13, <1>24, <2>6
  <2>8. ASSUME i # last
        PROVE  FALSE
    <3>1. i < last
      BY <1>9, <2>7, <2>8
    <3>2. a < row[last] \/ (a = row[last] /\ b < col[last])
      BY <1>18, <2>5, <2>7, <3>1
    <3>3. PICK c \in 1..r, m \in Nat : /\ c = row[last] /\ m = col[last] /\ m \in 1..Len(values[c])
                                     /\ tokens[last] = values[c][m]
      <4>1. row[last] \in 1..r /\ col[last] \in 1..Len(values[row[last]])
        BY <1>17, <2>7
      <4>2. Len(values[row[last]]) \in Nat
        BY <1>20, <4>1
      <4>3. col[last] \in Nat
        BY <4>1, <4>2
      <4> QED
        BY <1>17, <2>7, <4>1, <4>3
    <3>4. CASE a = c /\ b < m
      <4>1. Len(values[a]) \in Nat
        BY <1>20
      <4>2. m \in (b + 1)..Len(values[a])
        BY <2>4, <3>3, <3>4, <4>1
      <4> QED
        BY <2>4, <2>7, <3>3, <3>4, <4>2
    <3>5. CASE a < c
      <4>1. PICK j \in 1..l : j = pos[c] /\ lines[j].name = name /\ lines[j].value = values[c]
        BY <1>20, <3>3
      <4>2. line < j
        BY <1>21, <2>2, <3>3, <3>5, <4>1
      <4>3. j \in (line + 1)..l
        BY <1>9, <2>1, <4>1, <4>2
      <4>4. values[c][m] \in ToSet(lines[j].value)
        BY <1>20, <3>3, <4>1 DEF ToSet
      <4> QED
        BY <2>1, <2>7, <3>3, <4>1, <4>3, <4>4
    <3> QED
      BY <3>2, <3>3, <3>4, <3>5
  <2>9. last # 0
    BY <2>7
  <2> QED
    BY <1>10, <2>6, <2>8, <2>9
<1>27. Len(tokens) \in Nat
  BY <1>9
<1> QED
  BY <1>1, <1>14, <1>15, <1>16, <1>25, <1>26, <1>27

(* referrer.ts: it passes when the full address stays within the site, and *)
(* fails when it leaks.                                                    *)
LEMMA ReferrerFacts ==
    ASSUME NEW response, Sane(response), NEW outcome, outcome = RunReferrer(BuildContext(response))
    PROVE  /\ Graded(outcome)
           /\ outcome.status = "pass" => ~SendsFullUrl(response)
           /\ outcome.status = "fail" => SendsFullUrl(response)
           /\ Sends(response, "referrer-policy") = {} => outcome.findings = {"absent"}
<1>1. PICK context : context = BuildContext(response)
  OBVIOUS
<1>2. PICK tokens : tokens = ParseTokenList(All(context.headers, "referrer-policy"))
  OBVIOUS
<1>3. PICK effective : effective = Effective(tokens)
  OBVIOUS
<1>4. /\ effective = Null \/ effective \in AllKnown
      /\ tokens = <<>> => effective = Null
      /\ Sends(response, "referrer-policy") = {} => tokens = <<>>
      /\ effective = Dangerous <=> SendsFullUrl(response)
  BY <1>1, <1>2, <1>3, EffectiveFacts
<1>5. PICK found : found = {f \in {"manyValues"} : Len(tokens) > 1}
  OBVIOUS
<1>6. outcome = CASE tokens = <<>>                     -> Outcome("warn", 50, {"absent"})
                  [] tokens # <<>> /\ effective = Null -> Outcome("warn", 50, {"unknownValue"})
                  [] effective = Dangerous             -> Outcome("fail", 0, {"fullUrlLeaks"})
                  [] effective \in Weak                -> Outcome("warn", 60, {"originLeaks"})
                  [] OTHER                             -> Outcome("pass", 100, found)
  BY Zenon, <1>1, <1>2, <1>3, <1>5 DEF RunReferrer
<1>7. Null \notin AllKnown
  BY NullAssumption, WordsAssumption DEF NullAssumption, WordsAssumption
<1>8. Weak \subseteq AllKnown /\ Dangerous \in AllKnown /\ Dangerous \notin Weak
  BY DEF AllKnown, Weak, Dangerous
<1>9. /\ {"absent", "unknownValue", "fullUrlLeaks", "originLeaks"} \subseteq Findings
      /\ found \in SUBSET Findings
  BY <1>5 DEF Findings
<1>10. CASE tokens = <<>>
  <2>1. outcome = Outcome("warn", 50, {"absent"})
    BY <1>4, <1>6, <1>7, <1>8, <1>10
  <2>2. Graded(outcome) /\ outcome.status = "warn" /\ outcome.findings = {"absent"}
    BY <1>9, <2>1, OneFinding
  <2> QED
    BY <2>2
<1>11. CASE tokens # <<>> /\ effective = Null
  <2>1. outcome = Outcome("warn", 50, {"unknownValue"})
    BY <1>6, <1>7, <1>8, <1>11
  <2>2. Graded(outcome) /\ outcome.status = "warn"
    BY <1>9, <2>1, OneFinding
  <2> QED
    BY <1>4, <1>11, <2>2
<1>12. CASE effective = Dangerous
  <2>1. outcome = Outcome("fail", 0, {"fullUrlLeaks"})
    BY <1>4, <1>6, <1>7, <1>8, <1>12
  <2>2. Graded(outcome) /\ outcome.status = "fail"
    BY <1>9, <2>1, OneFinding
  <2> QED
    BY <1>4, <1>7, <1>8, <1>12, <2>2
<1>13. CASE effective \in Weak
  <2>1. outcome = Outcome("warn", 60, {"originLeaks"})
    BY <1>4, <1>6, <1>7, <1>8, <1>13
  <2>2. Graded(outcome) /\ outcome.status = "warn"
    BY <1>9, <2>1, OneFinding
  <2> QED
    BY <1>4, <1>7, <1>8, <1>13, <2>2
<1>14. CASE tokens # <<>> /\ effective # Null /\ effective # Dangerous /\ effective \notin Weak
  <2>1. outcome = Outcome("pass", 100, found)
    BY <1>6, <1>14
  <2>2. Graded(outcome) /\ outcome.status = "pass"
    BY <1>9, <2>1, OutcomeFacts
  <2> QED
    BY <1>4, <1>14, <2>2
<1> QED
  BY <1>10, <1>11, <1>12, <1>13, <1>14
=============================================================================
