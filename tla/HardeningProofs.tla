-------------------------- MODULE HardeningProofs --------------------------
(***************************************************************************)
(* The report of a site being hardened, for every number of headers, lines *)
(* and edits and every value a header may have: what the cards, the score  *)
(* and the briefing say is so, because whatever the owner did the report   *)
(* is the one analyze makes of a well formed response.                     *)
(***************************************************************************)
EXTENDS Hardening, CheckProofs

(* A line whose value is of its own kind.                                  *)
LinesOf(names) == UNION {[name : {name}, value : HeaderValues(name)] : name \in names}

(* A name with one of its values is a line.                                *)
LEMMA LinesFacts ==
    ASSUME NEW names, NEW name \in names, NEW value \in HeaderValues(name)
    PROVE  [name |-> name, value |-> value] \in LinesOf(names)
BY DEF LinesOf

(* A line has a name and one of its values.                                *)
LEMMA LineFacts ==
    ASSUME NEW names, NEW line \in LinesOf(names)
    PROVE  line.name \in names /\ line.value \in HeaderValues(line.name)
BY DEF LinesOf

(* Lists of values laid out as lines, the names in their order.            *)
Rows(names, bag) ==
    [i \in DOMAIN names |-> [j \in DOMAIN bag[names[i]] |-> [name |-> names[i], value |-> bag[names[i]][j]]]]

(* Lists of values of the right kind, under names listed once each.        *)
Listing(names, bag) ==
    /\ Len(names) \in Nat /\ DOMAIN names = 1..Len(names)
    /\ \A i \in DOMAIN names : bag[names[i]] \in Seq(HeaderValues(names[i]))
    /\ \A a, b \in DOMAIN names : names[a] = names[b] => a = b

(* The lines are well formed; each is a value of the bag and none is left  *)
(* out; a name with one value has one line.                                *)
LaidOut(names, bag, lines) ==
    /\ WellFormed(lines)
    /\ \A k \in 1..Len(lines) : \E i \in DOMAIN names : \E j \in 1..Len(bag[names[i]]) :
            lines[k].name = names[i] /\ lines[k].value = bag[names[i]][j]
    /\ \A i \in DOMAIN names : \A j \in 1..Len(bag[names[i]]) : \E k \in 1..Len(lines) :
            lines[k].name = names[i] /\ lines[k].value = bag[names[i]][j]
    /\ \A i \in DOMAIN names : Len(bag[names[i]]) <= 1 =>
            \A k, l \in 1..Len(lines) : lines[k].name = names[i] /\ lines[l].name = names[i] => k = l

(* The rows of a listing, one after the other, are laid out.               *)
LEMMA RowsFacts ==
    ASSUME NEW names, NEW bag, Listing(names, bag), NEW lines, lines = FlattenSeq(Rows(names, bag))
    PROVE  LaidOut(names, bag, lines)
<1>0. /\ Len(names) \in Nat /\ DOMAIN names = 1..Len(names)
      /\ \A i \in DOMAIN names : bag[names[i]] \in Seq(HeaderValues(names[i]))
  BY DEF Listing
<1>0a. \A a, b \in DOMAIN names : names[a] = names[b] => a = b
  BY DEF Listing
<1> DEFINE n == Len(names)
           rows == Rows(names, bag)
           Lines == LinesOf({names[i] : i \in 1..n})
<1>1. ASSUME NEW i \in 1..n
      PROVE  /\ bag[names[i]] \in Seq(HeaderValues(names[i]))
             /\ Len(bag[names[i]]) \in Nat /\ DOMAIN bag[names[i]] = 1..Len(bag[names[i]])
  BY <1>0
<1>2. rows = [i \in 1..n |-> [j \in 1..Len(bag[names[i]]) |-> [name |-> names[i], value |-> bag[names[i]][j]]]]
  BY <1>0, <1>1 DEF Rows
<1>3. ASSUME NEW i \in 1..n, NEW j \in 1..Len(bag[names[i]])
      PROVE  /\ rows[i][j] = [name |-> names[i], value |-> bag[names[i]][j]]
             /\ rows[i][j] \in Lines
  <2>1. rows[i][j] = [name |-> names[i], value |-> bag[names[i]][j]]
    BY <1>2
  <2>2. bag[names[i]][j] \in HeaderValues(names[i])
    BY <1>1, ElementOf
  <2>3. names[i] \in {names[m] : m \in 1..n}
    OBVIOUS
  <2>4. [name |-> names[i], value |-> bag[names[i]][j]] \in Lines
    BY <2>2, <2>3, LinesFacts
  <2> QED
    BY <2>1, <2>4
<1>4. ASSUME NEW i \in 1..n
      PROVE  rows[i] \in Seq(Lines) /\ Len(rows[i]) = Len(bag[names[i]])
  <2>1. PICK m \in Nat : m = Len(bag[names[i]])
    BY <1>1
  <2>2. rows[i] = [j \in 1..m |-> rows[i][j]]
    BY <1>2, <2>1
  <2>3. \A j \in 1..m : rows[i][j] \in Lines
    BY <1>3, <2>1
  <2> HIDE DEF rows, Lines
  <2>4. rows[i] \in [1..m -> Lines]
    BY <2>2, <2>3
  <2> QED
    BY <2>1, <2>4
<1>5. rows \in Seq(Seq(Lines)) /\ Len(rows) = n
  <2>1. DOMAIN rows = 1..n /\ rows = [i \in 1..n |-> rows[i]]
    BY <1>2
  <2>2. rows \in [1..n -> Seq(Lines)]
    <3> HIDE DEF rows, Lines
    <3> QED
      BY <1>4, <2>1
  <2> HIDE DEF rows, Lines
  <2> QED
    BY <2>2
<1> HIDE DEF rows, Lines
<1>6. lines \in Seq(Lines) /\ Listed(rows, n, lines)
  BY <1>5, FlattenFacts DEF rows
<1>7. PICK row \in [1..Len(lines) -> Nat], col \in [1..Len(lines) -> Nat] : Lists(rows, n, lines, row, col)
  BY <1>6 DEF Listed
<1>8. PICK m \in Nat : m = Len(lines) /\ DOMAIN lines = 1..m
  BY <1>6
<1>9. ASSUME NEW k \in 1..m
      PROVE  /\ row[k] \in 1..n /\ col[k] \in 1..Len(bag[names[row[k]]])
             /\ lines[k].name = names[row[k]] /\ lines[k].value = bag[names[row[k]]][col[k]]
  <2>1. row[k] \in 1..n /\ col[k] \in 1..Len(rows[row[k]]) /\ lines[k] = rows[row[k]][col[k]]
    BY <1>7, <1>8 DEF Lists
  <2>2. PICK i \in 1..n : i = row[k]
    BY <2>1
  <2>3. PICK j \in 1..Len(bag[names[i]]) : j = col[k]
    BY <1>4, <2>1, <2>2
  <2>4. lines[k] = [name |-> names[i], value |-> bag[names[i]][j]]
    BY <1>3, <2>1, <2>2, <2>3
  <2> QED
    BY <2>2, <2>3, <2>4
<1>10. ASSUME NEW k \in 1..m
       PROVE  lines[k].value \in HeaderValues(lines[k].name)
  <2>1. lines[k] \in Lines
    BY <1>6, <1>8, ElementOf
  <2> QED
    BY <2>1, LineFacts DEF Lines
<1>11. ASSUME NEW i \in 1..n, NEW j \in 1..Len(bag[names[i]])
       PROVE  \E k \in 1..m : lines[k].name = names[i] /\ lines[k].value = bag[names[i]][j]
  <2>1. j \in 1..Len(rows[i])
    BY <1>4
  <2>2. PICK k \in 1..m : row[k] = i /\ col[k] = j
    BY <1>7, <1>8, <2>1 DEF Lists
  <2> QED
    BY <1>9, <2>2
<1>12. ASSUME NEW k \in 1..m, NEW l \in 1..m, NEW i \in 1..n, lines[k].name = names[i], lines[l].name = names[i],
              Len(bag[names[i]]) <= 1, \A a, b \in 1..n : names[a] = names[b] => a = b
       PROVE  ~(k < l)
  <2>0. row[k] \in 1..n /\ names[row[k]] = names[i] /\ row[l] \in 1..n /\ names[row[l]] = names[i]
    BY <1>9, <1>12
  <2>1. row[k] = i /\ row[l] = i
    BY Zenon, <1>12, <2>0
  <2>2. Len(bag[names[i]]) \in Nat /\ col[k] \in 1..Len(bag[names[i]]) /\ col[l] \in 1..Len(bag[names[i]])
    BY <1>1, <1>9, <2>1
  <2>3. col[k] = 1 /\ col[l] = 1
    BY Zenon, <1>12, <2>2, OnlyOne
  <2>4. k < l => row[k] < row[l] \/ (row[k] = row[l] /\ col[k] < col[l])
    BY <1>7, <1>8 DEF Lists
  <2> QED
    BY <2>1, <2>3, <2>4
<1>13. WellFormed(lines)
  BY <1>8, <1>10 DEF WellFormed
<1>14. \A k \in 1..Len(lines) : \E i \in DOMAIN names : \E j \in 1..Len(bag[names[i]]) :
            lines[k].name = names[i] /\ lines[k].value = bag[names[i]][j]
  <2>1. ASSUME NEW k \in 1..m
        PROVE  \E i \in 1..n : \E j \in 1..Len(bag[names[i]]) :
                    lines[k].name = names[i] /\ lines[k].value = bag[names[i]][j]
    <3>1. PICK i \in 1..n : i = row[k]
      BY <1>9
    <3>2. PICK j \in 1..Len(bag[names[i]]) : j = col[k]
      BY <1>9, <3>1
    <3> QED
      BY Zenon, <1>9, <3>1, <3>2
  <2>2. 1..Len(lines) = 1..m /\ DOMAIN names = 1..n
    BY <1>0, <1>8
  <2> HIDE DEF n
  <2> QED
    BY Zenon, <2>1, <2>2
<1>15. \A i \in DOMAIN names : \A j \in 1..Len(bag[names[i]]) : \E k \in 1..Len(lines) :
            lines[k].name = names[i] /\ lines[k].value = bag[names[i]][j]
  BY <1>0, <1>8, <1>11
<1>16. ASSUME NEW i \in DOMAIN names, Len(bag[names[i]]) <= 1,
              NEW k \in 1..Len(lines), NEW l \in 1..Len(lines), lines[k].name = names[i], lines[l].name = names[i]
       PROVE  k = l
  <2>0. k \in 1..m /\ l \in 1..m /\ i \in 1..n /\ \A a, b \in 1..n : names[a] = names[b] => a = b
    BY <1>0, <1>0a, <1>8, <1>16
  <2>1. ~(k < l)
    BY <1>12, <1>16, <2>0
  <2>2. ~(l < k)
    BY <1>12, <1>16, <2>0
  <2> QED
    BY <1>8, <2>1, <2>2
<1> QED
  BY <1>13, <1>14, <1>15, <1>16 DEF LaidOut

-----------------------------------------------------------------------------
(* What a site may send: values of the right kind, one line of the headers *)
(* that are set rather than added to.                                      *)
Sendable(bag) ==
    /\ DOMAIN bag = ToSet(Names)
    /\ bag = [name \in ToSet(Names) |-> bag[name]]
    /\ \A name \in ToSet(Names) : bag[name] \in Seq(HeaderValues(name))
    /\ \A name \in ToSet(Names) \ Repeatable : Len(bag[name]) <= 1

(* The names the API sends are listed once each.                           *)
LEMMA NamesFacts ==
    /\ Len(Names) \in Nat /\ DOMAIN Names = 1..Len(Names)
    /\ ToSet(Names) = {Names[i] : i \in DOMAIN Names}
    /\ \A i, j \in DOMAIN Names : Names[i] = Names[j] => i = j
    /\ Repeatable \cup TelltaleHeaders \subseteq ToSet(Names)
BY HardeningAssumption DEF HardeningAssumption, ToSet

(* What the site sends is what the response holds.                         *)
LEMMA ResponseFacts ==
    ASSUME NEW bag, Sendable(bag), NEW secure \in BOOLEAN,
           NEW response, response = [https |-> secure, lines |-> WireLines(bag)]
    PROVE  /\ Sane(response) /\ response.https = secure /\ response.lines = WireLines(bag)
           /\ \A name : name \notin Repeatable => Single(response, name)
           /\ \A name \in ToSet(Names) : Sends(response, name) = {bag[name][j] : j \in 1..Len(bag[name])}
<1>1. PICK lines : lines = WireLines(bag)
  OBVIOUS
<1>2. response.lines = lines /\ response.https = secure
  BY <1>1
<1>3. lines = FlattenSeq(Rows(Names, bag))
  BY <1>1 DEF WireLines, Rows
<1>4. \A i \in DOMAIN Names : bag[Names[i]] \in Seq(HeaderValues(Names[i]))
  BY NamesFacts DEF Sendable
<1>5. LaidOut(Names, bag, lines)
  <2>1. Listing(Names, bag)
    BY <1>4, NamesFacts DEF Listing
  <2> QED
    BY Zenon, <1>3, <2>1, RowsFacts
<1>5a. /\ WellFormed(lines)
       /\ \A k \in 1..Len(lines) : \E i \in DOMAIN Names : \E j \in 1..Len(bag[Names[i]]) :
                lines[k].name = Names[i] /\ lines[k].value = bag[Names[i]][j]
  BY Zenon, <1>5 DEF LaidOut
<1>5b. \A i \in DOMAIN Names : \A j \in 1..Len(bag[Names[i]]) : \E k \in 1..Len(lines) :
                lines[k].name = Names[i] /\ lines[k].value = bag[Names[i]][j]
  BY Zenon, <1>5 DEF LaidOut
<1>5c. \A i \in DOMAIN Names : Len(bag[Names[i]]) <= 1 =>
            \A k, l \in 1..Len(lines) : lines[k].name = Names[i] /\ lines[l].name = Names[i] => k = l
  BY Zenon, <1>5 DEF LaidOut
<1>6. Sane(response)
  BY <1>2, <1>5a DEF Sane
<1>7. ASSUME NEW name, name \notin Repeatable, NEW k \in 1..Len(lines), NEW l \in 1..Len(lines),
             lines[k].name = name, lines[l].name = name
      PROVE  k = l
  <2>1. PICK i \in DOMAIN Names : lines[k].name = Names[i]
    BY <1>5a, <1>7
  <2>2. Len(bag[Names[i]]) <= 1
    BY <1>7, <2>1, NamesFacts DEF Sendable
  <2> QED
    BY <1>5c, <1>7, <2>1, <2>2
<1>8. \A name : name \notin Repeatable => Single(response, name)
  BY <1>2, <1>7 DEF Single
<1>9. ASSUME NEW name \in ToSet(Names)
      PROVE  Sends(response, name) = {bag[name][j] : j \in 1..Len(bag[name])}
  <2>1. PICK i \in DOMAIN Names : name = Names[i]
    BY NamesFacts
  <2>2. Sends(response, name) = {lines[k].value : k \in {l \in 1..Len(lines) : lines[l].name = name}}
    BY <1>2, <1>5a DEF Sends, WellFormed
  <2>3. ASSUME NEW k \in 1..Len(lines), lines[k].name = name
        PROVE  \E j \in 1..Len(bag[name]) : lines[k].value = bag[name][j]
    BY <1>5a, <2>3
  <2>4. ASSUME NEW j \in 1..Len(bag[name])
        PROVE  \E k \in 1..Len(lines) : lines[k].name = name /\ lines[k].value = bag[name][j]
    <3>1. j \in 1..Len(bag[Names[i]])
      BY Zenon, <2>1
    <3>2. PICK k \in 1..Len(lines) : lines[k].name = Names[i] /\ lines[k].value = bag[Names[i]][j]
      BY <1>5b, <3>1
    <3> QED
      BY Zenon, <2>1, <3>2
  <2>5. PICK values : values = bag[name]
    OBVIOUS
  <2>6. ASSUME NEW x
        PROVE  (\E k \in 1..Len(lines) : lines[k].name = name /\ x = lines[k].value)
                    <=> \E j \in 1..Len(values) : x = values[j]
    BY <2>3, <2>4, <2>5
  <2>7. ASSUME NEW x
        PROVE  x \in Sends(response, name) <=> x \in {values[j] : j \in 1..Len(values)}
    <3>1. x \in Sends(response, name) <=> \E k \in 1..Len(lines) : lines[k].name = name /\ x = lines[k].value
      BY <2>2
    <3>2. x \in {values[j] : j \in 1..Len(values)} <=> \E j \in 1..Len(values) : x = values[j]
      OBVIOUS
    <3> QED
      BY Zenon, <2>6, <3>1, <3>2
  <2>8. Sends(response, name) = {values[j] : j \in 1..Len(values)}
    BY Zenon, <2>7
  <2> QED
    BY Zenon, <2>5, <2>8
<1> QED
  BY <1>1, <1>2, <1>6, <1>8, <1>9

-----------------------------------------------------------------------------
(* registry.ts: there are seven checks.                                    *)
LEMMA IdsFacts ==
    /\ ToSet(CheckIds) = {"csp", "hsts", "frame-ancestors", "content-type-options", "referrer-policy",
                          "permissions-policy", "info-disclosure"}
    /\ IsFiniteSet(ToSet(CheckIds))
<1>1. PICK ids : ids = CheckIds
  OBVIOUS
<1>2. ToSet(CheckIds) = {ids[i] : i \in 1..7}
  BY <1>1 DEF ToSet, CheckIds
<1>3. IsFiniteSet({ids[i] : i \in 1..7})
  BY FiniteRange
<1>4. {ids[i] : i \in 1..7} = {"csp", "hsts", "frame-ancestors", "content-type-options", "referrer-policy",
                               "permissions-policy", "info-disclosure"}
  BY <1>1 DEF CheckIds
<1> QED
  BY <1>2, <1>3, <1>4

(* registry.ts: what they weigh, 100 together.                             *)
LEMMA WeightFacts ==
    /\ Definition("csp").weight = 30 /\ Definition("hsts").weight = 20
    /\ Definition("frame-ancestors").weight = 15 /\ Definition("content-type-options").weight = 10
    /\ Definition("referrer-policy").weight = 10 /\ Definition("permissions-policy").weight = 10
    /\ Definition("info-disclosure").weight = 5
<1>1. Definition("csp").weight = 30
  BY DEF Definition, CspCheck
<1>2. Definition("hsts").weight = 20
  BY DEF Definition, HstsCheck
<1>3. Definition("frame-ancestors").weight = 15
  BY DEF Definition, FramingCheck
<1>4. Definition("content-type-options").weight = 10
  BY DEF Definition, ContentTypeCheck
<1>5. Definition("referrer-policy").weight = 10
  BY DEF Definition, ReferrerCheck
<1>6. Definition("permissions-policy").weight = 10
  BY DEF Definition, PermissionsCheck
<1>7. Definition("info-disclosure").weight = 5
  BY DEF Definition, DisclosureCheck
<1> QED
  BY <1>1, <1>2, <1>3, <1>4, <1>5, <1>6, <1>7

(* registry.ts: what each of them runs.                                    *)
LEMMA RunFacts ==
    ASSUME NEW context
    PROVE  /\ Run("csp", context) = RunCsp(context) /\ Run("hsts", context) = RunHsts(context)
           /\ Run("frame-ancestors", context) = RunFraming(context)
           /\ Run("content-type-options", context) = RunContentType(context)
           /\ Run("referrer-policy", context) = RunReferrer(context)
           /\ Run("permissions-policy", context) = RunPermissions(context)
           /\ Run("info-disclosure", context) = RunDisclosure(context)
<1>1. Run("csp", context) = RunCsp(context)
  BY DEF Run
<1>2. Run("hsts", context) = RunHsts(context)
  BY DEF Run
<1>3. Run("frame-ancestors", context) = RunFraming(context)
  BY DEF Run
<1>4. Run("content-type-options", context) = RunContentType(context)
  BY DEF Run
<1>5. Run("referrer-policy", context) = RunReferrer(context)
  BY DEF Run
<1>6. Run("permissions-policy", context) = RunPermissions(context)
  BY DEF Run
<1>7. Run("info-disclosure", context) = RunDisclosure(context)
  BY DEF Run
<1> QED
  BY <1>1, <1>2, <1>3, <1>4, <1>5, <1>6, <1>7

-----------------------------------------------------------------------------
(* What keeps the report true: the site sends what can be sent, and the    *)
(* report is one analyze returns for it.                                   *)
HardeningInv ==
    /\ Sendable(sent)
    /\ https \in BOOLEAN
    /\ edits \in 0..MaxEdits
    /\ report \in Analyze(Response)

(* What a report shows of a check.                                         *)
Shows(shown, context, id) ==
    /\ shown.checks[id] = Run(id, context)
    /\ shown.points[id] = Points(id, shown.checks[id])
    /\ shown.observed[id] = Observed(id, context.headers)

(* The parts of a report.                                                  *)
LEMMA AnalyzeFacts ==
    ASSUME NEW response, NEW shown \in Analyze(response), NEW context, context = BuildContext(response)
    PROVE  /\ DOMAIN shown.checks = ToSet(CheckIds)
           /\ shown.checks = [id \in ToSet(CheckIds) |-> shown.checks[id]]
           /\ shown.points = [id \in ToSet(CheckIds) |-> shown.points[id]]
           /\ \A id \in ToSet(CheckIds) : Shows(shown, context, id)
           /\ shown.headers = response.lines
           /\ \E raw \in RoundedScores(Earned(shown.checks)) :
                shown.score = Capped(raw, context.isHttps) /\ shown.grade = GradeFor(shown.score)
<1>1. PICK outcomes : outcomes = [id \in ToSet(CheckIds) |-> Run(id, context)]
  OBVIOUS
<1>2. PICK points : points = [id \in ToSet(CheckIds) |-> Points(id, outcomes[id])]
  OBVIOUS
<1>3. PICK observed : observed = [id \in ToSet(CheckIds) |-> Observed(id, context.headers)]
  OBVIOUS
<1>4. \E raw \in RoundedScores(Earned(outcomes)) :
        shown = [score |-> Capped(raw, context.isHttps), grade |-> GradeFor(Capped(raw, context.isHttps)),
                 checks |-> outcomes, points |-> points, observed |-> observed,
                 headers |-> response.lines, insecureTransport |-> ~context.isHttps]
  BY Zenon, <1>1, <1>2, <1>3 DEF Analyze
<1>5. PICK raw \in RoundedScores(Earned(outcomes)) :
        shown = [score |-> Capped(raw, context.isHttps), grade |-> GradeFor(Capped(raw, context.isHttps)),
                 checks |-> outcomes, points |-> points, observed |-> observed,
                 headers |-> response.lines, insecureTransport |-> ~context.isHttps]
  BY Zenon, <1>4
<1>6. /\ shown.checks = outcomes /\ shown.points = points /\ shown.observed = observed
      /\ shown.headers = response.lines
      /\ shown.score = Capped(raw, context.isHttps) /\ shown.grade = GradeFor(Capped(raw, context.isHttps))
  BY <1>5
<1>7. DOMAIN outcomes = ToSet(CheckIds) /\ outcomes = [id \in ToSet(CheckIds) |-> outcomes[id]]
  BY <1>1
<1>7a. points = [id \in ToSet(CheckIds) |-> points[id]]
  BY <1>2
<1>8. \A id \in ToSet(CheckIds) : /\ outcomes[id] = Run(id, context)
                                  /\ points[id] = Points(id, outcomes[id])
                                  /\ observed[id] = Observed(id, context.headers)
  BY Zenon, <1>1, <1>2, <1>3
<1>9. \A id \in ToSet(CheckIds) : Shows(shown, context, id)
  BY Zenon, <1>6, <1>8 DEF Shows
<1> QED
  BY Zenon, <1>5, <1>6, <1>7, <1>7a, <1>9

(* The outcomes of a report are those of the seven checks.                 *)
LEMMA ChecksFacts ==
    ASSUME NEW response, NEW shown \in Analyze(response)
    PROVE  /\ DOMAIN shown.checks = ToSet(CheckIds)
           /\ shown.checks = [id \in ToSet(CheckIds) |-> shown.checks[id]]
           /\ shown.checks["csp"] = RunCsp(BuildContext(response))
           /\ shown.checks["hsts"] = RunHsts(BuildContext(response))
           /\ shown.checks["frame-ancestors"] = RunFraming(BuildContext(response))
           /\ shown.checks["content-type-options"] = RunContentType(BuildContext(response))
           /\ shown.checks["referrer-policy"] = RunReferrer(BuildContext(response))
           /\ shown.checks["permissions-policy"] = RunPermissions(BuildContext(response))
           /\ shown.checks["info-disclosure"] = RunDisclosure(BuildContext(response))
<1>1. PICK context : context = BuildContext(response)
  OBVIOUS
<1>2. PICK outcomes : outcomes = shown.checks
  OBVIOUS
<1>3. /\ DOMAIN shown.checks = ToSet(CheckIds)
      /\ shown.checks = [id \in ToSet(CheckIds) |-> shown.checks[id]]
      /\ \A id \in ToSet(CheckIds) : shown.checks[id] = Run(id, context)
  <2>1. DOMAIN shown.checks = ToSet(CheckIds)
    BY Zenon, <1>1, AnalyzeFacts
  <2>2. shown.checks = [id \in ToSet(CheckIds) |-> shown.checks[id]]
    BY <1>1, AnalyzeFacts
  <2>3. ASSUME NEW id \in ToSet(CheckIds)
        PROVE  shown.checks[id] = Run(id, context)
    <3>1. Shows(shown, context, id)
      BY <1>1, AnalyzeFacts
    <3> QED
      BY Zenon, <3>1 DEF Shows
  <2> QED
    BY <2>1, <2>2, <2>3
<1>4. /\ DOMAIN outcomes = ToSet(CheckIds)
      /\ outcomes = [id \in ToSet(CheckIds) |-> outcomes[id]]
      /\ \A id \in ToSet(CheckIds) : outcomes[id] = Run(id, context)
  BY <1>2, <1>3
<1>5. /\ outcomes["csp"] = Run("csp", context) /\ outcomes["hsts"] = Run("hsts", context)
      /\ outcomes["frame-ancestors"] = Run("frame-ancestors", context)
      /\ outcomes["content-type-options"] = Run("content-type-options", context)
      /\ outcomes["referrer-policy"] = Run("referrer-policy", context)
      /\ outcomes["permissions-policy"] = Run("permissions-policy", context)
      /\ outcomes["info-disclosure"] = Run("info-disclosure", context)
  BY <1>4, IdsFacts
<1> QED
  BY Zenon, <1>1, <1>2, <1>4, <1>5, RunFacts

(* What the cards of a report of a well formed response may say.  The ones *)
(* that read a single line of a header need there to be no second one.     *)
Speaks(response, shown) ==
    /\ DOMAIN shown.checks = ToSet(CheckIds)
    /\ \A id \in ToSet(CheckIds) : Graded(shown.checks[id])
    /\ shown.checks["csp"].status = "pass" => ~InlineScriptsRun(response) /\ ~AnyHostServesScripts(response)
    /\ shown.checks["csp"].status = "fail" => InlineScriptsRun(response)
    /\ shown.checks["hsts"].status = "pass" => HttpsFor(response, OneYear) /\ SubDomainsToo(response)
    /\ shown.checks["hsts"].status = "fail" => ~HttpsFor(response, OneDay)
    /\ shown.checks["frame-ancestors"].status = "pass" => ~AnySiteFrames(response)
    /\ shown.checks["frame-ancestors"].status = "fail" =>
            AnySiteFrames(response) \/ Cardinality(AncestorPolicies(response)) > 1
    /\ shown.checks["content-type-options"].status = "pass" => ~Sniffs(response)
    /\ shown.checks["content-type-options"].status = "fail" => Sniffs(response)
    /\ shown.checks["referrer-policy"].status = "pass" => ~SendsFullUrl(response)
    /\ shown.checks["referrer-policy"].status = "fail" => SendsFullUrl(response)
    /\ shown.checks["permissions-policy"].status = "pass" => \A f \in SensitiveFeatures : Denied(response, f)
    /\ shown.checks["permissions-policy"].status # "fail"
    /\ shown.checks["info-disclosure"].status = "pass" => ~NamesSoftware(response)
    /\ shown.checks["info-disclosure"].status # "fail"

(* With nothing sent under the headers it reads, a check finds them absent *)
(* and nothing else.                                                       *)
FindsNothing(response, shown) ==
    /\ (/\ Sends(response, "content-security-policy") = {}
        /\ Sends(response, "content-security-policy-report-only") = {}) => shown.checks["csp"].findings = {"absent"}
    /\ Sends(response, "strict-transport-security") = {} =>
            shown.checks["hsts"].findings \subseteq {"absent", "plainHttp"}
    /\ (/\ Sends(response, "x-frame-options") = {}
        /\ Sends(response, "content-security-policy") = {}) => shown.checks["frame-ancestors"].findings = {"absent"}
    /\ Sends(response, "x-content-type-options") = {} => shown.checks["content-type-options"].findings = {"absent"}
    /\ Sends(response, "referrer-policy") = {} => shown.checks["referrer-policy"].findings = {"absent"}
    /\ Sends(response, "permissions-policy") = {} => shown.checks["permissions-policy"].findings = {"absent"}
    /\ ~NamesSoftware(response) /\ Sends(response, "x-xss-protection") = {} =>
            shown.checks["info-disclosure"].findings = {}

(* The checks against what browsers do, one by one.                        *)
LEMMA ReportFacts ==
    ASSUME NEW response, Sane(response), response.https \in BOOLEAN,
           \A name : name \notin Repeatable => Single(response, name),
           NEW shown \in Analyze(response)
    PROVE  Speaks(response, shown) /\ FindsNothing(response, shown)
<1>1. Single(response, "x-content-type-options") /\ Single(response, "x-frame-options")
  BY DEF Repeatable
<1>2. /\ Graded(shown.checks["csp"])
      /\ shown.checks["csp"].status = "pass" => ~InlineScriptsRun(response) /\ ~AnyHostServesScripts(response)
      /\ shown.checks["csp"].status = "fail" => InlineScriptsRun(response)
      /\ (/\ Sends(response, "content-security-policy") = {}
          /\ Sends(response, "content-security-policy-report-only") = {}) => shown.checks["csp"].findings = {"absent"}
  <2>1. PICK outcome : outcome = shown.checks["csp"]
    OBVIOUS
  <2>2. outcome = RunCsp(BuildContext(response))
    BY Zenon, <2>1, ChecksFacts
  <2> QED
    BY <2>1, <2>2, CspFacts
<1>3. /\ Graded(shown.checks["hsts"])
      /\ shown.checks["hsts"].status = "pass" => HttpsFor(response, OneYear) /\ SubDomainsToo(response)
      /\ shown.checks["hsts"].status = "fail" => ~HttpsFor(response, OneDay)
      /\ Sends(response, "strict-transport-security") = {} =>
            shown.checks["hsts"].findings \subseteq {"absent", "plainHttp"}
  <2>1. PICK outcome : outcome = shown.checks["hsts"]
    OBVIOUS
  <2>2. outcome = RunHsts(BuildContext(response))
    BY Zenon, <2>1, ChecksFacts
  <2> QED
    BY <2>1, <2>2, HstsFacts
<1>4. /\ Graded(shown.checks["frame-ancestors"])
      /\ shown.checks["frame-ancestors"].status = "pass" => ~AnySiteFrames(response)
      /\ shown.checks["frame-ancestors"].status = "fail" =>
            AnySiteFrames(response) \/ Cardinality(AncestorPolicies(response)) > 1
      /\ (/\ Sends(response, "x-frame-options") = {}
          /\ Sends(response, "content-security-policy") = {}) => shown.checks["frame-ancestors"].findings = {"absent"}
  <2>1. PICK outcome : outcome = shown.checks["frame-ancestors"]
    OBVIOUS
  <2>2. outcome = RunFraming(BuildContext(response))
    BY Zenon, <2>1, ChecksFacts
  <2> QED
    BY <2>1, <2>2, <1>1, FramingFacts
<1>5. /\ Graded(shown.checks["content-type-options"])
      /\ shown.checks["content-type-options"].status = "pass" => ~Sniffs(response)
      /\ shown.checks["content-type-options"].status = "fail" => Sniffs(response)
      /\ Sends(response, "x-content-type-options") = {} => shown.checks["content-type-options"].findings = {"absent"}
  <2>1. PICK outcome : outcome = shown.checks["content-type-options"]
    OBVIOUS
  <2>2. outcome = RunContentType(BuildContext(response))
    BY Zenon, <2>1, ChecksFacts
  <2> QED
    BY <2>1, <2>2, <1>1, ContentTypeFacts
<1>6. /\ Graded(shown.checks["referrer-policy"])
      /\ shown.checks["referrer-policy"].status = "pass" => ~SendsFullUrl(response)
      /\ shown.checks["referrer-policy"].status = "fail" => SendsFullUrl(response)
      /\ Sends(response, "referrer-policy") = {} => shown.checks["referrer-policy"].findings = {"absent"}
  <2>1. PICK outcome : outcome = shown.checks["referrer-policy"]
    OBVIOUS
  <2>2. outcome = RunReferrer(BuildContext(response))
    BY Zenon, <2>1, ChecksFacts
  <2> QED
    BY <2>1, <2>2, ReferrerFacts
<1>7. /\ Graded(shown.checks["permissions-policy"])
      /\ shown.checks["permissions-policy"].status = "pass" => \A f \in SensitiveFeatures : Denied(response, f)
      /\ shown.checks["permissions-policy"].status # "fail"
      /\ Sends(response, "permissions-policy") = {} => shown.checks["permissions-policy"].findings = {"absent"}
  <2>1. PICK outcome : outcome = shown.checks["permissions-policy"]
    OBVIOUS
  <2>2. outcome = RunPermissions(BuildContext(response))
    BY Zenon, <2>1, ChecksFacts
  <2> QED
    BY <2>1, <2>2, PermissionsFacts
<1>8. /\ Graded(shown.checks["info-disclosure"])
      /\ shown.checks["info-disclosure"].status = "pass" => ~NamesSoftware(response)
      /\ shown.checks["info-disclosure"].status # "fail"
      /\ ~NamesSoftware(response) /\ Sends(response, "x-xss-protection") = {} => shown.checks["info-disclosure"].findings = {}
  <2>1. PICK outcome : outcome = shown.checks["info-disclosure"]
    OBVIOUS
  <2>2. outcome = RunDisclosure(BuildContext(response))
    BY Zenon, <2>1, ChecksFacts
  <2> QED
    BY <2>1, <2>2, DisclosureFacts
<1>9. DOMAIN shown.checks = ToSet(CheckIds)
  BY ChecksFacts
<1>10. \A id \in ToSet(CheckIds) : Graded(shown.checks[id])
  BY <1>2, <1>3, <1>4, <1>5, <1>6, <1>7, <1>8, IdsFacts
<1>11. Speaks(response, shown)
  BY Zenon, <1>2, <1>3, <1>4, <1>5, <1>6, <1>7, <1>8, <1>9, <1>10 DEF Speaks
<1>12. FindsNothing(response, shown)
  BY Zenon, <1>2, <1>3, <1>4, <1>5, <1>6, <1>7, <1>8 DEF FindsNothing
<1> QED
  BY <1>11, <1>12

(* The report the site is shown.                                           *)
LEMMA ShownFacts ==
    ASSUME HardeningInv
    PROVE  /\ Sane(Response) /\ Response.https = https /\ Response.lines = WireLines(sent)
           /\ \A name : name \notin Repeatable => Single(Response, name)
           /\ \A name \in ToSet(Names) : Sends(Response, name) = {sent[name][j] : j \in 1..Len(sent[name])}
           /\ Speaks(Response, report) /\ FindsNothing(Response, report)
<1>1. PICK response : response = Response
  OBVIOUS
<1>2. PICK bag : bag = sent
  OBVIOUS
<1>3. PICK secure \in BOOLEAN : secure = https
  BY DEF HardeningInv
<1>4. Sendable(bag) /\ response = [https |-> secure, lines |-> WireLines(bag)]
  BY Zenon, <1>1, <1>2, <1>3 DEF HardeningInv, Response
<1>5. /\ Sane(response) /\ response.https = secure /\ response.lines = WireLines(bag)
      /\ \A name : name \notin Repeatable => Single(response, name)
      /\ \A name \in ToSet(Names) : Sends(response, name) = {bag[name][j] : j \in 1..Len(bag[name])}
  BY <1>3, <1>4, ResponseFacts
<1>6. report \in Analyze(response) /\ response.https \in BOOLEAN
  BY Zenon, <1>1, <1>3, <1>5 DEF HardeningInv
<1>7. Speaks(response, report) /\ FindsNothing(response, report)
  BY Zenon, <1>5, <1>6, ReportFacts
<1>8. /\ Sane(Response) /\ Response.https = https /\ Response.lines = WireLines(sent)
      /\ \A name : name \notin Repeatable => Single(Response, name)
  BY Zenon, <1>1, <1>2, <1>3, <1>5
<1>9. \A name \in ToSet(Names) : Sends(Response, name) = {sent[name][j] : j \in 1..Len(sent[name])}
  BY <1>1, <1>2, <1>5
<1> QED
  BY Zenon, <1>1, <1>7, <1>8, <1>9

(* What a passing card claims is what browsers do.                         *)
LEMMA PassedIsProtected == HardeningInv => PassMeansProtected
BY Zenon, ShownFacts DEF PassMeansProtected, Speaks, Status

(* A card that fails stands for an attack that works.                      *)
LEMMA FailedIsExposed == HardeningInv => FailMeansExposed
BY Zenon, ShownFacts DEF FailMeansExposed, Speaks, Status

(* A card that withholds points has findings.                              *)
LEMMA LostIsExplained == HardeningInv => LostPointsAreExplained
BY Zenon, ShownFacts DEF LostPointsAreExplained, Speaks, Graded, Ratio

-----------------------------------------------------------------------------
Seven == {"csp", "hsts", "frame-ancestors", "content-type-options", "referrer-policy", "permissions-policy",
          "info-disclosure"}

(* A sum over the checks has seven terms.                                  *)
LEMMA SevenTerms ==
    ASSUME NEW costs \in [Seven -> Nat]
    PROVE  Cost(costs, Seven) = costs["csp"] + costs["hsts"] + costs["frame-ancestors"]
                + costs["content-type-options"] + costs["referrer-policy"] + costs["permissions-policy"]
                + costs["info-disclosure"]
<1>1. IsFiniteSet(Seven)
  <2>1. ToSet(CheckIds) = Seven
    BY IdsFacts DEF Seven
  <2> QED
    BY Zenon, <2>1, IdsFacts
<1>2. ASSUME NEW F \in SUBSET Seven, NEW x \in F
      PROVE  Cost(costs, F) = costs[x] + Cost(costs, F \ {x})
  BY <1>1, CostBounds
<1>3. Cost(costs, {}) = 0
  BY <1>1, CostBounds
<1>4. PICK six : six = {"hsts", "frame-ancestors", "content-type-options", "referrer-policy", "permissions-policy", "info-disclosure"}
  OBVIOUS
<1>5. six \in SUBSET Seven /\ "csp" \in Seven /\ Seven \ {"csp"} = six
  BY <1>4 DEF Seven
<1>6. Cost(costs, Seven) = costs["csp"] + Cost(costs, six)
  BY <1>2, <1>5
<1>7. PICK five : five = {"frame-ancestors", "content-type-options", "referrer-policy", "permissions-policy", "info-disclosure"}
  OBVIOUS
<1>8. six \in SUBSET Seven /\ "hsts" \in six /\ six \ {"hsts"} = five
  BY <1>4, <1>7 DEF Seven
<1>9. Cost(costs, six) = costs["hsts"] + Cost(costs, five)
  BY <1>2, <1>8
<1>10. PICK four : four = {"content-type-options", "referrer-policy", "permissions-policy", "info-disclosure"}
  OBVIOUS
<1>11. five \in SUBSET Seven /\ "frame-ancestors" \in five /\ five \ {"frame-ancestors"} = four
  BY <1>7, <1>10 DEF Seven
<1>12. Cost(costs, five) = costs["frame-ancestors"] + Cost(costs, four)
  BY <1>2, <1>11
<1>13. PICK three : three = {"referrer-policy", "permissions-policy", "info-disclosure"}
  OBVIOUS
<1>14. four \in SUBSET Seven /\ "content-type-options" \in four /\ four \ {"content-type-options"} = three
  BY <1>10, <1>13 DEF Seven
<1>15. Cost(costs, four) = costs["content-type-options"] + Cost(costs, three)
  BY <1>2, <1>14
<1>16. PICK two : two = {"permissions-policy", "info-disclosure"}
  OBVIOUS
<1>17. three \in SUBSET Seven /\ "referrer-policy" \in three /\ three \ {"referrer-policy"} = two
  BY <1>13, <1>16 DEF Seven
<1>18. Cost(costs, three) = costs["referrer-policy"] + Cost(costs, two)
  BY <1>2, <1>17
<1>19. PICK one : one = {"info-disclosure"}
  OBVIOUS
<1>20. two \in SUBSET Seven /\ "permissions-policy" \in two /\ two \ {"permissions-policy"} = one
  BY <1>16, <1>19 DEF Seven
<1>21. Cost(costs, two) = costs["permissions-policy"] + Cost(costs, one)
  BY <1>2, <1>20
<1>22. PICK none : none = {}
  OBVIOUS
<1>23. one \in SUBSET Seven /\ "info-disclosure" \in one /\ one \ {"info-disclosure"} = none
  BY <1>19, <1>22 DEF Seven
<1>24. Cost(costs, one) = costs["info-disclosure"] + Cost(costs, none)
  BY <1>2, <1>23
<1>25. Cost(costs, none) = 0
  BY <1>3, <1>22
<1>26. /\ costs["csp"] \in Nat /\ costs["hsts"] \in Nat /\ costs["frame-ancestors"] \in Nat
       /\ costs["content-type-options"] \in Nat /\ costs["referrer-policy"] \in Nat
       /\ costs["permissions-policy"] \in Nat /\ costs["info-disclosure"] \in Nat
  BY DEF Seven
<1> QED
  BY <1>6, <1>9, <1>12, <1>15, <1>18, <1>21, <1>24, <1>25, <1>26

(* What is earned is the sum of what the checks earn.                      *)
LEMMA EarnedFacts ==
    ASSUME NEW outcomes, DOMAIN outcomes = Seven, NEW earns \in [Seven -> Nat],
           \A id \in Seven : earns[id] = outcomes[id].ratio * Definition(id).weight
    PROVE  Earned(outcomes) = Cost(earns, Seven)
<1>1. IsFiniteSet(Seven)
  <2>1. ToSet(CheckIds) = Seven
    BY IdsFacts DEF Seven
  <2> QED
    BY Zenon, <2>1, IdsFacts
<1> DEFINE Total(g) == g = [s \in SUBSET Seven |->
                IF s = {} THEN 0
                ELSE outcomes[CHOOSE x \in s : TRUE].ratio * Definition(CHOOSE x \in s : TRUE).weight
                     + g[s \ {CHOOSE x \in s : TRUE}]]
<1>2. \A g : Total(g) <=> Sums(Seven, earns, g)
  <2>1. \A s \in SUBSET Seven : s # {} =>
            earns[CHOOSE x \in s : TRUE]
                = outcomes[CHOOSE x \in s : TRUE].ratio * Definition(CHOOSE x \in s : TRUE).weight
    <3>1. \A s \in SUBSET Seven : s # {} => (CHOOSE x \in s : TRUE) \in Seven
      OBVIOUS
    <3> QED
      BY <3>1
  <2> QED
    BY <2>1 DEF Sums
<1>3. Earned(outcomes) = (CHOOSE g : Total(g))[Seven]
  BY Zenon DEF Earned, MapThenSumSet, MapThenFoldSet
<1> HIDE DEF Total
<1>4. PICK g : g = CHOOSE h : Total(h)
  OBVIOUS
<1>5. \E h : Sums(Seven, earns, h)
  BY <1>1, SumExists
<1>6. Sums(Seven, earns, g)
  BY <1>2, <1>4, <1>5
<1>7. Cost(earns, Seven) = g[Seven]
  BY <1>1, <1>6, CostFacts
<1> QED
  BY <1>3, <1>4, <1>7

(* Rounding loses at most half a unit.                                     *)
LEMMA PointsRound ==
    ASSUME NEW earned \in Nat
    PROVE  (earned + 5) \div 10 \in Nat /\ 10 * ((earned + 5) \div 10) - earned \in -5..5
OBVIOUS

Earnings == 0..10000
RoundsTo(earned, raw) == raw \in 0..100 /\ 100 * raw - earned \in -50..50

(* analyze.ts: the score is what was earned, rounded either way at one     *)
(* half.                                                                   *)
LEMMA ScoreRounds ==
    ASSUME NEW earned \in Earnings, NEW raw \in RoundedScores(earned)
    PROVE  RoundsTo(earned, raw)
<1>1. raw = (earned + 50) \div 100 \/ (raw = earned \div 100 /\ earned % 100 = 50)
  BY DEF RoundedScores
<1>2. CASE raw = (earned + 50) \div 100
  BY <1>2 DEF Earnings, RoundsTo
<1>3. CASE raw = earned \div 100 /\ earned % 100 = 50
  BY <1>3 DEF Earnings, RoundsTo
<1> QED
  BY <1>1, <1>2, <1>3

(* The tenths of points of a check beside the hundredths it earned.        *)
Rounds(earns, points) == earns \in Nat /\ points \in Nat /\ 10 * points - earns \in -5..5

(* analyze.ts: the points of a card are what it earned, rounded.           *)
LEMMA CheckRounds ==
    ASSUME NEW outcome, Graded(outcome), NEW id \in Seven
    PROVE  /\ Definition(id).weight \in 0..30
           /\ outcome.ratio * Definition(id).weight \in 0..(100 * Definition(id).weight)
           /\ Rounds(outcome.ratio * Definition(id).weight, Points(id, outcome))
           /\ Points(id, outcome) \in 0..(10 * Definition(id).weight)
<1>1. PICK ratio \in 0..100 : ratio = outcome.ratio
  BY DEF Graded
<1>2. PICK weight \in {30, 20, 15, 10, 5} : weight = Definition(id).weight
  BY WeightFacts DEF Seven
<1>3. ratio * weight \in 0..(100 * weight)
  BY <1>1, <1>2
<1>4. PICK earned \in 0..(100 * weight) : earned = ratio * weight
  BY <1>3
<1>5. Points(id, outcome) = (earned + 5) \div 10
  BY Zenon, <1>1, <1>2, <1>4 DEF Points
<1>6. earned \in Nat /\ (earned + 5) \div 10 \in 0..(10 * weight)
  BY <1>2, <1>4
<1>7. Rounds(earned, (earned + 5) \div 10)
  BY <1>6, PointsRound DEF Rounds
<1> QED
  BY <1>1, <1>2, <1>3, <1>4, <1>5, <1>6, <1>7

(* Eight roundings: seven numbers of points and the score.                 *)
LEMMA EightRoundings ==
    ASSUME NEW e1, NEW e2, NEW e3, NEW e4, NEW e5, NEW e6, NEW e7,
           NEW p1, NEW p2, NEW p3, NEW p4, NEW p5, NEW p6, NEW p7,
           Rounds(e1, p1), Rounds(e2, p2), Rounds(e3, p3), Rounds(e4, p4), Rounds(e5, p5), Rounds(e6, p6),
           Rounds(e7, p7), NEW raw \in Nat, 100 * raw - (e1 + e2 + e3 + e4 + e5 + e6 + e7) \in -50..50
    PROVE  10 * raw - (p1 + p2 + p3 + p4 + p5 + p6 + p7) \in -8..8
BY DEF Rounds

(* What the checks can earn.                                               *)
Within(e1, e2, e3, e4, e5, e6, e7) ==
    /\ e1 \in 0..3000 /\ e2 \in 0..2000 /\ e3 \in 0..1500 /\ e4 \in 0..1000
    /\ e5 \in 0..1000 /\ e6 \in 0..1000 /\ e7 \in 0..500

(* The seven checks earn at most 100 points.                               *)
LEMMA TenThousand ==
    ASSUME NEW e1, NEW e2, NEW e3, NEW e4, NEW e5, NEW e6, NEW e7, Within(e1, e2, e3, e4, e5, e6, e7)
    PROVE  e1 + e2 + e3 + e4 + e5 + e6 + e7 \in Earnings
<1>1. e1 \in 0..3000 /\ e2 \in 0..2000
  BY DEF Within
<1>2. e3 \in 0..1500 /\ e4 \in 0..1000
  BY DEF Within
<1>3. e5 \in 0..1000 /\ e6 \in 0..1000
  BY DEF Within
<1>4. e7 \in 0..500
  BY DEF Within
<1>5. PICK s2 : s2 = e1 + e2
  OBVIOUS
<1>6. PICK s4 : s4 = s2 + e3 + e4
  OBVIOUS
<1>7. PICK s6 : s6 = s4 + e5 + e6
  OBVIOUS
<1>8. s2 \in 0..5000
  BY <1>1, <1>5
<1>9. s4 \in 0..7500
  BY <1>2, <1>6, <1>8
<1>10. s6 \in 0..9500
  BY <1>3, <1>7, <1>9
<1>11. s6 + e7 \in Earnings
  BY <1>4, <1>10 DEF Earnings
<1>12. s6 = e1 + e2 + e3 + e4 + e5 + e6
  BY Zenon, <1>5, <1>6, <1>7
<1> QED
  BY Zenon, <1>11, <1>12

(* A check earns at most its weight.                                       *)
LEMMA EarnsUpTo ==
    ASSUME NEW earns, \A id \in Seven : earns[id] \in 0..(100 * Definition(id).weight),
           NEW id \in Seven, NEW weight \in Nat, Definition(id).weight = weight
    PROVE  \E earned \in 0..(100 * weight) : earned = earns[id]
OBVIOUS

(* What the seven checks earn, in their order.                             *)
LEMMA EarnsWithin ==
    ASSUME NEW earns, \A id \in Seven : earns[id] \in 0..(100 * Definition(id).weight)
    PROVE  Within(earns["csp"], earns["hsts"], earns["frame-ancestors"], earns["content-type-options"],
                  earns["referrer-policy"], earns["permissions-policy"], earns["info-disclosure"])
<1>1. PICK e1 \in 0..(100 * 30) : e1 = earns["csp"]
  <2>1. "csp" \in Seven /\ Definition("csp").weight = 30
    BY WeightFacts DEF Seven
  <2> QED
    BY Zenon, <2>1, EarnsUpTo
<1>2. PICK e2 \in 0..(100 * 20) : e2 = earns["hsts"]
  <2>1. "hsts" \in Seven /\ Definition("hsts").weight = 20
    BY WeightFacts DEF Seven
  <2> QED
    BY Zenon, <2>1, EarnsUpTo
<1>3. PICK e3 \in 0..(100 * 15) : e3 = earns["frame-ancestors"]
  <2>1. "frame-ancestors" \in Seven /\ Definition("frame-ancestors").weight = 15
    BY WeightFacts DEF Seven
  <2> QED
    BY Zenon, <2>1, EarnsUpTo
<1>4. PICK e4 \in 0..(100 * 10) : e4 = earns["content-type-options"]
  <2>1. "content-type-options" \in Seven /\ Definition("content-type-options").weight = 10
    BY WeightFacts DEF Seven
  <2> QED
    BY Zenon, <2>1, EarnsUpTo
<1>5. PICK e5 \in 0..(100 * 10) : e5 = earns["referrer-policy"]
  <2>1. "referrer-policy" \in Seven /\ Definition("referrer-policy").weight = 10
    BY WeightFacts DEF Seven
  <2> QED
    BY Zenon, <2>1, EarnsUpTo
<1>6. PICK e6 \in 0..(100 * 10) : e6 = earns["permissions-policy"]
  <2>1. "permissions-policy" \in Seven /\ Definition("permissions-policy").weight = 10
    BY WeightFacts DEF Seven
  <2> QED
    BY Zenon, <2>1, EarnsUpTo
<1>7. PICK e7 \in 0..(100 * 5) : e7 = earns["info-disclosure"]
  <2>1. "info-disclosure" \in Seven /\ Definition("info-disclosure").weight = 5
    BY WeightFacts DEF Seven
  <2> QED
    BY Zenon, <2>1, EarnsUpTo
<1>8. Within(e1, e2, e3, e4, e5, e6, e7)
  BY DEF Within
<1> QED
  BY Zenon, <1>1, <1>2, <1>3, <1>4, <1>5, <1>6, <1>7, <1>8

(* The score is what the checks earned, and 100 if they earned everything. *)
LEMMA ScoreFacts ==
    ASSUME HardeningInv
    PROVE  /\ report.score \in 0..100
           /\ \A id \in ToSet(CheckIds) : report.points[id] \in 0..(10 * Definition(id).weight)
           /\ ScoreIsExplained
<1>1. PICK response : response = Response
  OBVIOUS
<1>2. PICK context : context = BuildContext(response)
  OBVIOUS
<1>3. report \in Analyze(response) /\ response.https = https
  BY Zenon, <1>1, ShownFacts DEF HardeningInv
<1>4. ToSet(CheckIds) = Seven
  BY IdsFacts DEF Seven
<1>5. PICK outcomes : outcomes = report.checks
  OBVIOUS
<1>6. DOMAIN outcomes = Seven /\ \A id \in Seven : Graded(outcomes[id])
  BY Zenon, <1>4, <1>5, ShownFacts DEF Speaks
<1> DEFINE earns == [id \in Seven |-> outcomes[id].ratio * Definition(id).weight]
           total == Cost(report.points, Seven)
<1>7. \A id \in Seven : report.points[id] = Points(id, outcomes[id])
  BY Zenon, <1>2, <1>3, <1>4, <1>5, AnalyzeFacts DEF Shows
<1>8. \A id \in Seven : /\ earns[id] \in 0..(100 * Definition(id).weight)
                        /\ Rounds(earns[id], report.points[id])
                        /\ report.points[id] \in 0..(10 * Definition(id).weight)
  BY <1>6, <1>7, CheckRounds
<1>9. /\ earns \in [Seven -> Nat]
      /\ \A id \in Seven : earns[id] = outcomes[id].ratio * Definition(id).weight
  BY <1>8 DEF Rounds
<1> HIDE DEF earns
<1>10. PICK points : points = report.points
  OBVIOUS
<1>11. points = [id \in Seven |-> points[id]] /\ \A id \in Seven : Rounds(earns[id], points[id])
  <2>1. report.points = [id \in Seven |-> report.points[id]]
    BY <1>2, <1>3, <1>4, AnalyzeFacts
  <2> QED
    BY <1>8, <1>10, <2>1
<1>12. points \in [Seven -> Nat]
  BY <1>11 DEF Rounds
<1>13. PICK sum : sum = Cost(points, Seven)
  OBVIOUS
<1>14. sum = points["csp"] + points["hsts"] + points["frame-ancestors"]
                + points["content-type-options"] + points["referrer-policy"] + points["permissions-policy"]
                + points["info-disclosure"]
  BY Zenon, <1>12, <1>13, SevenTerms
<1>15. PICK earned : earned = Earned(outcomes)
  OBVIOUS
<1>16. earned = earns["csp"] + earns["hsts"] + earns["frame-ancestors"]
                + earns["content-type-options"] + earns["referrer-policy"] + earns["permissions-policy"]
                + earns["info-disclosure"]
  BY Zenon, <1>6, <1>9, <1>15, SevenTerms, EarnedFacts
<1>17. Within(earns["csp"], earns["hsts"], earns["frame-ancestors"], earns["content-type-options"],
              earns["referrer-policy"], earns["permissions-policy"], earns["info-disclosure"])
  <2>1. \A id \in Seven : earns[id] \in 0..(100 * Definition(id).weight)
    BY <1>8
  <2> QED
    BY Zenon, <2>1, EarnsWithin
<1>18. earned \in Earnings
  BY Zenon, <1>16, <1>17, TenThousand
<1>19. PICK raw \in RoundedScores(earned) :
            report.score = Capped(raw, context.isHttps) /\ report.grade = GradeFor(report.score)
  BY Zenon, <1>2, <1>3, <1>5, <1>15, AnalyzeFacts
<1>20. raw \in 0..100 /\ 100 * raw - earned \in -50..50
  <2>1. RoundsTo(earned, raw)
    BY Zenon, <1>18, <1>19, ScoreRounds
  <2> QED
    BY <2>1 DEF RoundsTo
<1>21. context.isHttps = https /\ https \in BOOLEAN
  BY <1>2, <1>3, ContextFacts DEF HardeningInv
<1>22. CASE https
  <2>1. report.score = raw
    BY <1>19, <1>21, <1>22 DEF Capped
  <2>2. 10 * raw - sum \in -8..8
    <3>1. /\ Rounds(earns["csp"], points["csp"]) /\ Rounds(earns["hsts"], points["hsts"])
          /\ Rounds(earns["frame-ancestors"], points["frame-ancestors"])
          /\ Rounds(earns["content-type-options"], points["content-type-options"])
          /\ Rounds(earns["referrer-policy"], points["referrer-policy"])
          /\ Rounds(earns["permissions-policy"], points["permissions-policy"])
          /\ Rounds(earns["info-disclosure"], points["info-disclosure"])
      BY <1>11 DEF Seven
    <3>2. raw \in Nat
      BY <1>20
    <3> QED
      BY <1>14, <1>16, <1>20, <3>1, <3>2, EightRoundings
  <2>3. ScoreIsExplained
    <3>1. sum = Cost(report.points, ToSet(CheckIds))
      BY Zenon, <1>4, <1>10, <1>13
    <3>2. sum = MapThenSumSet(LAMBDA id : report.points[id], ToSet(CheckIds))
      BY Zenon, <3>1 DEF Cost
    <3> QED
      BY Zenon, <1>22, <2>1, <2>2, <3>2 DEF ScoreIsExplained
  <2>4. report.score \in 0..100
    BY <1>20, <2>1
  <2> QED
    BY <1>4, <1>8, <2>3, <2>4
<1>23. CASE ~https
  <2>1. report.score = Min({raw, 45})
    BY <1>19, <1>21, <1>23 DEF Capped, InsecureTransportCap
  <2>2. report.score \in 0..45
    <3>1. {raw, 45} \subseteq Nat /\ {raw, 45} # {}
      BY <1>20
    <3>2. Min({raw, 45}) \in {raw, 45} /\ Min({raw, 45}) <= 45
      BY <3>1, MinFacts
    <3> QED
      BY <1>20, <2>1, <3>2
  <2>3. report.grade = "F"
    BY <1>19, <2>2 DEF GradeFor
  <2>4. ScoreIsExplained
    <3>1. report.score <= InsecureTransportCap
      BY <2>2 DEF InsecureTransportCap
    <3> QED
      BY Zenon, <1>23, <2>3, <3>1 DEF ScoreIsExplained
  <2>5. report.score \in 0..100
    BY <2>2
  <2> QED
    BY <1>4, <1>8, <2>4, <2>5
<1> QED
  BY <1>21, <1>22, <1>23

-----------------------------------------------------------------------------
(* The headers a card shows are listed once each.                          *)
Distinct(names) ==
    /\ Len(names) \in Nat /\ DOMAIN names = 1..Len(names)
    /\ \A a, b \in DOMAIN names : names[a] = names[b] => a = b

(* A single name is not repeated.                                          *)
LEMMA OneName == ASSUME NEW x PROVE Distinct(<<x>>)
BY DEF Distinct

(* Two different names.                                                    *)
LEMMA TwoNames == ASSUME NEW x, NEW y, x # y PROVE Distinct(<<x, y>>)
BY DEF Distinct

(* The names the disclosure card shows.                                    *)
LEMMA FiveNames ==
    Distinct(<<"server", "x-powered-by", "x-aspnet-version", "x-generator", "x-xss-protection">>)
BY DEF Distinct

(* registry.ts: no card lists a header twice.                              *)
LEMMA ObservedNames == ASSUME NEW id \in Seven PROVE Distinct(Definition(id).observed)
<1>1. CASE id = "csp"
  BY <1>1, TwoNames DEF Definition, CspCheck
<1>2. CASE id = "hsts"
  BY <1>2, OneName DEF Definition, HstsCheck
<1>3. CASE id = "frame-ancestors"
  BY <1>3, TwoNames DEF Definition, FramingCheck
<1>4. CASE id = "content-type-options"
  BY <1>4, OneName DEF Definition, ContentTypeCheck
<1>5. CASE id = "referrer-policy"
  BY <1>5, OneName DEF Definition, ReferrerCheck
<1>6. CASE id = "permissions-policy"
  BY <1>6, TwoNames DEF Definition, PermissionsCheck
<1>7. CASE id = "info-disclosure"
  BY <1>7, FiveNames DEF Definition, DisclosureCheck
<1> QED
  BY <1>1, <1>2, <1>3, <1>4, <1>5, <1>6, <1>7 DEF Seven

(* A card shows what was sent under its names.                             *)
LEMMA ObservedFacts ==
    ASSUME NEW response, Sane(response), NEW context, context = BuildContext(response), NEW id \in Seven,
           NEW lines, lines = Observed(id, context.headers), NEW names, names = Definition(id).observed
    PROVE  /\ WellFormed(lines)
           /\ lines = <<>> => \A i \in DOMAIN names : Sends(response, names[i]) = {}
<1>1. Distinct(names)
  BY ObservedNames
<1>2. PICK n \in Nat : n = Len(names) /\ DOMAIN names = 1..n
  BY <1>1 DEF Distinct
<1>3. PICK headers : headers = context.headers
  OBVIOUS
<1> DEFINE bag == [name \in {names[i] : i \in 1..n} |-> All(headers, name)]
<1>4. \A i \in 1..n : bag[names[i]] = All(headers, names[i])
  OBVIOUS
<1> HIDE DEF bag
<1>5. ASSUME NEW i \in 1..n
      PROVE  /\ bag[names[i]] \in Seq(HeaderValues(names[i]))
             /\ Sends(response, names[i]) = {bag[names[i]][j] : j \in 1..Len(bag[names[i]])}
  <2>1. PICK name, values : name = names[i] /\ values = bag[names[i]]
    OBVIOUS
  <2>2. values = All(context.headers, name)
    BY <1>3, <1>4, <2>1
  <2>3. values \in Seq(HeaderValues(name)) /\ Sends(response, name) = {values[j] : j \in 1..Len(values)}
    BY <2>2, AllRead
  <2> QED
    BY <2>1, <2>3
<1>6. Listing(names, bag)
  BY <1>1, <1>2, <1>5 DEF Listing, Distinct
<1>7. lines = FlattenSeq(Rows(names, bag))
  <2>1. lines = FlattenSeq([i \in DOMAIN names |->
                    [j \in DOMAIN All(headers, names[i]) |-> [name |-> names[i], value |-> All(headers, names[i])[j]]]])
    BY Zenon, <1>3 DEF Observed
  <2>2. Rows(names, bag) = [i \in DOMAIN names |->
                    [j \in DOMAIN All(headers, names[i]) |-> [name |-> names[i], value |-> All(headers, names[i])[j]]]]
    BY <1>2, <1>4 DEF Rows
  <2> QED
    BY Zenon, <2>1, <2>2
<1>8. LaidOut(names, bag, lines)
  BY Zenon, <1>6, <1>7, RowsFacts
<1>9. WellFormed(lines)
  BY Zenon, <1>8 DEF LaidOut
<1>10. ASSUME lines = <<>>, NEW i \in 1..n
       PROVE  Sends(response, names[i]) = {}
  <2>1. \A j \in 1..Len(bag[names[i]]) : \E k \in 1..Len(lines) : TRUE
    BY <1>2, <1>8 DEF LaidOut
  <2>2. Len(lines) = 0
    BY <1>10
  <2>3. ~ \E j : j \in 1..Len(bag[names[i]])
    BY <2>1, <2>2
  <2>4. Sends(response, names[i]) = {bag[names[i]][j] : j \in 1..Len(bag[names[i]])}
    BY <1>5
  <2> QED
    BY Zenon, <2>3, <2>4
<1> QED
  BY <1>2, <1>9, <1>10

(* With no line on its card a check found nothing but absence.             *)
LEMMA CardsShow ==
    ASSUME HardeningInv
    PROVE  CardShowsWhatItRead
<1>1. PICK response : response = Response
  OBVIOUS
<1>2. PICK context : context = BuildContext(response)
  OBVIOUS
<1>3. /\ Sane(response) /\ report \in Analyze(response) /\ FindsNothing(response, report)
      /\ \A name \in ToSet(Names) : Sends(response, name) = {sent[name][j] : j \in 1..Len(sent[name])}
  BY <1>1, ShownFacts DEF HardeningInv
<1>4. ToSet(CheckIds) = Seven
  BY IdsFacts DEF Seven
<1>5. ASSUME NEW id \in Seven, report.observed[id] = <<>>
      PROVE  \A i \in DOMAIN Definition(id).observed : Sends(response, Definition(id).observed[i]) = {}
  <2>1. report.observed[id] = Observed(id, context.headers)
    <3>1. Shows(report, context, id)
      BY <1>2, <1>3, <1>4, AnalyzeFacts
    <3> QED
      BY Zenon, <3>1 DEF Shows
  <2>2. PICK lines, names : lines = report.observed[id] /\ names = Definition(id).observed
    OBVIOUS
  <2>3. lines = <<>> => \A i \in DOMAIN names : Sends(response, names[i]) = {}
    <3>1. lines = Observed(id, context.headers) /\ names = Definition(id).observed
      BY Zenon, <2>1, <2>2
    <3>2. Sane(response)
      BY <1>3
    <3> HIDE DEF Definition
    <3> QED
      BY Zenon, <1>2, <1>5, <3>1, <3>2, ObservedFacts
  <2> QED
    BY Zenon, <1>5, <2>2, <2>3
<1>6. report.observed["csp"] = <<>> => report.checks["csp"].findings \subseteq {"absent", "plainHttp"}
  <2> SUFFICES ASSUME report.observed["csp"] = <<>>
               PROVE  report.checks["csp"].findings \subseteq {"absent", "plainHttp"}
    OBVIOUS
  <2>1. PICK names : names = Definition("csp").observed
    OBVIOUS
  <2>2. names = <<"content-security-policy", "content-security-policy-report-only">>
    BY <2>1 DEF Definition, CspCheck
  <2>3. 1 \in DOMAIN names /\ 2 \in DOMAIN names
    BY <2>2
  <2>4. Sends(response, names[1]) = {} /\ Sends(response, names[2]) = {}
    BY <1>5, <2>1, <2>3 DEF Seven
  <2> QED
    BY <1>3, <2>2, <2>4 DEF FindsNothing
<1>7. report.observed["hsts"] = <<>> => report.checks["hsts"].findings \subseteq {"absent", "plainHttp"}
  <2> SUFFICES ASSUME report.observed["hsts"] = <<>>
               PROVE  report.checks["hsts"].findings \subseteq {"absent", "plainHttp"}
    OBVIOUS
  <2>1. PICK names : names = Definition("hsts").observed
    OBVIOUS
  <2>2. names = <<"strict-transport-security">>
    BY <2>1 DEF Definition, HstsCheck
  <2>3. 1 \in DOMAIN names
    BY <2>2
  <2>4. Sends(response, names[1]) = {}
    BY <1>5, <2>1, <2>3 DEF Seven
  <2> QED
    BY <1>3, <2>2, <2>4 DEF FindsNothing
<1>8. report.observed["frame-ancestors"] = <<>> => report.checks["frame-ancestors"].findings \subseteq {"absent", "plainHttp"}
  <2> SUFFICES ASSUME report.observed["frame-ancestors"] = <<>>
               PROVE  report.checks["frame-ancestors"].findings \subseteq {"absent", "plainHttp"}
    OBVIOUS
  <2>1. PICK names : names = Definition("frame-ancestors").observed
    OBVIOUS
  <2>2. names = <<"x-frame-options", "content-security-policy">>
    BY <2>1 DEF Definition, FramingCheck
  <2>3. 1 \in DOMAIN names /\ 2 \in DOMAIN names
    BY <2>2
  <2>4. Sends(response, names[1]) = {} /\ Sends(response, names[2]) = {}
    BY <1>5, <2>1, <2>3 DEF Seven
  <2> QED
    BY <1>3, <2>2, <2>4 DEF FindsNothing
<1>9. report.observed["content-type-options"] = <<>> => report.checks["content-type-options"].findings \subseteq {"absent", "plainHttp"}
  <2> SUFFICES ASSUME report.observed["content-type-options"] = <<>>
               PROVE  report.checks["content-type-options"].findings \subseteq {"absent", "plainHttp"}
    OBVIOUS
  <2>1. PICK names : names = Definition("content-type-options").observed
    OBVIOUS
  <2>2. names = <<"x-content-type-options">>
    BY <2>1 DEF Definition, ContentTypeCheck
  <2>3. 1 \in DOMAIN names
    BY <2>2
  <2>4. Sends(response, names[1]) = {}
    BY <1>5, <2>1, <2>3 DEF Seven
  <2> QED
    BY <1>3, <2>2, <2>4 DEF FindsNothing
<1>10. report.observed["referrer-policy"] = <<>> => report.checks["referrer-policy"].findings \subseteq {"absent", "plainHttp"}
  <2> SUFFICES ASSUME report.observed["referrer-policy"] = <<>>
               PROVE  report.checks["referrer-policy"].findings \subseteq {"absent", "plainHttp"}
    OBVIOUS
  <2>1. PICK names : names = Definition("referrer-policy").observed
    OBVIOUS
  <2>2. names = <<"referrer-policy">>
    BY <2>1 DEF Definition, ReferrerCheck
  <2>3. 1 \in DOMAIN names
    BY <2>2
  <2>4. Sends(response, names[1]) = {}
    BY <1>5, <2>1, <2>3 DEF Seven
  <2> QED
    BY <1>3, <2>2, <2>4 DEF FindsNothing
<1>11. report.observed["permissions-policy"] = <<>> => report.checks["permissions-policy"].findings \subseteq {"absent", "plainHttp"}
  <2> SUFFICES ASSUME report.observed["permissions-policy"] = <<>>
               PROVE  report.checks["permissions-policy"].findings \subseteq {"absent", "plainHttp"}
    OBVIOUS
  <2>1. PICK names : names = Definition("permissions-policy").observed
    OBVIOUS
  <2>2. names = <<"permissions-policy", "feature-policy">>
    BY <2>1 DEF Definition, PermissionsCheck
  <2>3. 1 \in DOMAIN names /\ 2 \in DOMAIN names
    BY <2>2
  <2>4. Sends(response, names[1]) = {} /\ Sends(response, names[2]) = {}
    BY <1>5, <2>1, <2>3 DEF Seven
  <2> QED
    BY <1>3, <2>2, <2>4 DEF FindsNothing
<1>12. report.observed["info-disclosure"] = <<>> /\ sent["x-aspnetmvc-version"] = <<>> =>
            report.checks["info-disclosure"].findings = {}
  <2> SUFFICES ASSUME report.observed["info-disclosure"] = <<>>, sent["x-aspnetmvc-version"] = <<>>
               PROVE  report.checks["info-disclosure"].findings = {}
    OBVIOUS
  <2>1. PICK names : names = Definition("info-disclosure").observed
    OBVIOUS
  <2>2. names = <<"server", "x-powered-by", "x-aspnet-version", "x-generator", "x-xss-protection">>
    BY <2>1 DEF Definition, DisclosureCheck
  <2>3. 1 \in DOMAIN names /\ 2 \in DOMAIN names /\ 3 \in DOMAIN names /\ 4 \in DOMAIN names /\ 5 \in DOMAIN names
    BY <2>2
  <2>4. /\ Sends(response, names[1]) = {} /\ Sends(response, names[2]) = {} /\ Sends(response, names[3]) = {}
        /\ Sends(response, names[4]) = {} /\ Sends(response, names[5]) = {}
    BY <1>5, <2>1, <2>3 DEF Seven
  <2>5. /\ Sends(response, "server") = {} /\ Sends(response, "x-powered-by") = {}
        /\ Sends(response, "x-aspnet-version") = {} /\ Sends(response, "x-generator") = {}
        /\ Sends(response, "x-xss-protection") = {}
    BY <2>2, <2>4
  <2>6. Sends(response, "x-aspnetmvc-version") = {}
    <3>1. "x-aspnetmvc-version" \in ToSet(Names)
      BY NamesFacts DEF TelltaleHeaders
    <3>2. PICK values : values = sent["x-aspnetmvc-version"]
      OBVIOUS
    <3>3. Sends(response, "x-aspnetmvc-version") = {values[j] : j \in 1..Len(values)} /\ values = <<>>
      BY <1>3, <3>1, <3>2
    <3> QED
      BY <3>3
  <2>7. ~NamesSoftware(response)
    BY <2>5, <2>6 DEF NamesSoftware, TelltaleHeaders
  <2> QED
    BY Zenon, <1>3, <2>5, <2>7 DEF FindsNothing
<1> QED
  <2> SUFFICES ASSUME NEW id \in Seven, report.observed[id] = <<>>,
                      ~(id = "info-disclosure" /\ sent["x-aspnetmvc-version"] # <<>>)
               PROVE  report.checks[id].findings \subseteq {"absent", "plainHttp"}
    BY <1>4 DEF CardShowsWhatItRead
  <2>1. CASE id = "info-disclosure"
    BY <1>12, <2>1
  <2>2. CASE id # "info-disclosure"
    BY <1>6, <1>7, <1>8, <1>9, <1>10, <1>11, <2>2 DEF Seven
  <2> QED
    BY <2>1, <2>2

-----------------------------------------------------------------------------
(* A fence is longer than any run of backticks in the lines it is put      *)
(* around.                                                                 *)
LEMMA TicksType ==
    ASSUME NEW line, line.value \in HeaderValues(line.name)
    PROVE  Ticks(line) \in Nat
<1>1. PICK name, value : name = line.name /\ value = line.value
  OBVIOUS
<1>2. CASE name \in TelltaleHeaders
  <2>1. HeaderValues(name) = SoftwareNames
    BY <1>2 DEF HeaderValues, TelltaleHeaders
  <2>2. value.ticks \in Nat
    BY <1>1, <2>1 DEF SoftwareNames
  <2> QED
    BY <1>1, <1>2, <2>2 DEF Ticks
<1>3. CASE name \notin TelltaleHeaders
  BY <1>1, <1>3 DEF Ticks
<1> QED
  BY <1>2, <1>3

(* briefing.ts: the fence of a block is longer than any run of backticks   *)
(* in it.                                                                  *)
LEMMA FenceFacts ==
    ASSUME NEW lines, WellFormed(lines), NEW block, block = Fence(lines)
    PROVE  \A i \in DOMAIN block.lines : Ticks(block.lines[i]) < block.fence
<1>1. PICK n \in Nat : n = Len(lines) /\ DOMAIN lines = 1..n
  BY DEF WellFormed
<1> DEFINE runs == [i \in 1..n |-> Ticks(lines[i]) + 1]
<1>2. \A i \in 1..n : Ticks(lines[i]) \in Nat
  BY <1>1, TicksType DEF WellFormed
<1>3. runs \in [1..n -> Int] /\ \A i \in 1..n : runs[i] = Ticks(lines[i]) + 1
  BY <1>2
<1> HIDE DEF runs
<1>4. PICK b \in Int : \A i \in 1..n : runs[i] <= b
  BY <1>3, Bounded
<1>5. PICK T : T = {3} \cup {Ticks(lines[i]) + 1 : i \in DOMAIN lines}
  OBVIOUS
<1>6. T = {3} \cup {runs[i] : i \in 1..n}
  BY <1>1, <1>3, <1>5
<1>7. T \subseteq Int /\ T # {} /\ \A i \in 1..n : runs[i] \in T
  BY <1>3, <1>6
<1>8. \E c \in Int : \A y \in T : y <= c
  <2>1. CASE b <= 3
    <3>1. \A y \in T : y <= 3
      BY <1>3, <1>4, <1>6, <2>1
    <3> QED
      BY <3>1
  <2>2. CASE b > 3
    <3>1. \A y \in T : y <= b
      BY <1>3, <1>4, <1>6, <2>2
    <3> QED
      BY <3>1
  <2> QED
    BY <2>1, <2>2
<1>9. Max(T) \in Int /\ \A y \in T : y <= Max(T)
  BY <1>7, <1>8, MaxFacts
<1>10. block = [fence |-> Max(T), lines |-> lines]
  BY Zenon, <1>5 DEF Fence
<1>11. block.fence = Max(T) /\ block.lines = lines
  BY <1>10
<1> QED
  BY <1>1, <1>2, <1>3, <1>7, <1>9, <1>11

(* Every block of the briefing quotes lines of the response.               *)
LEMMA QuotesStay ==
    ASSUME HardeningInv
    PROVE  QuotesStayQuoted
<1>1. PICK response : response = Response
  OBVIOUS
<1>2. PICK context : context = BuildContext(response)
  OBVIOUS
<1>3. Sane(response) /\ report \in Analyze(response)
  BY <1>1, ShownFacts DEF HardeningInv
<1>4. ToSet(CheckIds) = Seven
  BY IdsFacts DEF Seven
<1>5. WellFormed(report.headers)
  <2>1. report.headers = response.lines
    BY <1>2, <1>3, AnalyzeFacts
  <2> QED
    BY <1>3, <2>1 DEF Sane
<1>6. ASSUME NEW id \in Seven
      PROVE  WellFormed(report.observed[id])
  <2>1. Shows(report, context, id)
    BY <1>2, <1>3, <1>4, AnalyzeFacts
  <2>2. PICK lines, names : lines = Observed(id, context.headers) /\ names = Definition(id).observed
    OBVIOUS
  <2>3. WellFormed(lines)
    BY <1>2, <1>3, <2>2, ObservedFacts
  <2> QED
    BY Zenon, <2>1, <2>2, <2>3 DEF Shows
<1>7. PICK shown : shown = {c \in ToSet(CheckIds) : report.checks[c].status # "pass"}
  OBVIOUS
<1>8. PICK quoted : quoted = [id \in shown |-> Fence(report.observed[id])]
  OBVIOUS
<1>9. PICK briefing : briefing = ToLlmBriefing(report)
  OBVIOUS
<1>10. briefing.quoted = quoted /\ briefing.raw = Fence(report.headers)
  <2>1. PICK raw : raw = Fence(report.headers)
    OBVIOUS
  <2>2. briefing = [alert  |-> report.insecureTransport,
                    failed |-> Group(report, "fail"), warned |-> Group(report, "warn"),
                    passed |-> Group(report, "pass"), quoted |-> quoted, raw |-> raw]
    BY Zenon, <1>7, <1>8, <1>9, <2>1 DEF ToLlmBriefing
  <2> QED
    BY <2>1, <2>2
<1>11. DOMAIN quoted = shown /\ \A id \in shown : quoted[id] = Fence(report.observed[id])
  BY Zenon, <1>8
<1>12. shown \subseteq Seven
  BY <1>4, <1>7
<1>13. ASSUME NEW block \in {briefing.raw} \cup {briefing.quoted[id] : id \in DOMAIN briefing.quoted}
       PROVE  \A i \in DOMAIN block.lines : Ticks(block.lines[i]) < block.fence
  <2>1. CASE block = Fence(report.headers)
    BY <1>5, <2>1, FenceFacts
  <2>2. CASE block # Fence(report.headers)
    <3>1. PICK id \in shown : block = Fence(report.observed[id])
      BY <1>10, <1>11, <1>13, <2>2
    <3>2. WellFormed(report.observed[id])
      BY <1>6, <1>12, <3>1
    <3> QED
      BY <3>1, <3>2, FenceFacts
  <2> QED
    BY <2>1, <2>2
<1> QED
  BY Zenon, <1>9, <1>13 DEF QuotesStayQuoted

-----------------------------------------------------------------------------
(* What the invariant says of the types of the variables.                  *)
LEMMA Typed == HardeningInv => TypeOK
<1> SUFFICES ASSUME HardeningInv
             PROVE  TypeOK
  OBVIOUS
<1>1. DOMAIN sent = ToSet(Names) /\ https \in BOOLEAN /\ edits \in 0..MaxEdits /\ report \in Analyze(Response)
  BY DEF HardeningInv, Sendable
<1>2. report.score \in 0..100 /\ \A id \in ToSet(CheckIds) : report.points[id] \in 0..(10 * Definition(id).weight)
  BY ScoreFacts
<1>3. PICK outcomes : outcomes = report.checks
  OBVIOUS
<1>4. outcomes = [id \in ToSet(CheckIds) |-> outcomes[id]]
  <2>1. report.checks = [id \in ToSet(CheckIds) |-> report.checks[id]]
    BY <1>1, ChecksFacts
  <2> QED
    BY <1>3, <2>1
<1>5. \A id \in ToSet(CheckIds) : Graded(outcomes[id])
  BY Zenon, <1>3, ShownFacts DEF Speaks
<1>6. \A id \in ToSet(CheckIds) :
        outcomes[id] \in [status : {"pass", "warn", "fail"}, ratio : 0..100, findings : SUBSET Findings]
  BY Zenon, <1>5 DEF Graded
<1>7. outcomes \in [ToSet(CheckIds) -> [status : {"pass", "warn", "fail"}, ratio : 0..100,
                                        findings : SUBSET Findings]]
  BY Zenon, <1>4, <1>6
<1> QED
  BY Zenon, <1>1, <1>2, <1>3, <1>7 DEF TypeOK

(* Sending other lines of one name, or none.                               *)
LEMMA LineSet ==
    ASSUME NEW bag, Sendable(bag), NEW name, NEW values,
           name \in ToSet(Names) => /\ values \in Seq(HeaderValues(name))
                                    /\ name \notin Repeatable => Len(values) <= 1,
           NEW other, other = [bag EXCEPT ![name] = values]
    PROVE  Sendable(other)
<1>1. DOMAIN bag = ToSet(Names) /\ bag = [n \in ToSet(Names) |-> bag[n]]
  BY DEF Sendable
<1>2. DOMAIN other = ToSet(Names) /\ other = [n \in ToSet(Names) |-> other[n]]
  BY <1>1
<1>3. \A n \in ToSet(Names) : other[n] = IF n = name THEN values ELSE bag[n]
  BY <1>1
<1>4. \A n \in ToSet(Names) : other[n] \in Seq(HeaderValues(n))
  BY <1>3 DEF Sendable
<1>5. \A n \in ToSet(Names) \ Repeatable : Len(other[n]) <= 1
  BY <1>3 DEF Sendable
<1> QED
  BY Zenon, <1>2, <1>4, <1>5 DEF Sendable

(* One more line, or the only one.                                         *)
LEMMA LineAdded ==
    ASSUME Sendable(sent), NEW name, NEW value \in HeaderValues(name)
    PROVE  Sendable(WithLine(name, value))
<1>1. PICK values : values = IF name \in Repeatable THEN Append(sent[name], value) ELSE <<value>>
  OBVIOUS
<1>2. WithLine(name, value) = [sent EXCEPT ![name] = values]
  <2>1. WithLine(name, value) =
            [sent EXCEPT ![name] = IF name \in Repeatable THEN Append(sent[name], value) ELSE <<value>>]
    BY DEF WithLine
  <2> QED
    BY Zenon, <1>1, <2>1
<1>3. ASSUME name \in ToSet(Names)
      PROVE  /\ values \in Seq(HeaderValues(name))
             /\ name \notin Repeatable => Len(values) <= 1
  <2>1. sent[name] \in Seq(HeaderValues(name))
    BY <1>3 DEF Sendable
  <2>2. CASE name \in Repeatable
    <3>1. values = Append(sent[name], value)
      BY <1>1, <2>2
    <3> QED
      BY <2>1, <2>2, <3>1
  <2>3. CASE name \notin Repeatable
    <3>1. values = <<value>>
      BY <1>1, <2>3
    <3> QED
      BY <2>3, <3>1
  <2> QED
    BY <2>2, <2>3
<1> QED
  BY <1>2, <1>3, LineSet

(* The fixes are values of their headers.                                  *)
LEMMA FixesAreValues ==
    /\ CspFix \in HeaderValues("content-security-policy")
    /\ <<HstsFix>> \in Seq(HeaderValues("strict-transport-security"))
    /\ FramingFix \in HeaderValues("content-security-policy")
    /\ ContentTypeFix \in HeaderValues("x-content-type-options")
    /\ ReferrerFix \in HeaderValues("referrer-policy")
    /\ PermissionsFix \in HeaderValues("permissions-policy")
<1>1. /\ "default-src" \in STRING /\ "script-src" \in STRING /\ "object-src" \in STRING
      /\ "base-uri" \in STRING /\ "frame-ancestors" \in STRING
  BY WordsAssumption DEF WordsAssumption
<1>2. "'self'" \in Sources /\ "'nonce-x'" \in Sources /\ "'none'" \in Sources
  BY HardeningAssumption DEF HardeningAssumption
<1>3. CspFix \in Policies
  BY <1>1, <1>2 DEF CspFix, Policies
<1>4. FramingFix \in Policies
  BY <1>1, <1>2 DEF FramingFix, Policies
<1>5. "max-age" \in STRING /\ "includesubdomains" \in STRING /\ "preload" \in STRING /\ "()" \in STRING
  BY WordsAssumption DEF WordsAssumption
<1>6. HstsFix \in HstsTokens
  BY <1>5 DEF HstsFix, HstsTokens, OneYear
<1>7. "nosniff" \in STRING /\ "strict-origin-when-cross-origin" \in STRING
  BY WordsAssumption DEF WordsAssumption, AllKnown, Strong
<1>8. HeaderValues("x-content-type-options") = STRING
  BY DEF HeaderValues, TelltaleHeaders
<1>9. PermissionsFix \in FeatureSegments
  <2>1. PICK S : S = {[feature |-> f, allowlist |-> "()"] : f \in SensitiveFeatures}
    OBVIOUS
  <2>2. S \subseteq [feature : STRING, allowlist : STRING]
    <3>1. \A f \in SensitiveFeatures : f \in STRING
      BY WordsAssumption DEF WordsAssumption
    <3> QED
      BY <1>5, <2>1, <3>1
  <2>3. IsFiniteSet(S)
    <3>1. PICK features : features = <<"camera", "microphone", "geolocation", "payment", "usb">>
      OBVIOUS
    <3>2. PICK segments : segments = [i \in 1..5 |-> [feature |-> features[i], allowlist |-> "()"]]
      OBVIOUS
    <3>3. SensitiveFeatures = {features[i] : i \in 1..5}
      BY <3>1 DEF SensitiveFeatures
    <3>4. S = {segments[i] : i \in 1..5}
      BY <2>1, <3>2, <3>3
    <3> QED
      BY <3>4, FiniteRange
  <2>4. PICK n \in Nat : n = Cardinality(S)
    BY <2>3, FS_CardinalityType
  <2>5. ExistsBijection(1..n, S)
    BY <2>3, <2>4, FS_CardinalityType
  <2>6. \E f \in [1..n -> S] : IsInjective(f)
    BY <2>5 DEF ExistsBijection, Bijection, Injection, IsInjective
  <2>7. PermissionsFix = CHOOSE f \in [1..n -> S] : IsInjective(f)
    BY Zenon, <2>1, <2>4 DEF PermissionsFix, SetToSeq
  <2>8. PermissionsFix \in [1..n -> S]
    BY Zenon, <2>6, <2>7
  <2> QED
    <3>1. PICK fix : fix = PermissionsFix
      OBVIOUS
    <3>2. PICK segments : segments = [feature : STRING, allowlist : STRING]
      OBVIOUS
    <3>3. fix \in [1..n -> segments]
      BY <2>2, <2>8, <3>1, <3>2
    <3>4. fix \in Seq(segments)
      BY <2>4, <3>3
    <3> QED
      BY Zenon, <3>1, <3>2, <3>4 DEF FeatureSegments
<1>10. ContentTypeFix \in STRING /\ ReferrerFix \in Seq(STRING)
  BY <1>7 DEF ContentTypeFix, ReferrerFix
<1>11. <<HstsFix>> \in Seq(HstsTokens)
  BY <1>6
<1> QED
  BY Zenon, <1>3, <1>4, <1>8, <1>9, <1>10, <1>11, Kinds

(* Every fix leaves what a site may send.                                  *)
LEMMA FixShipped ==
    ASSUME Sendable(sent), NEW id \in ToSet(CheckIds)
    PROVE  Sendable(WithFix(id))
<1>1. id \in Seven
  BY IdsFacts DEF Seven
<1>2. CASE id = "csp"
  <2>1. WithFix(id) = WithLine("content-security-policy", CspFix)
    BY <1>2 DEF WithFix
  <2> QED
    BY Zenon, <2>1, LineAdded, FixesAreValues
<1>3. CASE id = "hsts"
  <2>1. WithFix(id) = [sent EXCEPT !["strict-transport-security"] = <<HstsFix>>]
    BY <1>3 DEF WithFix
  <2>2. <<HstsFix>> \in Seq(HeaderValues("strict-transport-security")) /\ Len(<<HstsFix>>) <= 1
    BY FixesAreValues
  <2> QED
    BY Zenon, <2>1, <2>2, LineSet
<1>4. CASE id = "frame-ancestors"
  <2>1. WithFix(id) = WithLine("content-security-policy", FramingFix)
    BY <1>4 DEF WithFix
  <2> QED
    BY Zenon, <2>1, LineAdded, FixesAreValues
<1>5. CASE id = "content-type-options"
  <2>1. WithFix(id) = WithLine("x-content-type-options", ContentTypeFix)
    BY <1>5 DEF WithFix
  <2> QED
    BY Zenon, <2>1, LineAdded, FixesAreValues
<1>6. CASE id = "referrer-policy"
  <2>1. WithFix(id) = WithLine("referrer-policy", ReferrerFix)
    BY <1>6 DEF WithFix
  <2> QED
    BY Zenon, <2>1, LineAdded, FixesAreValues
<1>7. CASE id = "permissions-policy"
  <2>1. WithFix(id) = WithLine("permissions-policy", PermissionsFix)
    BY <1>7 DEF WithFix
  <2> QED
    BY Zenon, <2>1, LineAdded, FixesAreValues
<1>8. CASE id = "info-disclosure"
  <2>1. PICK bag : bag = WithFix(id)
    OBVIOUS
  <2>2. bag = [n \in DOMAIN sent |-> IF n \in TelltaleHeaders THEN <<>> ELSE sent[n]]
    BY <1>8, <2>1 DEF WithFix
  <2>3. DOMAIN bag = ToSet(Names) /\ bag = [n \in ToSet(Names) |-> bag[n]]
    BY <2>2 DEF Sendable
  <2>4. \A n \in ToSet(Names) : bag[n] = <<>> \/ bag[n] = sent[n]
    BY <2>2 DEF Sendable
  <2>5. \A n \in ToSet(Names) : bag[n] \in Seq(HeaderValues(n))
    <3> TAKE n \in ToSet(Names)
    <3>1. sent[n] \in Seq(HeaderValues(n)) /\ <<>> \in Seq(HeaderValues(n))
      BY DEF Sendable
    <3> QED
      BY Zenon, <2>4, <3>1
  <2>6. \A n \in ToSet(Names) \ Repeatable : Len(bag[n]) <= 1
    BY <2>4 DEF Sendable
  <2> QED
    BY Zenon, <2>1, <2>3, <2>5, <2>6 DEF Sendable
<1> QED
  BY <1>1, <1>2, <1>3, <1>4, <1>5, <1>6, <1>7, <1>8 DEF Seven

(* Deploying what can be sent keeps the report true.                       *)
LEMMA Deployed ==
    ASSUME HardeningInv, NEW bag, Sendable(bag), NEW secure \in BOOLEAN, Deploy(bag, secure)
    PROVE  HardeningInv'
<1>1. Sendable(sent') /\ https' \in BOOLEAN
  BY DEF Deploy
<1>2. edits' \in 0..MaxEdits
  <2>1. edits \in 0..MaxEdits /\ edits < MaxEdits /\ edits' = edits + 1 /\ MaxEdits \in Nat
    BY HardeningAssumption DEF Deploy, HardeningInv, HardeningAssumption
  <2> QED
    BY <2>1
<1>3. report' \in Analyze([https |-> https', lines |-> WireLines(sent')])
  BY Zenon DEF Deploy
<1>4. report' \in Analyze(Response')
  BY Zenon, <1>3 DEF Response
<1> QED
  BY Zenon, <1>1, <1>2, <1>4 DEF HardeningInv

(* The site sends what can be sent at first.                               *)
LEMMA InvInit == Init => HardeningInv
<1> SUFFICES ASSUME Init
             PROVE  HardeningInv
  OBVIOUS
<1>1. /\ sent = [name \in ToSet(Names) |-> sent[name]]
      /\ \A name \in ToSet(Names) : sent[name] \in Seq(HeaderValues(name))
      /\ \A name \in ToSet(Names) \ Repeatable : Len(sent[name]) <= 1
  BY Zenon, HardeningAssumption DEF Init, HardeningAssumption
<1>2. PICK bag : bag = sent
  OBVIOUS
<1>3. DOMAIN bag = ToSet(Names)
  <2>1. bag = [name \in ToSet(Names) |-> bag[name]]
    BY <1>1, <1>2
  <2> QED
    BY <2>1
<1>4. Sendable(sent)
  BY Zenon, <1>1, <1>2, <1>3 DEF Sendable
<1>5. edits \in 0..MaxEdits
  BY HardeningAssumption DEF Init, HardeningAssumption
<1> QED
  BY Zenon, <1>4, <1>5 DEF Init, HardeningInv

(* Every edit ends with a report of what the site then sends.              *)
LEMMA InvStep == HardeningInv /\ [Next]_vars => HardeningInv'
<1> SUFFICES ASSUME HardeningInv, [Next]_vars
             PROVE  HardeningInv'
  OBVIOUS
<1>1. Sendable(sent) /\ https \in BOOLEAN
  BY DEF HardeningInv
<1>2. ASSUME NEW name \in ToSet(Names), NEW value \in ValuesOf[name], AddLine(name, value)
      PROVE  HardeningInv'
  <2>1. value \in HeaderValues(name)
    BY Zenon, HardeningAssumption DEF HardeningAssumption
  <2>2. Sendable(WithLine(name, value))
    BY Zenon, <1>1, <2>1, LineAdded
  <2> QED
    BY Zenon, <1>1, <1>2, <2>2, Deployed DEF AddLine
<1>3. ASSUME NEW name \in ToSet(Names), RemoveHeader(name)
      PROVE  HardeningInv'
  <2>1. PICK bag : bag = [sent EXCEPT ![name] = <<>>]
    OBVIOUS
  <2>2. <<>> \in Seq(HeaderValues(name)) /\ Len(<<>>) <= 1
    OBVIOUS
  <2>3. Sendable(bag)
    BY Zenon, <1>1, <2>1, <2>2, LineSet
  <2> QED
    BY Zenon, <1>1, <1>3, <2>1, <2>3, Deployed DEF RemoveHeader
<1>4. ASSUME NEW id \in ToSet(CheckIds), ShipFix(id)
      PROVE  HardeningInv'
  BY Zenon, <1>1, <1>4, FixShipped, Deployed DEF ShipFix
<1>5. CASE MoveToHttps
  <2>1. TRUE \in BOOLEAN
    OBVIOUS
  <2> QED
    BY Zenon, <1>1, <1>5, <2>1, Deployed DEF MoveToHttps
<1>6. CASE UNCHANGED vars
  <2>1. sent' = sent /\ https' = https /\ report' = report /\ edits' = edits
    BY <1>6 DEF vars
  <2>2. Response' = Response
    BY Zenon, <2>1 DEF Response
  <2> QED
    BY Zenon, <2>1, <2>2 DEF HardeningInv
<1> QED
  BY Zenon, <1>2, <1>3, <1>4, <1>5, <1>6 DEF Next

-----------------------------------------------------------------------------
(* Whatever the owner does, the report shown is one analyze makes of the   *)
(* response of the site.                                                   *)
THEOREM HardeningInvariant == Spec => []HardeningInv
BY InvInit, InvStep, PTL DEF Spec

(* analyze.ts: statuses, ratios, points and the score stay within their    *)
(* ranges, and findings are those the checks can have.                     *)
THEOREM HardeningTypeCorrect == Spec => []TypeOK
BY HardeningInvariant, Typed, PTL

(* types.ts: what the summary of a passing card claims is what browsers    *)
(* do, for any lines, directives and tokens.                               *)
THEOREM PassesAreProtected == Spec => []PassMeansProtected
BY HardeningInvariant, PassedIsProtected, PTL

(* types.ts: behind a failing card the response leaves the attack open.    *)
THEOREM FailuresAreExposed == Spec => []FailMeansExposed
BY HardeningInvariant, FailedIsExposed, PTL

(* A card that withholds points always says why.                           *)
THEOREM LossesAreExplained == Spec => []LostPointsAreExplained
BY HardeningInvariant, LostIsExplained, PTL

(* analyze.ts, briefing.ts: the points on the cards add up to the score    *)
(* but for eight roundings, and over plain HTTP the grade is F.            *)
THEOREM ScoresAreExplained == Spec => []ScoreIsExplained
BY HardeningInvariant, ScoreFacts, PTL

(* registry.ts: a card with no line to show found nothing but absence,     *)
(* except for x-aspnetmvc-version, which is graded and not shown.          *)
THEOREM CardsShowTheirLines == Spec => []CardShowsWhatItRead
BY HardeningInvariant, CardsShow, PTL

(* briefing.ts: no line a site sent can end the block it is quoted in.     *)
THEOREM QuotesStayWhole == Spec => []QuotesStayQuoted
BY HardeningInvariant, QuotesStay, PTL
=============================================================================
