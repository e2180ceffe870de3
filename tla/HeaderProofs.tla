---------------------------- MODULE HeaderProofs ----------------------------
(***************************************************************************)
(* What the checks, the score and the briefing compute for every response: *)
(* any number of lines, in any order, with any values their parsers can    *)
(* tell apart.  Each check is compared with Protection.                    *)
(***************************************************************************)
EXTENDS Report, Protection, DataLemmas

(* The lines of a response are any headers with values of their own kind.  *)
WellFormed(lines) ==
    /\ Len(lines) \in Nat /\ DOMAIN lines = 1..Len(lines)
    /\ \A i \in 1..Len(lines) : lines[i].value \in HeaderValues(lines[i].name)

-----------------------------------------------------------------------------
(* sent are the values of the lines with that name; pos[k] is the line of  *)
(* the k-th.                                                               *)
IsSent(lines, name, sent, pos) ==
    /\ \A k \in 1..Len(sent) : lines[pos[k]].name = name /\ sent[k] = lines[pos[k]].value
    /\ \A k, l \in 1..Len(sent) : k < l => pos[k] < pos[l]
    /\ \A i \in 1..Len(lines) : lines[i].name = name => \E k \in 1..Len(sent) : pos[k] = i

(* The values sent under a name are those of its lines, in their order.    *)
LEMMA SentFacts ==
    ASSUME NEW lines, WellFormed(lines), NEW name
    PROVE  /\ SentAs(lines, name) \in Seq(HeaderValues(name))
           /\ \E pos \in [1..Len(SentAs(lines, name)) -> 1..Len(lines)] :
                IsSent(lines, name, SentAs(lines, name), pos)
<1> DEFINE own == [i \in DOMAIN lines |-> IF lines[i].name = name THEN <<lines[i].value>> ELSE <<>>]
           V == HeaderValues(name)
<1>1. Len(lines) \in Nat /\ DOMAIN lines = 1..Len(lines)
  BY DEF WellFormed
<1>2. \A i \in 1..Len(lines) : lines[i].name = name => lines[i].value \in V
  BY DEF WellFormed
<1> HIDE DEF V
<1>3. ASSUME NEW i \in 1..Len(lines)
      PROVE  /\ own[i] \in Seq(V)
             /\ lines[i].name = name => own[i] = <<lines[i].value>> /\ Len(own[i]) = 1
             /\ lines[i].name # name => own[i] = <<>> /\ Len(own[i]) = 0
  BY <1>1, <1>2
<1>4. own \in Seq(Seq(V)) /\ Len(own) = Len(lines)
  <2>1. own \in [1..Len(lines) -> Seq(V)]
    BY <1>1, <1>3
  <2> HIDE DEF own
  <2> QED
    BY <1>1, <2>1
<1>5. SentAs(lines, name) = FlattenSeq(own)
  BY DEF SentAs
<1> HIDE DEF own
<1>6. \A i \in 1..Len(own) : Len(own[i]) <= 1
  <2> TAKE i \in 1..Len(own)
  <2>1. Len(own[i]) = 0 \/ Len(own[i]) = 1
    BY <1>3, <1>4
  <2> QED
    BY Zenon, <2>1, ZeroOrOne
<1>4a. own \in Seq(Seq(V))
  BY <1>4
<1>7. FlattenSeq(own) \in Seq(V)
  BY <1>4, FlattenFacts
<1>8. PICK pos \in [1..Len(FlattenSeq(own)) -> 1..Len(own)] : Keeps(own, FlattenSeq(own), pos)
  BY <1>4a, <1>6, KeptInOrder
<1>9. ASSUME NEW k \in 1..Len(FlattenSeq(own))
      PROVE  lines[pos[k]].name = name /\ FlattenSeq(own)[k] = lines[pos[k]].value
  <2>1. PICK i \in 1..Len(lines) : i = pos[k]
    BY <1>4, <1>8
  <2>2. Len(own[i]) = 1 /\ FlattenSeq(own)[k] = own[i][1]
    BY <1>8, <2>1 DEF Keeps
  <2>3. lines[i].name = name /\ own[i] = <<lines[i].value>>
    BY <1>3, <2>2
  <2> QED
    BY <2>1, <2>2, <2>3
<1>10. pos \in [1..Len(FlattenSeq(own)) -> 1..Len(lines)]
  BY <1>4, <1>8
<1>11. ASSUME NEW i \in 1..Len(lines), lines[i].name = name
       PROVE  \E k \in 1..Len(FlattenSeq(own)) : pos[k] = i
  <2>1. Len(own[i]) = 1 /\ i \in 1..Len(own)
    BY <1>3, <1>4, <1>11
  <2> QED
    BY Zenon, <1>8, <2>1 DEF Keeps
<1>12. \A k, l \in 1..Len(FlattenSeq(own)) : k < l => pos[k] < pos[l]
  BY <1>8 DEF Keeps
<1>13. IsSent(lines, name, FlattenSeq(own), pos)
  BY Zenon, <1>9, <1>11, <1>12 DEF IsSent
<1> QED
  BY Zenon, <1>5, <1>7, <1>10, <1>13 DEF V

(* headers.ts: looking a name up finds the values sent under it.           *)
LEMMA AllFacts ==
    ASSUME NEW lines, WellFormed(lines), NEW name
    PROVE  All(HeaderBag(lines), name) = SentAs(lines, name)
<1> DEFINE sent == SentAs(lines, name)
<1>1. CASE name \in {lines[i].name : i \in DOMAIN lines}
  BY <1>1 DEF All, HeaderBag
<1>2. CASE name \notin {lines[i].name : i \in DOMAIN lines}
  <2>1. sent \in Seq(HeaderValues(name))
    BY SentFacts
  <2>2. PICK pos \in [1..Len(sent) -> 1..Len(lines)] : IsSent(lines, name, sent, pos)
    BY SentFacts
  <2>3. DOMAIN lines = 1..Len(lines)
    BY DEF WellFormed
  <2> HIDE DEF sent
  <2>4. 1..Len(sent) = {}
    BY <1>2, <2>2, <2>3 DEF IsSent
  <2>5. sent = <<>>
    BY <2>1, <2>4
  <2>6. All(HeaderBag(lines), name) = <<>>
    BY <1>2 DEF All, HeaderBag
  <2> QED
    BY <2>5, <2>6 DEF sent
<1> QED
  BY <1>1, <1>2

(* The first value is null when no line has the name, and otherwise that   *)
(* of the first line that has it.                                          *)
IsFirst(lines, name, first) ==
    \/ first = Null /\ \A i \in 1..Len(lines) : lines[i].name # name
    \/ /\ first # Null /\ first \in HeaderValues(name)
       /\ \E i \in 1..Len(lines) : /\ lines[i].name = name /\ first = lines[i].value
                                  /\ \A j \in 1..(i - 1) : lines[j].name # name

(* headers.ts: the first value is that of the first line of the name, or   *)
(* null.                                                                   *)
LEMMA FirstFacts ==
    ASSUME NEW lines, WellFormed(lines), NEW name, Null \notin HeaderValues(name)
    PROVE  IsFirst(lines, name, First(HeaderBag(lines), name))
<1> DEFINE sent == SentAs(lines, name)
<1>1. sent \in Seq(HeaderValues(name))
  BY SentFacts
<1>2. PICK pos \in [1..Len(sent) -> 1..Len(lines)] : IsSent(lines, name, sent, pos)
  BY SentFacts
<1>3. First(HeaderBag(lines), name) = IF sent = <<>> THEN Null ELSE sent[1]
  BY AllFacts DEF First
<1> HIDE DEF sent
<1>4. CASE sent = <<>>
  <2>1. 1..Len(sent) = {}
    BY <1>4
  <2> QED
    BY <1>2, <1>3, <1>4, <2>1 DEF IsSent, IsFirst
<1>5. CASE sent # <<>>
  <2>1. 1 \in 1..Len(sent)
    BY <1>1, <1>5
  <2>2. PICK i \in 1..Len(lines) : i = pos[1] /\ lines[i].name = name /\ sent[1] = lines[i].value
    BY <1>2, <2>1 DEF IsSent
  <2>3. ASSUME NEW j \in 1..(i - 1), lines[j].name = name
        PROVE  FALSE
    <3>0. Len(lines) \in Nat /\ Len(sent) \in Nat
      BY <1>1 DEF WellFormed
    <3>1. j \in 1..Len(lines)
      BY <3>0
    <3>2. PICK k \in 1..Len(sent) : pos[k] = j
      BY <1>2, <2>3, <3>1 DEF IsSent
    <3>3. k # 1
      BY <2>2, <3>2
    <3>4. 1 < k
      BY <3>0, <3>3
    <3>5. pos[1] < pos[k]
      BY <1>2, <2>1, <3>4 DEF IsSent
    <3> QED
      BY <2>2, <3>2, <3>5
  <2>4. sent[1] \in HeaderValues(name)
    BY Zenon, <1>1, <2>1, ElementOf
  <2>5. sent[1] # Null
    BY <2>4
  <2> QED
    BY <1>3, <1>5, <2>2, <2>3, <2>4, <2>5 DEF IsFirst
<1> QED
  BY <1>4, <1>5

-----------------------------------------------------------------------------
(* The cost of a set of findings is their sum in any larger set.           *)
LEMMA CostFacts ==
    ASSUME NEW D, IsFiniteSet(D), NEW costs \in [D -> Nat], NEW sum, Sums(D, costs, sum),
           NEW found \in SUBSET D
    PROVE  Cost(costs, found) = sum[found]
<1>1. IsFiniteSet(found)
  BY FS_Subset
<1>2. PICK own : Sums(found, costs, own)
  BY <1>1, SumExists
<1> DEFINE Total(g) == g = [s \in SUBSET found |->
                IF s = {} THEN 0
                ELSE costs[CHOOSE x \in s : TRUE] + g[s \ {CHOOSE x \in s : TRUE}]]
<1>3. \A g : Total(g) <=> Sums(found, costs, g)
  BY DEF Sums
<1>4. Cost(costs, found) = (CHOOSE g : Total(g))[found]
  BY Zenon DEF Cost, MapThenSumSet, MapThenFoldSet
<1> HIDE DEF Total
<1>5. PICK g : g = CHOOSE h : Total(h)
  OBVIOUS
<1>6. Total(g)
  BY <1>2, <1>3, <1>5
<1>7. Sums(found, costs, g)
  BY <1>3, <1>6
<1>8. \A s \in SUBSET found : g[s] = sum[s]
  <2>1. PICK same : same = costs
    OBVIOUS
  <2>2. Sums(D, same, sum) /\ \A x \in found : costs[x] = same[x]
    BY <2>1
  <2> QED
    BY <1>1, <1>7, <2>2, SumsAgree
<1> QED
  BY <1>4, <1>5, <1>8

(* What is known of a sum of weights over a set of findings.               *)
LEMMA CostBounds ==
    ASSUME NEW D, IsFiniteSet(D), NEW costs \in [D -> Nat]
    PROVE  /\ \A F \in SUBSET D : Cost(costs, F) \in Nat
           /\ Cost(costs, {}) = 0
           /\ \A F \in SUBSET D : \A x \in F : Cost(costs, F) = costs[x] + Cost(costs, F \ {x})
           /\ \A F \in SUBSET D : \A G \in SUBSET F : Cost(costs, G) <= Cost(costs, F)
<1>1. PICK sum : Sums(D, costs, sum)
  BY SumExists
<1>2. costs \in [D -> Int]
  OBVIOUS
<1>3. \A F \in SUBSET D : Cost(costs, F) = sum[F]
  BY <1>1, CostFacts
<1>4. \A F \in SUBSET D : sum[F] \in Int
  BY <1>1, <1>2, SumType
<1>5. \A F \in SUBSET D : \A G \in SUBSET F : 0 <= sum[G] /\ sum[G] <= sum[F]
  BY <1>1, SumGrows
<1>6. \A F \in SUBSET D : \A x \in F : sum[F] = costs[x] + sum[F \ {x}]
  <2> TAKE F \in SUBSET D
  <2> TAKE x \in F
  <2> QED
    BY <1>1, <1>2, SumRemove
<1>7. sum[{}] = 0
  BY <1>1 DEF Sums
<1>8. \A F \in SUBSET D : \A G \in SUBSET F : G \in SUBSET D
  OBVIOUS
<1>9. \A F \in SUBSET D : Cost(costs, F) \in Nat
  BY <1>3, <1>4, <1>5
<1>10. \A F \in SUBSET D : \A x \in F : Cost(costs, F) = costs[x] + Cost(costs, F \ {x})
  <2> TAKE F \in SUBSET D
  <2> TAKE x \in F
  <2>1. F \ {x} \in SUBSET D
    OBVIOUS
  <2> QED
    BY <1>3, <1>6, <2>1
<1>11. Cost(costs, {}) = 0
  BY <1>3, <1>7
<1>12. \A F \in SUBSET D : \A G \in SUBSET F : Cost(costs, G) <= Cost(costs, F)
  BY <1>3, <1>5, <1>8
<1> QED
  BY <1>9, <1>10, <1>11, <1>12


-----------------------------------------------------------------------------
(* Of a directive repeated in a policy the parser keeps the one browsers   *)
(* keep.                                                                   *)
LEMMA KeptFacts ==
    ASSUME NEW policy, Len(policy) \in Nat, DOMAIN policy = 1..Len(policy), NEW name
    PROVE  /\ name \in DOMAIN ParseCsp(policy) =>
                /\ Kept(policy, name) = {ParseCsp(policy)[name]}
                /\ \E i \in 1..Len(policy) : policy[i].name = name /\ ParseCsp(policy)[name] = policy[i].values
           /\ name \notin DOMAIN ParseCsp(policy) =>
                Kept(policy, name) = {} /\ \A i \in 1..Len(policy) : policy[i].name # name
<1> DEFINE n == Len(policy)
           I == {i \in 1..n : policy[i].name = name}
<1>1. DOMAIN ParseCsp(policy) = {policy[i].name : i \in 1..n}
  BY DEF ParseCsp
<1>2. ASSUME name \in DOMAIN ParseCsp(policy)
      PROVE  ParseCsp(policy)[name] = policy[Min(I)].values /\ I # {}
  <2>1. name \in {policy[i].name : i \in 1..n} /\ I # {}
    BY <1>1, <1>2
  <2> QED
    BY <2>1 DEF ParseCsp, SelectInSeq
<1>3. ASSUME name \in DOMAIN ParseCsp(policy)
      PROVE  Min(I) \in I /\ Min(I) \in 1..n /\ \A j \in I : Min(I) <= j
  <2>1. I \in SUBSET (1..n)
    OBVIOUS
  <2> HIDE DEF I
  <2> QED
    BY <1>2, <1>3, <2>1, FirstIndex
<1>4. ASSUME name \in DOMAIN ParseCsp(policy)
      PROVE  {j \in 1..n : policy[j].name = name /\ \A k \in 1..(j - 1) : policy[k].name # name} = {Min(I)}
  <2>1. PICK first \in 1..n : /\ first = Min(I) /\ policy[first].name = name
                              /\ \A j \in 1..n : policy[j].name = name => first <= j
    BY <1>3, <1>4
  <2>2. ASSUME NEW j \in 1..n, policy[j].name = name, \A k \in 1..(j - 1) : policy[k].name # name
        PROVE  j = first
    <3>1. first \notin 1..(j - 1) /\ first <= j
      BY <2>1, <2>2
    <3> QED
      BY <2>1, <3>1
  <2>3. ASSUME NEW k \in 1..(first - 1)
        PROVE  policy[k].name # name
    <3>1. k \in 1..n /\ ~(first <= k)
      BY <2>1
    <3> QED
      BY <2>1, <3>1
  <2> HIDE DEF I
  <2> QED
    BY <2>1, <2>2, <2>3
<1>5. ASSUME name \in DOMAIN ParseCsp(policy)
      PROVE  Kept(policy, name) = {ParseCsp(policy)[name]}
  <2>1. PICK first : first = Min(I)
    OBVIOUS
  <2>2. Kept(policy, name) = {policy[i].values : i \in {first}}
    BY <1>4, <1>5, <2>1 DEF Kept
  <2> QED
    BY <1>2, <1>5, <2>1, <2>2
<1>6. ASSUME name \notin DOMAIN ParseCsp(policy)
      PROVE  \A i \in 1..n : policy[i].name # name
  BY <1>1, <1>6
<1>7. ASSUME name \notin DOMAIN ParseCsp(policy)
      PROVE  Kept(policy, name) = {}
  BY <1>6, <1>7 DEF Kept
<1> QED
  BY <1>2, <1>3, <1>5, <1>6, <1>7

(* A policy is a sequence of directives with sets of sources.              *)
LEMMA PolicyFacts ==
    ASSUME NEW policy \in Policies
    PROVE  /\ Len(policy) \in Nat /\ DOMAIN policy = 1..Len(policy)
           /\ \A i \in 1..Len(policy) : policy[i].values \in SUBSET Sources
<1>1. Len(policy) \in Nat /\ DOMAIN policy = 1..Len(policy)
  BY DEF Policies
<1>2. ASSUME NEW i \in 1..Len(policy)
      PROVE  policy[i].values \in SUBSET Sources
  <2>1. policy[i] \in [name : STRING, values : SUBSET Sources]
    BY ElementOf DEF Policies
  <2> QED
    BY <2>1
<1> QED
  BY <1>1, <1>2

(* The first directive of the script chain that is set: its sources are    *)
(* those the browser keeps.                                                *)
LEMMA ScriptFacts ==
    ASSUME NEW policy \in Policies, NEW scripts,
           scripts = EffectiveSources(ParseCsp(policy), ScriptChain),
           \A sources \in SUBSET Sources : Null # sources
    PROVE  \/ scripts = Null /\ ScriptSources(policy) = {}
           \/ scripts # Null /\ ScriptSources(policy) = {scripts}
<1>1. PICK directives : directives = ParseCsp(policy)
  OBVIOUS
<1> DEFINE I == {i \in 1..3 : ScriptChain[i] \in DOMAIN directives}
<1>2. /\ ScriptChain[1] = "script-src-elem" /\ ScriptChain[2] = "script-src"
      /\ ScriptChain[3] = "default-src" /\ Len(ScriptChain) = 3
  BY DEF ScriptChain
<1>3. scripts = IF I # {} THEN (IF Min(I) = 0 THEN Null ELSE directives[ScriptChain[Min(I)]]) ELSE Null
  <2>1. I = {} => scripts = Null
    BY <1>1, <1>2 DEF EffectiveSources, SelectInSeq
  <2>2. I # {} => scripts = IF Min(I) = 0 THEN Null ELSE directives[ScriptChain[Min(I)]]
    BY <1>1, <1>2 DEF EffectiveSources, SelectInSeq
  <2> HIDE DEF I
  <2> QED
    BY <2>1, <2>2
<1>4. I # {} => Min(I) \in 1..3 /\ Min(I) \in I /\ \A j \in I : Min(I) <= j
  <2>1. I \in SUBSET (1..3)
    OBVIOUS
  <2> HIDE DEF I
  <2> QED
    BY <2>1, FirstIndex
<1>5. scripts = IF ScriptChain[1] \in DOMAIN directives THEN directives[ScriptChain[1]]
                ELSE IF ScriptChain[2] \in DOMAIN directives THEN directives[ScriptChain[2]]
                ELSE IF ScriptChain[3] \in DOMAIN directives THEN directives[ScriptChain[3]] ELSE Null
  BY <1>3, <1>4
<1>6. ASSUME NEW name, name \in DOMAIN directives
      PROVE  Kept(policy, name) = {directives[name]} /\ directives[name] # Null
  BY <1>1, <1>6, PolicyFacts, KeptFacts
<1>7. ASSUME NEW name, name \notin DOMAIN directives
      PROVE  Kept(policy, name) = {}
  BY <1>1, <1>7, PolicyFacts, KeptFacts
<1>8. ScriptSources(policy) =
            IF Kept(policy, ScriptChain[1]) # {} THEN Kept(policy, ScriptChain[1])
            ELSE IF Kept(policy, ScriptChain[2]) # {} THEN Kept(policy, ScriptChain[2])
            ELSE Kept(policy, ScriptChain[3])
  BY <1>2 DEF ScriptSources
<1> HIDE DEF I
<1> QED
  BY Zenon, <1>5, <1>6, <1>7, <1>8
=============================================================================
