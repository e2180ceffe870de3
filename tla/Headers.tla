------------------------------ MODULE Headers ------------------------------
(***************************************************************************)
(* frontend/src/analysis/headers.ts: header lookup and the parsers the     *)
(* checks share.                                                           *)
(*                                                                         *)
(* A line of a response is [name, value].  Names are written as they are   *)
(* after toLowerCase, values after trim; a value is what its parser can    *)
(* tell apart:                                                             *)
(*   a policy       a sequence of [name, values], values a set of sources  *)
(*   HSTS           a sequence of [is, seconds]; seconds below zero stand  *)
(*                  for what parseInt refuses or the code discards         *)
(*   permissions    a sequence of [feature, allowlist]                     *)
(*   Referrer       a sequence of tokens                                   *)
(*   software name  [version, ticks]: whether it shows a version, and the  *)
(*                  longest run of backticks in it                         *)
(*   anything else  a string                                               *)
(* Ratios are percentages.                                                 *)
(***************************************************************************)
EXTENDS Integers, Sequences, SequencesExt

CONSTANTS
    Null,       \* null, what a lookup of an absent header returns
    Sources     \* the source expressions of policies

(* The values sent under one name, in wire order.                          *)
SentAs(lines, name) ==
    FlattenSeq([i \in DOMAIN lines |-> IF lines[i].name = name THEN <<lines[i].value>> ELSE <<>>])
HeaderBag(lines) == [name \in {lines[i].name : i \in DOMAIN lines} |-> SentAs(lines, name)]

All(headers, name)   == IF name \in DOMAIN headers THEN headers[name] ELSE <<>>
First(headers, name) == IF All(headers, name) = <<>> THEN Null ELSE All(headers, name)[1]

(* The context of a check: the headers and the scheme of the final URL.    *)
BuildContext(response) == [headers |-> HeaderBag(response.lines), isHttps |-> response.https]

-----------------------------------------------------------------------------
LastDirectiveWins(policy) ==
    [name \in {policy[i].name : i \in DOMAIN policy} |->
        policy[SelectLastInSeq(policy, LAMBDA directive : directive.name = name)].values]
(* Of a directive repeated inside one policy the first counts.             *)
ParseCsp(policy) ==
    [name \in {policy[i].name : i \in DOMAIN policy} |->
        policy[SelectInSeq(policy, LAMBDA directive : directive.name = name)].values]

FallbackFirst(directives, chain) ==
    LET i == SelectLastInSeq(chain, LAMBDA name : name \in DOMAIN directives)
    IN  IF i = 0 THEN Null ELSE directives[chain[i]]
(* The sources of the first directive of the chain that is set.  A         *)
(* directive without values is set.                                        *)
EffectiveSources(directives, chain) ==
    LET i == SelectInSeq(chain, LAMBDA name : name \in DOMAIN directives)
    IN  IF i = 0 THEN Null ELSE directives[chain[i]]

(* Every max-age that parses replaces the one before.                      *)
ParseHsts(value) ==
    LET i == SelectLastInSeq(value, LAMBDA token : token.is = "max-age" /\ token.seconds >= 0)
        Says(word) == \E j \in DOMAIN value : value[j].is = word
    IN  [maxAge            |-> IF i = 0 THEN Null ELSE value[i].seconds,
         includeSubDomains |-> Says("includesubdomains"),
         preload           |-> Says("preload")]

(* A Map: the last allowlist of a feature replaces the others.  A segment  *)
(* without "=" is skipped.                                                 *)
NoEquals == "no ="
ParsePermissionsPolicy(value) ==
    LET Deciding(feature) == SelectLastInSeq(value, LAMBDA segment : segment.feature = feature
                                                                     /\ segment.allowlist # NoEquals)
    IN  [feature \in {f \in {value[i].feature : i \in DOMAIN value} : Deciding(f) # 0} |->
            value[Deciding(feature)].allowlist]

(* The tokens of all the lines of a name, as one list.                     *)
ParseTokenList(values) == FlattenSeq(values)

OnlyCapped(value) == IF value > 100 THEN 100 ELSE value
ClampRatio(value) == IF value < 0 THEN 0 ELSE IF value > 100 THEN 100 ELSE value
=============================================================================
