------------------------- MODULE ScanServiceProofs -------------------------
(***************************************************************************)
(* For every number of requests, clients and slots, and every limit, span  *)
(* and timeout: the slots channel holds its bound, nobody waits in it for  *)
(* nothing, and the limiter's promise about grants carries over to the     *)
(* scans that are started.                                                 *)
(*                                                                         *)
(* ScansWithinSlots is inductive only with WaitersAreBlocked -- a token    *)
(* handed over must not be in the channel already -- and StartsPerSpan     *)
(* needs the history: every start goes back to a grant of its own          *)
(* (StartInv), a request that may still start is not past its deadline     *)
(* (TimerInv), a deadline is its grant plus TotalTimeout (GrantInv), and   *)
(* the limiter has never granted too many (QuotaInv).                      *)
(***************************************************************************)
EXTENDS ScanService, FiniteSetTheorems, SequenceTheorems, TLAPS

(* A token belongs to a scan in progress or to one whose handler has       *)
(* answered and not returned yet.                                          *)
SlotInv == \A r \in slots : phase[r] \in {"scanning", "answered"}

(* Every grant names a request the limiter has seen, and the time its      *)
(* context was given.                                                      *)
GrantInv ==
    \A k \in Keys : \A g \in granted[k] :
        /\ phase[g.request] # "new"
        /\ g.at <= clock
        /\ deadline[g.request] = DeadlineFrom(g.at)

(* Between the limiter and the answer a request holds its grant.           *)
HoldsGrant(r) == \E g \in granted[client[r]] : g.request = r
AdmittedInv == \A r \in Requests : phase[r] \in {"selecting", "queued"} => HoldsGrant(r)

(* A request that may still get a slot is not past its deadline.           *)
TimerInv == \A r \in Requests : phase[r] \in {"selecting", "queued"} => clock <= deadline[r]

(* A scan starts once, for the client that asked, and on a grant not older *)
(* than TotalTimeout.                                                      *)
StartInv ==
    /\ \A s \in starts :
          /\ phase[s.request] \in {"scanning", "answered", "cut"}
          /\ \E g \in granted[s.client] : g.request = s.request /\ s.at <= DeadlineFrom(g.at)
    /\ \A s, t \in starts : s.request = t.request => s = t

(* The limiter has kept its promise so far.                                *)
RecentlyGranted(k) == {g \in granted[k] : g.at > clock - Span}
QuotaInv == \A k \in Keys : IsFiniteSet(RecentlyGranted(k)) /\ Cardinality(RecentlyGranted(k)) <= Limit

ServiceInv ==
    /\ TypeOK
    /\ SlotInv /\ ScansWithinSlots /\ WaitersAreBlocked
    /\ GrantInv /\ AdmittedInv /\ TimerInv
    /\ StartInv /\ QuotaInv

-----------------------------------------------------------------------------
(* What the handler writes is an answer, and never the blank.              *)
LEMMA AnswerFacts ==
    ASSUME NEW r
    PROVE  /\ BadBody \in Answer /\ BadBody # Nobody
           /\ OverQuota \in Answer /\ OverQuota # Nobody
           /\ Busy \in Answer /\ Busy # Nobody
           /\ Scanned \in Answer /\ Scanned # Nobody
           /\ ScanError(r) \in Answer /\ ScanError(r) # Nobody
  BY DEF Answer, BadBody, OverQuota, Busy, Scanned, ScanError, Nobody

(* One element taken out of a sequence leaves the others, in order.        *)
LEMMA RemoveAtFacts ==
    ASSUME NEW S, NEW q \in Seq(S), NEW i \in 1..Len(q)
    PROVE  /\ RemoveAt(q, i) \in Seq(S)
           /\ Len(RemoveAt(q, i)) = Len(q) - 1
           /\ \A j \in 1..Len(q) - 1 : RemoveAt(q, i)[j] = IF j < i THEN q[j] ELSE q[j + 1]
<1> DEFINE a == SubSeq(q, 1, i - 1)
           b == SubSeq(q, i + 1, Len(q))
<1>1. Len(q) \in Nat /\ \A j \in 1..Len(q) : q[j] \in S
  BY LenProperties, ElementOfSeq
<1>2. a \in Seq(S) /\ Len(a) = i - 1 /\ \A j \in 1..i - 1 : a[j] = q[j]
  <2>1. \A j \in 1..i - 1 : q[j] \in S
    BY <1>1
  <2>2. i - 1 \in Int /\ 1 \in Int
    BY <1>1
  <2>3. /\ a \in Seq(S)
        /\ Len(a) = IF 1 <= i - 1 THEN (i - 1) - 1 + 1 ELSE 0
        /\ \A j \in 1..(i - 1) - 1 + 1 : a[j] = q[1 + j - 1]
    BY <2>1, <2>2, SubSeqProperties
  <2> QED
    BY <2>3, <1>1
<1>3. b \in Seq(S) /\ Len(b) = Len(q) - i /\ \A j \in 1..Len(q) - i : b[j] = q[j + i]
  <2>1. \A j \in i + 1..Len(q) : q[j] \in S
    BY <1>1
  <2>2. i + 1 \in Int /\ Len(q) \in Int
    BY <1>1
  <2>3. /\ b \in Seq(S)
        /\ Len(b) = IF i + 1 <= Len(q) THEN Len(q) - (i + 1) + 1 ELSE 0
        /\ \A j \in 1..Len(q) - (i + 1) + 1 : b[j] = q[(i + 1) + j - 1]
    BY <2>1, <2>2, SubSeqProperties
  <2> QED
    BY <2>3, <1>1
<1> HIDE DEF a, b
<1>4. /\ a \o b \in Seq(S)
      /\ Len(a \o b) = Len(a) + Len(b)
      /\ \A j \in 1..Len(a) + Len(b) : (a \o b)[j] = IF j <= Len(a) THEN a[j] ELSE b[j - Len(a)]
  BY <1>2, <1>3, ConcatProperties
<1>5. RemoveAt(q, i) = a \o b
  BY DEF RemoveAt, a, b
<1>6. Len(a) + Len(b) = Len(q) - 1
  BY <1>1, <1>2, <1>3
<1>7. ASSUME NEW j \in 1..Len(q) - 1
      PROVE  (a \o b)[j] = IF j < i THEN q[j] ELSE q[j + 1]
  <2>1. CASE j < i
    BY <2>1, <1>1, <1>2, <1>4, <1>6
  <2>2. CASE ~(j < i)
    <3>1. j - (i - 1) \in 1..Len(q) - i /\ (j - (i - 1)) + i = j + 1
      BY <2>2, <1>1
    <3>2. (a \o b)[j] = b[j - (i - 1)]
      BY <2>2, <1>1, <1>2, <1>4, <1>6
    <3> QED
      BY <2>2, <3>1, <3>2, <1>3
  <2> QED
    BY <2>1, <2>2
<1> QED
  BY <1>4, <1>5, <1>6, <1>7

(* A waiter that gives up leaves the others waiting, once each.            *)
LEMMA WithoutFacts ==
    ASSUME NEW q \in Seq(Requests), NEW i \in 1..Len(q),
           \A j, k \in 1..Len(q) : q[j] = q[k] => j = k
    PROVE  /\ Without(q[i], q) \in Seq(Requests)
           /\ Len(Without(q[i], q)) = Len(q) - 1
           /\ \A j \in 1..Len(q) - 1 : Without(q[i], q)[j] = IF j < i THEN q[j] ELSE q[j + 1]
<1>1. DOMAIN q = 1..Len(q)
  BY LenProperties
<1>2. (CHOOSE j \in DOMAIN q : q[j] = q[i]) = i
  BY <1>1
<1>3. Without(q[i], q) = RemoveAt(q, i)
  BY <1>2 DEF Without
<1> QED
  BY <1>3, RemoveAtFacts

-----------------------------------------------------------------------------
(* A place in the queue for every request that waits.                      *)
LEMMA QueuedHasPlace ==
    ASSUME ServiceInv, NEW r \in Requests, phase[r] = "queued"
    PROVE  \E i \in 1..Len(queue) : queue[i] = r
<1>1. r \in {queue[i] : i \in 1..Len(queue)}
  BY DEF ServiceInv, WaitersAreBlocked
<1> QED
  BY <1>1

(* The first of a queue that is not empty waits, with a live context.      *)
LEMMA HeadWaits ==
    ASSUME ServiceInv, queue # <<>>
    PROVE  /\ Len(queue) \in Nat \ {0} /\ 1 \in 1..Len(queue)
           /\ Head(queue) = queue[1]
           /\ Head(queue) \in Requests
           /\ phase[Head(queue)] = "queued"
           /\ ctx[Head(queue)] = "live"
           /\ Head(queue) \notin slots
<1>1. queue \in Seq(Requests)
  BY DEF ServiceInv, TypeOK
<1>2. Len(queue) \in Nat \ {0} /\ 1 \in 1..Len(queue)
  BY <1>1, EmptySeq
<1>3. Head(queue) = queue[1] /\ Head(queue) \in Requests
  BY <1>1, <1>2, HeadTailProperties, ElementOfSeq
<1>4. queue[1] \in {r \in Requests : phase[r] = "queued"}
  BY <1>2 DEF ServiceInv, WaitersAreBlocked
<1>5. ctx[queue[1]] = "live"
  BY <1>2 DEF ServiceInv, WaitersAreBlocked
<1> QED
  BY <1>2, <1>3, <1>4, <1>5 DEF ServiceInv, SlotInv

(* The channel's content is finite and has a natural size.                 *)
LEMMA SlotsFinite ==
    ASSUME TypeOK, ServiceAssumption
    PROVE  IsFiniteSet(slots) /\ Cardinality(slots) \in Nat
  BY FS_Subset, FS_CardinalityType DEF TypeOK, ServiceAssumption

LEMMA TypeStep ==
    ASSUME ServiceInv, ServiceAssumption, [Next]_vars
    PROVE  TypeOK'
<1> USE AnswerFacts
<1>0. TypeOK
  BY DEF ServiceInv
<1>1. CASE UNCHANGED vars
  BY <1>0, <1>1 DEF TypeOK, vars
<1>2. CASE Tick
  <2>1. clock' \in 0..MaxClock
    BY <1>0, <1>2 DEF Tick, TypeOK, ServiceAssumption
  <2> QED
    BY <1>0, <1>2, <2>1 DEF Tick, TypeOK
<1>3. CASE Stop
  BY <1>0, <1>3 DEF Stop, TypeOK
<1>4. CASE Exit
  <2>1. phase' \in [Requests -> Phases]
    BY <1>4 DEF Exit, Phases
  <2>2. queue' \in Seq(Requests)
    BY <1>4, EmptySeq DEF Exit
  <2>3. \A r \in Requests : phase'[r] = "answered" <=> phase[r] = "answered"
    BY <1>4 DEF Exit
  <2> QED
    BY <1>0, <1>4, <2>1, <2>2, <2>3 DEF Exit, TypeOK
<1>5. ASSUME NEW r \in Requests, NEW body \in Answer, body # Nobody, Write(r, body),
             UNCHANGED <<process, clock, client, ctx, deadline, slots, queue, granted, starts>>
      PROVE  TypeOK'
  <2>1. phase' \in [Requests -> Phases] /\ answer' \in [Requests -> Answer \cup {Nobody}]
    BY <1>0, <1>5 DEF TypeOK, Write, Phases
  <2>2. \A s \in Requests : answer'[s] # Nobody <=> phase'[s] = "answered"
    BY <1>0, <1>5 DEF TypeOK, Write
  <2> QED
    BY <1>0, <1>5, <2>1, <2>2 DEF TypeOK
<1>6. ASSUME NEW r \in Requests, Admit(r)
      PROVE  TypeOK'
  <2>1. clock \in Nat /\ DeadlineFrom(clock) \in Nat
    BY <1>0 DEF TypeOK, DeadlineFrom, ServiceAssumption
  <2>2. [request |-> r, at |-> clock] \in [request : Requests, at : Nat]
    BY <2>1
  <2>3. granted' \in [Keys -> SUBSET [request : Requests, at : Nat]]
    BY <1>0, <1>6, <2>2 DEF TypeOK, Admit
  <2>4. phase' \in [Requests -> Phases] /\ deadline' \in [Requests -> Nat]
    BY <1>0, <1>6, <2>1 DEF TypeOK, Admit, Phases
  <2>5. \A s \in Requests : phase'[s] = "answered" <=> phase[s] = "answered"
    BY <1>0, <1>6 DEF TypeOK, Admit
  <2> QED
    BY <1>0, <1>6, <2>3, <2>4, <2>5 DEF TypeOK, Admit
<1>7. ASSUME NEW r \in Requests, Start(r)
      PROVE  starts' \in SUBSET [request : Requests, client : Keys, at : Nat]
  <2>1. [request |-> r, client |-> client[r], at |-> clock] \in [request : Requests, client : Keys, at : Nat]
    BY <1>0 DEF TypeOK, ServiceAssumption
  <2> QED
    BY <1>0, <1>7, <2>1 DEF TypeOK, Start
<1>8. ASSUME NEW r \in Requests, Select(r)
      PROVE  TypeOK'
  <2>0. /\ phase' \in [Requests -> Phases]
        /\ \A s \in Requests : phase'[s] = "answered" <=> phase[s] = "answered"
    BY <1>0, <1>8 DEF TypeOK, Select, TakeSlot, NoticeDone, JoinQueue, Phases
  <2>1. CASE TakeSlot(r)
    BY <1>0, <1>7, <2>0, <2>1 DEF TypeOK, TakeSlot
  <2>2. CASE NoticeDone(r)
    BY <1>0, <2>0, <2>2 DEF TypeOK, NoticeDone
  <2>3. CASE JoinQueue(r)
    <3>1. queue' \in Seq(Requests)
      BY <1>0, <2>3, AppendProperties DEF TypeOK, JoinQueue
    <3> QED
      BY <1>0, <2>0, <2>3, <3>1 DEF TypeOK, JoinQueue
  <2> QED
    BY <1>8, <2>1, <2>2, <2>3 DEF Select
<1>9. ASSUME NEW r \in Requests, Release(r)
      PROVE  TypeOK'
  <2>1. CASE queue = <<>>
    BY <1>0, <1>9, <2>1 DEF TypeOK, Release
  <2>2. CASE queue # <<>>
    <3>1. /\ Head(queue) \in Requests
          /\ phase[Head(queue)] = "queued"
          /\ Tail(queue) \in Seq(Requests)
      BY <1>0, <2>2, HeadWaits, HeadTailProperties DEF TypeOK
    <3>2. /\ phase' \in [Requests -> Phases]
          /\ \A s \in Requests : phase'[s] = "answered" <=> phase[s] = "answered"
      BY <1>0, <1>9, <2>2, <3>1 DEF TypeOK, Release, Phases
    <3>3. starts' \in SUBSET [request : Requests, client : Keys, at : Nat]
      BY <1>7, <1>9, <2>2, <3>1 DEF Release
    <3> QED
      BY <1>0, <1>9, <2>2, <3>1, <3>2, <3>3 DEF TypeOK, Release
  <2> QED
    BY <2>1, <2>2
<1>10. ASSUME NEW r \in Requests, NEW why \in {"deadline", "canceled"}, CtxDone(r, why)
       PROVE  TypeOK'
  <2>1. ctx' \in [Requests -> {"live", "deadline", "canceled"}]
    BY <1>0, <1>10 DEF TypeOK, CtxDone
  <2>2. CASE phase[r] = "queued"
    <3>1. queue' \in Seq(Requests)
      <4>1. PICK i \in 1..Len(queue) : queue[i] = r
        BY <2>2, QueuedHasPlace
      <4>2. \A j, k \in 1..Len(queue) : queue[j] = queue[k] => j = k
        BY DEF ServiceInv, WaitersAreBlocked
      <4>3. queue \in Seq(Requests)
        BY <1>0 DEF TypeOK
      <4>4. Without(queue[i], queue) \in Seq(Requests)
        BY <4>2, <4>3, WithoutFacts
      <4> QED
        BY <1>10, <2>2, <4>1, <4>4 DEF CtxDone
    <3>2. /\ phase' \in [Requests -> Phases]
          /\ \A s \in Requests : phase'[s] = "answered" <=> phase[s] = "answered"
      BY <1>0, <1>10, <2>2 DEF TypeOK, CtxDone, Phases
    <3> QED
      BY <1>0, <1>10, <2>1, <3>1, <3>2 DEF TypeOK, CtxDone
  <2>3. CASE phase[r] # "queued"
    BY <1>0, <1>10, <2>1, <2>3 DEF TypeOK, CtxDone
  <2> QED
    BY <2>2, <2>3
<1>11. ASSUME NEW r \in Requests,
              RefuseBody(r) \/ TurnAway(r) \/ SayBusy(r) \/ FetchSucceeds(r) \/ FetchFails(r)
       PROVE  TypeOK'
  BY <1>5, <1>11 DEF RefuseBody, TurnAway, SayBusy, FetchSucceeds, FetchFails
<1>12. ASSUME NEW r \in Requests, Deadline(r) \/ Cancel(r)
       PROVE  TypeOK'
  BY <1>10, <1>12 DEF Deadline, Cancel
<1> QED
  BY <1>1, <1>2, <1>3, <1>4, <1>6, <1>8, <1>9, <1>11, <1>12 DEF Next

-----------------------------------------------------------------------------
(* The channel: a token is put in only where there is room, or in exchange *)
(* for one that is taken out.                                              *)
LEMMA SlotStep ==
    ASSUME ServiceInv, ServiceAssumption, [Next]_vars
    PROVE  SlotInv' /\ ScansWithinSlots'
<1>0. TypeOK /\ SlotInv /\ ScansWithinSlots
  BY DEF ServiceInv
<1>1. IsFiniteSet(slots) /\ Cardinality(slots) \in Nat /\ Slots \in Nat
  BY <1>0, SlotsFinite DEF ServiceAssumption
<1>2. ASSUME slots' = slots,
             \A r \in Requests : phase'[r] = "scanning" => phase[r] = "scanning",
             \A r \in slots : phase'[r] \in {"scanning", "answered"}
      PROVE  SlotInv' /\ ScansWithinSlots'
  BY <1>0, <1>2 DEF SlotInv, ScansWithinSlots
<1>3. CASE UNCHANGED vars \/ Tick \/ Stop
  <2>1. slots' = slots /\ phase' = phase
    BY <1>3 DEF vars, Tick, Stop
  <2> QED
    BY <1>0, <1>2, <2>1 DEF SlotInv
<1>4. CASE Exit
  <2>1. Cardinality({}) = 0
    BY FS_EmptySet
  <2> QED
    BY <1>1, <1>4, <2>1 DEF Exit, SlotInv, ScansWithinSlots
<1>5. ASSUME NEW r \in Requests,
             \/ RefuseBody(r) \/ TurnAway(r) \/ Admit(r)
             \/ NoticeDone(r) \/ JoinQueue(r) \/ SayBusy(r)
             \/ FetchSucceeds(r) \/ FetchFails(r)
      PROVE  SlotInv' /\ ScansWithinSlots'
  <2>1. slots' = slots
    BY <1>5 DEF RefuseBody, TurnAway, Admit, NoticeDone, JoinQueue, SayBusy, FetchSucceeds, FetchFails
  <2>2. \E p \in Phases \ {"scanning"} :
           /\ phase' = [phase EXCEPT ![r] = p]
           /\ p = "answered" \/ phase[r] \notin {"scanning", "answered"}
    BY <1>5 DEF RefuseBody, TurnAway, Admit, NoticeDone, JoinQueue, SayBusy, FetchSucceeds, FetchFails,
                Write, Phases
  <2>3. \A s \in Requests : phase'[s] = "scanning" => phase[s] = "scanning"
    BY <1>0, <2>2 DEF TypeOK
  <2>4. \A s \in slots : phase'[s] \in {"scanning", "answered"}
    BY <1>0, <2>2 DEF TypeOK, SlotInv
  <2> QED
    BY <1>2, <2>1, <2>3, <2>4
<1>6. ASSUME NEW r \in Requests, TakeSlot(r)
      PROVE  SlotInv' /\ ScansWithinSlots'
  <2>1. Cardinality(slots \cup {r}) = IF r \in slots THEN Cardinality(slots) ELSE Cardinality(slots) + 1
    BY <1>1, FS_AddElement
  <2>2. Cardinality(slots') <= Slots
    BY <1>1, <1>6, <2>1 DEF TakeSlot, HasRoom
  <2>3. \A s \in Requests : phase'[s] = IF s = r THEN "scanning" ELSE phase[s]
    BY <1>0, <1>6 DEF TypeOK, TakeSlot
  <2>4. slots' = slots \cup {r}
    BY <1>6 DEF TakeSlot
  <2> QED
    BY <1>0, <2>2, <2>3, <2>4 DEF TypeOK, SlotInv, ScansWithinSlots
<1>7. ASSUME NEW r \in Requests, Release(r)
      PROVE  SlotInv' /\ ScansWithinSlots'
  <2>1. /\ IsFiniteSet(slots \ {r})
        /\ Cardinality(slots \ {r}) = Cardinality(slots) - 1
    BY <1>1, <1>7, FS_RemoveElement DEF Release
  <2>2. CASE queue = <<>>
    <3>1. slots' = slots \ {r} /\ phase' = phase
      BY <1>7, <2>2 DEF Release
    <3>2. Cardinality(slots') <= Slots
      BY <1>0, <1>1, <2>1, <3>1 DEF ScansWithinSlots
    <3>3. phase[r] = "answered"
      BY <1>7 DEF Release
    <3> QED
      BY <1>0, <3>1, <3>2, <3>3 DEF SlotInv, ScansWithinSlots
  <2>3. CASE queue # <<>>
    <3>1. Head(queue) \in Requests /\ phase[Head(queue)] = "queued" /\ Head(queue) \notin slots
      BY <2>3, HeadWaits
    <3>2. /\ slots' = (slots \ {r}) \cup {Head(queue)}
          /\ phase' = [phase EXCEPT ![Head(queue)] = "scanning"]
          /\ phase[r] = "answered"
      BY <1>7, <2>3 DEF Release
    <3>3. Cardinality(slots') = Cardinality(slots)
      <4>1. Cardinality((slots \ {r}) \cup {Head(queue)}) = Cardinality(slots \ {r}) + 1
        BY <2>1, <3>1, FS_AddElement
      <4> QED
        BY <1>1, <2>1, <3>2, <4>1
    <3> QED
      BY <1>0, <3>1, <3>2, <3>3 DEF TypeOK, SlotInv, ScansWithinSlots
  <2> QED
    BY <2>2, <2>3
<1>8. ASSUME NEW r \in Requests, NEW why, CtxDone(r, why)
      PROVE  SlotInv' /\ ScansWithinSlots'
  <2>1. slots' = slots
    BY <1>8 DEF CtxDone
  <2>2. phase' = phase \/ (phase[r] = "queued" /\ phase' = [phase EXCEPT ![r] = "busy"])
    BY <1>8 DEF CtxDone
  <2>3. \A s \in Requests : phase'[s] = "scanning" => phase[s] = "scanning"
    BY <1>0, <2>2 DEF TypeOK
  <2>4. \A s \in slots : phase'[s] \in {"scanning", "answered"}
    BY <1>0, <2>2 DEF TypeOK, SlotInv
  <2> QED
    BY <1>2, <2>1, <2>3, <2>4
<1> QED
  BY <1>3, <1>4, <1>5, <1>6, <1>7, <1>8 DEF Next, Select, Deadline, Cancel

-----------------------------------------------------------------------------
(* Who waits in a queue, and that nobody waits in it twice.                *)
Waiting(q)  == {q[i] : i \in 1..Len(q)}
Distinct(q) == \A i, j \in 1..Len(q) : q[i] = q[j] => i = j

LEMMA JoinFacts ==
    ASSUME NEW q \in Seq(Requests), Distinct(q), NEW r \in Requests, r \notin Waiting(q)
    PROVE  Distinct(Append(q, r)) /\ Waiting(Append(q, r)) = Waiting(q) \cup {r}
<1>1. /\ Len(q) \in Nat
      /\ Len(Append(q, r)) = Len(q) + 1
      /\ \A i \in 1..Len(q) : Append(q, r)[i] = q[i]
      /\ Append(q, r)[Len(q) + 1] = r
  BY LenProperties, AppendProperties
<1>2. \A i \in 1..Len(q) : q[i] \in Waiting(q)
  BY DEF Waiting
<1>3. \A i \in 1..Len(q) + 1 : Append(q, r)[i] = IF i <= Len(q) THEN q[i] ELSE r
  BY <1>1
<1>4. Distinct(Append(q, r))
  <2> SUFFICES ASSUME NEW i \in 1..Len(q) + 1, NEW j \in 1..Len(q) + 1,
                      Append(q, r)[i] = Append(q, r)[j]
               PROVE  i = j
    BY <1>1 DEF Distinct
  <2>1. CASE i <= Len(q) /\ j <= Len(q)
    <3>1. i \in 1..Len(q) /\ j \in 1..Len(q) /\ q[i] = q[j]
      BY <1>1, <1>3, <2>1
    <3> QED
      BY <3>1 DEF Distinct
  <2>2. CASE i <= Len(q) /\ ~(j <= Len(q))
    BY <1>1, <1>2, <1>3, <2>2
  <2>3. CASE ~(i <= Len(q)) /\ j <= Len(q)
    BY <1>1, <1>2, <1>3, <2>3
  <2>4. CASE ~(i <= Len(q)) /\ ~(j <= Len(q))
    BY <1>1, <2>4
  <2> QED
    BY <2>1, <2>2, <2>3, <2>4
<1>5. \A x : x \in Waiting(Append(q, r)) <=> x \in Waiting(q) \cup {r}
  <2>1. ASSUME NEW x \in Waiting(Append(q, r))
        PROVE  x \in Waiting(q) \cup {r}
    <3>1. PICK i \in 1..Len(q) + 1 : Append(q, r)[i] = x
      BY <1>1, <2>1 DEF Waiting
    <3> QED
      BY <1>1, <1>2, <1>3, <3>1
  <2>2. ASSUME NEW x \in Waiting(q) \cup {r}
        PROVE  x \in Waiting(Append(q, r))
    <3>1. CASE x = r
      BY <1>1, <3>1 DEF Waiting
    <3>2. CASE x \in Waiting(q)
      <4>1. PICK i \in 1..Len(q) : q[i] = x
        BY <3>2 DEF Waiting
      <4>2. i \in 1..Len(q) + 1 /\ Append(q, r)[i] = x
        BY <1>1, <4>1
      <4> QED
        BY <1>1, <4>2 DEF Waiting
    <3> QED
      BY <2>2, <3>1, <3>2
  <2> QED
    BY <2>1, <2>2
<1> QED
  BY <1>4, <1>5

LEMMA LeaveFacts ==
    ASSUME NEW q \in Seq(Requests), Distinct(q), NEW i \in 1..Len(q)
    PROVE  /\ Distinct(Without(q[i], q))
           /\ Waiting(Without(q[i], q)) = Waiting(q) \ {q[i]}
           /\ Without(q[i], q) # <<>> => q # <<>>
<1> DEFINE w == Without(q[i], q)
<1>1. Len(q) \in Nat
  BY LenProperties
<1>2. /\ w \in Seq(Requests)
      /\ Len(w) = Len(q) - 1
      /\ \A j \in 1..Len(q) - 1 : w[j] = IF j < i THEN q[j] ELSE q[j + 1]
  BY WithoutFacts DEF Distinct
<1> HIDE DEF w
<1>3. Distinct(w)
  <2> SUFFICES ASSUME NEW j \in 1..Len(q) - 1, NEW k \in 1..Len(q) - 1, w[j] = w[k]
               PROVE  j = k
    BY <1>2 DEF Distinct
  <2>1. PICK a \in 1..Len(q) : a = (IF j < i THEN j ELSE j + 1)
    BY <1>1
  <2>2. PICK b \in 1..Len(q) : b = (IF k < i THEN k ELSE k + 1)
    BY <1>1
  <2>3. q[a] = w[j] /\ q[b] = w[k]
    BY <1>2, <2>1, <2>2
  <2>4. a = b
    BY <2>3 DEF Distinct
  <2> QED
    BY <1>1, <2>1, <2>2, <2>4
<1>4. \A x : x \in Waiting(w) <=> x \in Waiting(q) \ {q[i]}
  <2>1. ASSUME NEW x \in Waiting(w)
        PROVE  x \in Waiting(q) \ {q[i]}
    <3>1. PICK j \in 1..Len(q) - 1 : w[j] = x
      BY <1>2, <2>1 DEF Waiting
    <3>2. PICK a \in 1..Len(q) : a = (IF j < i THEN j ELSE j + 1)
      BY <1>1
    <3>3. q[a] = x /\ a # i
      BY <1>1, <1>2, <3>1, <3>2
    <3>4. q[a] # q[i]
      BY <3>3 DEF Distinct
    <3> QED
      BY <3>3, <3>4 DEF Waiting
  <2>2. ASSUME NEW x \in Waiting(q) \ {q[i]}
        PROVE  x \in Waiting(w)
    <3>1. PICK a \in 1..Len(q) : q[a] = x
      BY <2>2 DEF Waiting
    <3>2. a # i
      BY <2>2, <3>1
    <3>3. PICK j \in 1..Len(q) - 1 : j = (IF a < i THEN a ELSE a - 1)
      BY <1>1, <3>2
    <3>4. w[j] = x
      <4>1. CASE a < i
        BY <1>2, <3>1, <3>3, <4>1
      <4>2. CASE ~(a < i)
        <5>1. ~(j < i) /\ j + 1 = a
          BY <1>1, <3>2, <3>3, <4>2
        <5> QED
          BY <1>2, <3>1, <5>1
      <4> QED
        BY <4>1, <4>2
    <3> QED
      BY <1>2, <3>4 DEF Waiting
  <2> QED
    BY <2>1, <2>2
<1>5. q # <<>>
  BY <1>1, EmptySeq
<1> QED
  BY <1>3, <1>4, <1>5 DEF w

(* The first of a queue leaves it as anybody else would.                   *)
LEMMA TailFacts ==
    ASSUME NEW q \in Seq(Requests), q # <<>>, Distinct(q)
    PROVE  /\ Distinct(Tail(q))
           /\ Waiting(Tail(q)) = Waiting(q) \ {Head(q)}
<1> DEFINE t == Tail(q)
           w == Without(q[1], q)
<1>1. Len(q) \in Nat \ {0} /\ 1 \in 1..Len(q)
  BY EmptySeq
<1>2. Head(q) = q[1]
  BY <1>1
<1>3. /\ t \in Seq(Requests)
      /\ Len(t) = Len(q) - 1
      /\ \A j \in 1..Len(t) : t[j] = q[j + 1]
  BY HeadTailProperties
<1>4. /\ w \in Seq(Requests)
      /\ Len(w) = Len(q) - 1
      /\ \A j \in 1..Len(q) - 1 : w[j] = IF j < 1 THEN q[j] ELSE q[j + 1]
  BY <1>1, WithoutFacts DEF Distinct
<1>5. Distinct(w) /\ Waiting(w) = Waiting(q) \ {q[1]}
  BY <1>1, LeaveFacts
<1> HIDE DEF t, w
<1>6. \A j \in 1..Len(t) : t[j] = w[j]
  BY <1>1, <1>3, <1>4
<1>7. t = w
  BY <1>3, <1>4, <1>6, SeqEqual
<1> QED
  BY <1>2, <1>5, <1>7 DEF t

(* The queue: it holds exactly those that wait, and only while the channel *)
(* is full.                                                                *)
LEMMA QueueStep ==
    ASSUME ServiceInv, ServiceAssumption, [Next]_vars
    PROVE  WaitersAreBlocked'
<1>0. TypeOK /\ queue \in Seq(Requests) /\ WaitersAreBlocked
  BY DEF ServiceInv, TypeOK
<1>1. IsFiniteSet(slots) /\ Cardinality(slots) \in Nat /\ Slots \in Nat /\ Cardinality(slots) <= Slots
  BY <1>0, SlotsFinite DEF ServiceAssumption, ServiceInv, ScansWithinSlots
<1>2. /\ queue # <<>> => Cardinality(slots) = Slots
      /\ Waiting(queue) = {r \in Requests : phase[r] = "queued"}
      /\ Distinct(queue)
      /\ \A r \in Waiting(queue) : ctx[r] = "live"
  BY <1>0 DEF WaitersAreBlocked, Waiting, Distinct
<1>3. ASSUME /\ queue' # <<>> => Cardinality(slots') = Slots
             /\ Waiting(queue') = {r \in Requests : phase'[r] = "queued"}
             /\ Distinct(queue')
             /\ \A r \in Waiting(queue') : ctx'[r] = "live"
      PROVE  WaitersAreBlocked'
  <2>1. \A i \in 1..Len(queue') : queue'[i] \in Waiting(queue')
    BY DEF Waiting
  <2> QED
    BY <1>3, <2>1 DEF WaitersAreBlocked, Waiting, Distinct
<1>4. CASE UNCHANGED vars \/ Tick \/ Stop
  <2>1. slots' = slots /\ phase' = phase /\ queue' = queue /\ ctx' = ctx
    BY <1>4 DEF vars, Tick, Stop
  <2> QED
    BY <1>2, <1>3, <2>1
<1>5. CASE Exit
  <2>1. queue' = <<>> /\ \A r \in Requests : phase'[r] # "queued"
    BY <1>5 DEF Exit
  <2>2. Waiting(<<>>) = {} /\ Distinct(<<>>)
    BY DEF Waiting, Distinct
  <2> QED
    BY <1>3, <2>1, <2>2
<1>6. ASSUME NEW r \in Requests, phase[r] # "queued",
             NEW p \in Phases \ {"queued"}, phase' = [phase EXCEPT ![r] = p],
             queue' = queue, ctx' = ctx,
             queue # <<>> => slots' = slots
      PROVE  WaitersAreBlocked'
  <2>1. \A s \in Requests : phase'[s] = "queued" <=> phase[s] = "queued"
    BY <1>0, <1>6 DEF TypeOK
  <2> QED
    BY <1>2, <1>3, <1>6, <2>1
<1>7. ASSUME NEW r \in Requests,
             \/ RefuseBody(r) \/ TurnAway(r) \/ Admit(r)
             \/ NoticeDone(r) \/ SayBusy(r)
             \/ FetchSucceeds(r) \/ FetchFails(r)
      PROVE  WaitersAreBlocked'
  <2>1. queue' = queue /\ ctx' = ctx /\ slots' = slots /\ phase[r] # "queued"
    BY <1>7 DEF RefuseBody, TurnAway, Admit, NoticeDone, SayBusy, FetchSucceeds, FetchFails
  <2>2. \E p \in Phases \ {"queued"} : phase' = [phase EXCEPT ![r] = p]
    BY <1>7 DEF RefuseBody, TurnAway, Admit, NoticeDone, SayBusy, FetchSucceeds, FetchFails, Write, Phases
  <2> QED
    BY <1>6, <2>1, <2>2
<1>8. ASSUME NEW r \in Requests, TakeSlot(r)
      PROVE  WaitersAreBlocked'
  <2>1. queue = <<>>
    BY <1>1, <1>2, <1>8 DEF TakeSlot, HasRoom
  <2>2. queue' = queue /\ ctx' = ctx /\ phase[r] # "queued"
    BY <1>8 DEF TakeSlot
  <2>3. "scanning" \in Phases \ {"queued"} /\ phase' = [phase EXCEPT ![r] = "scanning"]
    BY <1>8 DEF TakeSlot, Phases
  <2> QED
    BY <1>6, <2>1, <2>2, <2>3
<1>9. ASSUME NEW r \in Requests, JoinQueue(r)
      PROVE  WaitersAreBlocked'
  <2>1. r \notin Waiting(queue)
    BY <1>2, <1>9 DEF JoinQueue
  <2>2. /\ Waiting(queue') = Waiting(queue) \cup {r}
        /\ Distinct(queue')
    BY <1>0, <1>2, <1>9, <2>1, JoinFacts DEF JoinQueue
  <2>3. \A s \in Requests : phase'[s] = "queued" <=> phase[s] = "queued" \/ s = r
    BY <1>0, <1>9 DEF TypeOK, JoinQueue
  <2>4. Cardinality(slots) = Slots /\ slots' = slots /\ ctx' = ctx /\ ctx[r] = "live"
    BY <1>1, <1>9 DEF JoinQueue, HasRoom
  <2> QED
    BY <1>2, <1>3, <2>2, <2>3, <2>4
<1>10. ASSUME NEW r \in Requests, Release(r)
       PROVE  WaitersAreBlocked'
  <2>1. CASE queue = <<>>
    <3>1. queue' = queue /\ ctx' = ctx /\ phase' = phase
      BY <1>10, <2>1 DEF Release
    <3> QED
      BY <1>2, <1>3, <2>1, <3>1
  <2>2. CASE queue # <<>>
    <3> DEFINE h == Head(queue)
    <3>1. h \in Requests /\ phase[h] = "queued" /\ h \notin slots
      BY <2>2, HeadWaits
    <3>2. /\ slots' = (slots \ {r}) \cup {h}
          /\ queue' = Tail(queue)
          /\ phase' = [phase EXCEPT ![h] = "scanning"]
          /\ ctx' = ctx
          /\ r \in slots
      BY <1>10, <2>2 DEF Release
    <3> HIDE DEF h
    <3>3. Cardinality(slots') = Slots
      <4>1. IsFiniteSet(slots \ {r}) /\ Cardinality(slots \ {r}) = Cardinality(slots) - 1
        BY <1>1, <3>2, FS_RemoveElement
      <4>2. Cardinality((slots \ {r}) \cup {h}) = Cardinality(slots \ {r}) + 1
        BY <3>1, <4>1, FS_AddElement
      <4> QED
        BY <1>1, <1>2, <2>2, <3>2, <4>1, <4>2
    <3>4. Waiting(queue') = Waiting(queue) \ {h} /\ Distinct(queue')
      BY <1>0, <1>2, <2>2, <3>2, TailFacts DEF h
    <3>5. \A s \in Requests : phase'[s] = "queued" <=> phase[s] = "queued" /\ s # h
      BY <1>0, <3>1, <3>2 DEF TypeOK
    <3> QED
      BY <1>2, <1>3, <3>2, <3>3, <3>4, <3>5
  <2> QED
    BY <2>1, <2>2
<1>11. ASSUME NEW r \in Requests, NEW why, CtxDone(r, why)
       PROVE  WaitersAreBlocked'
  <2>1. slots' = slots /\ ctx' = [ctx EXCEPT ![r] = why]
    BY <1>11 DEF CtxDone
  <2>2. \A s \in Requests : s # r => ctx'[s] = ctx[s]
    BY <1>0, <2>1 DEF TypeOK
  <2>3. CASE phase[r] # "queued"
    <3>1. phase' = phase /\ queue' = queue
      BY <1>11, <2>3 DEF CtxDone
    <3> QED
      BY <1>2, <1>3, <2>1, <2>2, <2>3, <3>1
  <2>4. CASE phase[r] = "queued"
    <3>1. PICK i \in 1..Len(queue) : queue[i] = r
      BY <2>4, QueuedHasPlace
    <3>2. queue' = Without(queue[i], queue) /\ phase' = [phase EXCEPT ![r] = "busy"]
      BY <1>11, <2>4, <3>1 DEF CtxDone
    <3>3. /\ Distinct(queue')
          /\ Waiting(queue') = Waiting(queue) \ {r}
          /\ queue' # <<>> => queue # <<>>
      BY <1>0, <1>2, <3>1, <3>2, LeaveFacts
    <3>4. \A s \in Requests : phase'[s] = "queued" <=> phase[s] = "queued" /\ s # r
      BY <1>0, <3>2 DEF TypeOK
    <3> QED
      BY <1>2, <1>3, <2>1, <2>2, <3>3, <3>4
  <2> QED
    BY <2>3, <2>4
<1> QED
  BY <1>4, <1>5, <1>7, <1>8, <1>9, <1>10, <1>11 DEF Next, Select, Deadline, Cancel

-----------------------------------------------------------------------------
(* What a step may do to the history of grants and starts: nothing, while  *)
(* requests only move on; let time pass; grant; or start one scan of a     *)
(* request that waited for a slot.                                         *)
Waits   == {"selecting", "queued"}
Started == {"scanning", "answered", "cut"}

Quiet ==
    /\ UNCHANGED <<clock, client, deadline, granted, starts>>
    /\ \A r \in Requests :
          /\ phase'[r] = "new" => phase[r] = "new"
          /\ phase'[r] \in Waits => phase[r] \in Waits
          /\ phase[r] \in Started => phase'[r] \in Started

Enters(r) ==
    /\ phase[r] \in Waits
    /\ phase' = [phase EXCEPT ![r] = "scanning"]
    /\ Start(r)
    /\ UNCHANGED <<clock, client, deadline, granted>>

LEMMA StepKinds ==
    ASSUME ServiceInv, [Next]_vars
    PROVE  Quiet \/ Tick \/ \E r \in Requests : Admit(r) \/ Enters(r)
<1>0. phase \in [Requests -> Phases]
  BY DEF ServiceInv, TypeOK
<1>1. ASSUME UNCHANGED <<clock, client, deadline, granted, starts>>,
             NEW r \in Requests,
             \/ phase' = phase
             \/ \E p \in Started \cup {"busy"} : /\ phase' = [phase EXCEPT ![r] = p]
                                                 /\ p = "busy" => phase[r] \notin Started
             \/ phase[r] = "selecting" /\ phase' = [phase EXCEPT ![r] = "queued"]
      PROVE  Quiet
  BY <1>0, <1>1 DEF Quiet, Waits, Started
<1>2. CASE UNCHANGED vars \/ Stop
  BY <1>2 DEF vars, Stop, Quiet
<1>3. CASE Exit
  <2>1. \A r \in Requests : phase'[r] \in {"answered", "cut"}
    BY <1>3 DEF Exit
  <2> QED
    BY <1>3, <2>1 DEF Exit, Quiet, Waits, Started
<1>4. ASSUME NEW r \in Requests,
             \/ RefuseBody(r) \/ TurnAway(r) \/ SayBusy(r)
             \/ FetchSucceeds(r) \/ FetchFails(r)
      PROVE  Quiet
  <2>1. phase' = [phase EXCEPT ![r] = "answered"] /\ "answered" \in Started \cup {"busy"}
    BY <1>4 DEF RefuseBody, TurnAway, SayBusy, FetchSucceeds, FetchFails, Write, Started
  <2>2. UNCHANGED <<clock, client, deadline, granted, starts>>
    BY <1>4 DEF RefuseBody, TurnAway, SayBusy, FetchSucceeds, FetchFails
  <2> QED
    BY <1>1, <2>1, <2>2
<1>5. ASSUME NEW r \in Requests, Select(r)
      PROVE  Quiet \/ Enters(r)
  <2>1. CASE TakeSlot(r)
    BY <2>1 DEF TakeSlot, Enters, Waits
  <2>2. CASE NoticeDone(r)
    <3>1. phase' = [phase EXCEPT ![r] = "busy"] /\ phase[r] \notin Started
      BY <2>2 DEF NoticeDone, Started
    <3>2. UNCHANGED <<clock, client, deadline, granted, starts>>
      BY <2>2 DEF NoticeDone
    <3> QED
      BY <1>1, <3>1, <3>2
  <2>3. CASE JoinQueue(r)
    BY <1>1, <2>3 DEF JoinQueue
  <2> QED
    BY <1>5, <2>1, <2>2, <2>3 DEF Select
<1>6. ASSUME NEW r \in Requests, Release(r)
      PROVE  Quiet \/ \E s \in Requests : Enters(s)
  <2>1. CASE queue = <<>>
    BY <1>1, <1>6, <2>1 DEF Release
  <2>2. CASE queue # <<>>
    <3>1. Head(queue) \in Requests /\ phase[Head(queue)] = "queued"
      BY <2>2, HeadWaits
    <3>2. Enters(Head(queue))
      BY <1>6, <2>2, <3>1 DEF Release, Enters, Waits
    <3> QED
      BY <3>1, <3>2
  <2> QED
    BY <2>1, <2>2
<1>7. ASSUME NEW r \in Requests, NEW why, CtxDone(r, why)
      PROVE  Quiet
  <2>1. CASE phase[r] = "queued"
    <3>1. phase' = [phase EXCEPT ![r] = "busy"] /\ phase[r] \notin Started
      BY <1>7, <2>1 DEF CtxDone, Started
    <3>2. UNCHANGED <<clock, client, deadline, granted, starts>>
      BY <1>7 DEF CtxDone
    <3> QED
      BY <1>1, <3>1, <3>2
  <2>2. CASE phase[r] # "queued"
    BY <1>1, <1>7, <2>2 DEF CtxDone
  <2> QED
    BY <2>1, <2>2
<1> QED
  BY <1>2, <1>3, <1>4, <1>5, <1>6, <1>7 DEF Next, Deadline, Cancel

(* The limiter spends one grant on r, and only while few are recent.       *)
LEMMA AdmitFacts ==
    ASSUME ServiceInv, ServiceAssumption, NEW r \in Requests, Admit(r)
    PROVE  \E g \in [request : Requests, at : Nat] :
              /\ g = [request |-> r, at |-> clock]
              /\ client[r] \in Keys
              /\ granted' = [granted EXCEPT ![client[r]] = granted[client[r]] \cup {g}]
              /\ Cardinality(RecentlyGranted(client[r])) < Limit
<1>0. client[r] \in Keys /\ clock \in Nat
  BY DEF ServiceInv, TypeOK, ServiceAssumption
<1>1. Quota!Give(client[r])
  BY DEF Admit
<1>2. PICK k \in Keys : k = client[r]
  BY <1>0
<1>3. Quota!Give(k)
  BY <1>1, <1>2
<1>4. Quota!RecentGrants(k) = RecentlyGranted(k)
  BY DEF Quota!RecentGrants, GrantedAt, RecentlyGranted
<1>5. Cardinality(RecentlyGranted(k)) < Limit
  BY <1>3, <1>4 DEF Quota!Give, Quota!Cardinality, Cardinality
<1>6. PICK g \in [request : Requests, at : Nat] : g = [request |-> r, at |-> clock]
  BY <1>0
<1>7. granted' = [granted EXCEPT ![k] = granted[k] \cup {g}]
  BY <1>2, <1>6 DEF Admit
<1> QED
  BY <1>2, <1>5, <1>6, <1>7

(* Grants are never taken back.                                            *)
LEMMA GrantsOnlyGrow ==
    ASSUME ServiceInv, ServiceAssumption, [Next]_vars
    PROVE  /\ \A k \in Keys : granted[k] \subseteq granted'[k]
           /\ client' = client
<1>0. granted \in [Keys -> SUBSET [request : Requests, at : Nat]]
  BY DEF ServiceInv, TypeOK
<1>1. CASE Quiet \/ Tick \/ \E r \in Requests : Enters(r)
  BY <1>1 DEF Quiet, Tick, Enters
<1>2. ASSUME NEW r \in Requests, Admit(r)
      PROVE  \A k \in Keys : granted[k] \subseteq granted'[k]
  <2>1. PICK g \in [request : Requests, at : Nat] :
           granted' = [granted EXCEPT ![client[r]] = granted[client[r]] \cup {g}]
    BY <1>2, AdmitFacts
  <2> QED
    BY <1>0, <2>1
<1>3. ASSUME NEW r \in Requests, Admit(r)
      PROVE  client' = client
  BY <1>3 DEF Admit
<1> QED
  BY <1>1, <1>2, <1>3, StepKinds

LEMMA GrantStep ==
    ASSUME ServiceInv, ServiceAssumption, [Next]_vars
    PROVE  GrantInv'
<1>0. TypeOK /\ GrantInv /\ clock \in Nat
  BY DEF ServiceInv, TypeOK, ServiceAssumption
<1>1. ASSUME granted' = granted, deadline' = deadline, clock <= clock', clock' \in Nat,
             \A r \in Requests : phase'[r] = "new" => phase[r] = "new"
      PROVE  GrantInv'
  <2> SUFFICES ASSUME NEW k \in Keys, NEW g \in granted[k]
               PROVE  /\ phase'[g.request] # "new"
                      /\ g.at <= clock'
                      /\ deadline'[g.request] = DeadlineFrom(g.at)
    BY <1>1 DEF GrantInv
  <2>1. g.request \in Requests /\ g.at \in Nat
    BY <1>0 DEF TypeOK
  <2> QED
    BY <1>0, <1>1, <2>1 DEF GrantInv
<1>2. CASE Quiet
  BY <1>0, <1>1, <1>2 DEF Quiet
<1>3. CASE Tick
  BY <1>0, <1>1, <1>3 DEF Tick
<1>4. ASSUME NEW r \in Requests, Enters(r)
      PROVE  GrantInv'
  <2>1. \A s \in Requests : phase'[s] = "new" => phase[s] = "new"
    BY <1>0, <1>4 DEF TypeOK, Enters
  <2> QED
    BY <1>0, <1>1, <1>4, <2>1 DEF Enters
<1>5. ASSUME NEW r \in Requests, Admit(r)
      PROVE  GrantInv'
  <2>1. PICK new \in [request : Requests, at : Nat] :
           /\ new = [request |-> r, at |-> clock]
           /\ granted' = [granted EXCEPT ![client[r]] = granted[client[r]] \cup {new}]
    BY <1>5, AdmitFacts
  <2>2. /\ phase[r] = "new"
        /\ phase' = [phase EXCEPT ![r] = "selecting"]
        /\ deadline' = [deadline EXCEPT ![r] = DeadlineFrom(clock)]
        /\ clock' = clock
    BY <1>5 DEF Admit
  <2> SUFFICES ASSUME NEW k \in Keys, NEW g \in granted'[k]
               PROVE  /\ phase'[g.request] # "new"
                      /\ g.at <= clock
                      /\ deadline'[g.request] = DeadlineFrom(g.at)
    BY <2>2 DEF GrantInv
  <2>3. g \in granted[k] \/ g = new
    BY <1>0, <2>1 DEF TypeOK
  <2>4. CASE g \in granted[k]
    <3>1. g.request \in Requests /\ phase[g.request] # "new"
      BY <1>0, <2>4 DEF TypeOK, GrantInv
    <3>2. g.request # r
      BY <2>2, <3>1
    <3>3. phase'[g.request] = phase[g.request] /\ deadline'[g.request] = deadline[g.request]
      BY <1>0, <2>2, <3>1, <3>2 DEF TypeOK
    <3> QED
      BY <1>0, <2>4, <3>1, <3>3 DEF GrantInv
  <2>5. CASE g = new
    <3>1. g.request = r /\ g.at = clock
      BY <2>1, <2>5
    <3>2. phase'[r] = "selecting" /\ deadline'[r] = DeadlineFrom(clock)
      BY <1>0, <2>2 DEF TypeOK
    <3> QED
      BY <1>0, <3>1, <3>2
  <2> QED
    BY <2>3, <2>4, <2>5
<1> QED
  BY <1>2, <1>3, <1>4, <1>5, StepKinds

LEMMA AdmittedStep ==
    ASSUME ServiceInv, ServiceAssumption, [Next]_vars
    PROVE  AdmittedInv'
<1>0. TypeOK /\ AdmittedInv
  BY DEF ServiceInv
<1>1. ASSUME NEW r \in Requests, HoldsGrant(r)
      PROVE  HoldsGrant(r)'
  BY <1>0, <1>1, GrantsOnlyGrow DEF HoldsGrant, TypeOK
<1>2. CASE Quiet
  BY <1>0, <1>1, <1>2 DEF Quiet, Waits, AdmittedInv
<1>3. CASE Tick
  BY <1>0, <1>1, <1>3 DEF Tick, AdmittedInv
<1>4. ASSUME NEW r \in Requests, Enters(r)
      PROVE  AdmittedInv'
  <2>1. \A s \in Requests : phase'[s] \in {"selecting", "queued"} => phase[s] \in {"selecting", "queued"}
    BY <1>0, <1>4 DEF TypeOK, Enters
  <2> QED
    BY <1>0, <1>1, <2>1 DEF AdmittedInv
<1>5. ASSUME NEW r \in Requests, Admit(r)
      PROVE  AdmittedInv'
  <2>1. PICK g \in [request : Requests, at : Nat] :
           /\ g = [request |-> r, at |-> clock]
           /\ client[r] \in Keys
           /\ granted' = [granted EXCEPT ![client[r]] = granted[client[r]] \cup {g}]
    BY <1>5, AdmitFacts
  <2>2. g \in granted'[client[r]] /\ g.request = r /\ client' = client
    BY <1>0, <1>5, <2>1 DEF TypeOK, Admit
  <2>3. HoldsGrant(r)'
    BY <2>2 DEF HoldsGrant
  <2>4. \A s \in Requests : s # r => phase'[s] = phase[s]
    BY <1>0, <1>5 DEF TypeOK, Admit
  <2> QED
    BY <1>0, <1>1, <2>3, <2>4 DEF AdmittedInv
<1> QED
  BY <1>2, <1>3, <1>4, <1>5, StepKinds

LEMMA TimerStep ==
    ASSUME ServiceInv, ServiceAssumption, [Next]_vars
    PROVE  TimerInv'
<1>0. TypeOK /\ TimerInv /\ clock \in Nat
  BY DEF ServiceInv, TypeOK, ServiceAssumption
<1>1. CASE Quiet
  BY <1>0, <1>1 DEF Quiet, Waits, TimerInv
<1>2. CASE Tick
  <2> SUFFICES ASSUME NEW r \in Requests, phase[r] \in {"selecting", "queued"}
               PROVE  clock + 1 <= deadline[r]
    BY <1>2 DEF Tick, TimerInv
  <2>1. phase[r] = "queued" /\ InContext(r)
    BY <1>2 DEF Tick, InContext
  <2>2. ctx[r] = "live"
    BY <2>1, QueuedHasPlace DEF ServiceInv, WaitersAreBlocked
  <2>3. clock < deadline[r] /\ deadline[r] \in Nat
    BY <1>0, <1>2, <2>1, <2>2 DEF Tick, TypeOK
  <2> QED
    BY <1>0, <2>3
<1>3. ASSUME NEW r \in Requests, Enters(r)
      PROVE  TimerInv'
  <2>1. \A s \in Requests : phase'[s] \in {"selecting", "queued"} => phase[s] \in {"selecting", "queued"}
    BY <1>0, <1>3 DEF TypeOK, Enters
  <2> QED
    BY <1>0, <1>3, <2>1 DEF TimerInv, Enters
<1>4. ASSUME NEW r \in Requests, Admit(r)
      PROVE  TimerInv'
  <2>1. clock <= DeadlineFrom(clock)
    BY <1>0 DEF DeadlineFrom, ServiceAssumption
  <2>2. deadline'[r] = DeadlineFrom(clock) /\ clock' = clock
    BY <1>0, <1>4 DEF TypeOK, Admit
  <2>3. \A s \in Requests : s # r => phase'[s] = phase[s] /\ deadline'[s] = deadline[s]
    BY <1>0, <1>4 DEF TypeOK, Admit
  <2> QED
    BY <1>0, <2>1, <2>2, <2>3 DEF TimerInv
<1> QED
  BY <1>1, <1>2, <1>3, <1>4, StepKinds

LEMMA StartStep ==
    ASSUME ServiceInv, ServiceAssumption, [Next]_vars
    PROVE  StartInv'
<1>0. TypeOK /\ StartInv /\ clock \in Nat
  BY DEF ServiceInv, TypeOK, ServiceAssumption
<1>1. \A s \in starts : s.request \in Requests /\ s.client \in Keys
  BY <1>0 DEF TypeOK
<1>2. \A s \in starts : \E g \in granted'[s.client] : g.request = s.request /\ s.at <= DeadlineFrom(g.at)
  BY <1>0, <1>1, GrantsOnlyGrow DEF StartInv
<1>3. ASSUME starts' = starts,
             \A r \in Requests : phase[r] \in Started => phase'[r] \in Started
      PROVE  StartInv'
  BY <1>0, <1>1, <1>2, <1>3 DEF StartInv, Started
<1>4. CASE Quiet
  BY <1>3, <1>4 DEF Quiet
<1>5. CASE Tick
  BY <1>3, <1>5 DEF Tick
<1>6. ASSUME NEW r \in Requests, Admit(r)
      PROVE  StartInv'
  <2>1. \A s \in Requests : phase[s] \in Started => phase'[s] \in Started
    BY <1>0, <1>6 DEF TypeOK, Admit, Started
  <2> QED
    BY <1>3, <1>6, <2>1 DEF Admit
<1>7. ASSUME NEW r \in Requests, Enters(r)
      PROVE  StartInv'
  <2>1. PICK new : new = [request |-> r, client |-> client[r], at |-> clock]
    OBVIOUS
  <2>2. starts' = starts \cup {new} /\ new.request = r /\ new.client = client[r] /\ new.at = clock
    BY <1>7, <2>1 DEF Enters, Start
  <2>3. \A s \in Requests : phase'[s] = IF s = r THEN "scanning" ELSE phase[s]
    BY <1>0, <1>7 DEF TypeOK, Enters
  <2>4. \A s \in starts : s.request # r
    BY <1>0, <1>7 DEF StartInv, Enters, Waits
  <2>5. \E g \in granted'[new.client] : g.request = new.request /\ new.at <= DeadlineFrom(g.at)
    <3>1. phase[r] \in {"selecting", "queued"} /\ client[r] \in Keys
      BY <1>0, <1>7 DEF TypeOK, Enters, Waits
    <3>2. PICK g \in granted[client[r]] : g.request = r
      BY <3>1 DEF ServiceInv, AdmittedInv, HoldsGrant
    <3>3. deadline[r] = DeadlineFrom(g.at)
      BY <3>1, <3>2 DEF ServiceInv, GrantInv
    <3>4. clock <= deadline[r]
      BY <3>1 DEF ServiceInv, TimerInv
    <3>5. g \in granted'[client[r]]
      BY <3>1, <3>2, GrantsOnlyGrow
    <3> QED
      BY <2>2, <3>2, <3>3, <3>4, <3>5
  <2> QED
    BY <1>0, <1>1, <1>2, <2>2, <2>3, <2>4, <2>5 DEF StartInv
<1> QED
  BY <1>4, <1>5, <1>6, <1>7, StepKinds

LEMMA QuotaStep ==
    ASSUME ServiceInv, ServiceAssumption, [Next]_vars
    PROVE  QuotaInv'
<1>0. TypeOK /\ QuotaInv /\ clock \in Nat /\ Span \in Nat /\ Limit \in Nat
  BY DEF ServiceInv, TypeOK, ServiceAssumption
<1>1. \A k \in Keys : IsFiniteSet(RecentlyGranted(k)) /\ Cardinality(RecentlyGranted(k)) \in Nat
  BY <1>0, FS_CardinalityType DEF QuotaInv
<1>2. ASSUME NEW k \in Keys, RecentlyGranted(k)' \subseteq RecentlyGranted(k)
      PROVE  IsFiniteSet(RecentlyGranted(k)') /\ Cardinality(RecentlyGranted(k)') <= Limit
  <2>1. PICK S : S = RecentlyGranted(k)
    OBVIOUS
  <2>2. PICK T : T = RecentlyGranted(k)'
    OBVIOUS
  <2>3. IsFiniteSet(S) /\ Cardinality(S) \in Nat /\ Cardinality(S) <= Limit /\ T \in SUBSET S
    BY <1>0, <1>1, <1>2, <2>1, <2>2 DEF QuotaInv
  <2>4. IsFiniteSet(T) /\ Cardinality(T) <= Cardinality(S) /\ Cardinality(T) \in Nat
    BY <2>3, FS_Subset, FS_CardinalityType
  <2> QED
    BY <1>0, <2>2, <2>3, <2>4
<1>3. ASSUME granted' = granted, clock' \in Nat, clock <= clock'
      PROVE  QuotaInv'
  <2>1. ASSUME NEW k \in Keys
        PROVE  RecentlyGranted(k)' \subseteq RecentlyGranted(k)
    <3>1. \A g \in granted[k] : g.at \in Nat
      BY <1>0 DEF TypeOK
    <3> QED
      BY <1>0, <1>3, <3>1 DEF RecentlyGranted
  <2> QED
    BY <1>2, <2>1 DEF QuotaInv
<1>4. CASE Quiet \/ Tick \/ \E r \in Requests : Enters(r)
  BY <1>0, <1>3, <1>4 DEF Quiet, Tick, Enters
<1>5. ASSUME NEW r \in Requests, Admit(r)
      PROVE  QuotaInv'
  <2>1. PICK new \in [request : Requests, at : Nat] :
           /\ client[r] \in Keys
           /\ granted' = [granted EXCEPT ![client[r]] = granted[client[r]] \cup {new}]
           /\ Cardinality(RecentlyGranted(client[r])) < Limit
    BY <1>5, AdmitFacts
  <2>2. clock' = clock
    BY <1>5 DEF Admit
  <2>3. ASSUME NEW k \in Keys, k # client[r]
        PROVE  RecentlyGranted(k)' \subseteq RecentlyGranted(k)
    BY <1>0, <2>1, <2>2, <2>3 DEF TypeOK, RecentlyGranted
  <2>4. ASSUME NEW k \in Keys, k = client[r]
        PROVE  IsFiniteSet(RecentlyGranted(k)') /\ Cardinality(RecentlyGranted(k)') <= Limit
    <3>1. PICK S : S = RecentlyGranted(k)
      OBVIOUS
    <3>2. PICK T : T = RecentlyGranted(k)'
      OBVIOUS
    <3>3. T \in SUBSET (S \cup {new})
      BY <1>0, <2>1, <2>2, <2>4, <3>1, <3>2 DEF TypeOK, RecentlyGranted
    <3>4. IsFiniteSet(S) /\ Cardinality(S) \in Nat /\ Cardinality(S) < Limit
      BY <1>1, <2>1, <2>4, <3>1
    <3>5. /\ IsFiniteSet(S \cup {new})
          /\ Cardinality(S \cup {new}) = IF new \in S THEN Cardinality(S) ELSE Cardinality(S) + 1
      BY <3>4, FS_AddElement
    <3>6. IsFiniteSet(T) /\ Cardinality(T) \in Nat /\ Cardinality(T) <= Cardinality(S \cup {new})
      BY <3>3, <3>5, FS_Subset, FS_CardinalityType
    <3> QED
      BY <1>0, <3>2, <3>4, <3>5, <3>6
  <2> QED
    BY <1>2, <2>3, <2>4 DEF QuotaInv
<1> QED
  BY <1>4, <1>5, StepKinds

-----------------------------------------------------------------------------
LEMMA ServiceInit ==
    ASSUME Init, ServiceAssumption
    PROVE  ServiceInv
<1>1. /\ IsFiniteSet({}) /\ Cardinality({}) = 0
      /\ <<>> \in Seq(Requests) /\ Len(<<>>) = 0
  BY FS_EmptySet, EmptySeq
<1>2. TypeOK
  <2>1. clock \in 0..MaxClock
    BY DEF Init, ServiceAssumption
  <2> QED
    BY <1>1, <2>1 DEF Init, TypeOK, Phases
<1>3. SlotInv /\ ScansWithinSlots /\ WaitersAreBlocked
  BY <1>1 DEF Init, SlotInv, ScansWithinSlots, WaitersAreBlocked, ServiceAssumption
<1>4. GrantInv /\ AdmittedInv /\ TimerInv /\ StartInv
  BY DEF Init, GrantInv, AdmittedInv, TimerInv, StartInv
<1>5. QuotaInv
  <2> SUFFICES ASSUME NEW k \in Keys
               PROVE  IsFiniteSet(RecentlyGranted(k)) /\ Cardinality(RecentlyGranted(k)) <= Limit
    BY DEF QuotaInv
  <2>1. RecentlyGranted(k) = {}
    BY DEF Init, RecentlyGranted
  <2> QED
    BY <1>1, <2>1 DEF ServiceAssumption
<1> QED
  BY <1>2, <1>3, <1>4, <1>5 DEF ServiceInv

(* The invariant the theorems below rest on.                               *)
THEOREM ServiceInvariant == Spec => []ServiceInv
<1>1. Init => ServiceInv
  BY ServiceInit, ServiceAssumption
<1>2. ServiceInv /\ [Next]_vars => ServiceInv'
  <2> SUFFICES ASSUME ServiceInv, [Next]_vars PROVE ServiceInv'
    OBVIOUS
  <2> QED
    BY ServiceAssumption, TypeStep, SlotStep, QueueStep, GrantStep, AdmittedStep, TimerStep, StartStep,
       QuotaStep
    DEF ServiceInv
<1> QED
  BY <1>1, <1>2, PTL DEF Spec

(* The service's state is always well formed: above all, a request has an  *)
(* answer exactly when its handler has written one (api.go:133-192).       *)
THEOREM ServiceTypeCorrect == Spec => []TypeOK
<1>1. ServiceInv => TypeOK
  BY DEF ServiceInv
<1> QED
  BY <1>1, ServiceInvariant, PTL

(* However many requests there are, however they come and give up, no more *)
(* than MAX_CONCURRENT_SCANS scans run at once (api.go:55).                *)
THEOREM SlotsAreBounded == Spec => []ScansWithinSlots
<1>1. ServiceInv => ScansWithinSlots
  BY DEF ServiceInv
<1> QED
  BY <1>1, ServiceInvariant, PTL

(* The queue for a slot holds exactly the requests that wait, once each,   *)
(* all still wanted, and only while every slot is taken (api.go:166-173).  *)
THEOREM WaitersWaitForCause == Spec => []WaitersAreBlocked
<1>1. ServiceInv => WaitersAreBlocked
  BY DEF ServiceInv
<1> QED
  BY <1>1, ServiceInvariant, PTL

(* Starts within Span less TotalTimeout, each on a recent grant of its     *)
(* own.                                                                    *)
LEMMA StartsHaveRecentGrants ==
    ASSUME ServiceInv, ServiceAssumption, NEW k \in Keys
    PROVE  Cardinality({s \in starts : s.client = k /\ s.at > clock - (Span - TotalTimeout)}) <= Limit
<1> DEFINE S == {s \in starts : s.client = k /\ s.at > clock - (Span - TotalTimeout)}
           T == RecentlyGranted(k)
           f == [s \in S |-> CHOOSE g \in T : g.request = s.request]
<1>0. TypeOK /\ StartInv /\ QuotaInv /\ clock \in Nat /\ Span \in Nat /\ TotalTimeout \in Nat /\ Limit \in Nat
  BY DEF ServiceInv, TypeOK, ServiceAssumption
<1>1. ASSUME NEW s \in S
      PROVE  \E g \in T : g.request = s.request
  <2>1. PICK g \in granted[k] : g.request = s.request /\ s.at <= DeadlineFrom(g.at)
    BY <1>0 DEF StartInv
  <2>2. g.at \in Nat /\ s.at \in Nat
    BY <1>0 DEF TypeOK
  <2>3. g.at > clock - Span
    BY <1>0, <2>1, <2>2 DEF DeadlineFrom
  <2> QED
    BY <2>1, <2>3 DEF RecentlyGranted
<1>2. \A s \in S : f[s] \in T /\ f[s].request = s.request
  BY <1>1
<1>3. \A s, t \in S : s.request = t.request => s = t
  BY <1>0 DEF StartInv
<1>4. f \in [S -> T]
  BY <1>2
<1> HIDE DEF f
<1>5. f \in Injection(S, T)
  <2>1. \A s, t \in S : f[s] = f[t] => s = t
    BY <1>2, <1>3
  <2> QED
    BY <1>4, <2>1 DEF Injection, IsInjective
<1>6. IsFiniteSet(T) /\ Cardinality(T) <= Limit
  BY <1>0 DEF QuotaInv
<1>7. IsFiniteSet(S) /\ Cardinality(S) <= Cardinality(T)
  BY <1>5, <1>6, FS_Injection
<1> HIDE DEF S, T
<1>8. Cardinality(S) \in Nat /\ Cardinality(T) \in Nat
  BY <1>6, <1>7, FS_CardinalityType
<1>9. Cardinality(S) <= Limit
  BY <1>0, <1>6, <1>7, <1>8
<1> QED
  BY <1>9 DEF S

(* What the limiter promises of grants holds of the scans that start, over *)
(* a span shorter by the timeout, although they start in another order and *)
(* some of them together (api.go:149-175).                                 *)
THEOREM StartsAreSpread == Spec => []StartsPerSpan
<1>1. ServiceInv => StartsPerSpan
  BY StartsHaveRecentGrants, ServiceAssumption DEF StartsPerSpan
<1> QED
  BY <1>1, ServiceInvariant, PTL

=============================================================================
