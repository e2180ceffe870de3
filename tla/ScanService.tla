---------------------------- MODULE ScanService ----------------------------
(***************************************************************************)
(* backend/internal/api/api.go: handleScan, one goroutine per request, and *)
(* what its goroutines share -- the limiter and the slots channel; and the *)
(* end of the process that serves them (backend/cmd/server/main.go).       *)
(*                                                                         *)
(* The limiter is taken at its word (RequestQuota), and so is FetchHeaders *)
(* (FetchPromise): it returns once the context is done.  The context, made *)
(* right after the limiter has admitted the request, is what bounds both   *)
(* the wait for a slot and the scan.                                       *)
(*                                                                         *)
(* slots is a buffered channel of Go: a send goes through while there is   *)
(* room, blocked senders are served in order, and a receive hands its room *)
(* to the first of them.                                                   *)
(***************************************************************************)
EXTENDS Integers, FiniteSets, SequencesExt

CONSTANTS
    Requests,       \* the requests, each served by a goroutine of its own
    Keys,           \* the clients
    Limit, Span,    \* what the limiter promises: Limit grants per Span ticks
    Slots,          \* MAX_CONCURRENT_SCANS
    TotalTimeout,   \* SCAN_TOTAL_TIMEOUT, in ticks
    MaxClock        \* bound: the clock stops here

ASSUME ServiceAssumption ==
    /\ Limit \in Nat
    /\ Span \in Nat
    /\ Slots \in Nat
    /\ TotalTimeout \in Nat
    /\ MaxClock \in Nat
    /\ IsFiniteSet(Requests)

VARIABLES
    process,   \* serving, stopping or exited
    clock,
    phase,     \* phase[r]: where the goroutine of request r is
    client,    \* client[r]: the key the limiter charged
    ctx,       \* ctx[r]: the Err of the request's context
    deadline,  \* deadline[r]: when the context times out
    slots,     \* the requests whose token is in the channel
    queue,     \* the requests blocked sending to it
    answer,    \* answer[r]: what was written to the client
    granted,   \* what the limiter has granted, ever
    starts     \* ghost: when each scan started

vars == <<process, clock, phase, client, ctx, deadline, slots, queue, answer, granted, starts>>

-----------------------------------------------------------------------------
Answer == [status : {200, 400, 422, 429}, retryAfter : BOOLEAN,
           code : {"ok", "invalid_url", "rate_limited", "timeout", "scan_error"}]

Nobody   == [status |-> 0, code |-> "none", retryAfter |-> FALSE]
BadBody  == [status |-> 422, code |-> "invalid_url", retryAfter |-> FALSE]
OverQuota == [status |-> 429, code |-> "rate_limited", retryAfter |-> TRUE]
Busy     == [status |-> 429, code |-> "rate_limited", retryAfter |-> FALSE]
Scanned  == [status |-> 200, code |-> "ok", retryAfter |-> FALSE]

(* writeScanError: our own deadline explains any error.                    *)
ScanError(r) ==
    [status |-> 400, code |-> IF ctx[r] = "deadline" THEN "timeout" ELSE "scan_error",
     retryAfter |-> FALSE]

DeadlinePlusDial(t) == t + TotalTimeout + 1

(* context.WithTimeout(r.Context(), s.settings.TotalTimeout)               *)
DeadlineFrom(t) == t + TotalTimeout

(* The request has a context, and it still matters.                        *)
InContext(r) == phase[r] \in {"selecting", "queued", "scanning"}

GrantedAt(g) == g.at
Quota == INSTANCE RequestQuota WITH When <- GrantedAt, now <- clock

Init ==
    /\ process = "serving"
    /\ clock = 0
    /\ phase = [r \in Requests |-> "new"]
    /\ client \in [Requests -> Keys]
    /\ ctx = [r \in Requests |-> "live"]
    /\ deadline = [r \in Requests |-> 0]
    /\ slots = {}
    /\ queue = <<>>
    /\ answer = [r \in Requests |-> Nobody]
    /\ granted = [k \in Keys |-> {}]
    /\ starts = {}

Write(r, body) ==
    /\ phase' = [phase EXCEPT ![r] = "answered"]
    /\ answer' = [answer EXCEPT ![r] = body]

(* The body is not JSON, or its URL is blank or too long.                  *)
RefuseBody(r) ==
    /\ phase[r] = "new"
    /\ Write(r, BadBody)
    /\ UNCHANGED <<process, clock, client, ctx, deadline, slots, queue, granted, starts>>

(* The limiter says no, and says how long to wait.                         *)
TurnAway(r) ==
    /\ phase[r] = "new"
    /\ Write(r, OverQuota)
    /\ UNCHANGED <<process, clock, client, ctx, deadline, slots, queue, granted, starts>>

(* The limiter says yes: one grant is spent and the context starts.        *)
Admit(r) ==
    /\ phase[r] = "new"
    /\ DeadlineFrom(clock) <= MaxClock
    /\ granted' = [granted EXCEPT ![client[r]] = @ \cup {[request |-> r, at |-> clock]}]
    /\ phase' = [phase EXCEPT ![r] = "selecting"]
    /\ deadline' = [deadline EXCEPT ![r] = DeadlineFrom(clock)]
    /\ UNCHANGED <<process, clock, client, ctx, slots, queue, answer, starts>>
    /\ Quota!Give(client[r])

(* The effects of a token going into the channel.                          *)
Start(r) == starts' = starts \cup {[request |-> r, client |-> client[r], at |-> clock]}

(* select: with room in the channel the send is ready, with the context    *)
(* done the receive is; with both ready either is taken, with neither the  *)
(* goroutine blocks behind the others.                                     *)
HasRoom == Cardinality(slots) < Slots

TakeSlot(r) ==
    /\ phase[r] = "selecting"
    /\ HasRoom
    /\ phase' = [phase EXCEPT ![r] = "scanning"]
    /\ slots' = slots \cup {r}
    /\ Start(r)
    /\ UNCHANGED <<process, clock, client, ctx, deadline, queue, answer, granted>>

NoticeDone(r) ==
    /\ phase[r] = "selecting"
    /\ ctx[r] # "live"
    /\ phase' = [phase EXCEPT ![r] = "busy"]
    /\ UNCHANGED <<process, clock, client, ctx, deadline, slots, queue, answer, granted, starts>>

JoinQueue(r) ==
    /\ phase[r] = "selecting"
    /\ ctx[r] = "live"
    /\ ~HasRoom
    /\ phase' = [phase EXCEPT ![r] = "queued"]
    /\ queue' = Append(queue, r)
    /\ UNCHANGED <<process, clock, client, ctx, deadline, slots, answer, granted, starts>>

Select(r) == TakeSlot(r) \/ NoticeDone(r) \/ JoinQueue(r)

ReturnSilently(r) ==
    /\ phase[r] = "busy"
    /\ phase' = [phase EXCEPT ![r] = "answered"]
    /\ UNCHANGED <<process, clock, client, ctx, deadline, slots, queue, answer, granted, starts>>

(* The wait is over without a slot.                                        *)
SayBusy(r) ==
    /\ phase[r] = "busy"
    /\ Write(r, Busy)
    /\ UNCHANGED <<process, clock, client, ctx, deadline, slots, queue, granted, starts>>

(* FetchHeaders returns a result; it may even after the deadline.          *)
FetchSucceeds(r) ==
    /\ phase[r] = "scanning"
    /\ Write(r, Scanned)
    /\ UNCHANGED <<process, clock, client, ctx, deadline, slots, queue, granted, starts>>

FetchFails(r) ==
    /\ phase[r] = "scanning"
    /\ Write(r, ScanError(r))
    /\ UNCHANGED <<process, clock, client, ctx, deadline, slots, queue, granted, starts>>

ReleaseOnSuccess(r) ==
    /\ phase[r] = "answered"
    /\ r \in slots
    /\ answer[r] = Scanned
    /\ queue = <<>>
    /\ slots' = slots \ {r}
    /\ UNCHANGED <<process, clock, phase, client, ctx, deadline, queue, answer, granted, starts>>

HandOverAndKeep(r) ==
    /\ phase[r] = "answered"
    /\ r \in slots
    /\ queue # <<>>
    /\ slots' = slots \cup {Head(queue)}
    /\ queue' = Tail(queue)
    /\ phase' = [phase EXCEPT ![Head(queue)] = "scanning"]
    /\ Start(Head(queue))
    /\ UNCHANGED <<process, clock, client, ctx, deadline, answer, granted>>

(* defer func() { <-s.slots }(): after the answer is written, a token is   *)
(* taken out, and the first blocked sender's goes in.                      *)
Release(r) ==
    /\ phase[r] = "answered"
    /\ r \in slots
    /\ \/ /\ queue = <<>>
          /\ slots' = slots \ {r}
          /\ UNCHANGED <<phase, queue, starts>>
       \/ /\ queue # <<>>
          /\ slots' = (slots \ {r}) \cup {Head(queue)}
          /\ queue' = Tail(queue)
          /\ phase' = [phase EXCEPT ![Head(queue)] = "scanning"]
          /\ Start(Head(queue))
    /\ UNCHANGED <<process, clock, client, ctx, deadline, answer, granted>>

(* A blocked sender that gives up is unlinked from the channel's queue.    *)
Without(r, q) == RemoveAt(q, CHOOSE i \in DOMAIN q : q[i] = r)

StaysQueued(r, why) ==
    /\ ctx[r] = "live"
    /\ InContext(r)
    /\ ctx' = [ctx EXCEPT ![r] = why]
    /\ UNCHANGED <<process, clock, phase, client, deadline, slots, queue, answer, granted, starts>>

ScanOutlivesCtx(r, why) ==
    /\ ctx[r] = "live"
    /\ phase[r] \in {"selecting", "queued"}
    /\ ctx' = [ctx EXCEPT ![r] = why]
    /\ IF phase[r] = "queued"
       THEN phase' = [phase EXCEPT ![r] = "busy"] /\ queue' = Without(r, queue)
       ELSE UNCHANGED <<phase, queue>>
    /\ UNCHANGED <<process, clock, client, deadline, slots, answer, granted, starts>>

(* The context is done: a goroutine blocked in select wakes up with it.    *)
CtxDone(r, why) ==
    /\ ctx[r] = "live"
    /\ InContext(r)
    /\ ctx' = [ctx EXCEPT ![r] = why]
    /\ IF phase[r] = "queued"
       THEN phase' = [phase EXCEPT ![r] = "busy"] /\ queue' = Without(r, queue)
       ELSE UNCHANGED <<phase, queue>>
    /\ UNCHANGED <<process, clock, client, deadline, slots, answer, granted, starts>>

Deadline(r) == clock >= deadline[r] /\ CtxDone(r, "deadline")

(* The client goes away.                                                   *)
Cancel(r) == CtxDone(r, "canceled")

(* Timers fire on time, and a goroutine about to select does not lose a    *)
(* tick first.                                                             *)
Tick ==
    /\ clock < MaxClock
    /\ \A r \in Requests :
          /\ phase[r] # "selecting"
          /\ InContext(r) /\ ctx[r] = "live" => clock < deadline[r]
    /\ clock' = clock + 1
    /\ UNCHANGED <<process, phase, client, ctx, deadline, slots, queue, answer, granted, starts>>

(* main.go: a signal starts Shutdown, which closes the listener; requests  *)
(* already accepted go on.                                                 *)
Stop ==
    /\ process = "serving"
    /\ process' = "stopping"
    /\ UNCHANGED <<clock, phase, client, ctx, deadline, slots, queue, answer, granted, starts>>

(* ListenAndServe returns as soon as Shutdown begins, main returns after   *)
(* it, and the process ends with whatever its goroutines were doing.       *)
Exit ==
    /\ process = "stopping"
    /\ process' = "exited"
    /\ phase' = [r \in Requests |-> IF phase[r] = "answered" THEN "answered" ELSE "cut"]
    /\ slots' = {}
    /\ queue' = <<>>
    /\ UNCHANGED <<clock, client, ctx, deadline, answer, granted, starts>>

Next ==
    \/ Tick
    \/ Stop \/ Exit
    \/ \E r \in Requests :
          \/ RefuseBody(r) \/ TurnAway(r) \/ Admit(r)
          \/ Select(r) \/ SayBusy(r)
          \/ FetchSucceeds(r) \/ FetchFails(r) \/ Release(r)
          \/ Deadline(r) \/ Cancel(r)

Spec == Init /\ [][Next]_vars

(* Goroutines run and timers fire.  A scan is only sure to return once its *)
(* context is done (Scan keeps PromiseFairSpec); requests need not come.   *)
Fairness ==
    /\ WF_vars(Tick)
    /\ WF_vars(Exit)
    /\ \A r \in Requests :
          /\ WF_vars(Select(r))
          /\ WF_vars(SayBusy(r))
          /\ WF_vars(ctx[r] # "live" /\ (FetchSucceeds(r) \/ FetchFails(r)))
          /\ WF_vars(Release(r))
          /\ WF_vars(Deadline(r))

FairSpec == Spec /\ Fairness

-----------------------------------------------------------------------------
Phases == {"new", "selecting", "queued", "busy", "scanning", "answered", "cut"}

(* The state is well formed.                                               *)
TypeOK ==
    /\ process \in {"serving", "stopping", "exited"}
    /\ clock \in 0..MaxClock
    /\ phase \in [Requests -> Phases]
    /\ client \in [Requests -> Keys]
    /\ ctx \in [Requests -> {"live", "deadline", "canceled"}]
    /\ deadline \in [Requests -> Nat]
    /\ slots \in SUBSET Requests
    /\ queue \in Seq(Requests)
    /\ answer \in [Requests -> Answer \cup {Nobody}]
    /\ granted \in [Keys -> SUBSET [request : Requests, at : Nat]]
    /\ starts \in SUBSET [request : Requests, client : Keys, at : Nat]
    /\ \A r \in Requests : answer[r] # Nobody <=> phase[r] = "answered"

(* "slots bounds concurrent outbound work" (api.go:55): a scan in progress *)
(* has a token in the channel, and there are never more than Slots -- not  *)
(* even while one request releases and another takes over.                 *)
ScansWithinSlots ==
    /\ Cardinality(slots) <= Slots
    /\ \A r \in Requests : phase[r] = "scanning" => r \in slots

(* No request waits while there is room, and those that wait still have a  *)
(* live context, once each (api.go:166-173).                               *)
WaitersAreBlocked ==
    /\ queue # <<>> => Cardinality(slots) = Slots
    /\ {queue[i] : i \in 1..Len(queue)} = {r \in Requests : phase[r] = "queued"}
    /\ \A i, j \in 1..Len(queue) : queue[i] = queue[j] => i = j
    /\ \A i \in 1..Len(queue) : ctx[queue[i]] = "live"

(* "the hard ceiling for the whole scan" (api.go:161) counts the wait for  *)
(* a slot: a scan starts at most TotalTimeout after its grant, so a client *)
(* never gets more than Limit scans STARTED per Span less TotalTimeout,    *)
(* although grants of different ages may leave the queue together.         *)
StartsPerSpan ==
    \A k \in Keys :
        Cardinality({s \in starts : s.client = k /\ s.at > clock - (Span - TotalTimeout)}) <= Limit

(* Whatever the limiter let through is answered, even when nobody ever     *)
(* gives a slot back (api.go:166-192); only the end of the process, which  *)
(* does not wait for Shutdown (main.go:67-74), leaves it unanswered.       *)
AdmittedIsAnswered ==
    \A r \in Requests : phase[r] = "selecting" ~> phase[r] = "answered" \/ process = "exited"

(* Every token put in the channel is taken out again, on every path out of *)
(* the handler (api.go:168).                                               *)
SlotsComeBack == \A r \in Requests : r \in slots ~> r \notin slots
=============================================================================
