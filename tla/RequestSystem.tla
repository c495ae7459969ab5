---------------------------- MODULE RequestSystem ----------------------------
(***************************************************************************)
(* The retry loop of HttpCall against the WorkOS API.  The API is not part  *)
(* of the repository: it serves the requests on the wire in any order, or   *)
(* never, and applies at most one of those that carry one Idempotency-Key.  *)
(* A gateway in front of it may answer for it while the request goes on.    *)
(***************************************************************************)
EXTENDS HttpCall

VARIABLE applied   \* the requests that took effect

vars == <<pc, method, key, attempt, outcome, status, wire, reply, applied>>

Init == HttpInit /\ applied = {}

apiUnchanged == <<pc, method, key, attempt, outcome, status>>

\* Some request with m's key has taken effect.
AlreadyApplied(m) == m.key # NoKey /\ \E n \in applied : n.key = m.key

\* The answers to a request that took effect: a result, or a failure that
\* came after the effect.
ResultStatuses == {s \in Statuses : s < 400 \/ s >= 500}

ServeApply(m, s) ==
  /\ ~AlreadyApplied(m)
  /\ s \in ResultStatuses
  /\ applied' = applied \cup {m}
  /\ wire' = wire \ {m}
  /\ Answer(m, s)
  /\ UNCHANGED apiUnchanged

\* The saved result of the request that took effect under m's key.
ServeReplay(m, s) ==
  /\ AlreadyApplied(m)
  /\ s \in ResultStatuses
  /\ wire' = wire \ {m}
  /\ Answer(m, s)
  /\ UNCHANGED apiUnchanged
  /\ UNCHANGED applied

ServeRefuse(m, s) ==
  /\ s >= 400
  /\ wire' = wire \ {m}
  /\ Answer(m, s)
  /\ UNCHANGED apiUnchanged
  /\ UNCHANGED applied

\* A 5xx of a gateway says nothing of the request, which is still under way.
GatewayFails(m, s) ==
  /\ s >= 500
  /\ Answer(m, s)
  /\ UNCHANGED apiUnchanged
  /\ UNCHANGED <<wire, applied>>

ApiStep ==
  \E m \in wire, s \in Statuses :
    \/ ServeApply(m, s) \/ ServeReplay(m, s)
    \/ ServeRefuse(m, s) \/ GatewayFails(m, s)

Next ==
  \/ \E c \in Calls : CallStep(c) /\ UNCHANGED applied
  \/ ApiStep

Spec == Init /\ [][Next]_vars

FairSpec == Spec /\ CallFairness
-----------------------------------------------------------------------------
Effects(c) == {m \in applied : m.call = c}

TypeOK == HttpTypeOK /\ applied \subseteq Request

\* Retries, timeouts and requests that are served late never make a keyed
\* call take effect twice.
KeyedOnce ==
  \A m, n \in applied : m.call = n.call /\ key[m.call] # NoKey => m = n

\* Where no caller passes an empty key, every POST takes effect at most once,
\* with or without a key of the caller's.
PostOnce ==
  EmptyKey \notin KeyArguments =>
    \A m, n \in applied : m.call = n.call /\ method[m.call] = "post" => m = n

\* A call that returned, or raised only because it could not read the result,
\* did take effect; and only a key that callers share lets it return the
\* result of another call.
SuccessIsBacked ==
  \A c \in Calls : Succeeded(c) =>
    \/ Effects(c) # {}
    \/ key[c] \in UserKeys /\ \E m \in applied : m.key = key[c]

\* A 4xx error speaks of the last attempt: that one has had no effect and
\* never will.  Only an earlier attempt, given up on, can still bite.
RefusalIsDefinite ==
  \A m \in wire \cup applied : Refused(m.call) => m.attempt < attempt[m.call]

\* After a call has succeeded, only an attempt it had given up on can have a
\* further effect, and only if the call had no key.
QuietAfterSuccess ==
  [][\A m \in applied' \ applied :
       Succeeded(m.call) => key[m.call] = NoKey /\ m.attempt < attempt[m.call]]_vars

\* "All API errors map to typed exception classes."
ErrorsTyped == \A c \in Calls : outcome[c] # "Escaped"

\* Every call ends, whatever is lost, late or refused: it needs no answer to
\* end.  Only the API can hold it for ever, by an answer that never ceases to
\* arrive, or in the async client by a Retry-After of inf.
Termination == \A c \in Calls : Started(c) ~> pc[c] \in {"done", "held"}
-----------------------------------------------------------------------------
\* What the system promises, seen without its wire and its retries.
Verdicts == [c \in Calls |-> Verdict(c)]

Deliveries == [c \in Calls |-> {m.attempt : m \in Effects(c)}]

Budgets == [c \in Calls |-> 0..ResolveMaxRetries(c)]

Promise == INSTANCE OperationPromise
  WITH Budget <- Budgets, deliveries <- Deliveries, verdict <- Verdicts

\* The client and the API together keep the promise of OperationPromise.
PromiseKept == Promise!Spec
-----------------------------------------------------------------------------
(***************************************************************************)
(* The inductive invariant behind the safety properties.                   *)
(***************************************************************************)
\* A request belongs to its call, and is either under way or applied.
RequestsOwned ==
  /\ wire \cap applied = {}
  /\ \A m \in wire \cup applied : Owned(m)

AppliedOnce ==
  \A m, n \in applied : m.key = n.key /\ m.key # NoKey => m = n

KeyOrigin ==
  \A c \in Calls :
    /\ key[c] \in {NoKey, c} \cup UserKeys
    /\ Started(c) /\ method[c] = "post" /\ EmptyKey \notin KeyArguments
         => key[c] # NoKey

RefusalKnown(c) == \E s \in 400..499 : StatusKnown(c, s)

AnswersTrue ==
  \A c \in Calls :
    /\ ResultKnown(c) =>
         /\ AttemptRequest(c) \notin wire
         /\ AttemptRequest(c) \in applied \/ AlreadyApplied(AttemptRequest(c))
    /\ RefusalKnown(c) => AttemptRequest(c) \notin wire \cup applied

IInv ==
  /\ TypeOK
  /\ RequestsOwned
  /\ AppliedOnce
  /\ KeyOrigin
  /\ LoopState
  /\ AnswersTrue
  /\ BudgetUsed
=============================================================================
