------------------------------ MODULE HttpCall ------------------------------
(***************************************************************************)
(* The retry loop of WorkClient.request / AsyncWorkOSClient.request        *)
(* (src/workos/_base_client.py), run by several threads or asyncio tasks   *)
(* that share one client, and the wire between them and the API.           *)
(*                                                                         *)
(* A call c is one invocation of request().  Its headers, so its           *)
(* Idempotency-Key, are built once, before the loop; every attempt of the  *)
(* loop puts one HTTP request on the wire.  A client that gives up on an   *)
(* attempt (timeout, broken connection, cancellation) closes its           *)
(* connection, which does not take the request back: it stays on the wire  *)
(* and may still be served, after later attempts or after the call.        *)
(*                                                                         *)
(* What the API does with a request is left to the modules that extend     *)
(* this one.  Delays are abstracted: a sleeping call may wake at any time.  *)
(* An API can hold a call for ever, with an answer that drips or a delay    *)
(* that is infinite: such a call is "held".                                 *)
(***************************************************************************)
EXTENDS Integers

CONSTANTS
  Calls,            \* invocations of request()
  Methods,          \* HTTP methods, lower case
  UserKeys,         \* idempotency keys callers make up
  KeyArguments,     \* what a caller passes where a key is accepted
  Statuses,         \* HTTP status codes the API answers with
  ClientMaxRetries, \* the client's max_retries
  RetryOption,      \* request_options["max_retries"] of each call, or NoOption
  NoOption,
  NoKey,            \* Python's None, and the absence of the header
  EmptyKey,         \* the empty string passed as a key
  NoReply

ASSUME HttpCallAssumption ==
  /\ ClientMaxRetries \in Int
  /\ RetryOption \in [Calls -> Int \cup {NoOption}]
  /\ NoOption \notin Int
  /\ Statuses \subseteq 200..599
  /\ NoReply \notin Statuses
  /\ KeyArguments \subseteq UserKeys \cup {NoKey, EmptyKey}
  /\ Calls \cap UserKeys = {}
  /\ NoKey \notin Calls \cup UserKeys
  /\ EmptyKey \notin Calls \cup UserKeys \cup {NoKey}

VARIABLES
  pc,      \* where each call is in request()
  method,  \* its HTTP method
  key,     \* its Idempotency-Key header
  attempt, \* the loop variable
  outcome, \* what it returned or raised
  status,  \* the status_code of the answer that ended it, 0 if none did
  wire,    \* the HTTP requests that are on their way
  reply    \* the answer waiting on the connection of the current attempt

httpVars == <<pc, method, key, attempt, outcome, status, wire, reply>>
-----------------------------------------------------------------------------
RETRY_STATUS_CODES == {429, 500, 502, 503, 504}

\* request_options["max_retries"] when it is an int, the client's otherwise.
ResolveMaxRetries(c) ==
  IF RetryOption[c] \in Int THEN RetryOption[c] ELSE ClientMaxRetries

\* Variant: no key is made up for a POST.
FreshKeyOmitted(c, m) == NoKey

\* Variant: one key made up when the module is imported.
FreshKeyShared(c, m) == IF m = "post" THEN CHOOSE d \in Calls : TRUE ELSE NoKey

\* uuid.uuid4() for a POST without a key, named by the call it is made for.
FreshKey(c, m) == IF m = "post" THEN c ELSE NoKey

\* The Idempotency-Key header of _build_headers: the one in extra_headers,
\* merged last, else the argument, else the request option, else a fresh one.
\* An empty key is not None, so it suppresses a fresh one, and it is falsy,
\* so it sets no header (as an extra header it is sent, and means no key).
BuildHeaders(c, m, arg, option, extra) ==
  LET chosen == CASE extra # NoKey  -> extra
                  [] extra = NoKey /\ arg # NoKey -> arg
                  [] extra = NoKey /\ arg = NoKey /\ option # NoKey -> option
                  [] OTHER -> FreshKey(c, m)
  IN  IF chosen = EmptyKey THEN NoKey ELSE chosen

\* The class _raise_error raises for a status of 400 or more.
RaiseError(s) ==
  CASE s = 400 -> "BadRequestError"
    [] s = 401 -> "AuthenticationError"
    [] s = 403 -> "AuthorizationError"
    [] s = 404 -> "NotFoundError"
    [] s = 409 -> "ConflictError"
    [] s = 422 -> "UnprocessableEntityError"
    [] s = 429 -> "RateLimitExceededError"
    [] s >= 500 -> "ServerError"
    [] OTHER -> "APIError"
-----------------------------------------------------------------------------
Keys == Calls \cup UserKeys \cup {NoKey}

Request == [call : Calls, attempt : Nat, key : Keys]

PCs == {"idle", "ready", "waiting", "sleeping", "held", "done"}

StatusErrors ==
  {"BadRequestError", "AuthenticationError", "AuthorizationError",
   "NotFoundError", "ConflictError", "UnprocessableEntityError",
   "RateLimitExceededError", "ServerError", "APIError"}

TransportErrors ==
  {"WorkOSTimeoutError", "WorkOSConnectionError", "WorkOSError"}

\* "None" is a call that has not ended; "Unparsed" the WorkOSError a model's
\* from_dict raises on a successful answer it cannot read; "Escaped" an
\* exception that is no WorkOSError; "Exhausted" the error after the loop;
\* "Cancelled" a CancelledError at an await.
Outcomes ==
  {"None", "Ok", "Unparsed", "Escaped", "Exhausted", "Cancelled"}
    \cup StatusErrors \cup TransportErrors

HttpTypeOK ==
  /\ pc \in [Calls -> PCs]
  /\ method \in [Calls -> Methods]
  /\ key \in [Calls -> Keys]
  /\ attempt \in [Calls -> Nat]
  /\ outcome \in [Calls -> Outcomes]
  /\ status \in [Calls -> Statuses \cup {0}]
  /\ wire \subseteq Request
  /\ reply \in [Calls -> Statuses \cup {NoReply}]

HttpInit ==
  /\ pc = [c \in Calls |-> "idle"]
  /\ method \in [Calls -> Methods]
  /\ key = [c \in Calls |-> NoKey]
  /\ attempt = [c \in Calls |-> 0]
  /\ outcome = [c \in Calls |-> "None"]
  /\ status = [c \in Calls |-> 0]
  /\ wire = {}
  /\ reply = [c \in Calls |-> NoReply]
-----------------------------------------------------------------------------
\* The call returns or raises o.
Finish(c, o) ==
  /\ pc' = [pc EXCEPT ![c] = "done"]
  /\ outcome' = [outcome EXCEPT ![c] = o]

\* Variant: the loop variable starts one too low.
EnterIterationBefore(c, n) ==
  \/ /\ n <= ResolveMaxRetries(c)
     /\ pc' = [pc EXCEPT ![c] = "ready"]
     /\ attempt' = [attempt EXCEPT ![c] = n - 1]
     /\ UNCHANGED outcome
  \/ /\ n > ResolveMaxRetries(c)
     /\ Finish(c, "Exhausted")
     /\ UNCHANGED attempt

\* for attempt in range(max_retries + 1): iteration n, or the code after the
\* loop when the range is used up.
EnterIteration(c, n) ==
  \/ /\ n <= ResolveMaxRetries(c)
     /\ pc' = [pc EXCEPT ![c] = "ready"]
     /\ attempt' = [attempt EXCEPT ![c] = n]
     /\ UNCHANGED outcome
  \/ /\ n > ResolveMaxRetries(c)
     /\ Finish(c, "Exhausted")
     /\ UNCHANGED attempt

Start(c) ==
  /\ pc[c] = "idle"
  /\ \E arg, option, extra \in KeyArguments :
       key' = [key EXCEPT ![c] = BuildHeaders(c, method[c], arg, option, extra)]
  /\ EnterIteration(c, 0)
  /\ UNCHANGED <<method, status, wire, reply>>

\* Variant: the key is sent with the first attempt only.
AttemptRequestKeyOnce(c) ==
  [call |-> c, attempt |-> attempt[c], key |-> IF attempt[c] = 0 THEN key[c] ELSE NoKey]

\* self._client.request(...) with the headers built before the loop.
AttemptRequest(c) == [call |-> c, attempt |-> attempt[c], key |-> key[c]]

Send(c) ==
  /\ pc[c] = "ready"
  /\ pc' = [pc EXCEPT ![c] = "waiting"]
  /\ wire' = wire \cup {AttemptRequest(c)}
  /\ UNCHANGED <<method, key, attempt, outcome, status, reply>>

\* Variants: one retry more, and one less, than the budget.
MayRetryOneMore(c) == attempt[c] <= ResolveMaxRetries(c)

MayRetryOneLess(c) == attempt[c] + 1 < ResolveMaxRetries(c)

\* The guard of every retry: "attempt < max_retries".
MayRetry(c) == attempt[c] < ResolveMaxRetries(c)

\* An except clause of the loop: sleep and continue, or raise error.  The
\* connection is closed either way.
AttemptFails(c, error) ==
  /\ \/ /\ MayRetry(c)
        /\ pc' = [pc EXCEPT ![c] = "sleeping"]
        /\ UNCHANGED outcome
     \/ /\ ~MayRetry(c)
        /\ Finish(c, error)
  /\ reply' = [reply EXCEPT ![c] = NoReply]
  /\ UNCHANGED <<method, key, attempt, status, wire>>

\* httpx.ConnectError: the request was never sent.
ConnectError(c) ==
  /\ pc[c] = "ready"
  /\ AttemptFails(c, "WorkOSConnectionError")

\* httpx.TimeoutException, while connecting or once the request is out, which
\* then may or may not be served.
Timeout(c) ==
  /\ pc[c] \in {"ready", "waiting"}
  /\ AttemptFails(c, "WorkOSTimeoutError")

\* Any other httpx.HTTPError, such as a connection that breaks.
NetworkError(c) ==
  /\ pc[c] \in {"ready", "waiting"}
  /\ AttemptFails(c, "WorkOSError")

RetryStatus(c) == reply[c] \in RETRY_STATUS_CODES /\ MayRetry(c)

\* An answer that comes in parts: the timeout of httpx is that of one read, so
\* parts that go on for ever, each in time, are neither an answer nor a timeout.
Drip(c) ==
  /\ pc[c] = "waiting"
  /\ reply[c] = NoReply
  /\ pc' = [pc EXCEPT ![c] = "held"]
  /\ UNCHANGED <<method, key, attempt, outcome, status, wire, reply>>

\* An answer arrives: retry, raise by status, or deserialize and return.  A
\* Retry-After of inf is a delay to the parser: asyncio.sleep() never wakes from
\* it, time.sleep() raises.  Any answer may break the code that handles it: that
\* delay, a JSON body that is no object in APIError or in from_dict, an "error"
\* of a 403 that is no string in the table of auth-flow errors.
Receive(c) ==
  /\ pc[c] = "waiting"
  /\ reply[c] # NoReply
  /\ \/ /\ RetryStatus(c)
        /\ \E p \in {"sleeping", "held"} : pc' = [pc EXCEPT ![c] = p]
        /\ UNCHANGED <<outcome, status>>
     \/ /\ ~RetryStatus(c)
        /\ reply[c] >= 400
        /\ Finish(c, RaiseError(reply[c]))
        /\ status' = [status EXCEPT ![c] = reply[c]]
     \/ /\ ~RetryStatus(c)
        /\ reply[c] < 400
        /\ \E o \in {"Ok", "Unparsed"} : Finish(c, o)
        /\ status' = [status EXCEPT ![c] = reply[c]]
     \/ /\ Finish(c, "Escaped")
        /\ UNCHANGED status
  /\ reply' = [reply EXCEPT ![c] = NoReply]
  /\ UNCHANGED <<method, key, attempt, wire>>

\* Variant: the loop variable is not advanced.
WakeSameAttempt(c) ==
  /\ pc[c] = "sleeping"
  /\ EnterIteration(c, attempt[c])
  /\ UNCHANGED <<method, key, status, wire, reply>>

\* The sleep between two attempts ends.
Wake(c) ==
  /\ pc[c] = "sleeping"
  /\ EnterIteration(c, attempt[c] + 1)
  /\ UNCHANGED <<method, key, status, wire, reply>>

\* The asyncio task is cancelled at one of the loop's awaits; CancelledError
\* is no httpx.HTTPError, so it leaves the loop at once.
Cancel(c) ==
  /\ pc[c] \in {"ready", "waiting", "sleeping", "held"}
  /\ Finish(c, "Cancelled")
  /\ reply' = [reply EXCEPT ![c] = NoReply]
  /\ UNCHANGED <<method, key, attempt, status, wire>>

CallStep(c) ==
  \/ Start(c) \/ Send(c) \/ ConnectError(c) \/ Timeout(c)
  \/ NetworkError(c) \/ Drip(c) \/ Receive(c) \/ Wake(c) \/ Cancel(c)
-----------------------------------------------------------------------------
\* An answer s to request m is read only on a connection that is still open
\* and has not been answered.
Answer(m, s) ==
  reply' = [reply EXCEPT ![m.call] =
              IF pc[m.call] = "waiting" /\ attempt[m.call] = m.attempt /\ @ = NoReply
              THEN s ELSE @]

\* What the client always gets to do once it has started: the loop's own
\* steps, the end of a finite sleep, and, since every read has a timeout, the
\* end of a wait in which nothing comes.  A call that is held may stay so.
CallFairness ==
  \A c \in Calls :
    /\ WF_httpVars(Send(c))
    /\ WF_httpVars(Timeout(c))
    /\ WF_httpVars(Wake(c))
-----------------------------------------------------------------------------
Started(c) == pc[c] # "idle"

Succeeded(c) == outcome[c] \in {"Ok", "Unparsed"}

\* The API said that it will not do it.
Refused(c) == status[c] \in 400..499

\* What the caller has been told of its operation, in the words of
\* OperationPromise.
Verdict(c) ==
  CASE pc[c] = "idle" -> "idle"
    [] pc[c] \in {"ready", "waiting", "sleeping", "held"} -> "open"
    [] pc[c] = "done" /\ Succeeded(c) -> "succeeded"
    [] pc[c] = "done" /\ Refused(c) -> "refused"
    [] OTHER -> "unknown"

\* A caller is told of a transient failure only when every retry of the call's
\* budget has been used, and no attempt is ever beyond the budget.
BudgetUsed ==
  \A c \in Calls :
    /\ attempt[c] <= ResolveMaxRetries(c) \/ attempt[c] = 0
    /\ outcome[c] \in TransportErrors \/ status[c] \in RETRY_STATUS_CODES
         => attempt[c] = ResolveMaxRetries(c)
    /\ outcome[c] = "Exhausted" => ResolveMaxRetries(c) < 0

\* The steps a call can still take: three for every iteration of the loop that
\* is left, and those of the current one.
StepsLeft(c) ==
  LET retries == IF ResolveMaxRetries(c) < 0 THEN 0 ELSE ResolveMaxRetries(c) - attempt[c]
  IN  CASE pc[c] = "idle" -> 3 * retries + 4
        [] pc[c] = "ready" -> 3 * retries + 3
        [] pc[c] = "waiting" -> 3 * retries + 2
        [] pc[c] = "sleeping" -> 3 * retries + 1
        [] pc[c] = "held" -> 1
        [] pc[c] = "done" -> 0

Advance ==
  \A c \in Calls :
    /\ StepsLeft(c)' \in Nat /\ StepsLeft(c)' <= StepsLeft(c)
    /\ CallStep(c) => StepsLeft(c)' < StepsLeft(c)

\* Every step of a call brings it nearer to its end, whatever is answered, lost
\* or served late in between, so that it takes 3 * max_retries + 4 at most; and
\* nothing else sets it back.
CallsAdvance == [][Advance]_httpVars

\* What a call holds or knows at each point of the loop.
LoopState ==
  \A c \in Calls :
    /\ pc[c] # "waiting" => reply[c] = NoReply
    /\ pc[c] # "done" => outcome[c] = "None" /\ status[c] = 0
    /\ pc[c] = "idle" => key[c] = NoKey /\ attempt[c] = 0
    /\ pc[c] \in {"ready", "waiting"} => attempt[c] <= ResolveMaxRetries(c)
    /\ pc[c] = "sleeping" => MayRetry(c)

\* A request was sent by its call, under the call's one key, in an attempt
\* within the budget.
Owned(m) ==
  /\ Started(m.call)
  /\ m.key = key[m.call]
  /\ m.attempt <= attempt[m.call]
  /\ m.attempt <= ResolveMaxRetries(m.call)
  /\ m.attempt = attempt[m.call] => pc[m.call] # "ready"

\* An answer, read or not, that tells of a result; or one with status s.
ResultKnown(c) == Succeeded(c) \/ (reply[c] # NoReply /\ reply[c] < 400)

StatusKnown(c, s) == s \in Statuses /\ (status[c] = s \/ reply[c] = s)
=============================================================================
