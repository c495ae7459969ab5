---------------------------- MODULE HttpCall_proofs ----------------------------
(***************************************************************************)
(* Lemmas about the retry loop of HttpCall, for every API: what a step of a *)
(* call, or an answer, keeps.  They state what a step preserves, so that    *)
(* the modules that compose the loop with an API can use them.              *)
(***************************************************************************)
EXTENDS HttpCall, TLAPS

-----------------------------------------------------------------------------
\* The operators of the call path stay within their types.
LEMMA RetriesType == \A c \in Calls : ResolveMaxRetries(c) \in Int
BY HttpCallAssumption DEF HttpCallAssumption, ResolveMaxRetries

LEMMA StatusType ==
  /\ NoReply \notin Statuses
  /\ \A s \in Statuses : s \in Nat /\ 200 <= s /\ s < 600
BY HttpCallAssumption DEF HttpCallAssumption

LEMMA KeysDistinct ==
  /\ Calls \cap UserKeys = {}
  /\ NoKey \notin Calls \cup UserKeys
BY HttpCallAssumption DEF HttpCallAssumption

LEMMA KeyType ==
  ASSUME NEW c \in Calls, NEW m \in Methods,
         NEW arg \in KeyArguments, NEW option \in KeyArguments,
         NEW extra \in KeyArguments
  PROVE  /\ BuildHeaders(c, m, arg, option, extra) \in {NoKey, c} \cup UserKeys
         /\ m = "post" /\ EmptyKey \notin KeyArguments
              => BuildHeaders(c, m, arg, option, extra) # NoKey
BY HttpCallAssumption DEF HttpCallAssumption, BuildHeaders, FreshKey

LEMMA RaiseErrorType ==
  ASSUME NEW s \in Int
  PROVE  RaiseError(s) \in StatusErrors
BY DEF RaiseError, StatusErrors

LEMMA AttemptRequestType ==
  ASSUME HttpTypeOK, NEW c \in Calls
  PROVE  AttemptRequest(c) \in Request
BY DEF HttpTypeOK, AttemptRequest, Request

LEMMA HttpInitType == HttpInit => HttpTypeOK
BY DEF HttpInit, HttpTypeOK, PCs, Keys, Outcomes, Request

\* A step of a call keeps the types.
LEMMA CallStepType ==
  ASSUME HttpTypeOK, NEW c \in Calls, CallStep(c)
  PROVE  HttpTypeOK'
<1> USE RetriesType DEF HttpTypeOK, PCs
<1>1. CASE Start(c)
  <2>1. /\ key' \in [Calls -> Keys]
        /\ UNCHANGED <<method, status, wire, reply>>
    BY <1>1, KeyType DEF Start, Keys
  <2>2. pc' \in [Calls -> PCs] /\ attempt' \in [Calls -> Nat]
    BY <1>1 DEF Start, EnterIteration, Finish
  <2>3. outcome' \in [Calls -> Outcomes]
    BY <1>1 DEF Start, EnterIteration, Finish, Outcomes
  <2> QED BY <2>1, <2>2, <2>3
<1>2. CASE Send(c)
  BY <1>2, AttemptRequestType DEF Send
<1>3. CASE ConnectError(c) \/ Timeout(c) \/ NetworkError(c) \/ Drip(c)
  BY <1>3 DEF ConnectError, Timeout, NetworkError, Drip, AttemptFails, Finish,
              Outcomes, TransportErrors
<1>4. CASE Receive(c)
  <2>1. reply[c] \in Statuses /\ reply[c] \in Int
    <3>1. reply[c] \in Statuses
      BY <1>4 DEF Receive
    <3> QED BY <3>1, StatusType
  <2>2. RaiseError(reply[c]) \in Outcomes
    BY <2>1, RaiseErrorType DEF Outcomes
  <2>3. /\ UNCHANGED <<method, key, attempt, wire>>
        /\ reply' \in [Calls -> Statuses \cup {NoReply}]
        /\ status' \in [Calls -> Statuses \cup {0}]
        /\ pc' \in [Calls -> PCs]
    BY <1>4, <2>1 DEF Receive, Finish
  <2>4. outcome' \in [Calls -> Outcomes]
    <3>1. {"Ok", "Unparsed", "Escaped"} \subseteq Outcomes
      BY DEF Outcomes
    <3> QED BY <1>4, <2>2, <3>1 DEF Receive, Finish
  <2> QED BY <2>3, <2>4
<1>5. CASE Wake(c)
  <2>1. pc' \in [Calls -> PCs] /\ attempt' \in [Calls -> Nat]
    BY <1>5 DEF Wake, EnterIteration, Finish
  <2>2. outcome' \in [Calls -> Outcomes]
    BY <1>5 DEF Wake, EnterIteration, Finish, Outcomes
  <2> QED BY <1>5, <2>1, <2>2 DEF Wake
<1>6. CASE Cancel(c)
  BY <1>6 DEF Cancel, Finish, Outcomes
<1> QED BY <1>1, <1>2, <1>3, <1>4, <1>5, <1>6 DEF CallStep

-----------------------------------------------------------------------------
\* A call's step is its own.
LEMMA OthersUnchanged ==
  ASSUME HttpTypeOK, NEW c \in Calls, CallStep(c)
  PROVE  /\ UNCHANGED method
         /\ \A d \in Calls \ {c} :
              /\ pc'[d] = pc[d] /\ key'[d] = key[d] /\ attempt'[d] = attempt[d]
              /\ outcome'[d] = outcome[d] /\ status'[d] = status[d]
              /\ reply'[d] = reply[d]
<1> USE DEF HttpTypeOK
<1>1. CASE Start(c)
  BY <1>1 DEF Start, EnterIteration, Finish
<1>2. CASE Send(c)
  BY <1>2 DEF Send
<1>3. CASE ConnectError(c) \/ Timeout(c) \/ NetworkError(c) \/ Drip(c)
  BY <1>3 DEF ConnectError, Timeout, NetworkError, Drip, AttemptFails, Finish
<1>4. CASE Receive(c)
  BY <1>4 DEF Receive, Finish
<1>5. CASE Wake(c)
  BY <1>5 DEF Wake, EnterIteration, Finish
<1>6. CASE Cancel(c)
  BY <1>6 DEF Cancel, Finish
<1> QED BY <1>1, <1>2, <1>3, <1>4, <1>5, <1>6 DEF CallStep

\* A call only moves forward, and keeps its key once it has started.
LEMMA CallForward ==
  ASSUME HttpTypeOK, LoopState, NEW c \in Calls, CallStep(c)
  PROVE  /\ Started(c) => key'[c] = key[c]
         /\ attempt[c] <= attempt'[c]
         /\ pc'[c] # "idle"
         /\ wire' \in {wire, wire \cup {AttemptRequest(c)}}
         /\ wire' # wire => pc[c] = "ready" /\ pc'[c] = "waiting"
         /\ pc'[c] = "ready" => attempt[c] < attempt'[c] \/ pc[c] = "idle"
<1> USE DEF HttpTypeOK, Started
<1>1. CASE Start(c)
  BY <1>1 DEF Start, EnterIteration, Finish, LoopState
<1>2. CASE Send(c)
  BY <1>2 DEF Send
<1>3. CASE ConnectError(c) \/ Timeout(c) \/ NetworkError(c) \/ Drip(c)
  BY <1>3 DEF ConnectError, Timeout, NetworkError, Drip, AttemptFails, Finish
<1>4. CASE Receive(c)
  BY <1>4 DEF Receive, Finish
<1>5. CASE Wake(c)
  BY <1>5 DEF Wake, EnterIteration, Finish, LoopState, MayRetry
<1>6. CASE Cancel(c)
  BY <1>6 DEF Cancel, Finish
<1> QED BY <1>1, <1>2, <1>3, <1>4, <1>5, <1>6 DEF CallStep

\* An answer is typed, and is the answer to the current attempt of its call.
LEMMA AnswerFrame ==
  ASSUME HttpTypeOK, NEW m \in wire, NEW s \in Statuses, Answer(m, s)
  PROVE  /\ m \in Request /\ m.call \in Calls
         /\ reply' \in [Calls -> Statuses \cup {NoReply}]
         /\ \A c \in Calls :
              \/ reply'[c] = reply[c]
              \/ /\ c = m.call /\ pc[c] = "waiting" /\ m.attempt = attempt[c]
                 /\ reply[c] = NoReply /\ reply'[c] = s
BY DEF Answer, HttpTypeOK, Request
-----------------------------------------------------------------------------
\* The loop's bookkeeping, and the budget with it.
LEMMA CallLoopState ==
  ASSUME HttpTypeOK, LoopState, BudgetUsed, NEW c \in Calls, CallStep(c)
  PROVE  LoopState' /\ BudgetUsed'
<1> DEFINE L(d) == /\ pc[d] # "waiting" => reply[d] = NoReply
                   /\ pc[d] # "done" => outcome[d] = "None" /\ status[d] = 0
                   /\ pc[d] = "idle" => key[d] = NoKey /\ attempt[d] = 0
                   /\ pc[d] \in {"ready", "waiting"}
                        => attempt[d] <= ResolveMaxRetries(d)
                   /\ pc[d] = "sleeping" => MayRetry(d)
           B(d) == /\ attempt[d] <= ResolveMaxRetries(d) \/ attempt[d] = 0
                   /\ outcome[d] \in TransportErrors \/ status[d] \in RETRY_STATUS_CODES
                        => attempt[d] = ResolveMaxRetries(d)
                   /\ outcome[d] = "Exhausted" => ResolveMaxRetries(d) < 0
<1>1. \A d \in Calls : L(d) /\ B(d)
  BY DEF LoopState, BudgetUsed
<1> SUFFICES ASSUME NEW d \in Calls PROVE L(d)' /\ B(d)'
  BY DEF LoopState, BudgetUsed
<1>2. CASE d # c
  BY <1>1, <1>2, OthersUnchanged DEF MayRetry
<1>3. CASE d = c
  <2> USE <1>1, RetriesType DEF HttpTypeOK
  <2>1. CASE Start(c)
    BY <1>3, <2>1 DEF Start, EnterIteration, Finish, TransportErrors, RETRY_STATUS_CODES
  <2>2. CASE Send(c)
    BY <1>3, <2>2 DEF Send, TransportErrors, RETRY_STATUS_CODES
  <2>3. CASE ConnectError(c) \/ Timeout(c) \/ NetworkError(c) \/ Drip(c)
    BY <1>3, <2>3 DEF ConnectError, Timeout, NetworkError, Drip, AttemptFails, Finish,
                      MayRetry, TransportErrors, RETRY_STATUS_CODES
  <2>4. CASE Receive(c)
    <3>1. reply[c] \in Nat /\ attempt[c] \in Nat
      BY <2>4, StatusType DEF Receive
    <3>2. RaiseError(reply[c]) \notin TransportErrors \cup {"Exhausted"}
      BY <3>1, RaiseErrorType DEF StatusErrors, TransportErrors
    <3>3. CASE RetryStatus(c)
      BY <1>3, <2>4, <3>3 DEF Receive, Finish, RetryStatus, MayRetry,
                              TransportErrors, RETRY_STATUS_CODES
    <3>4. CASE ~RetryStatus(c)
      BY <1>3, <2>4, <3>1, <3>2, <3>4
         DEF Receive, Finish, RetryStatus, MayRetry, TransportErrors, RETRY_STATUS_CODES
    <3> QED BY <3>3, <3>4
  <2>5. CASE Wake(c)
    BY <1>3, <2>5 DEF Wake, EnterIteration, Finish, MayRetry,
                      TransportErrors, RETRY_STATUS_CODES
  <2>6. CASE Cancel(c)
    BY <1>3, <2>6 DEF Cancel, Finish, MayRetry, TransportErrors, RETRY_STATUS_CODES
  <2> QED BY <2>1, <2>2, <2>3, <2>4, <2>5, <2>6 DEF CallStep
<1> QED BY <1>2, <1>3

LEMMA AnswerLoopState ==
  ASSUME HttpTypeOK, LoopState, BudgetUsed,
         NEW m \in wire, NEW s \in Statuses, Answer(m, s),
         UNCHANGED <<pc, method, key, attempt, outcome, status>>
  PROVE  LoopState' /\ BudgetUsed'
BY AnswerFrame DEF LoopState, BudgetUsed, MayRetry
-----------------------------------------------------------------------------
\* Requests go on belonging to their calls.
LEMMA CallOwned ==
  ASSUME HttpTypeOK, LoopState, NEW c \in Calls, CallStep(c),
         NEW m \in Request, Owned(m)
  PROVE  Owned(m)'
<1>1. m.call \in Calls /\ m.attempt \in Nat
  BY DEF Request
<1>2. CASE m.call = c
  <2>1. attempt[c] \in Nat /\ attempt'[c] \in Nat
    BY CallStepType DEF HttpTypeOK
  <2>2. /\ Started(c) /\ key'[c] = key[c] /\ attempt[c] <= attempt'[c] /\ pc'[c] # "idle"
        /\ pc'[c] = "ready" => attempt[c] < attempt'[c]
    BY <1>2, CallForward DEF Owned, Started
  <2> QED BY <1>1, <1>2, <2>1, <2>2 DEF Owned, Started, ResolveMaxRetries
<1>3. CASE m.call # c
  BY <1>1, <1>3, OthersUnchanged DEF Owned, Started, ResolveMaxRetries
<1> QED BY <1>2, <1>3

LEMMA SentOwned ==
  ASSUME HttpTypeOK, LoopState, NEW c \in Calls, CallStep(c),
         NEW m \in wire', m \notin wire
  PROVE  m = AttemptRequest(c) /\ pc[c] = "ready" /\ Owned(m)'
<1>1. m = AttemptRequest(c) /\ pc[c] = "ready" /\ pc'[c] = "waiting"
  BY CallForward
<1>2. UNCHANGED <<key, attempt>>
  BY <1>1 DEF CallStep, Start, Send, ConnectError, Timeout, NetworkError,
              AttemptFails, Drip, Receive, Wake, Cancel
<1>3. attempt[c] \in Nat /\ attempt[c] <= ResolveMaxRetries(c)
  BY <1>1 DEF LoopState, HttpTypeOK
<1> QED BY <1>1, <1>2, <1>3 DEF AttemptRequest, Owned, Started, ResolveMaxRetries

LEMMA AnswerOwned ==
  ASSUME NEW m, Owned(m), UNCHANGED <<pc, key, attempt>>
  PROVE  Owned(m)'
BY DEF Owned, Started, ResolveMaxRetries

\* A call knows nothing that an answer has not told it, and then makes no
\* further request.
LEMMA CallLearns ==
  ASSUME HttpTypeOK, LoopState, NEW c \in Calls, CallStep(c), NEW d \in Calls,
         NEW s \in Int
  PROVE  /\ ResultKnown(d)' => ResultKnown(d)
         /\ StatusKnown(d, s)' => StatusKnown(d, s)
         /\ ResultKnown(d)' \/ StatusKnown(d, s)' =>
              /\ UNCHANGED AttemptRequest(d)
              /\ AttemptRequest(d) \in wire' => AttemptRequest(d) \in wire
<1> USE DEF HttpTypeOK, ResultKnown, StatusKnown, Succeeded, AttemptRequest
<1>1. CASE d # c
  <2>1. UNCHANGED AttemptRequest(d) /\ AttemptRequest(c) # AttemptRequest(d)
    BY <1>1, OthersUnchanged
  <2> QED BY <1>1, <2>1, OthersUnchanged, CallForward
<1>2. CASE d = c
  <2>1. NoReply \notin Statuses /\ 0 \notin Statuses
    BY StatusType
  <2>2. CASE Start(c)
    BY <1>2, <2>1, <2>2 DEF Start, EnterIteration, Finish, LoopState
  <2>3. CASE Send(c)
    BY <1>2, <2>1, <2>3 DEF Send, LoopState
  <2>4. CASE ConnectError(c) \/ Timeout(c) \/ NetworkError(c) \/ Drip(c)
    BY <1>2, <2>1, <2>4 DEF ConnectError, Timeout, NetworkError, Drip, AttemptFails, Finish,
                            LoopState
  <2>5. CASE Receive(c)
    <3>1. reply[c] \in Nat /\ reply[c] < 600 /\ outcome[c] = "None" /\ status[c] = 0
      BY <2>5, StatusType DEF Receive, LoopState
    <3>2. RaiseError(reply[c]) \notin {"Ok", "Unparsed"}
      BY <3>1, RaiseErrorType DEF StatusErrors
    <3> QED BY <1>2, <2>1, <2>5, <3>1, <3>2 DEF Receive, Finish
  <2>6. CASE Wake(c)
    BY <1>2, <2>1, <2>6 DEF Wake, EnterIteration, Finish, LoopState
  <2>7. CASE Cancel(c)
    BY <1>2, <2>1, <2>7 DEF Cancel, Finish, LoopState
  <2> QED BY <2>2, <2>3, <2>4, <2>5, <2>6, <2>7 DEF CallStep
<1> QED BY <1>1, <1>2

\* What an answer tells the call it answers.
LEMMA AnswerTells ==
  ASSUME HttpTypeOK, LoopState, NEW m \in wire, Owned(m), NEW s \in Statuses, Answer(m, s),
         UNCHANGED <<pc, method, key, attempt, outcome, status>>,
         NEW d \in Calls
  PROVE  /\ UNCHANGED AttemptRequest(d)
         /\ \/ /\ ResultKnown(d)' => ResultKnown(d)
               /\ \A t \in Int : StatusKnown(d, t)' => StatusKnown(d, t)
            \/ /\ m = AttemptRequest(d)
               /\ ResultKnown(d)' => s < 400
               /\ \A t \in Int : StatusKnown(d, t)' => s = t
<1>1. UNCHANGED AttemptRequest(d)
  BY DEF AttemptRequest
<1>2. CASE reply'[d] = reply[d]
  BY <1>1, <1>2 DEF ResultKnown, StatusKnown, Succeeded
<1>3. CASE reply'[d] # reply[d]
  <2>1. m \in Request /\ d = m.call /\ pc[d] = "waiting" /\ m.attempt = attempt[d]
        /\ reply'[d] = s
    BY <1>3, AnswerFrame
  <2>2. m = AttemptRequest(d)
    BY <2>1 DEF Request, AttemptRequest, Owned
  <2>3. outcome[d] = "None" /\ status[d] = 0 /\ 0 \notin Statuses
    BY <2>1, StatusType DEF LoopState
  <2> QED BY <1>1, <2>1, <2>2, <2>3 DEF ResultKnown, StatusKnown, Succeeded
<1> QED BY <1>2, <1>3
-----------------------------------------------------------------------------
\* What a step of a call tells its caller.
LEMMA CallVerdict ==
  ASSUME HttpTypeOK, LoopState, NEW c \in Calls, CallStep(c)
  PROVE  /\ \A d \in Calls \ {c} : Verdict(d)' = Verdict(d)
         /\ Start(c) => Verdict(c) = "idle" /\ Verdict(c)' \in {"open", "unknown"}
         /\ ~Start(c) =>
              /\ Verdict(c) = "open"
              /\ Verdict(c)' \in {"open", "succeeded", "refused", "unknown"}
              /\ Verdict(c)' = "succeeded" => ResultKnown(c)
<1> USE DEF HttpTypeOK
<1>1. \A d \in Calls \ {c} : Verdict(d)' = Verdict(d)
  BY OthersUnchanged DEF Verdict, Succeeded, Refused
<1>2. ASSUME Start(c) PROVE Verdict(c) = "idle" /\ Verdict(c)' \in {"open", "unknown"}
  BY <1>2 DEF Start, EnterIteration, Finish, Verdict, Succeeded, Refused, LoopState
<1>3. ASSUME ~Start(c)
      PROVE  /\ Verdict(c) = "open"
             /\ Verdict(c)' \in {"open", "succeeded", "refused", "unknown"}
             /\ Verdict(c)' = "succeeded" => ResultKnown(c)
  <2>1. pc[c] \in {"ready", "waiting", "sleeping", "held"}
    BY <1>3 DEF CallStep, Send, ConnectError, Timeout, NetworkError, AttemptFails,
                Drip, Receive, Wake, Cancel
  <2>2. pc'[c] # "idle"
    BY CallForward
  <2>3. Verdict(c)' = "succeeded" => Succeeded(c)'
    BY <2>2 DEF Verdict
  <2>4. Succeeded(c)' => ResultKnown(c)
    BY CallLearns DEF ResultKnown
  <2> QED BY <2>1, <2>2, <2>3, <2>4 DEF Verdict
<1> QED BY <1>1, <1>2, <1>3
-----------------------------------------------------------------------------
\* A call has a number of steps left, by where it is.
StepsCounted ==
  \A c \in Calls : StepsLeft(c) \in Nat /\ (pc[c] # "done" => StepsLeft(c) > 0)

LEMMA StepsLeftIs == HttpTypeOK /\ LoopState /\ BudgetUsed => StepsCounted
<1> SUFFICES ASSUME HttpTypeOK, LoopState, BudgetUsed, NEW c \in Calls
             PROVE  StepsLeft(c) \in Nat /\ (pc[c] # "done" => StepsLeft(c) > 0)
  BY DEF StepsCounted
<1> DEFINE r == ResolveMaxRetries(c)
           left == IF r < 0 THEN 0 ELSE r - attempt[c]
<1>1. r \in Int /\ attempt[c] \in Nat /\ pc[c] \in PCs
  BY RetriesType DEF HttpTypeOK
<1>2. attempt[c] <= r \/ attempt[c] = 0
  BY DEF BudgetUsed
<1>3. left \in Nat
  BY <1>1, <1>2
<1> HIDE DEF left
<1>4. StepsLeft(c) = CASE pc[c] = "idle" -> 3 * left + 4
                       [] pc[c] = "ready" -> 3 * left + 3
                       [] pc[c] = "waiting" -> 3 * left + 2
                       [] pc[c] = "sleeping" -> 3 * left + 1
                       [] pc[c] = "held" -> 1
                       [] pc[c] = "done" -> 0
  BY DEF StepsLeft, left
<1> QED
  BY <1>1, <1>3, <1>4 DEF PCs

\* A step of a call goes one stage on, to the next iteration, or to its end.
LEMMA CallAdvances ==
  ASSUME HttpTypeOK, LoopState, BudgetUsed, NEW c \in Calls, CallStep(c)
  PROVE  StepsLeft(c)' < StepsLeft(c)
<1> DEFINE r == ResolveMaxRetries(c)
           left == IF r < 0 THEN 0 ELSE r - attempt[c]
           next == IF r < 0 THEN 0 ELSE r - attempt'[c]
<1>1. r \in Int /\ attempt[c] \in Nat /\ pc[c] \in PCs
  BY RetriesType DEF HttpTypeOK
<1>2. HttpTypeOK' /\ LoopState' /\ BudgetUsed' /\ pc[c] # "done"
  BY CallStepType, CallLoopState
     DEF CallStep, Start, Send, ConnectError, Timeout, NetworkError, Drip, Receive, Wake, Cancel
<1>3. StepsLeft(c) \in Nat /\ StepsLeft(c) > 0 /\ StepsLeft(c)' \in Nat
  <2>1. HttpTypeOK' /\ LoopState' /\ BudgetUsed' => StepsCounted'
    BY StepsLeftIs, PTL
  <2> QED BY <1>2, <2>1, StepsLeftIs DEF StepsCounted
<1>4. CASE pc'[c] = "done"
  <2>1. StepsLeft(c)' = 0
    BY <1>4 DEF StepsLeft
  <2> QED BY <1>3, <2>1
<1>6. CASE pc'[c] = "held"
  <2>1. pc[c] = "waiting"
    BY <1>6 DEF CallStep, Start, EnterIteration, Send, ConnectError, Timeout, NetworkError,
                AttemptFails, Drip, Receive, Wake, Cancel, Finish, HttpTypeOK
  <2>2. left \in Nat
    BY <1>1, <2>1 DEF LoopState
  <2> HIDE DEF left
  <2>3. StepsLeft(c) = 3 * left + 2
    BY <2>1 DEF StepsLeft, left
  <2>4. StepsLeft(c)' = 1
    BY <1>6 DEF StepsLeft
  <2> QED BY <2>2, <2>3, <2>4
<1>5. CASE pc'[c] \notin {"done", "held"}
  <2>1. \/ pc[c] = "idle" /\ pc'[c] = "ready" /\ attempt'[c] = 0
        \/ pc[c] = "ready" /\ pc'[c] \in {"waiting", "sleeping"} /\ attempt'[c] = attempt[c]
        \/ pc[c] = "waiting" /\ pc'[c] = "sleeping" /\ attempt'[c] = attempt[c]
        \/ /\ pc[c] = "sleeping" /\ pc'[c] = "ready"
           /\ attempt'[c] = attempt[c] + 1 /\ attempt'[c] <= r
    BY <1>5 DEF CallStep, Start, EnterIteration, Send, ConnectError, Timeout, NetworkError,
                AttemptFails, Drip, Receive, Wake, Cancel, Finish, HttpTypeOK
  <2>2. pc[c] = "idle" => attempt[c] = 0
    BY DEF LoopState
  <2>3. left \in Int /\ next \in Int /\ (pc[c] # "sleeping" => next = left)
        /\ (pc[c] = "sleeping" => next = left - 1)
    BY <1>1, <2>1, <2>2
  <2> HIDE DEF left, next
  <2>4. /\ pc[c] = "idle" => StepsLeft(c) = 3 * left + 4
        /\ pc[c] = "ready" => StepsLeft(c) = 3 * left + 3
        /\ pc[c] = "waiting" => StepsLeft(c) = 3 * left + 2
        /\ pc[c] = "sleeping" => StepsLeft(c) = 3 * left + 1
    BY DEF StepsLeft, left
  <2>5. /\ pc'[c] = "ready" => StepsLeft(c)' = 3 * next + 3
        /\ pc'[c] = "waiting" => StepsLeft(c)' = 3 * next + 2
        /\ pc'[c] = "sleeping" => StepsLeft(c)' = 3 * next + 1
    BY DEF StepsLeft, next, ResolveMaxRetries
  <2> QED BY <2>1, <2>3, <2>4, <2>5
<1> QED
  BY <1>4, <1>5, <1>6

\* What is not a step of a call leaves it where it is.
LEMMA StepsKept ==
  ASSUME UNCHANGED <<pc, attempt>>, NEW c \in Calls
  PROVE  StepsLeft(c)' = StepsLeft(c)
BY DEF StepsLeft, ResolveMaxRetries

\* What a step of the client or of the API does to the calls' steps left.
LEMMA Advances ==
  ASSUME HttpTypeOK, LoopState, BudgetUsed, HttpTypeOK', LoopState', BudgetUsed',
         (\E c \in Calls : CallStep(c)) \/ UNCHANGED <<pc, attempt>>
  PROVE  Advance
<1> SUFFICES ASSUME NEW d \in Calls
             PROVE  /\ StepsLeft(d)' \in Nat /\ StepsLeft(d)' <= StepsLeft(d)
                    /\ CallStep(d) => StepsLeft(d)' < StepsLeft(d)
  BY DEF Advance
<1>1. StepsLeft(d) \in Nat /\ StepsLeft(d)' \in Nat
  <2>1. HttpTypeOK' /\ LoopState' /\ BudgetUsed' => StepsCounted'
    BY StepsLeftIs, PTL
  <2> QED BY <2>1, StepsLeftIs DEF StepsCounted
<1>2. CASE CallStep(d)
  BY <1>1, <1>2, CallAdvances
<1>3. ASSUME NEW c \in Calls, CallStep(c), d # c PROVE StepsLeft(d)' = StepsLeft(d)
  <2>1. pc'[d] = pc[d] /\ attempt'[d] = attempt[d]
    BY <1>3, OthersUnchanged
  <2> QED BY <2>1 DEF StepsLeft, ResolveMaxRetries
<1>4. ASSUME UNCHANGED <<pc, attempt>> PROVE StepsLeft(d)' = StepsLeft(d) /\ ~CallStep(d)
  <2>1. CallStep(d) => pc' # pc
    BY DEF CallStep, Start, EnterIteration, Send, ConnectError, Timeout, NetworkError,
           AttemptFails, Drip, Receive, Wake, Cancel, Finish, HttpTypeOK
  <2> QED BY <1>4, <2>1, StepsKept
<1> QED
  BY <1>1, <1>2, <1>3, <1>4
=============================================================================
