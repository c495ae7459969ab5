# TLA+ models of the WorkOS Python SDK

The SDK is a client library: synchronous and asynchronous clients of the WorkOS
HTTP API (`src/workos`), most of it generated resources and data classes over a
small hand-written runtime. The runtime is where things happen over time
(retries, timeouts, cancellation, idempotency keys, session refresh,
pagination, logins), and most of these modules model it. The resources are
modelled as a catalogue: what each method of each of the two clients sends.

## 1. Inventory

| Component | State it keeps | Operations | What makes it correct |
|---|---|---|---|
| **HTTP request core**, `_base_client.py` | per call: headers with the idempotency key, loop variable, `last_error`; shared: the httpx client, retry default | `request`, and `request_raw`, `request_list`, `request_page` over it | one effect per key and per POST whatever is lost, late or retried; truth of what the caller is told; the whole budget used, never more; every call ends that the API does not hold |
| **Sealed sessions**, `session.py` | `Session.session_data`, `Session.cookie_password`; a process-wide cache of JWKS clients | `authenticate`, `refresh`, `get_logout_url`; `seal_data`, `unseal_data` | the cookie stays readable by its key; a failed refresh changes nothing; concurrent refreshes lose nothing; a used refresh token is not kept without need |
| **Pagination**, `_pagination.py` and `request_page` | the page, its cursor, the parameters closed over by `_fetch` | `auto_paging_iter`, `has_more` | no item twice, none missed, none foreign; the iteration ends, and says so when it could not go on |
| **Error classes**, `_errors.py` | none | `_raise_error` dispatch, auth-flow dispatch | the class follows the answer, for every body |
| **Retry delays** | none | `_parse_retry_after`, `_calculate_retry_delay` | bounds of a delay |
| **Client configuration**, `_client.py`, `public_client.py` | key, client id, URL, timeout, lazily made resources | constructors, cached accessors | a public client never sends a key; a missing credential is reported |
| **Vault encryption and store**, `vault/_resource.py` | none locally; objects and versions at the API | `encrypt`, `decrypt`, LEB128; `update_kv` with `version_check` | round trip; no lost update; a conflict is real |
| **Webhooks and Actions**, `webhooks/`, `actions.py` | none | `verify_header`, `verify_event`, `construct_action`, `sign_response` | what is accepted was signed, and not replayed after the tolerance; what is genuine and in time is accepted |
| **PKCE, authorization URLs, further steps of a login**, `pkce.py`, `sso/`, `user_management/` | what the application keeps of a login: verifier, state, client ID | URL builders, code exchange, `authenticate_with_*` | users are kept apart; a code is exchanged with what it is bound to, and not wasted by a retry; every further step can be gone on from |
| **Generated resources and passwordless**, `*/_resource.py` | none | some 220 methods in each of two clients, one request or URL each | no two methods confused, no method unlike its twin, no key sent that should not be, every POST keyed |
| **Events, generated models** | none | `from_dict`, `to_dict` | they read what the API documents |

Interactions: every resource method is one call of the request core. A login is
several: the answer to one (an error that names a further step and carries a
pending token) is the input of the next. A Session
calls `request_raw` for its refresh and PyJWT for its tokens. A page holds a
closure that calls `request_page` again. Several threads or asyncio tasks may
share a client, a Session, or a cookie; nothing in the SDK locks anything.

Hard behaviour: a request outlives the attempt that sent it; answers are lost;
tasks are cancelled at any `await`; an answer never ends, or asks for a delay
that does not; an answer that cannot be read passes for an empty one; a refresh holds what it read across a
network call and commits in two assignments; a collection changes between
pages. `PROJECT.json` lists these hazards at their lines.

The API is not in the repository. It is modelled from how the code uses it and
marked external: it serves what is on the wire in any order or never, applies
one request per idempotency key and replays the saved result, refuses with 4xx
only what it has not applied, and may fail with 5xx before or after the effect;
it exchanges a refresh token once (or keeps it valid, with `Grace`); it writes
a Vault object only if the version check is the current version or missing, and
gives every update a new version; it lists the items after a cursor; it redeems
a code or a pending token once, for the client, the verifier and the grant type
it is bound to, and hands each user's tokens out to that user's grant.

## 2. Modules

| Module | Contents |
|---|---|
| `OperationPromise` | the abstract specification: what a caller may rely on. An operation has a key, deliveries that took effect, and a verdict (`open`, `succeeded`, `refused`, `unknown`) |
| `HttpCall` | the retry loop. `pc` is the place in `request()`: `ready` before the httpx call, `waiting` inside it, `sleeping` between attempts, `held` where the API can keep it for ever. `Start` is lines 434-451 (headers, budget, first iteration); `Send` is the httpx call; `Receive` its answer; `ConnectError`, `Timeout`, `NetworkError` the three except clauses; `Wake` the end of a sleep; `Drip` is an answer that comes in parts without end, which no timeout ends since httpx bounds one read; `Receive` may also begin the endless sleep that a Retry-After of `inf` is to the async client; `Cancel` asyncio cancellation |
| `RequestSystem` | composes the loop with the API and states the properties, the refinement mapping and the inductive invariant |
| `HttpCall_proofs` | lemmas about the loop, used by the proof modules of the three systems built on it |
| `RequestSystem_proofs` | the TLAPS proofs about requests |
| `MCRequestSystem` | instances for TLC |
| `VaultStore` | composes the same loop with one versioned Vault object. `GetKv`, `UpdateKv`, `DeleteKv` are the methods; `VersionCheck` is what a request carries; `ServeApply`, `ServeRefuse` and `GatewayFails` are the API. States what optimistic locking gives a caller, and that a version check does for a PUT or DELETE what a key does for a POST |
| `VaultStore_proofs` | the TLAPS proofs about Vault objects |
| `VersionedObject` | the abstract specification of one Vault object: writers that may read a version, writes that happen at once, and what each writer may be told. `Object` in `VaultStore` is the refinement mapping to it |
| `MCVaultStore` | an instance for TLC |
| `Session` | Session objects and concurrent `refresh()` and `authenticate()`. One action per atomic piece: the read of the password, the unsealing (which reads `session_data`), the answer, the verification, and the two assignments. A cookie has its key, its refresh token, and whether it holds the user that `refresh()` asks for and the access token that `authenticate()` asks for. The POST of a refresh is a call of `OperationPromise`, instantiated as `Post`, so the Session is checked against what the request core is proved to keep; `Atomic` is the refinement mapping to `AtomicRefresh` |
| `AtomicRefresh` | the abstract specification of refreshes: each takes the token of its Session and, in one step, replaces it or fails; and what follows from it for Sessions made from one cookie (`OneGoesOn`) |
| `Session_proofs` | the TLAPS proofs about sessions |
| `MCSession` | instances for TLC |
| `Pagination` | one iteration over a changing collection. `FetchPage` is `request_page`, `FetchBlank` its answer that is successful but empty, not JSON or no object and so is read as `{}` (line 562), `FetchFails` its exceptions; `Yield`, `NextPage`, `Stop` the loop of `auto_paging_iter` |
| `Pagination_proofs` | the TLAPS proofs about iterations |
| `MCPagination` | instances for TLC |
| `Login` | composes the loop with browsers and the API's grants. `GetAuthorizationUrl` stands for the two `get_authorization_url_with_pkce`, `Exchange` for `authenticate_with_code_pkce` and `get_profile_and_token_pkce`, `Continue` for the `authenticate_with_*` methods that take a pending token, `Dispatch` for the auth-flow part of `_raise_error` |
| `Login_proofs` | the TLAPS proofs about logins |
| `MCLogin` | an instance for TLC |
| `Operation` | what an operation of the catalogue is: method, path, needed and optional fields, model of the answer, how the client is identified |
| `SyncUserOperations`, `SyncOperations` | one definition for each method of each resource of `WorkClient`, in the order of the source; the user management apart, for its size |
| `AsyncUserOperations`, `AsyncOperations` | the same for `AsyncWorkOSClient`, read from its own classes |
| `Client` | a client is constructed from arguments and environment and calls any operation of the catalogue, with any headers of the caller's own: credentials, headers and base URL of what is sent, and further pages |
| `Client_proofs` | the TLAPS proofs about clients |
| `MCClient` | an instance for TLC |
| `SignedDelivery` | `verify_header` of webhooks and actions, between two clocks that differ |
| `VaultEnvelope` | `encrypt()` and `decrypt()` around an envelope that may be cut short or changed on its way |
| `Helpers_proofs` | the TLAPS proofs about deliveries and envelopes |
| `MCHelpers` | small instances of the last two, which share nothing and so take their steps apart |

Operators named after a defect (`FreshKeyOmitted`, `MayRetryOneMore`, and so
on, each marked "Variant") are no part of the models: they stand next to the
definition they distort, for the sensitivity checks of `PROJECT.json`.

## 3. Runs

| Run | Instance | Shows |
|---|---|---|
| `retries` | two calls, POST or PUT, one retry each, keys absent, made up or shared; 200, 404, 503 | the inductive invariant `IInv` (the type invariant is its first conjunct, here and below), `PostOnce`, `SuccessIsBacked`, `RefusalIsDefinite`, and `PromiseKept`: the loop and the API implement `OperationPromise` |
| `keys` | two retries for one call and `max_retries` -1 for the other, every way of passing a key, the empty one included; 200, 429, 501 | `KeyedOnce`, `QuietAfterSuccess`, `BudgetUsed`, and `Termination` under fairness: a call that has started ends or is held by the API |
| `errors` | expected violation | README.md:102 promises typed errors; an error answer (404, 503) whose body is JSON but no object escapes as another exception, and so does, from `time.sleep()` of the sync client, a Retry-After of nan or inf |
| `vault_locking` | two writers, PUT or DELETE, one retry each, checked against any version the object has had or unchecked; 200, 404, 409, 503 | `IInv`, `SuccessReplaces`, `SettledIsQuiet`, `CheckActsAsKey`: checked writes implement `OperationPromise`, and `ObjectAtomic`: all writes implement `VersionedObject` |
| `shared_session` | two refreshes and an `authenticate()` on one Session, a third refresh on a Session made from the same cookie with a wrong password; the first cookie with or without user and access token; used tokens are retired | `IInv`, `SealKeyStable`, `TornCommitHarmless`, `StrandedOnlyByLoss`, `OneSessionGoesOn`, `RefreshesAtomic`: refreshes implement `AtomicRefresh`, and `InvocationsEnd` under fairness |
| `session_jwks` | expected violation | the documentation of `authenticate_with_session_cookie` promises an error response; an unreachable JWKS raises |
| `paging` | five items, one outside the filter, pages of two, three changes, any answer unreadable | `IInv`, `AheadOnly`, `OnlyMatching`, `Complete` (of iterations that met no unreadable page), and `IterationEnds` under fairness |
| `paging_before` | expected violation | `before` is not stripped from further pages |
| `login` | two logins and two calls with a retry each; client IDs of the client's own or passed in; one step that can be gone on from and one that cannot, named under code or error, beside no code, a null one or an unknown one; 200, 400, 403, 503 | `IInv`, `LoginsApart`, `GrantsFit`, `GrantsNotWasted`, `StepsNamed`, and `GrantActsAsKey`: logins implement `OperationPromise` with the grant as the key |
| `client` | every operation of both clients, with none or all of its optional fields and any extra headers, through a client made from any arguments and environment | `NoSecretFromPublic`, `PostsKeyed`, `AnswersUnambiguous`, `TwinsAgree`, `FurtherPagesAreCalls` |
| `client_arguments` | expected violation | a client ID passed to `get_authorization_url_with_pkce`, and the base URL in the `request_options` of the methods that build a URL, have no effect |
| `helpers` | a delivery, two secrets, two bodies, steps of 15 s and of 30.001 s, clocks a second apart, tolerances by default, of 60 s and of 0; an envelope with keys of 1, 127, 128 and 300 bytes, cut anywhere or with one byte of its length changed | `ReplayBounded`, `RejectionsJustified`, `EnvelopeOpens` |

Bounds. Two calls are enough for everything calls can do to each other: they
meet only through a shared key. Two retries give an attempt that is neither
first nor last. The statuses are one of each kind the loop tells apart: success,
refusal, retryable, and (501) a server error that is not retried. Three
refreshes let one refresh run between the start and the commit of another while
a third runs on another Session. Five items in pages of two give a first, a
middle and a last page that is not full; a change is a creation or a deletion
anywhere. Two calls let two logins come back in either order, one code come back
twice, a code exchange go on to a step, and one grant be sent twice while the
first answer is lost. The steps of time reach both sides of 30, 60 and 180
seconds, less and more than the skew away. Key lengths stand at both sides of
128, where the encoded length grows; one alteration of an envelope and one
verdict on a delivery are enough, since neither function keeps anything.
`MaxChanges`, `Horizon` and the sets of invocations, calls and logins are the
only bounds; nothing in the models counts without end. Deadlock is not checked
where a system ends when its calls have ended.

Fairness. `CallFairness` asks for the client's own steps once a call has begun:
sending, waking after a finite sleep, and the timeout of a wait in which nothing
comes (`request_timeout`, 60 seconds unless set, which httpx applies to each
read). Nothing is asked of the API or of the network, so a call may stay `held`:
`Termination` claims that it ends or is held, no more. A call need not start.
`FairSpec` of `Session` asks the same of code that has started, and that its POST
ends; `FairSpec` of `Pagination` that each request ends, and a consumer that uses
the iterator up. That premise is what `Termination` gives where the API does not
hold the call; `InvocationsEnd` and `IterationEnds` are to be read under it.

What the runs and proofs say about the code, in words worth knowing:

* The API can hold a caller for ever: by an answer that drips, each part within the
  timeout of one read, and in the async client by a Retry-After of `inf`, which
  passes `max(float(value), 0.0)` and which `asyncio.sleep()` never wakes from. A
  caller who must not wait for ever needs a timeout of its own around the call.
* Any answer can end a call with an exception that is no `WorkOSError`, a
  successful one too: `_deserialize_response` hands a JSON body that is no object
  to `from_dict`, whose `AttributeError` or `TypeError` nothing catches.
* A PUT or PATCH, or a POST with an empty key, may take effect once per attempt,
  also after the caller has its result; only keyed calls are exempt.
* A timeout, a 5xx or a cancellation says nothing of the effect; a 4xx excludes
  only the last attempt.
* A `ConflictError` of a Vault write, or a `NotFoundError` of a delete, may be
  the answer to a retry whose first attempt did take effect. It is never wrong
  about the version, so a caller should read the object and compare. Without a
  version check a late attempt can undo what another writer did since.
* A Session can be left with a used refresh token: after a lost answer, after a
  new token that cannot be verified, or when another Session object made from
  the same cookie was refreshed. `StrandedOnlyByLoss` says that there is no
  other way.
* No refresh overwrites the commit of another (`NoLostUpdate`, a part of what
  `RefreshesAtomic` says) as long as the API retires used tokens. Where it may
  keep them (`Grace`), two refreshes of one Session can both commit; the
  property claims nothing then.
* Of several Sessions made from one cookie, one at most is ever refreshed where
  used tokens are retired (`OneSessionGoesOn`): the others keep the first token
  and are told to log in again. Requests that share a cookie should share the
  Session, or take the new cookie from whoever refreshed it.
* The writers of a Vault object may think of each write as done at once
  (`ObjectAtomic`), and of a checked write as over when they hear of success, a
  conflict or a missing object. After any other failure it may still happen.
* A public client sends no API key in any method, whatever the environment
  holds, and every POST, however its method is spelt, has a key.
* A lost answer and its retry do not cost a user the login, because the retry
  repeats the key under which the API keeps the answer. A code that comes back
  twice is exchanged twice, and the second call is told 400.
* `GrantsFit` has one exception, `ClientDropped`: the PKCE URL of user management
  does not carry the client ID it was passed, so the exchange that is passed the
  same one is refused.
* `StepsNamed` has one exception: a `code` that names no challenge hides the
  `error` beside it, a null one included, which becomes the text "None"; the step
  is then a plain `AuthorizationError` and its pending token is found only in the
  body.
* `authenticate()` answers INVALID_SESSION_COOKIE for a cookie that its password
  opens but that holds no access token. Only the cookie a Session was made with
  can lack one: a refresh always seals one in (`AccessKept`).
* The tolerance bounds the age of a delivery, not how often it is accepted: a
  copy within the tolerance verifies again.
* An iteration sees every item that is there all the time, and none twice, with one
  exception (`blank`): a successful answer without a body, or with one that is not
  JSON or no object, passes for a page without items, and the iteration ends
  there as if it were complete.
* `extra_headers` of a caller replace any header the client sets, the
  idempotency key among them: an empty one leaves a POST without a key.

## 4. Proofs

`RequestSystem_proofs` proves, for every set of calls, methods, keys and
statuses and every retry budget allowed by `HttpCallAssumption`:

* `TypeCorrect`: `Spec => []TypeOK`.
* `Invariance`: `Spec => []IInv`, and from it `AtMostOnce`, `ResultsBacked`,
  `RefusalsDefinite`, `BudgetIsUsed` and `Quiet`.
* `Refinement`: `Spec => PromiseKept`.
* `Advancing`: `Spec => CallsAdvance`, the half of termination that needs no
  fairness: every step of a call lowers `StepsLeft`, and nothing the API, the
  network or another call does raises it. A call takes at most
  3 * `max_retries` + 4 steps; one that is held has at most its cancellation left.

The safety properties are not inductive. That a call with a key takes effect
once needs that all its requests carry that key, which needs that they were
sent by that call after its headers were built (`RequestsOwned`), and that two
effects under one key are the same request (`AppliedOnce`). That a refusal is
final needs that the request it answers has left the wire and that later
attempts have higher numbers (`AnswersTrue`, which speaks also of answers that
have arrived and have not been read). That a POST has a key is `KeyOrigin`;
what is known at each place of the loop is `LoopState`. `IInv` is the
conjunction of these; the run `retries` checks it, and the proof shows for each
part that each action keeps it. A call's steps never touch other calls
(`OthersUnchanged`) and the API touches at most one reply (`ApiFrame`), which
reduces each step to the call that takes it.

The refinement maps a call's deliveries to the numbers of its attempts that
were applied, and its verdict to what its outcome tells. Steps of the loop map
to `Begin`, `Conclude` or a stutter; `ServeApply` maps to `Deliver`.

`VaultStore_proofs` proves, for any callers, statuses and budgets
(`HttpCallAssumption`, `VaultAssumption`): `Invariance`, `ToldTrue` (that is
`TypeOK`, `SuccessReplaces`, `ConflictIsReal`), `Settled`, `Refinement`
(`CheckActsAsKey`) and `Atomicity` (`ObjectAtomic`), and `Advancing` here too. Why one check allows one effect:
versions form a chain, in which a version that was written over never comes back (`Chain`), and an effect
of a checked write was over the version that it checked (`WritesOwned`). Why an
answered write is quiet: when a caller is told, or is about to be told, of
success, a conflict or a missing object, the version it checked is gone for
good (`AnswersTrue`, `ChecksReal`); so a call whose check is the current version
has not been told any of these (`StillOpen`).

`Atomicity` maps the object to its version, the versions written over to the
past, and each call to what its caller has been told. `GetKv` maps to `Read`,
the first step of a call to `Begin`, `ServeApply` to `Write`, the step that ends
a call to `Tell`, and all else, every retry and every lost answer, to a stutter.
That a write makes a version that never was is `Chain` and `WritesOwned`; that a
checked writer has not been told when its write happens is `StillOpen`; that
what it is told is true at the time is `AnswersTrue`. What the proofs over the retry loop
share, above all that a step of a call touches no other call and keeps
`LoopState`, is in `HttpCall_proofs`.

`Session_proofs` proves, for any number of Sessions and invocations and
whatever passwords they are given (`SessionAssumption`), with or without
`Grace`: `TypeCorrect`, `Invariance`, and from it `SealKept`, `NoTornCommit`,
`FailuresHarmless`, `StrandedByLossOnly` and `NoUpdateLost`. The invariant says
where things come from. Every sealed cookie, in a Session or in the hands of an
invocation, has the key of the first (`SealedAlike`): a refresh that reads a
cookie with a wrong password ends before it can seal one. A token is found in a
Session only after the commit of the refresh that was given it, and only if it
was exchanged for (`Provenance`); a commit replaces the token it refreshed for
good (`Replaced`); a token the API has used up was exchanged by some refresh
(`Consumed`); a cookie without an access token is still the first (`AccessKept`,
which `NoTornCommit` needs). With tokens retired, each is exchanged once (`ExchangedOnce`), and
a refresh that can still succeed refreshes the token its Session holds
(`Current`): that is why no commit overwrites another.

`Refinement` (`Spec => RefreshesAtomic`) follows: a refresh that reads the
cookie, posts, verifies and assigns two attributes one after the other, among
others that do the same, is a refresh that takes a token and replaces it in one
step. `Unseal` maps to `Take`; `CommitData`, the first of the two assignments,
to `Replace`, whose conditions are `Current` and `ExchangedOnce`; what ends in
an error maps to `Fail`, because a refresh that has written anything ends in
success (`CommitReplaces`, `FinishFails`); the rest to a stutter. The theorem
needs that the lack of a cookie is not itself a token.

From the abstract specification alone follows `AtomicOneGoesOn`: a Session that
holds a new token has replaced, once, the token that all Sessions were made
with, and nobody else has (`Descent`, inductive there). With the refinement that
is `OneLineage` (`Spec => []OneSessionGoesOn`), without another look at the
steps of a refresh.

`Pagination_proofs` proves, for any finite collection, filter, page size and
number of changes (`PaginationAssumption`), `Invariance` and `IterationCorrect`
(`AheadOnly`, `OnlyMatching`, `Complete`). The order of what is yielded needs
that the cursor of the next request is past everything yielded (`Behind`), the
filter that each request carries it (`Carried`, `Matched`), completeness that an
enduring item is yielded, on the page, or ahead of the cursor (`Covered`), which
needs that a page is a prefix of what lies ahead (`FirstIsPrefix`, `PageCovers`).
An unreadable answer ends the iteration (`BlankEnds`), so completeness is claimed
of iterations that met none.
`Advancing` (`Spec => IterationAdvances`) counts what is left: every item of the
rest of the page, and three steps for every item ahead of the cursor, so that no
creation or deletion by other clients prolongs an iteration beyond
3 * |`Items`| + 2 steps. It needs that a page whose cursor is not null is not
empty, and so moves the cursor (`AheadOfPage`).

`Login_proofs` proves, for any number of logins and calls, any budgets and any
order of callbacks (`HttpCallAssumption`, `LoginAssumption`, `NoneAssumption`),
`Invariance`, from it `Apart`, `Fit`, `NotWasted` and `Named`, and `Advancing`.
Users are apart because every call has a key of its own (`CallsKeyed`, by `OwnKey` and the
lemmas of the loop), so what the API repeats to a retry is the call's own, and
what it redeemed was for the user of the grant (`RedeemedOnce`). A code fits
because its state names the login whose verifier and client ID the application
kept (`CodesTrue`, `StatesApart`); a token fits because the step it was raised
for is the step it was given for (`DispatchTrue`). A refusal means that another
call redeemed the grant since a request that is not a repeat has nothing redeemed
under its key (`RefusalTrue`, `RefusalsTrue`). What is on its way to a call, or
has reached it, is true of what was redeemed for it (`AnswersTrue`).

`Refinement` (`Spec => GrantActsAsKey`) shows that a grant does for a login what
a key does for a POST: with retries, lost answers and one code in two callbacks,
at most one call takes effect per code or token, and a call that succeeds has one
behind it. A redemption maps to `Deliver`; a call's first step to `Begin`, with
its code or token as the key.

`Client_proofs` proves, for any secrets, client IDs and base URLs that are apart
(`DistinctAssumption`), `TypeCorrect`, `Invariance`, `NoSecretSent` and
`EveryPostKeyed`. These look into no operation, so they hold for every catalogue;
the invariant says that a public client has no key to send and that what was sent
was sent by the client. `TwinMethods` (`TwinsAgree`) and `FurtherPagesCallable`
(`FurtherPagesAreCalls`) do look: two lemmas go through the catalogue resource by
resource and show that the two clients, each read from its own classes, have the
same operations (`SameOperations`), and that every list has the fields that a
further page is asked for with (`ListsTakeCursor`); `CatalogueKept` carries both
to what is sent. `OneReader` (`AnswersUnambiguous`) compares no pairs, of which
there are some 25,000: it gives `Reading`, a table from verb and path to the
reader of the answer, in the shape of the API's paths rather than of the
classes, and every method is shown to read what the table says (`AnswersRead`).
Two methods that send one request then read it alike.

`Helpers_proofs` proves, for any steps of time, tolerances and skews
(`DeliveryAssumption`), `Invariance`, `NoLateReplay` and `RejectedForCause`; the
invariant adds that a stamp is within the skew of the time it was made. It
proves, for any lengths, contexts and bytes (`EnvelopeAssumption`),
`EnvelopesOpen`: an envelope that arrives as it was made opens with its own
associated data, and none that lost a byte of its content does. Underneath is
the round trip of the length: for every length of the 32 bits that
`_encode_u32_leb128` takes (`LengthAssumption`) decoding what was encoded
returns it, and takes exactly the bytes that encoding made, whatever follows
them. The induction that TLAPS cannot do over the encoding is not needed, since
five groups of seven bits are all there are: the lemmas take them one by one.
`AbsentAssumption` says that None is not also an envelope or a result.

Every invariant and every action property of a passing run is a theorem. Only
model-checked: that calls, invocations and iterations do end (`Termination`,
`InvocationsEnd`, `IterationEnds`), since liveness under fairness is out of the
prover's reach. What an expected violation shows is a run, not a proof.

## 5. Not modelled

`PROJECT.json` lists every component with its status. Left out for good: the
generated models and the table of event classes (one conversion each, no
state; an answer that cannot be read is the outcome `Unparsed`), cryptography
and JWT parsing (libraries), `sign_response()` of actions (nothing in the
repository verifies what it signs), the lengths of PKCE verifiers and the
formula of a retry delay (arithmetic in one line each, which unit tests reach).
Abstracted inside the models: the values of fields, URLs and their encoding,
the length of delays and timeouts, the texts of errors. An empty page that
carries a cursor ends an iteration; the API modelled here filters before it cuts
pages and never answers so.

## 6. Plan

What could come next, in this order:

1. `VaultStore` with `create_kv` and with names: two creations of one name, and
   a deletion between a creation and its retry.
2. `Login` with the device flow, which polls the API for a code, and with the
   refresh of the session that a login ends in, so that `Login` and `Session`
   compose: `AtomicRefresh` is what such a composition would rest on.
3. `Session` with the process-wide cache of JWKS clients and the rotation of the
   keys it caches.
