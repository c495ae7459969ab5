------------------------------- MODULE Client -------------------------------
(***************************************************************************)
(* A client, made from its arguments and the environment, and one call of   *)
(* any method of any of its resources: the request it sends or the URL it   *)
(* returns.  What becomes of the request is RequestSystem's matter, what    *)
(* the pages of a list hold is Pagination's.                                *)
(***************************************************************************)
EXTENDS Operation

CONSTANTS
  SecretKeys,
  ClientIds,
  Bases,       \* base URLs that a caller or the environment may name
  DefaultBase,
  AccessToken, \* a token of a caller's, passed to get_profile or as a header
  GivenKey,    \* the idempotency key of a caller
  FreshKey,    \* the key made up for a POST
  None,
  Empty        \* the empty string, from a caller or an empty variable

ASSUME DistinctAssumption ==
  /\ None # Empty /\ GivenKey # FreshKey
  /\ {None, Empty} \cap (SecretKeys \cup ClientIds \cup {GivenKey, FreshKey, AccessToken}) = {}
  /\ AccessToken \notin SecretKeys
  /\ None \notin Bases \cup {DefaultBase}

Sync == INSTANCE SyncOperations
Async == INSTANCE AsyncOperations

VARIABLES
  client, \* what its constructor made of its arguments and the environment
  sent    \* the request or the URL of the last call

vars == <<client, sent>>

Flavours == {"sync", "async"}

OperationsOf == [sync |-> Sync!Operations, async |-> Async!Operations]

\* Python's "x or y".
Or(x, y) == IF x \in {None, Empty} THEN y ELSE x

Maybe(S) == S \cup {None, Empty}

Init ==
  /\ client = None
  /\ sent = None

(***************************************************************************)
(* Construction                                                            *)
(***************************************************************************)

\* A public client takes no API key, be it given or in the environment.
ResolveKeyAnyway(public, given, env) == Or(given, env)
ResolveKey(public, given, env) == IF public THEN None ELSE Or(given, env)

Construct(flavour, public, given, env) ==
  LET key == ResolveKey(public, given.key, env.key)
      id == Or(given.id, env.id)
  IN  /\ Or(key, id) \notin {None, Empty}   \* ValueError otherwise
      /\ client' = [flavour |-> flavour, public |-> public, key |-> key, id |-> id,
                    base |-> Or(given.base, IF env.base = None THEN DefaultBase
                                            ELSE env.base)]
      /\ UNCHANGED sent

\* create_public_client() passes a client ID and a base URL on.
CreatePublic(given, env) ==
  /\ given.key = None
  /\ given.id \in ClientIds
  /\ Construct("sync", TRUE, given, env)

Settings == [key : Maybe(SecretKeys), id : Maybe(ClientIds), base : Bases \cup {None}]

Configure ==
  /\ client = None
  /\ \E given, env \in Settings :
       \/ \E flavour \in Flavours, public \in BOOLEAN :
            Construct(flavour, public, given, env)
       \/ CreatePublic(given, env)

(***************************************************************************)
(* A call                                                                  *)
(***************************************************************************)

\* Methods that take a client ID of the caller's.
TakesId(op) ==
  op.identified \in {"own id", "own id and secret if any",
                     "own id or empty and secret if any",
                     "configured id, argument ignored"}

\* _require_client_id raises ConfigurationError before anything is sent.
Raises(op, own) ==
  /\ op.identified \in {"own id", "own id and secret if any"}
  /\ Or(own, client.id) \in {None, Empty}

\* The client ID among the fields or, for get_jwks_url, in the path.
ClientId(op, own) ==
  CASE op.identified \in {"by key", "by token"} -> None
    [] op.identified \in {"configured id", "configured id and secret",
                          "configured id, argument ignored"} -> client.id
    [] op.identified \in {"own id", "own id and secret if any"} -> Or(own, client.id)
    [] OTHER -> Or(own, Or(client.id, Empty))

ClientSecret(op) ==
  CASE op.identified = "configured id and secret" -> client.key
    [] op.identified \in {"own id and secret if any",
                          "own id or empty and secret if any"} -> Or(client.key, None)
    [] OTHER -> None

Authorization(op) ==
  IF op.identified = "by token" THEN AccessToken ELSE Or(client.key, None)

\* The methods are written in either case and compared and sent in one.
Upper == [get |-> "GET", post |-> "POST", POST |-> "POST", put |-> "PUT",
          patch |-> "PATCH", delete |-> "DELETE"]

IsPostAsWritten(op) == op.method = "post"
IsPost(op) == Upper[op.method] = "POST"

IdempotencyKey(op, key) ==
  IF key # None THEN Or(key, None) ELSE IF IsPost(op) THEN FreshKey ELSE None

\* The extra_headers of request_options that set a header of interest.
ExtraHeaders == [authorization : {None, AccessToken}, idempotency : {None, Empty, GivenKey}]

NoExtra == [authorization |-> None, idempotency |-> None]

\* Extra headers are merged last, over what the client sets; get_profile first
\* puts its token among them, and both are AccessToken here.
Merged(extra, own) == IF extra = None THEN own ELSE extra

\* A URL is built from the client's base URL and carries no headers.
Headers(op, key, extra) ==
  IF op.via = "build_url" THEN [authorization |-> None, idempotency |-> None]
  ELSE [authorization |-> Merged(extra.authorization, Authorization(op)),
        idempotency |-> Merged(extra.idempotency, IdempotencyKey(op, key))]

ResolveBase(op, base) ==
  IF op.via = "build_url" THEN client.base ELSE Or(base, client.base)

Call(op, fields, own, key, base, extra) ==
  /\ fields \in {{}, op.takes}
  /\ own # None => TakesId(op)
  /\ key # None => op.keyed \/ op.options
  /\ base # None \/ extra # NoExtra => op.options
  /\ ~Raises(op, own)
  /\ sent' = [operation |-> op,
              method |-> Upper[op.method],
              base |-> ResolveBase(op, base),
              fields |-> op.needs \cup fields,
              client_id |-> ClientId(op, own),
              client_secret |-> ClientSecret(op),
              headers |-> Headers(op, key, extra),
              asked |-> [id |-> own, keys |-> {key, extra.idempotency}, base |-> base]]
  /\ UNCHANGED client

\* A further page of a list: the same call, after the last item.
NextPage ==
  /\ sent # None
  /\ sent.operation.via = "request_page"
  /\ sent' = [sent EXCEPT !.fields = @ \cup {"after"}]
  /\ UNCHANGED client

Return ==
  /\ sent # None
  /\ sent' = None
  /\ UNCHANGED client

Calls ==
  /\ client # None
  /\ sent = None
  /\ \E op \in OperationsOf[client.flavour] :
       \E fields \in {{}, op.takes}, own \in Maybe(ClientIds),
          key \in {None, Empty, GivenKey}, base \in Bases \cup {None},
          extra \in ExtraHeaders :
         Call(op, fields, own, key, base, extra)

Next == Configure \/ Calls \/ NextPage \/ Return

Spec == Init /\ [][Next]_vars

(***************************************************************************)
(* Properties                                                              *)
(***************************************************************************)

TypeOK ==
  /\ client = None \/ client \in
       [flavour : Flavours, public : BOOLEAN, key : Maybe(SecretKeys),
        id : Maybe(ClientIds), base : Bases \cup {DefaultBase}]
  /\ sent # None => sent.operation \in OperationsOf[client.flavour]

\* No request of a public client carries an API key, in a header or among its
\* fields, whatever the environment and its caller offered it: it has no header
\* of authorization but one the caller made.
NoSecretFromPublic ==
  sent # None /\ client.public =>
    /\ sent.client_secret \notin SecretKeys
    /\ sent.headers.authorization \notin SecretKeys

\* Every POST of every resource carries an idempotency key, so that its retries
\* are one operation, unless its caller passed an empty one; nothing else has a
\* key its caller did not pass.
PostsKeyed ==
  sent # None /\ sent.operation.via # "build_url" =>
    IF sent.method = "POST" THEN sent.headers.idempotency \notin {None, Empty}
                                \/ Empty \in sent.asked.keys
    ELSE sent.headers.idempotency # FreshKey

\* No two methods share a request and read its answer differently, in a model or
\* as a page: a caller's id that is no word of a path cannot make one method's
\* path another's.
AnswersUnambiguous ==
  sent # None /\ sent.operation.via # "build_url" =>
    \A op \in OperationsOf[client.flavour] :
      /\ op.via # "build_url"
      /\ op.path = sent.operation.path
      /\ Upper[op.method] = sent.method
      => op.model = sent.operation.model /\ op.via = sent.operation.via

\* The source writes every resource out twice; a method of the one client sends
\* and reads what the same method of the other does.
TwinsAgree ==
  sent # None => \A flavour \in Flavours : sent.operation \in OperationsOf[flavour]

\* The request for a further page of any list is one its method could be called
\* to make: every list takes the cursor that request_page adds.
FurtherPagesAreCalls ==
  sent # None => sent.fields \subseteq sent.operation.needs \cup sent.operation.takes

\* The docstrings say that a client ID passed to a method stands in for the
\* configured one, and that request_options overrides the base URL.
ArgumentsHonoured ==
  sent # None =>
    /\ sent.asked.id \in ClientIds => sent.client_id = sent.asked.id
    /\ sent.asked.base \in Bases => sent.base = sent.asked.base
=============================================================================
