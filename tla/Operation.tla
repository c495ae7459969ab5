----------------------------- MODULE Operation -----------------------------
(***************************************************************************)
(* What a method of a resource is made of.  It sends the fields it needs    *)
(* and those of the fields it takes that its caller gave, in a query or a   *)
(* body, to one path, and reads the answer as one model.  The values of the *)
(* fields are abstracted; a field with a default (order) counts as given    *)
(* unless the caller passes None.                                           *)
(***************************************************************************)

\* A segment the caller gives: it is encoded as a whole, slashes included.
Id == "{id}"

NoModel == "nothing"

\* The fields by which every list is cut into pages.
Cursors == {"limit", "before", "after", "order"}

\* What is known of the device a user signs in with.
Device == {"ip_address", "device_id", "user_agent"}

\* A dictionary or a model that the caller has filled in.
AnyFields == {"any field"}

Request(name, method, path, needs, takes, model) ==
  [name |-> name, via |-> "request", method |-> method, path |-> path,
   needs |-> needs, takes |-> takes, model |-> model,
   identified |-> "by key", options |-> TRUE, keyed |-> FALSE]

Page(name, path, needs, takes, model) ==
  [Request(name, "get", path, needs, takes, model) EXCEPT !.via = "request_page"]

List(name, path, needs, takes) ==
  [Request(name, "get", path, needs, takes, NoModel) EXCEPT !.via = "request_list"]

\* Nothing is sent: the caller gets a URL to redirect a user to.
Url(name, path, needs, takes) ==
  [Request(name, "get", path, needs, takes, NoModel) EXCEPT !.via = "build_url"]

\* The fields name the client, and some its secret, besides the header.
Identified(how, op) == [op EXCEPT !.identified = how]

\* The caller's access token stands in the header for the API key.
ByToken(op) == [op EXCEPT !.identified = "by token"]

\* The method takes an idempotency key, or no request_options.
Keyed(op) == [op EXCEPT !.keyed = TRUE]
WithoutOptions(op) == [op EXCEPT !.options = FALSE]
=============================================================================
