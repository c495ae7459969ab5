----------------------------- MODULE Pagination -----------------------------
(***************************************************************************)
(* Automatic pagination: request_page (src/workos/_base_client.py) and      *)
(* auto_paging_iter (src/workos/_pagination.py), over a collection that     *)
(* other clients add to and delete from while it is being listed.           *)
(*                                                                         *)
(* Items are numbered in the order the API lists them, so a page is a set   *)
(* of items, yielded in increasing order.  The API is not part of the       *)
(* repository: it answers with the items after the cursor "after" and       *)
(* before the cursor "before", as many as the limit, and a cursor to go on. *)
(***************************************************************************)
EXTENDS Integers, FiniteSets

CONSTANTS
  Items,        \* what the collection may hold
  Matching,     \* the items that pass the caller's filter
  Limit,        \* items per page
  BeforeParam,  \* the "before" the caller passes, or None
  MaxChanges,   \* bound on the changes of other clients
  None

ASSUME PaginationAssumption ==
  /\ Items \subseteq Nat /\ IsFiniteSet(Items)
  /\ Matching \subseteq Items
  /\ Limit \in Nat \ {0}
  /\ BeforeParam \in Items \cup {None}
  /\ None \notin Items
  /\ MaxChanges \in Nat

VARIABLES
  pc,       \* where the iteration is
  params,   \* the query of the last request
  page,     \* its answer: data and the cursor list_metadata.after
  rest,     \* the items of page.data not yielded yet
  yielded,  \* the items yielded so far
  present,  \* what the collection holds
  enduring, \* what it has held ever since the first request
  changes,  \* changes made by other clients, at most MaxChanges
  blank     \* history: an answer that could not be read has passed for a page

vars == <<pc, params, page, rest, yielded, present, enduring, changes, blank>>

\* "filtered" stands for the caller's other parameters.
Params == [after : Items \cup {None}, before : Items \cup {None}, filtered : BOOLEAN]

Pages == [data : SUBSET Items, after : Items \cup {None}]

PCs == {"fetching", "yielding", "done", "raised"}

NoPage == [data |-> {}, after |-> None]

Init ==
  /\ pc = "fetching"
  /\ params = [after |-> None, before |-> BeforeParam, filtered |-> TRUE]
  /\ page = NoPage
  /\ rest = {}
  /\ yielded = {}
  /\ present \in SUBSET Items
  /\ enduring = present
  /\ changes = 0
  /\ blank = FALSE
-----------------------------------------------------------------------------
First(S) == {x \in S : Cardinality({y \in S : y <= x}) <= Limit}

Last(S) == {x \in S : Cardinality({y \in S : y >= x}) <= Limit}

Selected(p) ==
  {x \in present : /\ p.after # None => x > p.after
                   /\ p.before # None => x < p.before
                   /\ p.filtered => x \in Matching}

\* "before" alone asks for the page that ends at the cursor.
Listed(p) ==
  IF p.before # None /\ p.after = None THEN Last(Selected(p)) ELSE First(Selected(p))

\* Where to go on after data: its last item.  At the end of the listing the
\* API may still name one.
Cursors(p, data) ==
  {x \in data : \A y \in data : y <= x}
    \cup (IF Selected(p) = data THEN {None} ELSE {})

\* request_page is answered.
FetchPage ==
  /\ pc = "fetching"
  /\ LET data == Listed(params)
     IN  /\ \E cursor \in Cursors(params, data) : page' = [data |-> data, after |-> cursor]
         /\ rest' = data
  /\ pc' = "yielding"
  /\ UNCHANGED <<params, yielded, present, enduring, changes, blank>>

\* A successful answer without a body, or with one that is not JSON or no object,
\* is read as {}: a page without items and without a cursor.
FetchBlank ==
  /\ pc = "fetching"
  /\ page' = NoPage
  /\ rest' = {}
  /\ blank' = TRUE
  /\ pc' = "yielding"
  /\ UNCHANGED <<params, yielded, present, enduring, changes>>

\* request_page raises: an error answer, the retries used up, or an item that its
\* model cannot read.
FetchFails ==
  /\ pc = "fetching"
  /\ pc' = "raised"
  /\ UNCHANGED <<params, page, rest, yielded, present, enduring, changes, blank>>

\* Variants: the caller's parameters are not carried over; the cursor is not;
\* the cursor is one past the last item.
NextParamsBare == [after |-> page.after, before |-> None, filtered |-> FALSE]

NextParamsSame == params

NextParamsPast == [params EXCEPT !.after = page.after + 1]

\* {**(params or {}), "after": after}
NextParams == [params EXCEPT !.after = page.after]

Yield ==
  /\ pc = "yielding"
  /\ \E x \in rest :
       /\ \A y \in rest : x <= y
       /\ yielded' = yielded \cup {x}
       /\ rest' = rest \ {x}
  /\ UNCHANGED <<pc, params, page, present, enduring, changes, blank>>

\* The loop goes on from a page that has items and a cursor.
HasMore == page.data # {} /\ page.after # None

\* Variant: the next page is fetched before this one is used up.
NextPageEarly ==
  /\ pc = "yielding"
  /\ HasMore
  /\ params' = NextParams
  /\ pc' = "fetching"
  /\ UNCHANGED <<page, rest, yielded, present, enduring, changes, blank>>

NextPage ==
  /\ pc = "yielding" /\ rest = {}
  /\ HasMore
  /\ params' = NextParams
  /\ pc' = "fetching"
  /\ UNCHANGED <<page, rest, yielded, present, enduring, changes, blank>>

Stop ==
  /\ pc = "yielding" /\ rest = {}
  /\ ~HasMore
  /\ pc' = "done"
  /\ UNCHANGED <<params, page, rest, yielded, present, enduring, changes, blank>>

\* Other clients create and delete items.
Change ==
  /\ changes < MaxChanges
  /\ \E x \in Items :
       IF x \in present
       THEN present' = present \ {x} /\ enduring' = enduring \ {x}
       ELSE present' = present \cup {x} /\ UNCHANGED enduring
  /\ changes' = changes + 1
  /\ UNCHANGED <<pc, params, page, rest, yielded, blank>>

Next == FetchPage \/ FetchBlank \/ FetchFails \/ Yield \/ NextPage \/ Stop \/ Change

Spec == Init /\ [][Next]_vars

\* The consumer uses the iterator up, and every request ends, which Termination
\* of RequestSystem says of one that the API does not hold for ever.
FairSpec ==
  /\ Spec
  /\ WF_vars(FetchPage \/ FetchBlank \/ FetchFails)
  /\ WF_vars(Yield)
  /\ WF_vars(NextPage \/ Stop)
-----------------------------------------------------------------------------
TypeOK ==
  /\ pc \in PCs
  /\ params \in Params
  /\ page \in Pages
  /\ rest \subseteq page.data
  /\ yielded \subseteq Items
  /\ present \subseteq Items
  /\ enduring \subseteq present
  /\ changes \in 0..MaxChanges
  /\ blank \in BOOLEAN

\* What is still to be yielded comes after everything yielded: items are
\* yielded in order and never twice, whatever is added or deleted meanwhile.
AheadOnly == \A x \in rest, y \in yielded : y < x

\* The caller's filter holds on every page, not on the first only.
OnlyMatching == yielded \subseteq Matching

\* An iteration from the start that ends without an error has yielded every
\* item that was there all the time, unless an answer that could not be read
\* passed for its last page.
Complete ==
  pc = "done" /\ BeforeParam = None /\ ~blank => enduring \cap Matching \subseteq yielded

-----------------------------------------------------------------------------
(***************************************************************************)
(* The inductive invariant behind the safety properties.                   *)
(***************************************************************************)
Carried == params.before = BeforeParam /\ params.filtered

Matched == page.data \cup yielded \subseteq Matching

\* The cursor of the next request is not before anything yielded.
Behind ==
  /\ pc = "fetching" => \A y \in yielded : params.after # None /\ y <= params.after
  /\ pc = "yielding" /\ page.after # None =>
       page.data # {} /\ \A y \in yielded \cup page.data : y <= page.after

\* An item that was there all the time has been yielded, is on the page, or is
\* still ahead of the cursor.
Covered ==
  BeforeParam = None /\ ~blank => \A x \in enduring \cap Matching :
    /\ pc = "fetching" => x \in yielded \/ params.after = None \/ params.after < x
    /\ pc = "yielding" => x \in yielded \cup rest \/ (page.after # None /\ page.after < x)
    /\ pc = "done" => x \in yielded

\* After an answer that could not be read no further page is asked for.
BlankEnds == blank => pc \in {"yielding", "done"} /\ page = NoPage

IInv ==
  /\ TypeOK
  /\ Carried
  /\ Matched
  /\ AheadOnly
  /\ Behind
  /\ Covered
  /\ BlankEnds
-----------------------------------------------------------------------------
\* The items a request from the cursor may still list.
Ahead(cursor) == {x \in Items : cursor # None => x > cursor}

\* The steps the iteration can still take: for every item ahead of the cursor one
\* request, one item yielded and one turn of the loop, and those of this page.
StepsLeft ==
  CASE pc = "fetching" -> 3 * Cardinality(Ahead(params.after)) + 2
    [] pc = "yielding" ->
         Cardinality(rest)
           + (IF page.after = None THEN 1 ELSE 3 * Cardinality(Ahead(page.after)) + 3)
    [] OTHER -> 0

Advance ==
  /\ StepsLeft' \in Nat /\ StepsLeft' <= StepsLeft
  /\ ~Change => StepsLeft' < StepsLeft

\* Every step of the iteration brings it nearer to its end, and no change by other
\* clients sets it back: it takes 3 * Cardinality(Items) + 2 steps at most.
IterationAdvances == [][Advance]_vars

\* The iteration ends, given that each of its requests does.
IterationEnds == <>(pc \in {"done", "raised"})

\* "Before cursor stripping": a request for a further page carries no "before".
BeforeStripped == params.after # None => params.before = None
=============================================================================
