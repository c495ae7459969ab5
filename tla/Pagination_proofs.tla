-------------------------- MODULE Pagination_proofs --------------------------
(***************************************************************************)
(* Proofs about Pagination, for any finite collection, any filter, any page *)
(* size and any number of changes: an iteration yields in order, yields     *)
(* nothing foreign, and misses nothing that was there all the time, unless  *)
(* an answer that could not be read cuts it short.                          *)
(***************************************************************************)
EXTENDS Pagination, FiniteSetTheorems, TLAPS

-----------------------------------------------------------------------------
LEMMA ItemsType ==
  /\ Items \subseteq Nat /\ None \notin Items
  /\ IsFiniteSet(Items)
  /\ Matching \subseteq Items
  /\ BeforeParam \in Items \cup {None}
BY PaginationAssumption DEF PaginationAssumption

LEMMA ListedSelected ==
  ASSUME NEW p \in Params
  PROVE  Listed(p) \subseteq Selected(p) /\ Selected(p) \subseteq present
BY DEF Listed, First, Last, Selected

\* The first items of S are followed by the rest of S.
LEMMA FirstIsPrefix ==
  ASSUME NEW S \in SUBSET Items, NEW m \in First(S), NEW x \in S, x <= m
  PROVE  x \in First(S)
<1>1. S \subseteq Nat /\ IsFiniteSet(S)
  BY ItemsType, FS_Subset
<1>2. DEFINE below(z) == {y \in S : y <= z}
<1>3. m \in S /\ Cardinality(below(m)) <= Limit
  BY DEF First
<1>4. below(x) \subseteq below(m)
  <2> SUFFICES ASSUME NEW y \in S, y <= x PROVE y <= m
    OBVIOUS
  <2>1. x \in Nat /\ m \in Nat /\ y \in Nat
    BY <1>1, <1>3
  <2> QED BY <2>1
<1>5. IsFiniteSet(below(m)) /\ IsFiniteSet(below(x))
  BY <1>1, FS_Subset
<1>6. Cardinality(below(x)) <= Cardinality(below(m))
  BY <1>4, <1>5, FS_Subset
<1>7. Cardinality(below(x)) \in Nat /\ Cardinality(below(m)) \in Nat /\ Limit \in Nat
  BY <1>5, FS_CardinalityType, PaginationAssumption DEF PaginationAssumption
<1> QED BY <1>3, <1>6, <1>7 DEF First

LEMMA CursorsType ==
  ASSUME NEW p \in Params, NEW data, data \subseteq Items, NEW x \in Cursors(p, data)
  PROVE  /\ x \in Items \cup {None}
         /\ x # None => x \in data /\ \A y \in data : y <= x
         /\ x = None => Selected(p) = data
BY ItemsType DEF Cursors

\* What the answer to a listing from a cursor leaves for later.
LEMMA PageCovers ==
  ASSUME TypeOK, params.before = None,
         NEW cursor \in Cursors(params, Listed(params)),
         NEW x \in Selected(params)
  PROVE  x \in Listed(params) \/ (cursor # None /\ cursor < x)
<1>1. Listed(params) = First(Selected(params))
  BY DEF Listed
<1>2. Selected(params) \subseteq Items /\ Listed(params) \subseteq Selected(params)
  BY ListedSelected DEF TypeOK
<1>3. CASE cursor = None
  BY <1>2, <1>3, CursorsType DEF TypeOK
<1>4. CASE cursor # None
  <2>1. cursor \in First(Selected(params))
    BY <1>1, <1>2, <1>4, CursorsType DEF TypeOK
  <2>2. x \in Nat /\ cursor \in Nat
    BY <1>1, <1>2, <2>1, ItemsType
  <2> QED BY <1>1, <1>2, <1>4, <2>1, <2>2, FirstIsPrefix
<1> QED BY <1>3, <1>4
-----------------------------------------------------------------------------
LEMMA InitInv == Init => IInv
<1> SUFFICES ASSUME Init PROVE IInv
  OBVIOUS
<1>1. TypeOK
  <2>1. params \in Params /\ page \in Pages /\ rest \subseteq page.data
    BY ItemsType DEF Init, NoPage, Params, Pages
  <2>2. changes \in 0..MaxChanges
    BY PaginationAssumption DEF PaginationAssumption, Init
  <2> QED BY <2>1, <2>2 DEF Init, TypeOK, PCs
<1>2. Carried /\ Matched /\ AheadOnly /\ BlankEnds
  BY DEF Init, Carried, Matched, AheadOnly, BlankEnds, NoPage
<1>3. Behind /\ Covered
  BY DEF Init, Behind, Covered
<1> QED BY <1>1, <1>2, <1>3 DEF IInv

\* An answer is a page of matching items beyond the cursor.
LEMMA FetchedPage ==
  ASSUME IInv, FetchPage
  PROVE  /\ pc = "fetching" /\ pc' = "yielding"
         /\ UNCHANGED <<params, yielded, present, enduring, changes, blank>>
         /\ page' \in Pages
         /\ page'.data = Listed(params)
         /\ page'.after \in Cursors(params, Listed(params))
         /\ rest' = page'.data
         /\ page'.data \subseteq Matching
         /\ params.after # None => \A x \in page'.data : params.after < x
<1>1. params \in Params /\ params.filtered
  BY DEF IInv, TypeOK, Carried
<1>2. Listed(params) \subseteq Selected(params) /\ Selected(params) \subseteq Items
  BY <1>1, ListedSelected DEF IInv, TypeOK
<1>3. PICK cursor \in Cursors(params, Listed(params)) :
        page' = [data |-> Listed(params), after |-> cursor]
  BY DEF FetchPage
<1>4. page' \in Pages
  BY <1>1, <1>2, <1>3, CursorsType DEF Pages
<1>5. /\ Listed(params) \subseteq Matching
      /\ params.after # None => \A x \in Listed(params) : x > params.after
  BY <1>1, <1>2 DEF Selected
<1>6. Listed(params) \subseteq Nat /\ params.after \in Nat \cup {None}
  BY <1>1, <1>2, ItemsType DEF Params
<1> QED BY <1>3, <1>4, <1>5, <1>6 DEF FetchPage

LEMMA StepInv == IInv /\ [Next]_vars => IInv'
<1> SUFFICES ASSUME IInv, [Next]_vars PROVE IInv'
  OBVIOUS
<1> USE ItemsType DEF IInv
<1>1. CASE FetchPage
  <2> DEFINE new == page'.data
  <2>1. TypeOK'
    BY <1>1, FetchedPage DEF TypeOK, PCs
  <2>2. Carried' /\ Matched'
    BY <1>1, FetchedPage DEF Carried, Matched
  <2>3. \A x \in new, y \in yielded : y < x
    <3>1. new \subseteq Nat /\ yielded \subseteq Nat /\ params.after \in Nat \cup {None}
      BY <1>1, FetchedPage DEF TypeOK, Pages, Params
    <3>2. ASSUME NEW x \in new, NEW y \in yielded PROVE y < x
      <4>1. params.after # None /\ y <= params.after /\ params.after < x
        BY <1>1, <3>2, FetchedPage DEF Behind
      <4> QED BY <3>1, <4>1
    <3> QED BY <3>2
  <2>4. AheadOnly'
    BY <1>1, <2>3, FetchedPage DEF AheadOnly
  <2>5. Behind'
    <3>1. ASSUME page'.after # None
          PROVE  new # {} /\ \A y \in yielded \cup new : y <= page'.after
      <4>1. page'.after \in new /\ \A y \in new : y <= page'.after
        BY <1>1, <3>1, FetchedPage, CursorsType DEF TypeOK, Pages
      <4>2. \A y \in yielded : y < page'.after
        BY <2>3, <4>1
      <4>3. yielded \subseteq Nat /\ page'.after \in Nat
        BY <1>1, <4>1, FetchedPage DEF TypeOK, Pages
      <4> QED BY <4>1, <4>2, <4>3
    <3> QED BY <1>1, <3>1, FetchedPage DEF Behind
  <2>6. Covered'
    <3> SUFFICES ASSUME BeforeParam = None, ~blank, NEW x \in enduring \cap Matching
                 PROVE  x \in yielded \cup new \/ (page'.after # None /\ page'.after < x)
      BY <1>1, FetchedPage DEF Covered
    <3>1. x \in yielded \/ params.after = None \/ params.after < x
      BY <1>1 DEF Covered, FetchPage
    <3>2. x \in Nat /\ x \in present /\ params.after \in Nat \cup {None}
      BY DEF TypeOK, Params
    <3>3. x \in yielded \/ x \in Selected(params)
      BY <3>1, <3>2 DEF Selected, Carried
    <3> QED BY <1>1, <3>3, FetchedPage, PageCovers DEF Carried
  <2>7. BlankEnds'
    BY <1>1, FetchedPage DEF BlankEnds
  <2> QED BY <2>1, <2>2, <2>4, <2>5, <2>6, <2>7
<1>2. CASE FetchFails
  BY <1>2 DEF FetchFails, TypeOK, PCs, Carried, Matched, AheadOnly, Behind, Covered, BlankEnds
<1>3. CASE Yield
  <2>1. PICK x \in rest : /\ \A y \in rest : x <= y
                         /\ yielded' = yielded \cup {x}
                         /\ rest' = rest \ {x}
    BY <1>3 DEF Yield
  <2>2. rest \subseteq Nat /\ rest \subseteq page.data /\ page.data \subseteq Items
    BY DEF TypeOK, Pages
  <2>3. TypeOK'
    BY <1>3, <2>1, <2>2 DEF Yield, TypeOK
  <2>4. Carried' /\ Matched'
    BY <1>3, <2>1, <2>2 DEF Yield, Carried, Matched
  <2>5. AheadOnly'
    <3> SUFFICES ASSUME NEW u \in rest', NEW y \in yielded' PROVE y < u
      BY DEF AheadOnly
    <3>1. u \in rest /\ u # x /\ x <= u
      BY <2>1
    <3>2. u \in Nat /\ x \in Nat
      BY <2>2, <3>1, <2>1
    <3>3. CASE y = x
      BY <3>1, <3>2, <3>3
    <3>4. CASE y \in yielded
      BY <3>1, <3>4 DEF AheadOnly
    <3> QED BY <2>1, <3>3, <3>4
  <2>6. Behind' /\ Covered'
    BY <1>3, <2>1, <2>2 DEF Yield, Behind, Covered
  <2>7. BlankEnds'
    BY <1>3 DEF Yield, BlankEnds
  <2> QED BY <2>3, <2>4, <2>5, <2>6, <2>7
<1>4. CASE NextPage
  <2>1. /\ params' = [params EXCEPT !.after = page.after]
        /\ pc = "yielding" /\ pc' = "fetching" /\ rest = {} /\ page.after # None
        /\ UNCHANGED <<page, rest, yielded, present, enduring, changes, blank>>
    BY <1>4 DEF NextPage, HasMore, NextParams
  <2>2. params \in Params /\ page \in Pages
    BY DEF TypeOK
  <2>3. params' \in Params /\ params'.after = page.after
                          /\ params'.before = params.before
                          /\ params'.filtered = params.filtered
    BY <2>1, <2>2 DEF Params, Pages
  <2>4. TypeOK'
    BY <2>1, <2>3 DEF TypeOK, PCs
  <2>5. Carried' /\ Matched' /\ AheadOnly'
    BY <2>1, <2>3 DEF Carried, Matched, AheadOnly
  <2>6. Behind' /\ Covered'
    BY <2>1, <2>3 DEF Behind, Covered
  <2>7. BlankEnds'
    BY <2>1 DEF BlankEnds, NoPage
  <2> QED BY <2>4, <2>5, <2>6, <2>7
<1>5. CASE Stop
  <2>1. page.after = None
    BY <1>5 DEF Stop, HasMore, Behind
  <2> QED BY <1>5, <2>1 DEF Stop, TypeOK, PCs, Carried, Matched, AheadOnly, Behind, Covered,
                          BlankEnds
<1>6. CASE Change
  <2>1. PICK x \in Items :
          IF x \in present
          THEN present' = present \ {x} /\ enduring' = enduring \ {x}
          ELSE present' = present \cup {x} /\ UNCHANGED enduring
    BY <1>6 DEF Change
  <2>2. present' \subseteq Items /\ enduring' \subseteq present' /\ enduring' \subseteq enduring
    BY <2>1 DEF TypeOK
  <2>3. changes' \in 0..MaxChanges
    BY <1>6, PaginationAssumption DEF PaginationAssumption, Change, TypeOK
  <2> QED BY <1>6, <2>2, <2>3
          DEF Change, TypeOK, Carried, Matched, AheadOnly, Behind, Covered, BlankEnds
<1>7. CASE FetchBlank
  BY <1>7 DEF FetchBlank, NoPage, TypeOK, PCs, Pages, Carried, Matched, AheadOnly, Behind,
              Covered, BlankEnds
<1>8. CASE UNCHANGED vars
  BY <1>8 DEF vars, TypeOK, Carried, Matched, AheadOnly, Behind, Covered, BlankEnds
<1> QED BY <1>1, <1>2, <1>3, <1>4, <1>5, <1>6, <1>7, <1>8 DEF Next
-----------------------------------------------------------------------------
\* The invariant holds in every reachable state.
THEOREM Invariance == Spec => []IInv
<1> QED BY InitInv, StepInv, PTL DEF Spec

\* An iteration yields in the order of the listing, nothing twice, nothing
\* outside the caller's filter, and, if it started at the start and ended
\* without an error and without an answer that could not be read, everything that
\* was there all the time.
THEOREM IterationCorrect == Spec => [](TypeOK /\ AheadOnly /\ OnlyMatching /\ Complete)
<1>1. IInv => TypeOK /\ AheadOnly /\ OnlyMatching /\ Complete
  BY DEF IInv, Matched, OnlyMatching, Covered, Complete
<1> QED BY <1>1, Invariance, PTL

\* Nothing is yielded twice or out of order while the collection changes.
THEOREM Ordered == Spec => []AheadOnly
BY IterationCorrect, PTL

\* The caller's filter holds on every page.
THEOREM Filtered == Spec => []OnlyMatching
BY IterationCorrect, PTL
-----------------------------------------------------------------------------
\* What is ahead of a cursor is finite, as is what a page holds.
LEMMA AheadType ==
  /\ \A S \in SUBSET Items : IsFiniteSet(S) /\ Cardinality(S) \in Nat
  /\ \A cursor : Ahead(cursor) \in SUBSET Items
<1>1. ASSUME NEW S \in SUBSET Items PROVE IsFiniteSet(S) /\ Cardinality(S) \in Nat
  BY <1>1, ItemsType, FS_Subset, FS_CardinalityType
<1>2. \A cursor : Ahead(cursor) \in SUBSET Items
  BY DEF Ahead
<1> QED BY <1>1, <1>2

\* A page and what is ahead of its last item are apart, and both ahead of the
\* cursor the page was asked for from.
LEMMA AheadOfPage ==
  ASSUME NEW cursor \in Items \cup {None}, NEW data \in SUBSET Ahead(cursor),
         NEW m \in data, \A y \in data : y <= m
  PROVE  /\ Cardinality(data) >= 1
         /\ Cardinality(data) + Cardinality(Ahead(m)) <= Cardinality(Ahead(cursor))
<1>1. data \in SUBSET Items /\ data \subseteq Nat /\ m \in Items /\ m \in Nat /\ m # None
      /\ (cursor # None => cursor \in Nat)
  BY ItemsType, AheadType
<1>2. Ahead(m) \subseteq Nat /\ Ahead(cursor) \subseteq Nat
  BY ItemsType, AheadType
<1>3. Ahead(m) \subseteq Ahead(cursor)
  BY <1>1, <1>2 DEF Ahead
<1>4. data \cap Ahead(m) = {}
  BY <1>1, <1>2 DEF Ahead
<1>5. Cardinality(data \cup Ahead(m)) = Cardinality(data) + Cardinality(Ahead(m))
  <2>1. Cardinality(data \cup Ahead(m))
          = Cardinality(data) + Cardinality(Ahead(m)) - Cardinality(data \cap Ahead(m))
    BY <1>1, AheadType, FS_Union
  <2>2. Cardinality(data \cap Ahead(m)) = 0
    BY <1>4, FS_EmptySet
  <2> QED BY <2>1, <2>2, <1>1, AheadType
<1>6. Cardinality(data \cup Ahead(m)) <= Cardinality(Ahead(cursor))
  BY <1>3, AheadType, FS_Subset
<1>7. Cardinality(data) # 0
  BY <1>1, AheadType, FS_EmptySet
<1> QED BY <1>1, <1>5, <1>6, <1>7, AheadType

\* The bound at each point of the iteration.
LEMMA StepsLeftIs ==
  ASSUME TypeOK
  PROVE  /\ StepsLeft \in Nat
         /\ Cardinality(rest) \in Nat
         /\ \A cursor : Cardinality(Ahead(cursor)) \in Nat
         /\ pc = "fetching" => StepsLeft = 3 * Cardinality(Ahead(params.after)) + 2
         /\ pc = "yielding" /\ page.after = None => StepsLeft = Cardinality(rest) + 1
         /\ pc = "yielding" /\ page.after # None =>
              StepsLeft = Cardinality(rest) + (3 * Cardinality(Ahead(page.after)) + 3)
         /\ pc \in {"done", "raised"} => StepsLeft = 0
<1>1. rest \in SUBSET Items
  BY DEF TypeOK, Pages
<1>2. Cardinality(rest) \in Nat /\ \A cursor : Cardinality(Ahead(cursor)) \in Nat
  BY <1>1, AheadType
<1> QED BY <1>2 DEF TypeOK, PCs, StepsLeft

LEMMA StepsCounted == TypeOK => StepsLeft \in Nat
BY StepsLeftIs

LEMMA StepAdvances == IInv /\ IInv' /\ [Next]_vars => [Advance]_vars
<1> SUFFICES ASSUME IInv, IInv', Next PROVE Advance
  OBVIOUS
<1> USE DEF IInv
<1>1. StepsLeft \in Nat /\ StepsLeft' \in Nat
  <2>1. TypeOK' => (StepsLeft \in Nat)'
    BY StepsCounted, PTL
  <2> QED BY <2>1, StepsCounted
<1>2. CASE FetchPage
  <2> DEFINE data == page'.data  ahead == Ahead(params.after)
  <2>1. params.after \in Items \cup {None} /\ data \in SUBSET ahead
    BY <1>2, FetchedPage, ItemsType DEF TypeOK, Params, Pages, Ahead
  <2>2. Cardinality(data) \in Nat /\ Cardinality(data) <= Cardinality(ahead)
        /\ Cardinality(ahead) \in Nat
    BY <2>1, AheadType, FS_Subset
  <2>3. StepsLeft = 3 * Cardinality(ahead) + 2
    BY <1>2, FetchedPage, StepsLeftIs
  <2>4. CASE page'.after = None
    <3>1. StepsLeft' = Cardinality(data) + 1
      BY <1>2, <2>4, FetchedPage DEF StepsLeft
    <3> QED BY <1>1, <2>2, <2>3, <3>1 DEF Advance
  <2>5. CASE page'.after # None
    <3>1. page'.after \in data /\ \A y \in data : y <= page'.after
      BY <1>2, <2>5, FetchedPage, CursorsType DEF TypeOK, Pages
    <3>2. Cardinality(data) >= 1
          /\ Cardinality(data) + Cardinality(Ahead(page'.after)) <= Cardinality(ahead)
      BY <2>1, <3>1, AheadOfPage
    <3>3. StepsLeft' = Cardinality(data) + (3 * Cardinality(Ahead(page'.after)) + 3)
      BY <1>2, <2>5, FetchedPage DEF StepsLeft, Ahead
    <3>4. Cardinality(Ahead(page'.after)) \in Nat
      BY AheadType
    <3> QED BY <1>1, <2>2, <2>3, <3>2, <3>3, <3>4 DEF Advance
  <2> QED BY <2>4, <2>5
<1>3. CASE FetchFails \/ Stop
  <2>1. StepsLeft' = 0
    BY <1>3 DEF FetchFails, Stop, StepsLeft
  <2>2. StepsLeft > 0
    BY <1>3, StepsLeftIs DEF FetchFails, Stop
  <2> QED BY <2>1, <2>2, <1>1 DEF Advance
<1>4. CASE Yield
  <2>1. PICK x \in rest : rest' = rest \ {x}
    BY <1>4 DEF Yield
  <2>2. Cardinality(rest') = Cardinality(rest) - 1
    <3>1. IsFiniteSet(rest)
      BY AheadType DEF TypeOK, Pages
    <3> QED BY <2>1, <3>1, FS_RemoveElement
  <2>3. pc = "yielding" /\ UNCHANGED <<pc, page>>
    BY <1>4 DEF Yield
  <2>4. CASE page.after = None
    <3>1. StepsLeft = Cardinality(rest) + 1 /\ StepsLeft' = Cardinality(rest') + 1
      BY <2>3, <2>4, StepsLeftIs DEF StepsLeft
    <3> QED BY <1>1, <2>2, <3>1, StepsLeftIs DEF Advance
  <2>5. CASE page.after # None
    <3> DEFINE later == 3 * Cardinality(Ahead(page.after)) + 3
    <3>1. StepsLeft = Cardinality(rest) + later /\ StepsLeft' = Cardinality(rest') + later
      BY <2>3, <2>5, StepsLeftIs DEF StepsLeft, Ahead
    <3> QED BY <1>1, <2>2, <3>1, StepsLeftIs DEF Advance
  <2> QED BY <2>4, <2>5
<1>5. CASE NextPage
  <2>1. pc = "yielding" /\ rest = {} /\ page.after # None /\ pc' = "fetching"
        /\ params' = [params EXCEPT !.after = page.after] /\ params \in Params
    BY <1>5 DEF NextPage, HasMore, NextParams, TypeOK
  <2>2. StepsLeft' = 3 * Cardinality(Ahead(page.after)) + 2
    BY <2>1 DEF StepsLeft, Ahead, Params
  <2>3. Cardinality(rest) = 0
    BY <2>1, FS_EmptySet
  <2> QED BY <1>1, <2>1, <2>2, <2>3, StepsLeftIs DEF Advance
<1>6. CASE Change
  <2>1. StepsLeft' = StepsLeft
    BY <1>6 DEF Change, StepsLeft, Ahead
  <2> QED BY <1>1, <1>6, <2>1 DEF Advance
<1>7. CASE FetchBlank
  <2>1. StepsLeft' = Cardinality({}) + 1
    BY <1>7 DEF FetchBlank, NoPage, StepsLeft
  <2>2. StepsLeft >= 2
    BY <1>7, StepsLeftIs DEF FetchBlank
  <2> QED BY <2>1, <2>2, <1>1, FS_EmptySet DEF Advance
<1> QED BY <1>2, <1>3, <1>4, <1>5, <1>6, <1>7 DEF Next

\* An iteration comes nearer to its end with every step, whatever is added to or
\* deleted from the collection meanwhile: the bound behind IterationEnds.
THEOREM Advancing == Spec => IterationAdvances
BY Invariance, StepAdvances, PTL DEF Spec, IterationAdvances
=============================================================================
