-------------------------- MODULE PaginationProofs --------------------------
(***************************************************************************)
(* Machine-checked proofs about Pagination, for every endpoint and every   *)
(* number of pages, calls and attempts.                                    *)
(***************************************************************************)
EXTENDS Pagination, TLAPS

\* The iterator is done after an error, never while it fetches, and otherwise
\* holds a cursor the endpoint answers.
Fetching ==
    /\ err = "error" => done
    /\ pc = "fetch" => ~done
    /\ ~done => cursor < NumPages
    /\ returned = << >> => cursor = 0

\* Iteration ended by itself exactly after a page that reported no more.
Ending == (done /\ err = "nil") <=> (returned # << >> /\ ~Page(Last(returned)).more)

PagesInv == TypeOK /\ PagesInOrder /\ Fetching /\ Ending

\* Appending to a sequence: length, old elements, new element.
LEMMA AppendFacts ==
    ASSUME NEW S, NEW s \in Seq(S), NEW e \in S
    PROVE  /\ Append(s, e) \in Seq(S)
           /\ Len(Append(s, e)) = Len(s) + 1
           /\ Len(s) \in Nat
           /\ \A i \in 1..Len(s) : Append(s, e)[i] = s[i]
           /\ Append(s, e)[Len(s) + 1] = e
           /\ Append(s, e) # << >>
           /\ DOMAIN Append(s, e) = 1..(Len(s) + 1) /\ DOMAIN s = 1..Len(s)
  OBVIOUS

\* What a cursor within the endpoint is answered with.
LEMMA PageType ==
    ASSUME TypeOK, NEW c \in 0..(NumPages - 1)
    PROVE  /\ PageAfter(c) \in [end : 0..NumPages, more : BOOLEAN]
           /\ PageAfter(c).end \in 0..NumPages /\ PageAfter(c).more \in BOOLEAN
           /\ PageAfter(c).more => PageAfter(c).end < NumPages
           /\ Page(c + 1) = PageAfter(c)
           /\ Proper => /\ PageAfter(c).end = c + 1
                        /\ (PageAfter(c).more <=> c + 1 < NumPages)
  <1>1. /\ endpoint \in [0..(NumPages - 1) -> [end : 0..NumPages, more : BOOLEAN]]
        /\ \A d \in DOMAIN endpoint : endpoint[d].more => endpoint[d].end < NumPages
    BY PaginationConstants DEF TypeOK
  <1>2. c \in DOMAIN endpoint /\ (c + 1) - 1 = c
    BY <1>1
  <1> QED BY <1>1, <1>2 DEF PageAfter, Page, Proper

\* An iterator that has not fetched anything.
LEMMA PagesInit == Init => PagesInv
  <1> SUFFICES ASSUME Init PROVE PagesInv
    OBVIOUS
  <1> USE PaginationConstants DEF Init
  <1>1. TypeOK
    <2>1. 0 \in 0..NumPages /\ 0 \in 0..MaxFetches /\ 0 \in 0..MaxCalls
      OBVIOUS
    <2>2. page \in [end : 0..NumPages, more : BOOLEAN]
      BY <2>1 DEF NoPage
    <2>3. retrying \in BOOLEAN /\ done \in BOOLEAN /\ returned \in Seq(1..NumPages)
      OBVIOUS
    <2> QED BY <2>1, <2>2, <2>3 DEF TypeOK
  <1>2. DOMAIN returned = {} /\ Len(returned) = 0 /\ returned = [i \in 1..0 |-> i]
    OBVIOUS
  <1>3. PagesInOrder
    BY <1>2 DEF PagesInOrder
  <1> QED BY <1>1, <1>3 DEF PagesInv, Fetching, Ending

\* A page is handed out: it is the one the cursor leads to.
LEMMA FetchStep == PagesInv /\ FetchSucceeds => PagesInv'
  <1> SUFFICES ASSUME PagesInv, FetchSucceeds PROVE PagesInv'
    OBVIOUS
  <1> USE PaginationConstants DEF PagesInv, FetchSucceeds
  <1>1. cursor \in 0..(NumPages - 1)
    BY DEF TypeOK, Fetching
  <1>2. /\ page' \in [end : 0..NumPages, more : BOOLEAN]
        /\ page'.end \in 0..NumPages /\ page'.more \in BOOLEAN
        /\ page'.more => page'.end < NumPages
        /\ page' = Page(cursor + 1)
        /\ Proper => page'.end = cursor + 1
    BY <1>1, PageType
  <1>3. items' = cursor + 1 /\ out' = cursor + 1 /\ cursor + 1 \in 1..NumPages
    BY <1>1
  <1>4. /\ returned' \in Seq(1..NumPages)
        /\ Len(returned') = Len(returned) + 1 /\ Len(returned) \in Nat
        /\ \A i \in 1..Len(returned) : returned'[i] = returned[i]
        /\ returned'[Len(returned) + 1] = cursor + 1
        /\ returned' # << >>
        /\ DOMAIN returned' = 1..(Len(returned) + 1) /\ DOMAIN returned = 1..Len(returned)
    BY <1>3, AppendFacts DEF TypeOK
  <1>5. TypeOK'
    BY <1>2, <1>3, <1>4 DEF TypeOK, inputs
  <1>6. Last(returned') = cursor + 1
    BY <1>4 DEF Last
  <1>7. \A n : Page(n)' = Page(n)
    BY DEF Page, inputs
  <1>8. Fetching'
    BY <1>2, <1>4 DEF Fetching, TypeOK
  <1>9. Ending'
    BY <1>2, <1>4, <1>6, <1>7 DEF Ending, Fetching, TypeOK
  <1>10. PagesInOrder'
    <2>1. \A i \in DOMAIN returned' :
             returned'[i] = 1 + (IF i = 1 THEN 0 ELSE Page(returned'[i - 1]).end)
      <3> SUFFICES ASSUME NEW i \in 1..(Len(returned) + 1)
                   PROVE  returned'[i] = 1 + (IF i = 1 THEN 0
                                              ELSE Page(returned'[i - 1]).end)
        BY <1>4
      <3>1. CASE i \in 1..Len(returned)
        <4>1. i # 1 => i - 1 \in 1..Len(returned)
          BY <1>4, <3>1
        <4> QED BY <1>4, <3>1, <4>1 DEF PagesInOrder
      <3>2. CASE i = Len(returned) + 1 /\ returned = << >>
        BY <1>4, <3>2 DEF Fetching
      <3>3. CASE i = Len(returned) + 1 /\ returned # << >>
        <4>1. Len(returned) >= 1 /\ i - 1 = Len(returned) /\ i # 1
          BY <1>4, <3>3 DEF TypeOK
        <4>2. returned'[i - 1] = Last(returned)
          BY <1>4, <4>1 DEF Last
        <4>3. cursor = Page(Last(returned)).end
          BY <3>3 DEF PagesInOrder
        <4> QED BY <1>1, <1>4, <3>3, <4>1, <4>2, <4>3
      <3> QED BY <1>4, <3>1, <3>2, <3>3
    <2>2. ASSUME Proper
          PROVE  returned' = [i \in 1..Len(returned') |-> i]
      <3>1. returned = [i \in 1..Len(returned) |-> i]
        BY <2>2 DEF PagesInOrder
      <3>2. cursor = Len(returned)
        <4>1. CASE returned = << >>
          BY <4>1 DEF Fetching
        <4>2. CASE returned # << >>
          <5>1. Len(returned) \in 1..Len(returned)
            BY <1>4, <4>2 DEF TypeOK
          <5>2. Last(returned) = Len(returned)
            BY <3>1, <5>1 DEF Last
          <5>3. cursor = Page(Len(returned)).end
            BY <4>2, <5>2 DEF PagesInOrder
          <5>4. Len(returned) \in 1..NumPages
            BY <5>1, <5>2, <1>4 DEF TypeOK, Last
          <5>5. Len(returned) - 1 \in 0..(NumPages - 1)
                /\ (Len(returned) - 1) + 1 = Len(returned)
            BY <5>4
          <5> QED BY <2>2, <5>3, <5>5, PageType
        <4> QED BY <4>1, <4>2
      <3>3. \A i \in 1..Len(returned') : returned'[i] = i
        BY <1>4, <3>1, <3>2
      <3> QED BY <1>4, <3>3
    <2>3. Proper' = Proper
      BY DEF Proper, inputs
    <2> QED BY <1>2, <1>3, <1>4, <1>6, <1>7, <2>1, <2>2, <2>3 DEF PagesInOrder
  <1> QED BY <1>5, <1>8, <1>9, <1>10

\* Every call of Next keeps the invariant.
LEMMA PagesStep == PagesInv /\ [Next]_vars => PagesInv'
  <1> SUFFICES ASSUME PagesInv, [Next]_vars PROVE PagesInv'
    OBVIOUS
  <1> USE PaginationConstants DEF PagesInv, inputs
  <1>1. ASSUME UNCHANGED <<endpoint, cursor, out, returned>> PROVE PagesInOrder'
    BY <1>1 DEF PagesInOrder, Proper, Page
  <1>2. ASSUME UNCHANGED <<endpoint, done, err, returned>> PROVE Ending'
    BY <1>2 DEF Ending, Page
  <1>3. CASE NextDone
    BY <1>1, <1>2, <1>3 DEF NextDone, TypeOK, Fetching
  <1>4. CASE NextCall
    <2>1. TypeOK'
      BY <1>4 DEF NextCall, TypeOK, NoPage
    <2> QED BY <1>1, <1>2, <1>4, <2>1 DEF NextCall, Fetching
  <1>5. CASE FetchSucceeds
    BY <1>5, FetchStep
  <1>6. CASE FetchRetried
    <2>1. cursor \in 0..(NumPages - 1)
      BY <1>6 DEF FetchRetried, TypeOK, Fetching
    <2>2. PageAfter(cursor) \in [end : 0..NumPages, more : BOOLEAN]
      BY <2>1, PageType
    <2>3. items' \in 0..NumPages /\ page' \in [end : 0..NumPages, more : BOOLEAN]
      <3>1. CASE items' = cursor + 1 /\ page' = PageAfter(cursor)
        BY <2>1, <2>2, <3>1
      <3>2. CASE items' = 0 /\ page' = NoPage
        BY <3>2 DEF NoPage
      <3> QED BY <1>6, <3>1, <3>2 DEF FetchRetried
    <2>4. fetches' \in 0..MaxFetches
      BY <1>6 DEF FetchRetried, TypeOK
    <2>5. TypeOK'
      BY <1>6, <2>3, <2>4 DEF FetchRetried, TypeOK
    <2> QED BY <1>1, <1>2, <1>6, <2>5 DEF FetchRetried, Fetching
  <1>7. CASE FetchFails
    BY <1>1, <1>7 DEF FetchFails, TypeOK, Fetching, Ending, Page
  <1>8. CASE Finished \/ UNCHANGED vars
    <2>1. UNCHANGED vars
      BY <1>8 DEF Finished
    <2>2. TypeOK' /\ Fetching'
      BY <2>1 DEF vars, TypeOK, Fetching
    <2> QED BY <1>1, <1>2, <2>1, <2>2 DEF vars
  <1> QED BY <1>3, <1>4, <1>5, <1>6, <1>7, <1>8 DEF Next

\* PagesInv is an invariant of the iterator.
THEOREM PagesInvariance == Spec => []PagesInv
  BY PagesInit, PagesStep, PTL DEF Spec

\* A proper endpoint's last page is the only one that reports no more.
LEMMA PagesInvExact == PagesInv => PagesExact
  <1> SUFFICES ASSUME PagesInv, Proper, done, err = "nil" PROVE Len(returned) = NumPages
    BY DEF PagesInv, PagesExact, StopsComplete, Ending
  <1> USE PaginationConstants DEF PagesInv
  <1>1. returned # << >> /\ ~Page(Last(returned)).more
    BY DEF Ending
  <1>2. Len(returned) \in 1..Len(returned) /\ Last(returned) \in 1..NumPages
    BY <1>1 DEF TypeOK, Last
  <1>3. Last(returned) = Len(returned)
    BY <1>2 DEF PagesInOrder, Last
  <1>4. Len(returned) - 1 \in 0..(NumPages - 1)
        /\ (Len(returned) - 1) + 1 = Len(returned)
    BY <1>2, <1>3
  <1>5. ~(Len(returned) < NumPages)
    <2> DEFINE c == Len(returned) - 1
    <2>1. Page(c + 1) = PageAfter(c) /\ (PageAfter(c).more <=> c + 1 < NumPages)
      BY <1>4, PageType
    <2> QED BY <1>1, <1>3, <1>4, <2>1
  <1> QED BY <1>2, <1>3, <1>5

\* The iterator hands out the pages its endpoint's cursors lead to, each once,
\* and stops by itself only at the end, whatever failed attempts left behind.
THEOREM PagesAreExact == Spec => []PagesExact
  BY PagesInvariance, PagesInvExact, PTL

\* Once done, the iterator fetches nothing and hands out nothing.
THEOREM IterationEndsForGood == Spec => DoneForGood
  <1>1. PagesInv /\ [Next]_vars =>
           [done => UNCHANGED <<done, err, fetches, returned, out>>]_vars
    BY DEF PagesInv, Fetching, Next, NextDone, NextCall, FetchSucceeds, FetchRetried,
           FetchFails, Finished, vars
  <1> QED BY <1>1, PagesInvariance, PTL DEF Spec, DoneForGood
=============================================================================
