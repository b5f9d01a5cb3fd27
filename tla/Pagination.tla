----------------------------- MODULE Pagination -----------------------------
(***************************************************************************)
(* Iterator (pagination.go) walking a paginated endpoint, with and without *)
(* a retry policy.                                                         *)
(*                                                                         *)
(* The endpoint is external: it answers a cursor with a page, its end      *)
(* cursor and whether there is more; the empty cursor is 0.  A proper one  *)
(* ends page n with cursor n; one that reports more with an empty cursor   *)
(* is walked too.  An attempt to fetch can fail, and may leave part of a   *)
(* page behind when it does; retry.On is used by what module Retry shows   *)
(* of it: it repeats the fetch and returns the last attempt's result, or   *)
(* the context's error.                                                    *)
(***************************************************************************)
EXTENDS Integers, Sequences, SequencesExt

CONSTANTS NumPages,    \* pages of the endpoint
          Endpoints,   \* the endpoints: what each cursor is answered with
          MaxFetches,  \* bound: attempts to fetch
          MaxCalls     \* bound: calls of Next

\* An endpoint that reports more gives a cursor it answers.
ASSUME PaginationConstants ==
    /\ NumPages \in Nat \ {0} /\ MaxFetches \in Nat /\ MaxCalls \in Nat
    /\ \A e \in Endpoints :
          /\ e \in [0..(NumPages - 1) -> [end : 0..NumPages, more : BOOLEAN]]
          /\ \A c \in DOMAIN e : e[c].more => e[c].end < NumPages

VARIABLES
    endpoint,          \* the endpoint
    retrying,          \* the iterator has a retry policy
    cursor, err, done, \* the fields of Iterator
    pc,                \* "idle", or "fetch" inside Next
    items, page,       \* Next's locals: what the last attempt left in them
    fetches, calls,
    out,               \* the caller's slice: the page last handed out
    returned           \* history: the pages Next returned true for

inputs == <<endpoint, retrying>>
vars == <<inputs, cursor, err, done, pc, items, page, fetches, calls, out,
          returned>>

NoPage == [end |-> 0, more |-> FALSE]

Init ==
    /\ endpoint \in Endpoints
    /\ retrying \in BOOLEAN
    /\ cursor = 0 /\ err = "nil" /\ done = FALSE
    /\ pc = "idle"
    /\ items = 0 /\ page = NoPage
    /\ fetches = 0 /\ calls = 0
    /\ out = 0
    /\ returned = << >>

\* Next after the end, or after an error: false, at once.
NextDone ==
    /\ pc = "idle" /\ calls < MaxCalls /\ done
    /\ calls' = calls + 1
    /\ UNCHANGED <<inputs, cursor, err, done, pc, items, page, fetches, out,
                   returned>>

\* Mutant: done is not looked at.
NextCallAfterDone ==
    /\ pc = "idle" /\ calls < MaxCalls
    /\ calls' = calls + 1
    /\ pc' = "fetch"
    /\ items' = 0 /\ page' = NoPage
    /\ UNCHANGED <<inputs, cursor, err, done, fetches, out, returned>>

NextCall ==
    /\ pc = "idle" /\ calls < MaxCalls /\ ~done
    /\ calls' = calls + 1
    /\ pc' = "fetch"
    /\ items' = 0 /\ page' = NoPage
    /\ UNCHANGED <<inputs, cursor, err, done, fetches, out, returned>>

\* The endpoint's answer to a cursor.
PageAfter(c) == endpoint[c]

\* Mutants: the cursor moves past the end of the page; HasNextPage is ignored.
FetchMovesPast ==
    /\ pc = "fetch" /\ fetches < MaxFetches
    /\ fetches' = fetches + 1
    /\ items' = cursor + 1
    /\ page' = PageAfter(cursor)
    /\ cursor' = page'.end + 1
    /\ done' = ~page'.more
    /\ out' = items'
    /\ returned' = Append(returned, items')
    /\ pc' = "idle"
    /\ UNCHANGED <<inputs, err, calls>>

FetchIgnoresHasNext ==
    /\ pc = "fetch" /\ fetches < MaxFetches
    /\ fetches' = fetches + 1
    /\ items' = cursor + 1
    /\ page' = PageAfter(cursor)
    /\ cursor' = page'.end
    /\ out' = items'
    /\ returned' = Append(returned, items')
    /\ pc' = "idle"
    /\ UNCHANGED <<inputs, err, done, calls>>

\* An attempt succeeds: the cursor moves on and the page is handed out.
FetchSucceeds ==
    /\ pc = "fetch" /\ fetches < MaxFetches
    /\ fetches' = fetches + 1
    /\ items' = cursor + 1
    /\ page' = PageAfter(cursor)
    /\ cursor' = page'.end
    /\ done' = ~page'.more
    /\ out' = items'
    /\ returned' = Append(returned, items')
    /\ pc' = "idle"
    /\ UNCHANGED <<inputs, err, calls>>

\* Mutant: a failed attempt moves the cursor.
FetchRetriedMoves ==
    /\ pc = "fetch" /\ fetches < MaxFetches /\ retrying
    /\ fetches' = fetches + 1
    /\ items' = cursor + 1 /\ page' = PageAfter(cursor)
    /\ cursor' = page'.end
    /\ UNCHANGED <<inputs, err, done, pc, calls, out, returned>>

\* An attempt fails and is retried; it may have filled the locals.
FetchRetried ==
    /\ pc = "fetch" /\ fetches < MaxFetches /\ retrying
    /\ fetches' = fetches + 1
    /\ \/ items' = cursor + 1 /\ page' = PageAfter(cursor)
       \/ items' = 0 /\ page' = NoPage
    /\ UNCHANGED <<inputs, cursor, err, done, pc, calls, out, returned>>

\* The last attempt fails: no policy, the policy gives up, or the context is
\* cancelled between attempts.
FetchFails ==
    /\ pc = "fetch"
    /\ err' = "error"
    /\ done' = TRUE
    /\ pc' = "idle"
    /\ UNCHANGED <<inputs, cursor, items, page, fetches, calls, out, returned>>

Finished == pc = "idle" /\ calls = MaxCalls /\ UNCHANGED vars

Next ==
    \/ NextDone \/ NextCall
    \/ FetchSucceeds \/ FetchRetried \/ FetchFails
    \/ Finished

Spec == Init /\ [][Next]_vars

-----------------------------------------------------------------------------
TypeOK ==
    /\ endpoint \in Endpoints
    /\ retrying \in BOOLEAN /\ done \in BOOLEAN
    /\ cursor \in 0..NumPages
    /\ err \in {"nil", "error"}
    /\ pc \in {"idle", "fetch"}
    /\ items \in 0..NumPages /\ out \in 0..NumPages
    /\ page \in [end : 0..NumPages, more : BOOLEAN]
    /\ fetches \in 0..MaxFetches /\ calls \in 0..MaxCalls
    /\ returned \in Seq(1..NumPages)

\* Page n is the one after cursor n - 1.  A proper endpoint ends it with cursor
\* n and reports more up to the last.
Page(n) == endpoint[n - 1]
Proper == \A c \in DOMAIN endpoint :
              endpoint[c].end = c + 1 /\ (endpoint[c].more <=> c + 1 < NumPages)

\* Pages come out in the order of their cursors, none skipped and none repeated
\* unless the endpoint itself sends the iterator back, however often fetching
\* one had to be retried and whatever a failed attempt left behind; the
\* caller's slice holds the last of them.
PagesInOrder ==
    /\ \A i \in DOMAIN returned :
          returned[i] = 1 + (IF i = 1 THEN 0 ELSE Page(returned[i - 1]).end)
    /\ Proper => returned = [i \in 1..Len(returned) |-> i]
    /\ returned # << >> => out = Last(returned) /\ cursor = Page(out).end

\* Iteration stops by itself exactly when the endpoint says there is no more,
\* so a proper endpoint has been read to its end, and one that reports more
\* with an empty cursor is read again from its start, without end and without
\* an error (pagination.go:98).
StopsComplete ==
    /\ (done /\ err = "nil") <=> (returned # << >> /\ ~Page(Last(returned)).more)
    /\ Proper /\ done /\ err = "nil" => Len(returned) = NumPages

\* Walking an endpoint visits the pages its cursors lead to and ends where it
\* says so.
PagesExact == TypeOK /\ PagesInOrder /\ StopsComplete

\* After the end nothing is fetched and nothing handed out again.
DoneForGood == [][done => UNCHANGED <<done, err, fetches, returned, out>>]_vars
=============================================================================
