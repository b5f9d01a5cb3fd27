---------------------------- MODULE MCPagination ----------------------------
EXTENDS Pagination

\* Three pages that end with their own cursors, and the same but for the second,
\* which reports more and no cursor.
mc_Proper == [c \in 0..(NumPages - 1) |-> [end |-> c + 1, more |-> c + 1 < NumPages]]
mc_Endpoints == {mc_Proper, [mc_Proper EXCEPT ![1].end = 0]}
=============================================================================
