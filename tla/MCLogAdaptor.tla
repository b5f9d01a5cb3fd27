---------------------------- MODULE MCLogAdaptor ----------------------------
EXTENDS LogAdaptor

\* A line, a message of two lines (a recovered panic and its stack), and a
\* line that does not fit the scanner's buffer of three bytes.
mc_Messages == {<<"a", "nl">>, <<"b", "nl", "c", "nl">>, <<"d", "d", "d", "nl">>}
=============================================================================
