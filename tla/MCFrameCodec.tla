---------------------------- MODULE MCFrameCodec ----------------------------
EXTENDS FrameCodec

\* Nothing, one byte, three bytes (more than the limit of two), and four, one
\* more than the length field can say.
mc_Payloads == {<< >>, <<1>>, <<1, 0, 1>>, <<0, 0, 1, 0>>}
mc_Limits == {0, 2}
=============================================================================
