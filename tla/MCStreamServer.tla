--------------------------- MODULE MCStreamServer ---------------------------
EXTENDS StreamServer

mc_Msgs == {"m1", "empty", "bad"}
mc_Unmarshalable == {"bad", "internalReply"}
mc_ZeroLength == {"empty"}
=============================================================================
