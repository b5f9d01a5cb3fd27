--------------------------- MODULE MCStreamReader ---------------------------
EXTENDS StreamReader

mc_Msgs == {"m1", "m2", "empty", "bad", "big"}
mc_ZeroLength == {"empty"}
mc_Undecodable == {"bad", "garbledReply"}
mc_TooBig == {"big"}
=============================================================================
