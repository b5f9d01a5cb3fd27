---------------------------- MODULE MCLimitReader ----------------------------
EXTENDS LimitReader

mc_Sizes == 0..7
mc_Limits == {-1, 0, 1, 2, 4, 7}
mc_BufSizes == {1, 3, 8}
=============================================================================
