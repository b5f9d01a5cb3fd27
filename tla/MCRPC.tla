-------------------------------- MODULE MCRPC --------------------------------
EXTENDS RPC

mc_Codes == {404, 409, 429, 454}
mc_InfraCodes == {200, 403, 404, 429, 454, 500, 503}
=============================================================================
