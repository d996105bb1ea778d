--------------------------- MODULE MCAsyncVerify ---------------------------
EXTENDS AsyncVerify, TLC

Perms == Permutations(Lanes)
============================================================================
