------------------------------ MODULE MCQuota ------------------------------
EXTENDS Quota, TLC

Symmetric == Permutations(Jobs)
=============================================================================
