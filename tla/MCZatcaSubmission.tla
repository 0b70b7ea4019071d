-------------------------- MODULE MCZatcaSubmission --------------------------
EXTENDS ZatcaSubmission

CONSTANTS w1, w2, d1

OneDevice == [j \in Jobs |-> d1]
=============================================================================
