------------------------------ MODULE MCIsoSetup ------------------------------
\* Any nodes at once: the one with the image need not be the first of a run.
EXTENDS IsoSetup

AnyNodes == (SUBSET Node) \ {{}}
=============================================================================
