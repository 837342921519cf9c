----------------------------- MODULE MCKeepalived -----------------------------
\* Three masters, the first neither of the highest nor of the lowest address;
\* a later configuration lists two of them.
EXTENDS Keepalived, TLC

CONSTANTS m1, m2, m3

Lists     == {<<m1, m2, m3>>, <<m1, m2>>}
Addresses == (m2 :> 1) @@ (m1 :> 2) @@ (m3 :> 3)
=============================================================================
