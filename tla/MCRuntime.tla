------------------------------- MODULE MCRuntime ------------------------------
\* Docker for an old kubernetes, docker next to containerd, containerd alone.
EXTENDS Runtime

W(docker, cri, prune, pin) == [docker |-> docker, cri |-> cri, prune |-> prune, pin |-> pin]

AllWishes == {W(d, c, p, q) : d, c, p, q \in BOOLEAN} \ {W(FALSE, FALSE, p, q) : p, q \in BOOLEAN}
NoDocker  == {W(FALSE, TRUE, FALSE, TRUE)}
=============================================================================
