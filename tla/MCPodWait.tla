------------------------------- MODULE MCPodWait ------------------------------
\* Two pods waited for by name, so that one can go while the other is looked
\* at, and a job in the namespace.
EXTENDS PodWait

CONSTANTS scheduler, apiserver

Names == <<scheduler, apiserver>>
=============================================================================
