--------------------------- MODULE MCProxyHandler ---------------------------
\* ProxyHandler with two requests, which may both be served.  They are not declared
\* interchangeable: the run checks liveness.
EXTENDS ProxyHandler

CONSTANTS r1, r2

TwoRequests == {r1, r2}
=============================================================================
