------------------------------ MODULE MCSessions ------------------------------
\* Two requests of a page and two calls of /auth; the first two tokens expire.
EXTENDS Sessions

MCHandlers == 1..2
MCRequests == 1..2
===============================================================================
