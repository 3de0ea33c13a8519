--------------------------- MODULE MCSpakeHandshake ---------------------------
EXTENDS SpakeHandshake

CONSTANTS c1, c2

\* A whole handshake of one client, and two requests of another
MCMaxRequests == c1 :> 3 @@ c2 :> 2

=============================================================================
