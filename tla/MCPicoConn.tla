----------------------------- MODULE MCPicoConn -----------------------------
EXTENDS PicoConn

BothWays == {"forward", "backward"}

=============================================================================
