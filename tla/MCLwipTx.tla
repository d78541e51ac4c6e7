------------------------------ MODULE MCLwipTx ------------------------------
EXTENDS LwipTx
=============================================================================
