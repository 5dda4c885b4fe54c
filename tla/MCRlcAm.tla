------------------------------ MODULE MCRlcAm ------------------------------
EXTENDS RlcAmInvariant
=============================================================================
