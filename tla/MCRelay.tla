------------------------------- MODULE MCRelay -------------------------------
EXTENDS FederationRelay, TLC
=============================================================================
