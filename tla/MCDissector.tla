----------------------------- MODULE MCDissector -----------------------------
EXTENDS Dissector
=============================================================================
