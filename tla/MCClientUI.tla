----------------------------- MODULE MCClientUI -----------------------------
EXTENDS ClientUI
=============================================================================
