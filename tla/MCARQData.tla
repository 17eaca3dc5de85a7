----------------------------- MODULE MCARQData -----------------------------
EXTENDS ARQData
=============================================================================
