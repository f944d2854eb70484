---------------------------- MODULE MCFloatButton ----------------------------
EXTENDS FloatButton
=============================================================================
