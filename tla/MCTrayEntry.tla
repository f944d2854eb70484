----------------------------- MODULE MCTrayEntry -----------------------------
EXTENDS TrayEntry
=============================================================================
