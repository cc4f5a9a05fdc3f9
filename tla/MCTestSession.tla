--------------------------- MODULE MCTestSession ---------------------------
EXTENDS TestSession

=============================================================================
