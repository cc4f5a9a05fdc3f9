--------------------------- MODULE MCChildMemory ---------------------------
EXTENDS ChildMemory

=============================================================================
