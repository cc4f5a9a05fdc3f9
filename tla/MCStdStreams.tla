---------------------------- MODULE MCStdStreams ----------------------------
EXTENDS StdStreams

=============================================================================
