---------------------------- MODULE MCSenderKeys ----------------------------
EXTENDS SenderKeysProperties
=============================================================================
