---------------------------- MODULE MCBridgeCalls ----------------------------
EXTENDS BridgeCallsProps
=============================================================================
