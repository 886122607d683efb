-------------------------- MODULE MCUpdateSession --------------------------
EXTENDS UpdateSession
AnyFault == AllFaultKinds
=============================================================================
