-------------------------- MODULE MCFieldReplicas --------------------------
EXTENDS FieldReplicas
CONSTANTS d1, d2, d3
=============================================================================
