-------------------------- MODULE MC_ActionDelivery --------------------------
EXTENDS ActionDelivery
CONSTANTS c1, c2, i1

=============================================================================
