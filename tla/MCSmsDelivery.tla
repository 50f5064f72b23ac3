--------------------------- MODULE MCSmsDelivery ---------------------------
EXTENDS SmsDelivery, TLC

Symmetry == Permutations(Workers)

=============================================================================
