----------------------------- MODULE MCGroupAdmin -----------------------------
EXTENDS GroupAdmin

CONSTANTS b1, b2, g1, g2

MCBrokers == {b1, b2}
MCGroups == {g1, g2}

=============================================================================
