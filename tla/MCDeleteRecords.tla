--------------------------- MODULE MCDeleteRecords ---------------------------
EXTENDS DeleteRecords

CONSTANTS b1, b2, p1, p2, p3

MCBrokers == {b1, b2}
MCPartitions == {p1, p2, p3}

=============================================================================
