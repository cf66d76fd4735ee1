--------------------------- MODULE MCAclConfigAdmin ---------------------------
EXTENDS AclConfigAdmin

CONSTANTS b1, b2, a1, a2, t1, v1, v2

MCBrokers == {b1, b2}
MCAcls == {a1, a2}
MCRefused == {a2}
MCTopics == {t1}
MCVals == {v1, v2}

=============================================================================
