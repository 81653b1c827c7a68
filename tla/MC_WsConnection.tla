--------------------------- MODULE MC_WsConnection ---------------------------
EXTENDS WsConnection

CONSTANTS t1, t2

MCTopics == {t1, t2}

=============================================================================
