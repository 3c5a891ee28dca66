--------------------------- MODULE MCDurableQueues ---------------------------
EXTENDS QueueProperties

CONSTANTS msg, req, invite, t1, t2
=============================================================================
