-------------------------- MODULE MCMessageReceipts --------------------------
EXTENDS MessageReceipts
CONSTANTS m1, m2, s1, s2, s3, x, y
=============================================================================
