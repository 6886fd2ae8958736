--------------------------- MODULE MCL1Ingestion ---------------------------
EXTENDS L1Ingestion
=============================================================================
