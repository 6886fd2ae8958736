--------------------------- MODULE MCCrossDomain ---------------------------
EXTENDS CrossDomain

CONSTANTS rollup

MCSenders == {rollup}
MCWindows == {1}
=============================================================================
