-------------------------------- MODULE MCTlsIO --------------------------------
EXTENDS TlsIO
===============================================================================
