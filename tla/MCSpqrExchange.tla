--------------------------- MODULE MCSpqrExchange ---------------------------
EXTENDS SpqrExchangeProperties
=============================================================================
