---------------------------- MODULE MCCoinsCache ----------------------------
EXTENDS CoinsCache, TLC

CONSTANTS o1, o2

MCOutpoints == {o1, o2}
MCCoinbases == {o2}
=============================================================================
