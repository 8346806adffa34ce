----------------------------- MODULE MCWritePath -----------------------------
(* Model values for WritePath: two customer IDs and three tokens whose     *)
(* images hold runs of ones and zeros of every length, the three bitrate   *)
(* options of main.cpp, and an edge wait of two ADC samples standing for   *)
(* the firmware's 21248: the count only decides when the timeout fires,    *)
(* and the host's status request is allowed at any point before it.       *)
EXTENDS WritePath

MCCustomerIds == {0, 165}
MCTokens == {<<0, 0, 0, 0>>, <<255, 255, 255, 255>>, <<18, 52, 86, 120>>}
MCDataRates == {"DATA_RATE_16", "DATA_RATE_32", "DATA_RATE_64"}
MCEdgeWait == 2
=============================================================================
