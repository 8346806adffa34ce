----------------------------- MODULE MCReadPath -----------------------------
(* Model values for ReadPath: the customer IDs and tokens of MCEm4100Link, *)
(* and the data rates a tag written by rfid-tool may have: RF/16, which   *)
(* the carrier decoder starts with, and RF/32 and RF/64, which it must    *)
(* find by rotating its divider.                                          *)
EXTENDS ReadPath

MCCustomerIds == {0, 165}
MCTokens == {<<0, 0, 0, 0>>, <<255, 255, 255, 255>>, <<18, 52, 86, 120>>}
MCDataRatesAll == {16, 32, 64}
MCDataRatesSlow == {32, 64}
=============================================================================
