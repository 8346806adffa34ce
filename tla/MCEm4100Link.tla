---------------------------- MODULE MCEm4100Link ----------------------------
(* Model values for Em4100Link: two customer IDs and three tokens whose    *)
(* nibbles are all-zero, all-one and all different, and one inverted bit   *)
(* on the air, anywhere in the stream.                                     *)
EXTENDS Em4100Link

MCCustomerIds == {0, 165}
MCTokens == {<<0, 0, 0, 0>>, <<255, 255, 255, 255>>, <<18, 52, 86, 120>>}
MCMaxFlips == 1
=============================================================================
