------------------------------ MODULE Interface ------------------------------
(***************************************************************************)
(* rfid::device::Interface (rfid/Interface.hpp): the constant shared by     *)
(* the encoder, the reader interface and the read path.  Its value is       *)
(* defined outside the sources; it is the period of the 125 kHz carrier.    *)
(***************************************************************************)

CARRIER_US == 8   \* Interface::CARRIER_US, microseconds per carrier period
=============================================================================
