---------------------------- MODULE MCUsbSession ----------------------------
(***************************************************************************)
(* rfid-tool against its reader, with a one-byte sample buffer (eight      *)
(* samples to capture, two nibbles to play) and the firmware's seven-entry *)
(* pulse vector.                                                           *)
(* A write makes two putSamples calls, each with any vector and buffer:    *)
(* a buffer's nibbles are a low or a high pulse of either length, or the   *)
(* end marker, so a transmission ends at a marker or at the buffer end.    *)
(* One of the vectors holds the uint8_t limit 255.  The edge wait lasts    *)
(* one sample, so that it can time out, start at once or be interrupted.   *)
(***************************************************************************)
EXTENDS UsbSession

MCSampleBufferSize == 1
MCPulseVectorSize == 7
MCEdgeWait == 1
\* Argument lists reaching every branch of main.cpp: a reset, a reset that
\* wins over a read, reads, the help without arguments, -h and an unknown
\* option, writes refused for a missing modulation or bitrate (also next
\* to -R and -r), and a write whose later unknown -b keeps the earlier one
\* and whose -c and -t exceed their fields.
MCArgvs ==
    { <<Opt("R", "")>>,
      <<Opt("R", ""), Opt("r", "")>>,
      <<Opt("v", ""), Opt("r", "")>>,
      <<>>,
      <<Opt("h", ""), Opt("r", "")>>,
      <<Opt("?", ""), Opt("R", "")>>,
      <<Opt("R", ""), Opt("p", ""), Opt("b", "16")>>,
      <<Opt("r", ""), Opt("p", ""), Opt("m", "biphase"), Opt("b", "32")>>,
      <<Opt("p", ""), Opt("m", "manchester"), Opt("b", "64"), Opt("b", "17"),
        NumOpt("c", 300), NumOpt("t", -1)>> }
\* putSamples sends the distinct pulse lengths in ascending order (a
\* std::set), the unused entries zero.
MCPulseVectors == {<<19, 55, 0, 0, 0, 0, 0>>, <<30, 255, 0, 0, 0, 0, 0>>}
MCNibbles == {0, 1, 8, 9, 7}
MCSampleBuffers == {<<lo + 16 * hi>> : lo \in MCNibbles, hi \in MCNibbles}
\* Devices on the busses: the reader, an unrelated device, a device with
\* the reader's ids and another product string, and the reader when
\* usb_get_string_simple fails on it; for the run that hangs, a device
\* with the reader's ids that usb_open refuses (no permission).
Reader == [idVendor |-> DEV_USB_VID, idProduct |-> DEV_USB_PID, iProduct |-> 2,
           opens |-> TRUE, simpleString |-> TRUE, product |-> DEV_USB_PROD]
OtherDevice == [Reader EXCEPT !.idVendor = 1133, !.product = "mouse"]
SameIds == [Reader EXCEPT !.product = "usbasp"]
ReaderNoString == [Reader EXCEPT !.simpleString = FALSE]
Unopenable == [Reader EXCEPT !.opens = FALSE]
MCBusLayouts == { << <<OtherDevice>>, <<SameIds, Reader>> >>,
                  << <<ReaderNoString>> >> }
MCBusLayoutsUnopenable == { << <<OtherDevice, Unopenable, Reader>> >> }
MCWriteCalls == 3
MCRuns == 1
MCRerunRuns == 2
=============================================================================
