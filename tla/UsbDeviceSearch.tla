--------------------------- MODULE UsbDeviceSearch ---------------------------
(***************************************************************************)
(* The device search of the InterfaceUsbImpl constructor                   *)
(* (impl/InterfaceUsbImpl.cpp): the walk over libusb's busses and their    *)
(* devices for the reader's vendor and product ids and product string.    *)
(* One step is one pass of the inner loop's body, or the move to the next *)
(* bus, or the end of the walk.                                           *)
(*                                                                         *)
(* A device is what the walk reads of it: its descriptor's ids and string *)
(* index, whether usb_open gives a handle, whether usb_get_string_simple   *)
(* reads the product string, and that string.                             *)
(***************************************************************************)
EXTENDS Integers, Sequences

CONSTANT
    BusLayouts      \* the device layouts the host may have

VARIABLES
    busses,         \* usb_get_busses(): a sequence of busses, each a sequence of devices
    bus,            \* index of the bus the walk is on
    dev,            \* index of the device the walk is on
    handle          \* "NONE", or "READER" once the reader's handle is kept

searchVars == <<busses, bus, dev, handle>>

DEV_USB_VID == 5824     \* 0x16c0
DEV_USB_PID == 1500     \* 0x05dc
DEV_USB_PROD == "rfid-tool"

Device == [idVendor : Nat, idProduct : Nat, iProduct : Nat, opens : BOOLEAN,
           simpleString : BOOLEAN, product : STRING]

\* usbGetStringAscii: the product string usb_get_string_simple reads; its
\* fallback, a GET_DESCRIPTOR request, never copies a character (the copy
\* loop runs up to rval, which stays 0) and leaves an empty string.
usbGetStringAscii(d) == IF d.simpleString THEN d.product ELSE ""

\* The test of the inner loop: the reader's ids, and a product string that
\* is the reader's.
Matches(d) == d.idVendor = DEV_USB_VID /\ d.idProduct = DEV_USB_PID
IsReader(d) == d.iProduct > 0 /\ usbGetStringAscii(d) = DEV_USB_PROD

\* The constructor before the walk: libusb's busses as found, no handle,
\* the first bus.
SearchInit ==
    /\ busses \in BusLayouts
    /\ bus = 1
    /\ dev = 1
    /\ handle = "NONE"

Searching == handle = "NONE" /\ bus <= Len(busses)

\* One pass of the inner loop's body.  A device with the reader's ids is
\* opened; when usb_open fails the body 'continue's without advancing dev,
\* so the next pass opens the same device again.  A reader is kept and
\* ends both loops; any other device is left (its handle is not closed).
SearchDevice ==
    /\ Searching
    /\ dev <= Len(busses[bus])
    /\ LET d == busses[bus][dev]
       IN  IF Matches(d) /\ ~d.opens THEN UNCHANGED searchVars
           ELSE IF Matches(d) /\ IsReader(d)
           THEN handle' = "READER" /\ UNCHANGED <<busses, bus, dev>>
           ELSE dev' = dev + 1 /\ UNCHANGED <<busses, bus, handle>>

\* The end of a bus: the walk goes on with the next one.
NextBus ==
    /\ Searching
    /\ dev > Len(busses[bus])
    /\ bus' = bus + 1
    /\ dev' = 1
    /\ UNCHANGED <<busses, handle>>

\* The walk is over: a reader was kept, or no bus is left.
SearchDone == ~Searching
=============================================================================
