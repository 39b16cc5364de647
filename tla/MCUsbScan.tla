----------------------------- MODULE MCUsbScan -----------------------------
(* Instances of UsbScan for TLC.                                           *)
EXTENDS UsbScan

Device(id, bus_nr, port, sunxi) == [id |-> id, bus |-> bus_nr, port |-> port, sunxi |-> sunxi]

(* Two devices on the same port number of two buses, one whose port is not *)
(* known, and a foreign one.                                               *)
MCDevices == {Device(1, 1, 1, TRUE), Device(2, 1, 0, TRUE), Device(3, 2, 1, TRUE),
              Device(4, 2, 2, FALSE)}

(* With two devices on port 2 of different hubs of one bus.                *)
MCHubDevices == {Device(1, 1, 2, TRUE), Device(2, 1, 2, TRUE), Device(3, 2, 2, TRUE)}
=============================================================================
