---------------------------- MODULE MCUsbStorage ----------------------------
(* Constants of the TLC runs of UsbStorage.                                *)
EXTENDS UsbStorage

\* A hub, a device of unknown type and two sticks.
MCBus == <<"other", "odd", "stick", "stick">>

=============================================================================
