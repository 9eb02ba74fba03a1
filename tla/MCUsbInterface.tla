--------------------------- MODULE MCUsbInterface ---------------------------
(* Small instances of UsbInterface for TLC.                                *)
EXTENDS UsbInterface, TLC

ProcSymmetry == Permutations(Std) \cup Permutations(Minimal)

=============================================================================
