---------------------------- MODULE MCFileTable -----------------------------
(* A few descriptors and the two devices.                                  *)
EXTENDS FileTable
CONSTANTS stdout, stdin
MCDevices == {stdout, stdin}
=============================================================================
