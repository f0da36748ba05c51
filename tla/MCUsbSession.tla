---- MODULE MCUsbSession ----
(* An instance of UsbSession: two keys, two files, three filesync calls.   *)
EXTENDS ShellService, MCTimeouts
CONSTANTS k1, k2, f1, f2
MCKeys == <<k1, k2>>
MCFiles == <<f1, f2>>
MCSource == <<"a", "b">>
====
