----------------------------- MODULE MCHandles -----------------------------
(* Handles for TLC: a stream and a user over a file of two pages, the       *)
(* second not full, and a block device, of another block size and with the  *)
(* size 0 that fstat reports of it.                                         *)
EXTENDS Handles, TLC

MCFiles == {1, 2}
MCDevices == {2}
MCBlockOf == 1 :> 2 @@ 2 :> 1
MCSizeOf == 1 :> 3 @@ 2 :> 0
=============================================================================
