------------------------------ MODULE MCLoop ------------------------------
(***************************************************************************)
(* A device of two slots for three invocations.  Its peak rate is that of  *)
(* one single stream.                                                      *)
(***************************************************************************)
EXTENDS DeviceLoop

CONSTANTS i1, i2, i3

RateOf(batch) == IF batch = 1 THEN 2 ELSE 1
=============================================================================
