----------------------------- MODULE MCRfCtrl -----------------------------
(***************************************************************************)
(* Three protocols after those of rf-ctrl (otax: HL with both codes; he: a *)
(* HL one without a remote code; somfy: RAW), three drivers (one like      *)
(* he853, HL only and found by its probe; one like sysfs-gpio, every       *)
(* format and a GPIO needed; one like alsa, RAW only).                     *)
(*                                                                         *)
(* Codes are two bits wide, so that 3 is the largest uint32_t, and the     *)
(* maxima leave room below it as the real ones do.                         *)
(***************************************************************************)
EXTENDS RfCtrl

MCNeededParams == [p \in 0 .. 2 |->
    IF p = 1 THEN {"device", "command"} ELSE {"remote", "device", "command"}]
MCRemoteMax     == [p \in 0 .. 2 |-> IF p = 1 THEN 0 ELSE 1]
MCDeviceMax     == [p \in 0 .. 2 |-> IF p = 1 THEN 2 ELSE 1]
MCBitFmt        == [p \in 0 .. 2 |-> IF p = 2 THEN "RAW" ELSE "HL"]
MCDefaultFrames == [p \in 0 .. 2 |-> IF p = 2 THEN 1 ELSE 10]
MCFormattable   == [p \in 0 .. 2 |-> IF p = 2 THEN {1} ELSE {0, 1}]

MCSupportedFmts  == [d \in 0 .. 2 |-> CASE d = 0 -> {"HL"}
                                        [] d = 1 -> {"HL", "LH", "RAW"}
                                        [] d = 2 -> {"RAW"}]
MCNeededHwParams == [d \in 0 .. 2 |-> IF d = 1 THEN {"gpio"} ELSE {}]

MCHwArgs       == {1, 2, 3}
MCProtoArgs    == {-1, 0, 1}
MCCommandArgs  == {-1, 1, 2}
MCCodeArgs     == {1, 3}
MCNframeArgs   == {0, 2, 256}
MCAccuracyArgs == {90, 150}
MCGpioArgs     == {17}
==========================================================================
