------------------------------ MODULE MCHe853 ------------------------------
(***************************************************************************)
(* The dongle's registers hold one of the frames of the five protocols it  *)
(* is for, or of one it refuses.                                           *)
(***************************************************************************)
EXTENDS He853Dongle, Protocols

CONSTANTS otax_frame, dio_frame, he_frame, idk_frame, auchan_frame, sumtech_frame

FrameOf(protocol, remote, device, command) ==
    LET f == FormatCmd([protocol |-> protocol, remote |-> remote, device |-> device,
                        command |-> command, rolling_code |-> 0])
    IN  [timings |-> protocol_drivers[protocol].timings, bits |-> f.bits, bit_count |-> f.bit_count]

MCContent ==
    otax_frame :> FrameOf("otax", 19, 7, "ON")
      @@ dio_frame :> FrameOf("dio", 23456789, 9, "OFF")
      @@ he_frame :> FrameOf("he", 0, 43981, "ON")
      @@ idk_frame :> FrameOf("idk", 0, 6, "ON")
      @@ auchan_frame :> FrameOf("auchan", 703710, 5, "ON")
      @@ sumtech_frame :> FrameOf("sumtech", 11259375, 77, "ON")
=============================================================================
