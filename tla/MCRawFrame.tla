----------------------------- MODULE MCRawFrame -----------------------------
(***************************************************************************)
(* Frames of the eight protocols that are not RAW, as their encoders make  *)
(* them, converted and then played, or printed for the ook-gpio module.    *)
(***************************************************************************)
EXTENDS Alsa, Protocols, OokGpioText

Ask(protocol, remote, device, command) ==
    [protocol |-> protocol, remote |-> remote, device |-> device, command |-> command,
     rolling_code |-> 0]

HLProtocols == DOMAIN protocol_drivers \ {"somfy"}

MCTimings == {protocol_drivers[p].timings : p \in HLProtocols}

MCSourceFrames == [c \in MCTimings |->
    LET p == CHOOSE q \in HLProtocols : protocol_drivers[q].timings = c
    IN  {FormatCmd(Ask(p, 0, 0, "ON")), FormatCmd(Ask(p, 23, 1, "ON")),
         FormatCmd(Ask(p, protocol_drivers[p].remote_code_max,
                       protocol_drivers[p].device_code_max, "ON"))}]

MCAccuracies == 0 .. 104 \cup {150, 200, 255}
MCRates == {441, 480, 960}

(***************************************************************************)
(* The protocols suit the conversion and the drivers.  At the accuracies   *)
(* from 6 to 90, the default, the base time keeps all their durations (the *)
(* condition of SameShape).  And at every accuracy and rate no frame is    *)
(* refused as too long, the text of it fits the string ook-gpio.c prints   *)
(* it to (whose size allows for three digits of length: frames of a        *)
(* thousand bits and more fit because they have small bytes), no bit is    *)
(* shorter than a sample, and the product of alsa.c:209 fits its 32 bits   *)
(* at every rate up to 192 kHz.                                            *)
(***************************************************************************)
GoodAccuracies == 6 .. 90

SuitsDrivers ==
    /\ Done => count <= BufferBits /\ TextFits(Signal(frame), count)
    /\ Done /\ accuracy \in GoodAccuracies => DurationsKept /\ BitsApart
    /\ sound \in {"converted", "configured", "played"} =>
          audio.samples_per_bit >= 1 /\ ProductFits(1920)
=============================================================================
