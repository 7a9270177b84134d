---------------------------- MODULE He853Dongle ----------------------------
(***************************************************************************)
(* The dongle of He853 with the bytes of He853Reports in its registers:    *)
(* Content says what each frame is, so that what is transmitted can be     *)
(* read back.                                                              *)
(***************************************************************************)
EXTENDS He853, He853Reports

CONSTANT Content    \* frame -> [timings, bits, bit_count]

(***************************************************************************)
(* A frame the tables and the registers have room for: each duration in    *)
(* use has a code, those of bits one of eight bits, and the low times tell *)
(* a 0 from a 1.  So it is with the five protocols the dongle is made for. *)
(***************************************************************************)
Coded(pair) ==
    /\ pair.h > 0 => CodeOf(htimes, pair.h) > 0
    /\ pair.l > 0 => CodeOf(ltimes, pair.l) > 0

CodedInByte(pair) ==
    Coded(pair) /\ CodeOf(htimes, pair.h) <= UINT8_MAX /\ CodeOf(ltimes, pair.l) <= UINT8_MAX

Supported(f) ==
    /\ Coded(f.timings.start) /\ Coded(f.timings.end)
    /\ CodedInByte(f.timings.bit[1]) /\ CodedInByte(f.timings.bit[2])
    /\ CodeOf(ltimes, f.timings.bit[1].l) # CodeOf(ltimes, f.timings.bit[2].l)
    /\ f.bit_count \in 0 .. HE853_DATA_BITS

ASSUME ContentAssumption == \A f \in Acceptable : Supported(Content[f])

(***************************************************************************)
(* The bytes in the registers when the dongle transmits, read as it reads  *)
(* them, are the timings, the bits and the counts of the frame asked for:  *)
(* no duration is missing in the tables, cut to eight bits, or without the *)
(* high time it depends on (he853.c:140-306).                              *)
(***************************************************************************)
Written(snapshot) == [r \in Registers |-> Report(Content[snapshot[r]])[r]]

DongleUnderstands ==
    ~ gaveUp => \A n \in 1 .. Len(executed) : Understands(Written(executed[n]), Content[frame])
=============================================================================
