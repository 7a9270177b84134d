---------------------------- MODULE MCSysfsGpio ----------------------------
(***************************************************************************)
(* Times are a few units long and differ from each other; one of them is   *)
(* zero in each kind of pair, as in the tables of the protocols.           *)
(***************************************************************************)
EXTENDS SysfsGpio

HLConfig  == Timing("HL", Pair(0, 5), Pair(2, 0), Pair(1, 3), Pair(3, 1), 0, 2)
LHConfig  == Timing("LH", Pair(4, 0), Pair(0, 5), Pair(1, 2), Pair(2, 1), 0, 2)
RawConfig == Timing("RAW", Pair(0, 0), Pair(0, 0), Pair(0, 0), Pair(0, 0), 2, 3)

MCConfigs == {HLConfig, LHConfig, RawConfig}
\* All of one and two bits, and three in which a level lasts for two of them.
MCBits == [1 .. 1 -> {0, 1}] \cup [1 .. 2 -> {0, 1}] \cup {<<1, 1, 0>>, <<0, 1, 1>>}
============================================================================
