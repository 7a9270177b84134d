----------------------------- MODULE Protocols -----------------------------
(***************************************************************************)
(* The tables of the nine protocol drivers, as compiled: the timings, in   *)
(* microseconds, and the largest remote and device codes.  These only end  *)
(* the loops of a scan (rf-ctrl.c:842-851): a code given by an option goes *)
(* to format_cmd() as it is.                                               *)
(***************************************************************************)
EXTENDS Encoders

Driver(timings, remote_code_max, device_code_max) ==
    [timings |-> timings, remote_code_max |-> remote_code_max, device_code_max |-> device_code_max]

None == Pair(0, 0)

otax_driver ==
    Driver(Timing("HL", Pair(0, 4860), None, Pair(160, 420), Pair(420, 160), 0, 10), 31, 31)
dio_driver ==
    Driver(Timing("HL", Pair(260, 2680), Pair(260, 9000), Pair(260, 260), Pair(260, 1300), 0, 7),
           2^26 - 1, 15)
he_driver ==
    Driver(Timing("HL", Pair(260, 8600), None, Pair(260, 260), Pair(260, 1300), 0, 7), 0, 65535)
idk_driver ==
    Driver(Timing("HL", Pair(0, 7440), None, Pair(220, 800), Pair(700, 320), 0, 20), 0, 15)
sumtech_driver ==
    Driver(Timing("LH", Pair(4940, 9640), None, Pair(1200, 400), Pair(400, 1200), 0, 10),
           2^24 - 1, 127)
auchan_driver ==
    Driver(Timing("HL", Pair(0, 10400), None, Pair(400, 1100), Pair(1100, 400), 0, 10),
           2^20 - 1, 7)
auchan2_driver ==
    Driver(Timing("LH", None, None, Pair(1320, 680), Pair(680, 1320), 0, 10), 2^13 - 1, 3)
somfy_driver ==
    Driver(Timing("RAW", None, None, None, None, 625, 1), 255, 2^24 - 1)
blyss_driver ==
    Driver(Timing("LH", Pair(2400, 0), Pair(0, 24000), Pair(400, 800), Pair(800, 400), 0, 10),
           2^20 - 1, 15)

protocol_drivers ==
    [otax |-> otax_driver, dio |-> dio_driver, he |-> he_driver, idk |-> idk_driver,
     sumtech |-> sumtech_driver, auchan |-> auchan_driver, auchan2 |-> auchan2_driver,
     somfy |-> somfy_driver, blyss |-> blyss_driver]
=============================================================================
