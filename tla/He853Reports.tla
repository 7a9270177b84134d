---------------------------- MODULE He853Reports ----------------------------
(***************************************************************************)
(* The bytes of the four reports he853_configure() fills the registers of  *)
(* the dongle with.  A frame is [timings, bits, bit_count]; its bits are   *)
(* whole bytes, of which the first bit_count bits count.                   *)
(***************************************************************************)
EXTENDS Integers, Sequences, Ook

HE853_DATA_BITS == 8 * 14

\* Measured codes of the durations in use, by tens of microseconds.
htimes == {<<0, 0>>, <<16, 37>>, <<22, 42>>, <<26, 45>>, <<40, 48>>, <<42, 51>>, <<70, 92>>,
           <<110, 118>>}
ltimes == {<<0, 0>>, <<16, 4>>, <<26, 9>>, <<32, 12>>, <<40, 31>>, <<42, 24>>, <<80, 60>>,
           <<110, 99>>, <<130, 104>>, <<268, 248>>, <<486, 480>>, <<744, 739>>, <<860, 858>>,
           <<900, 900>>, <<1040, 1040>>}

\* 0 for a duration that is not in the table.
CodeOf(table, usec) ==
    LET known == {entry \in table : entry[1] = usec \div 10}
    IN  IF known = {} THEN 0 ELSE (CHOOSE entry \in known : TRUE)[2]

CodesPlain(pair) ==     \* mutant: a low time alone is left alone
    Pair(CodeOf(htimes, pair.h), CodeOf(ltimes, pair.l))

\* "The HE853 dongle needs a positive H time in order to process the L time".
Codes(pair) ==
    LET h == CodeOf(htimes, pair.h)  l == CodeOf(ltimes, pair.l)
    IN  Pair(IF l # 0 /\ h = 0 THEN 1 ELSE h, l)

\* The casts to uint8_t: codes of markers take two bytes, those of bits are cut to one.
HighByte(code) == (code \div 256) % 256
LowByte(code)  == code % 256

DataBit(f, n) == IF n <= 8 * ((f.bit_count + 7) \div 8) THEN f.bits[n] ELSE 0

\* The seven bytes after the command of each report; those of data are shown as bits.
Report(f) ==
    LET start == Codes(f.timings.start)  bit0 == Codes(f.timings.bit[1])
        end   == Codes(f.timings.end)    bit1 == Codes(f.timings.bit[2])
    IN  [TIMING1 |-> <<HighByte(start.h), LowByte(start.h), HighByte(start.l), LowByte(start.l),
                       HighByte(end.h), LowByte(end.h), HighByte(end.l)>>,
         TIMING2 |-> <<LowByte(end.l), LowByte(bit0.h), LowByte(bit0.l), LowByte(bit1.h),
                       LowByte(bit1.l), LowByte(f.bit_count), f.timings.frame_count>>,
         DATA1   |-> [n \in 1 .. 56 |-> DataBit(f, n)],
         DATA2   |-> [n \in 1 .. 56 |-> DataBit(f, n + 56)]]

-----------------------------------------------------------------------------
(***************************************************************************)
(* What the dongle makes of its registers: the other direction, for the    *)
(* comparison with the frame.  Nothing below models code of rf-ctrl.       *)
(***************************************************************************)
Word(high, low) == high * 256 + low

Reading(registers) ==
    LET a == registers.TIMING1  b == registers.TIMING2
    IN  [start |-> Pair(Word(a[1], a[2]), Word(a[3], a[4])),
         end   |-> Pair(Word(a[5], a[6]), Word(a[7], b[1])),
         bit0  |-> Pair(b[2], b[3]), bit1 |-> Pair(b[4], b[5]),
         bit_count |-> b[6], frame_count |-> b[7]]

BitRead(registers, n) == IF n <= 56 THEN registers.DATA1[n] ELSE registers.DATA2[n - 56]

\* A marker or bit: no time of it gets lost, and the dongle gets to its low time.
Heeds(codes, pair) ==
    /\ pair.h > 0 => codes.h = CodeOf(htimes, pair.h) /\ codes.h > 0
    /\ pair.l > 0 => codes.l = CodeOf(ltimes, pair.l) /\ codes.l > 0 /\ codes.h > 0

Understands(registers, f) ==
    LET r == Reading(registers)  t == f.timings
    IN  /\ Heeds(r.start, t.start) /\ Heeds(r.end, t.end)
        /\ Heeds(r.bit0, t.bit[1]) /\ Heeds(r.bit1, t.bit[2])
        /\ r.bit0 # r.bit1
        /\ r.bit_count = f.bit_count /\ r.frame_count = t.frame_count
        /\ \A n \in 1 .. f.bit_count : BitRead(registers, n) = f.bits[n]
=============================================================================
