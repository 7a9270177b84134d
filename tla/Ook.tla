-------------------------------- MODULE Ook --------------------------------
(***************************************************************************)
(* The signal rf-ctrl is to produce (README.md:9-15): a frame is a start   *)
(* marker, one High/Low pair per data bit and an end marker, repeated a    *)
(* number of times.  Each pair is High first (HL) or Low first (LH); a RAW *)
(* frame gives the level of each period of base_time.  This is the         *)
(* reference the drivers and the RAW conversion are compared with.         *)
(***************************************************************************)
EXTENDS Naturals, Sequences, SequencesExt

\* The fields of struct timing_config, as named in rf-ctrl.h.
Timing(fmt, start, end, bit0, bit1, base, count) ==
    [bit_fmt |-> fmt, start |-> start, end |-> end, bit |-> <<bit0, bit1>>,
     base_time |-> base, frame_count |-> count]

Pair(h, l) == [h |-> h, l |-> l]

UINT8_MAX  == 255
UINT16_MAX == 65535
Times   == 0 .. UINT16_MAX
Counts  == 0 .. UINT8_MAX
Pairs   == [h : Times, l : Times]
Formats == {"HL", "LH", "RAW"}
BothBits == [1 .. 2 -> Pairs]
TimingConfigs == [bit_fmt : Formats, start : Pairs, end : Pairs, bit : BothBits,
                  base_time : Times, frame_count : Counts]

\* A level kept for a time, and a High/Low pair in the order of the format.
Segment(level, time) == [level |-> level, time |-> time]
Edge(fmt, pair) ==
    LET high == Segment(1, pair.h)
        low  == Segment(0, pair.l)
    IN  IF fmt = "LH" THEN <<low, high>> ELSE <<high, low>>

Repeat(seq, times) == FlattenSeq([n \in 1 .. times |-> seq])

IdealFrame(c, bits) ==
    IF c.bit_fmt = "RAW"
      THEN [n \in 1 .. Len(bits) |-> Segment(bits[n], c.base_time)]
      ELSE Edge(c.bit_fmt, c.start)
             \o FlattenSeq([n \in 1 .. Len(bits) |-> Edge(c.bit_fmt, c.bit[bits[n] + 1])])
             \o Edge(c.bit_fmt, c.end)

IdealWave(c, bits) == Repeat(IdealFrame(c, bits), c.frame_count)

\* The level at every unit of time: what a receiver hears, however it was cut.
Signal(wave) == FlattenSeq([n \in 1 .. Len(wave) |->
                               [t \in 1 .. wave[n].time |-> wave[n].level]])
=============================================================================
