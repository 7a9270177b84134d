------------------------------ MODULE RawFrame ------------------------------
(***************************************************************************)
(* The conversion of an HL or LH frame to RAW, which send_cmd() makes for  *)
(* drivers that do not know the format or by -R: find_best_base_time()     *)
(* (rf-ctrl.c) looks for a period all durations are about multiples of,    *)
(* and raw_generate_hl_frame() (raw.c) writes each level for as many       *)
(* periods as it lasts.                                                    *)
(***************************************************************************)
EXTENDS Naturals, Sequences, SequencesExt, FiniteSets, FiniteSetsExt, Ook

CONSTANTS
    Timings,        \* the timing configurations of the protocols
    SourceFrames,   \* timing configuration -> frames to convert: [bits, bit_count]
    Accuracies,     \* values of raw_fallback_accuracy
    BufferBits      \* size of the destination, in bits

\* Bits come in bytes.
SourceFrame(f) ==
    /\ f.bits \in Seq({0, 1}) /\ f.bit_count \in 0 .. Len(f.bits)
    /\ Len(f.bits) % 8 = 0

ASSUME RawAssumption ==
    /\ Accuracies \subseteq Counts
    /\ BufferBits \in Times
    /\ Timings \subseteq TimingConfigs
    /\ \A c \in Timings : c.bit_fmt \in {"HL", "LH"} /\ c.bit[2].l > 0
    /\ \A c \in Timings : \A f \in SourceFrames[c] : SourceFrame(f)

VARIABLES
    config, source, accuracy,   \* the arguments
    stage,      \* "handed" once a driver has taken the frame over
    base_time,
    len,        \* durations in periods: [start, end, bit] as in config
    estimate,   \* the length computed first, checked against the buffer
    frame,      \* the RAW frame, as runs of bits
    count       \* the length written; -1, passed on as 65535, after "buffer to small"

vars == <<config, source, accuracy, stage, base_time, len, estimate, frame, count>>
args == <<config, source, accuracy>>

NoLen == [start |-> Pair(0, 0), end |-> Pair(0, 0), bit |-> <<Pair(0, 0), Pair(0, 0)>>]

Init ==
    /\ config \in Timings
    /\ source \in SourceFrames[config]
    /\ accuracy \in Accuracies
    /\ stage = "base"
    /\ base_time = 0 /\ len = NoLen /\ estimate = 0 /\ frame = << >> /\ count = 0

-----------------------------------------------------------------------------
(***************************************************************************)
(* find_best_base_time(): Euclid's algorithm on the eight durations, where *)
(* a remainder within the allowed error counts as zero.                    *)
(***************************************************************************)
Gcd(x, y, error) ==
    LET g[p \in Nat \X Nat] == IF p[1] <= error THEN p[2] ELSE g[<<p[2] % p[1], p[1]>>]
    IN  g[<<x, y>>]

Durations(c) == {c.start.h, c.start.l, c.end.h, c.end.l,
                 c.bit[1].h, c.bit[1].l, c.bit[2].h, c.bit[2].l}
Shortest(c) == Min(Durations(c) \ {0})

\* A uint16_t; with an accuracy over 100 the product is negative.
AllowedErrorOfLongest(c, acc) ==    \* mutant: of the longest duration
    IF acc <= 100 THEN (Max(Durations(c)) * (100 - acc)) \div 100
    ELSE (UINT16_MAX + 1 - (Max(Durations(c)) * (acc - 100)) \div 100) % (UINT16_MAX + 1)
AllowedError(c, acc) ==
    IF acc <= 100 THEN (Shortest(c) * (100 - acc)) \div 100
    ELSE (UINT16_MAX + 1 - (Shortest(c) * (acc - 100)) \div 100) % (UINT16_MAX + 1)

BaseTimeOfBits(c, error) ==         \* mutant: the markers are left out
    Gcd(Gcd(c.bit[1].h, c.bit[1].l, error), Gcd(c.bit[2].h, c.bit[2].l, error), error)

BaseTimeOfMarkers(c, error) ==      \* mutant: only the markers are
    Gcd(Gcd(c.start.h, c.start.l, error), Gcd(c.end.h, c.end.l, error), error)

BaseTime(c, error) ==
    Gcd(Gcd(Gcd(c.start.h, c.start.l, error), Gcd(c.end.h, c.end.l, error), error),
        Gcd(Gcd(c.bit[1].h, c.bit[1].l, error), Gcd(c.bit[2].h, c.bit[2].l, error), error),
        error)

FindBaseTime ==
    /\ stage = "base"
    /\ base_time' = BaseTime(config, AllowedError(config, accuracy))
    /\ stage' = "lengths"
    /\ UNCHANGED <<args, len, estimate, frame, count>>

(***************************************************************************)
(* Durations in periods: round() is given a quotient that the integer      *)
(* division has already truncated, and the result is stored in a uint8_t;  *)
(* what becomes of one over 255 is undefined, and up to the build.         *)
(***************************************************************************)
PeriodsUnbounded(time, build) == time \div base_time      \* mutant: wider than a uint8_t
Periods(time, build) ==
    LET n == time \div base_time
    IN  IF n <= UINT8_MAX THEN n
        ELSE IF build = "wraps" THEN n % (UINT8_MAX + 1) ELSE UINT8_MAX

PairPeriods(pair, build) == Pair(Periods(pair.h, build), Periods(pair.l, build))

Lengths ==
    /\ stage = "lengths"
    /\ base_time > 0
    /\ \E build \in {"wraps", "saturates"} :
          len' = [start |-> PairPeriods(config.start, build),
                  end   |-> PairPeriods(config.end, build),
                  bit   |-> [b \in 1 .. 2 |-> PairPeriods(config.bit[b], build)]]
    /\ stage' = "estimate"
    /\ UNCHANGED <<args, base_time, estimate, frame, count>>

(***************************************************************************)
(* The length of the frame, counting the ones from the low end of each     *)
(* byte although bits are stored from the high end: where the last byte is *)
(* only partly used, bits that are not sent are counted for some that are. *)
(***************************************************************************)
bits == SubSeq(source.bits, 1, source.bit_count)

CountedBitAt(n) == source.bits[IF n % 8 = 0 THEN n ELSE n + 1]      \* mutant: off by one
CountedBit(n) == source.bits[8 * ((n - 1) \div 8) + 8 - ((n - 1) % 8)]

Ones == Cardinality({n \in 1 .. source.bit_count : CountedBit(n) = 1})

Total(pair) == pair.h + pair.l
FrameLength(ones) == Total(len.start) + Total(len.end)
                       + Total(len.bit[1]) * (Len(bits) - ones) + Total(len.bit[2]) * ones

TooLong(length) == length > BufferBits

Estimate ==
    /\ stage = "estimate"
    /\ estimate' = FrameLength(Ones)
    /\ \/ TooLong(estimate') /\ count' = UINT16_MAX /\ stage' = "done"
       \/ ~ TooLong(estimate') /\ stage' = "write" /\ UNCHANGED count
    /\ UNCHANGED <<args, base_time, len, frame>>

(***************************************************************************)
(* raw_write_edge() and raw_write_bits(): the frame, as runs of equal bits *)
(* written one after the other.                                            *)
(***************************************************************************)
WriteEdgeHL(pair) == <<Segment(1, pair.h), Segment(0, pair.l)>>    \* mutant: one order
WriteEdge(pair) ==
    IF config.bit_fmt = "HL" THEN <<Segment(1, pair.h), Segment(0, pair.l)>>
    ELSE <<Segment(0, pair.l), Segment(1, pair.h)>>

WriteBits == FlattenSeq([n \in 1 .. Len(bits) |-> WriteEdge(len.bit[bits[n] + 1])])

\* The times of the segments put together, half by half.
Length(segments) ==
    LET part[p \in (DOMAIN segments) \X (DOMAIN segments)] ==
            LET middle == (p[1] + p[2]) \div 2
            IN  IF p[1] >= p[2] THEN segments[p[1]].time
                ELSE part[<<p[1], middle>>] + part[<<middle + 1, p[2]>>]
    IN  part[<<1, Len(segments)>>]

Write ==
    /\ stage = "write"
    /\ frame' = WriteEdge(len.start) \o WriteBits \o WriteEdge(len.end)
    /\ count' = Length(frame') % (UINT16_MAX + 1)
    /\ stage' = "done"
    /\ UNCHANGED <<args, base_time, len, estimate>>

Next == FindBaseTime \/ Lengths \/ Estimate \/ Write

Spec == Init /\ [][Next]_vars

-----------------------------------------------------------------------------
Done == stage = "done"

TypeOK ==
    /\ stage \in {"base", "lengths", "estimate", "write", "done", "handed"}
    /\ base_time \in Times
    /\ {len.start, len.end, len.bit[1], len.bit[2]} \subseteq [h : Counts, l : Counts]
    /\ estimate \in Nat /\ count \in Times

(***************************************************************************)
(* raw_generate_hl_frame() is safe in two ways.  Whatever the accuracy,    *)
(* values over 100 from the configuration file included, it divides by a   *)
(* base time that is not zero.  And the length it checks against the       *)
(* buffer is the length it writes, for frames of whole bytes and for       *)
(* protocols whose two bits last equally long; the bits of other frames    *)
(* are counted from the wrong end of the last byte.                        *)
(***************************************************************************)
DivisorNotZero == stage # "base" => base_time > 0

WholeBytes  == source.bit_count % 8 = 0
EquallyLong == Total(len.bit[1]) = Total(len.bit[2])

LengthAsChecked ==
    Done /\ (WholeBytes \/ EquallyLong) =>
        count = IF estimate <= BufferBits THEN estimate ELSE UINT16_MAX

ConversionSafe == DivisorNotZero /\ LengthAsChecked

(***************************************************************************)
(* Without tolerance (an allowed error of 0) the base time is the greatest *)
(* common divisor of the durations in use.                                 *)
(***************************************************************************)
Divides(d, n) == n % d = 0
CommonDivisor(d, c) == \A t \in Durations(c) : Divides(d, t)

ExactIsGcd ==
    stage # "base" /\ AllowedError(config, accuracy) = 0 =>
        /\ CommonDivisor(base_time, config)
        /\ \A d \in base_time + 1 .. Shortest(config) : ~ CommonDivisor(d, config)

(***************************************************************************)
(* The frame has the shape of the frame it stands for: the same levels in  *)
(* the same order, none longer than intended, and each at most one period  *)
(* shorter per segment it joins (two).                                     *)
(***************************************************************************)
Join(r, s) ==           \* neighbours of the same level become one
    IF r # << >> /\ s # << >> /\ Last(r).level = Head(s).level
      THEN Front(r) \o <<Segment(Last(r).level, Last(r).time + Head(s).time)>> \o Tail(s)
      ELSE r \o s

Runs(segments) ==
    LET part[p \in (DOMAIN segments) \X (DOMAIN segments)] ==
            LET middle == (p[1] + p[2]) \div 2
            IN  IF p[1] >= p[2]
                  THEN IF segments[p[1]].time = 0 THEN << >> ELSE <<segments[p[1]]>>
                  ELSE Join(part[<<p[1], middle>>], part[<<middle + 1, p[2]>>])
    IN  IF segments = << >> THEN << >> ELSE part[<<1, Len(segments)>>]

ShapeKept ==
    LET raw   == Runs(frame)
        ideal == Runs(IdealFrame(config, bits))
    IN  /\ Len(raw) = Len(ideal)
        /\ \A n \in 1 .. Len(raw) :
              /\ raw[n].level = ideal[n].level
              /\ raw[n].time * base_time <= ideal[n].time
              /\ ideal[n].time < (raw[n].time + 2) * base_time

(***************************************************************************)
(* So it is whenever the frame fits the buffer and the base time is one    *)
(* that keeps the durations: none in use is shorter than a period, none    *)
(* overflows its byte, and a bit has both levels.  If the two bits are a   *)
(* period apart in one of them, a receiver can also tell them apart.       *)
(***************************************************************************)
DurationsKept ==
    /\ \A t \in Durations(config) \ {0} : base_time <= t /\ t \div base_time <= UINT8_MAX
    /\ 0 \notin {config.bit[1].h, config.bit[1].l, config.bit[2].h, config.bit[2].l}

Apart(t, u) == t >= u + base_time \/ u >= t + base_time

BitsApart ==
    Apart(config.bit[1].h, config.bit[2].h) \/ Apart(config.bit[1].l, config.bit[2].l)

SameShape ==
    Done /\ ~ TooLong(estimate) /\ DurationsKept =>
        ShapeKept /\ (BitsApart => len.bit[1] # len.bit[2])

(***************************************************************************)
(* "Accuracy of the timings in percent when HL frames are converted to     *)
(* RAW" (rf-ctrl.c:558): more accuracy than the default does not make the  *)
(* signal worse.  Does not hold: it makes the base time so short that the  *)
(* long markers of some protocols overflow the uint8_t they are counted    *)
(* in.                                                                     *)
(***************************************************************************)
HighAccuracyKeepsShape == Done /\ accuracy \in 90 .. 100 => ShapeKept
=============================================================================
