--------------------------- MODULE OokGpioProofs ---------------------------
(***************************************************************************)
(* Proofs about OokGpio, for any number of invocations and any commands:   *)
(* the invariant of the interleavings, how long frames and their texts     *)
(* are, and, protocol by protocol, that the encoders say what was meant.   *)
(***************************************************************************)
EXTENDS OokGpio, Lemmas, FiniteSetTheorems

(***************************************************************************)
(* The inductive invariant: from its formatting on a frame is that of the  *)
(* command, and an invocation about to write it finds its own timings,     *)
(* unless its write was lost or another one has written since.             *)
(***************************************************************************)
Shapes ==
    /\ cmd \in Commands
    /\ frame = [p \in Procs |-> frame[p]] /\ sent = [p \in Procs |-> sent[p]]
    /\ pc \in [Procs -> {"format", "timings", "frame", "done"}]
    /\ ret \in [Procs -> {0, -1}]
    /\ disturbed \subseteq Procs

TimingsInv == timings = NoTimings \/ \E p \in Procs : timings = TimingsText(Own(p))

FrameInv == \A p \in Procs :
    pc[p] \in {"timings", "frame"}
        => frame[p] = FormatCmd(cmd[p]) /\ frame[p].bit_count >= 0

OwnInv == \A p \in Procs : pc[p] = "frame" /\ p \notin disturbed => timings = TimingsText(Own(p))

IInv == Shapes /\ TimingsInv /\ FrameInv /\ OwnInv

-----------------------------------------------------------------------------
LEMMA InitIInv == Init => IInv
<1> SUFFICES ASSUME Init PROVE IInv
  OBVIOUS
<1>1. Shapes
  BY DEF Init, Shapes
<1>2. TimingsInv
  BY DEF Init, TimingsInv
<1>3. FrameInv
  BY DEF Init, FrameInv
<1>4. OwnInv
  BY DEF Init, OwnInv
<1> QED
  BY <1>1, <1>2, <1>3, <1>4 DEF IInv

LEMMA NextIInv == IInv /\ [Next]_vars => IInv'
<1> SUFFICES ASSUME IInv, [Next]_vars PROVE IInv'
  OBVIOUS
<1>0. \A q : Own(q)' = Own(q) \/ cmd' # cmd
  BY DEF Own
<1>1. ASSUME NEW p \in Procs, Format(p) PROVE IInv'
  <2> USE <1>1 DEF Format, Goto, Return, IInv
  <2>1. cmd' = cmd /\ timings' = timings /\ disturbed' = disturbed
    OBVIOUS
  <2>2. Shapes'
    BY DEF Shapes
  <2>3. TimingsInv'
    BY <1>0, <2>1 DEF TimingsInv
  <2>4. FrameInv'
    BY DEF FrameInv, Shapes
  <2>5. OwnInv'
    BY <1>0, <2>1 DEF OwnInv, Shapes
  <2> QED
    BY <2>2, <2>3, <2>4, <2>5
<1>2. ASSUME NEW p \in Procs, CannotOpen(p) PROVE IInv'
  <2> USE <1>2 DEF CannotOpen, Goto, Return, IInv
  <2>1. cmd' = cmd /\ timings' = timings /\ disturbed' = disturbed /\ frame' = frame
    OBVIOUS
  <2>2. Shapes'
    BY DEF Shapes
  <2>3. TimingsInv'
    BY <1>0, <2>1 DEF TimingsInv
  <2>4. FrameInv'
    BY DEF FrameInv, Shapes
  <2>5. OwnInv'
    BY <1>0, <2>1 DEF OwnInv, Shapes
  <2> QED
    BY <2>2, <2>3, <2>4, <2>5
<1>3. ASSUME NEW p \in Procs, SetTimings(p) PROVE IInv'
  <2> USE <1>3 DEF SetTimings, Goto, IInv, InProgress
  <2>1. cmd' = cmd /\ frame' = frame
    OBVIOUS
  <2>2. Shapes'
    BY DEF Shapes
  <2>3. TimingsInv'
    BY <1>0, <2>1 DEF TimingsInv
  <2>4. FrameInv'
    BY DEF FrameInv, Shapes
  <2>5. OwnInv'
    BY <1>0, <2>1 DEF OwnInv, Shapes
  <2> QED
    BY <2>2, <2>3, <2>4, <2>5
<1>4. ASSUME NEW p \in Procs, SendFrame(p) PROVE IInv'
  <2> USE <1>4 DEF SendFrame, Goto, Return, IInv
  <2>1. cmd' = cmd /\ timings' = timings /\ disturbed' = disturbed /\ frame' = frame
    OBVIOUS
  <2>2. Shapes'
    BY DEF Shapes
  <2>3. TimingsInv'
    BY <1>0, <2>1 DEF TimingsInv
  <2>4. FrameInv'
    BY DEF FrameInv, Shapes
  <2>5. OwnInv'
    BY <1>0, <2>1 DEF OwnInv, Shapes
  <2> QED
    BY <2>2, <2>3, <2>4, <2>5
<1>5. CASE UNCHANGED vars
  BY <1>5 DEF vars, IInv, Shapes, TimingsInv, FrameInv, OwnInv, Own
<1> QED
  BY <1>1, <1>2, <1>3, <1>4, <1>5 DEF Next

LEMMA Inductive == Spec => []IInv
  BY InitIInv, NextIInv, PTL DEF Spec

(***************************************************************************)
(* The kernel module only ever holds the timings of one of the protocols   *)
(* asked for, and only a command that was not refused gets to the driver,  *)
(* for any commands.                                                       *)
(***************************************************************************)
THEOREM TypeCorrectness == Spec => []TypeOK
<1>1. IInv => TypeOK
  <2> SUFFICES ASSUME IInv PROVE TypeOK
    OBVIOUS
  <2>1. \A p \in Procs : cmd[p].protocol \in DOMAIN protocol_drivers
    BY CommandsAssumption DEF IInv, Shapes
  <2>2. \A p \in Procs : pc[p] \in {"timings", "frame"} => frame[p].bit_count >= 0
    BY DEF IInv, FrameInv
  <2> QED
    BY <2>1, <2>2 DEF TypeOK, IInv, Shapes, TimingsInv
<1> QED
  BY <1>1, Inductive, PTL

-----------------------------------------------------------------------------
\* What is transmitted for an invocation is its frame, undisturbed with its timings.
LEMMA OwnTransmission ==
  ASSUME IInv, [Next]_vars, NEW p \in Procs, sent'[p] # sent[p]
  PROVE  /\ FormatCmd(cmd[p]).bit_count >= 0 /\ sent'[p].frame = FormatCmd(cmd[p])
         /\ p \notin disturbed => sent'[p].timings = TimingsText(Own(p))
<1>1. PICK q \in Procs : Format(q) \/ CannotOpen(q) \/ SetTimings(q) \/ SendFrame(q)
  BY DEF Next, vars
<1>2. SendFrame(q)
  BY <1>1 DEF Format, CannotOpen, SetTimings
<1>3. q = p
  BY <1>2 DEF SendFrame, IInv, Shapes
<1>4. sent'[p] = [timings |-> timings, frame |-> frame[p]] /\ pc[p] = "frame"
  BY <1>2, <1>3 DEF SendFrame, IInv, Shapes
<1> QED
  BY <1>4 DEF IInv, FrameInv, OwnInv

-----------------------------------------------------------------------------
(***************************************************************************)
(* The lengths of the frames, protocol by protocol.                        *)
(***************************************************************************)
LEMMA ProtocolNames ==
  DOMAIN protocol_drivers
      = {"otax", "dio", "he", "idk", "sumtech", "auchan", "auchan2", "somfy", "blyss"}
  BY DEF protocol_drivers

LEMMA FrameFields == ASSUME NEW b, NEW n PROVE Frame(b, n).bits = b /\ Frame(b, n).bit_count = n
  BY DEF Frame

LEMMA BitCounts ==
  ASSUME NEW r, NEW d, NEW raw, NEW k
  PROVE  /\ Otax(r, d, raw).bit_count = 25 /\ Dio(r, d, raw).bit_count = 64
         /\ HomeEasy(d, raw).bit_count = 57 /\ Idk(d).bit_count = 25
         /\ Sumtech(r, d, raw).bit_count = 32 /\ Auchan(r, d, raw).bit_count = 25
         /\ Auchan2(r, d, raw).bit_count = 21 /\ Blyss(r, d, raw, k).bit_count = 52
<1>1. Otax(r, d, raw).bit_count = 25
  BY FrameFields DEF Otax
<1>2. Dio(r, d, raw).bit_count = 64
  BY FrameFields DEF Dio
<1>3. HomeEasy(d, raw).bit_count = 57
  BY FrameFields DEF HomeEasy
<1>4. Idk(d).bit_count = 25
  BY FrameFields DEF Idk
<1>5. Sumtech(r, d, raw).bit_count = 32
  BY FrameFields DEF Sumtech
<1>6. Auchan(r, d, raw).bit_count = 25
  BY FrameFields DEF Auchan
<1>7. Auchan2(r, d, raw).bit_count = 21
  <2>1. \E b : Auchan2(r, d, raw) = Frame(b, 21)
    BY Zenon DEF Auchan2
  <2> QED
    BY <2>1, FrameFields
<1>8. Blyss(r, d, raw, k).bit_count = 52
  BY FrameFields DEF Blyss
<1> QED
  BY <1>1, <1>2, <1>3, <1>4, <1>5, <1>6, <1>7, <1>8

LEMMA SomfyCount ==
  ASSUME NEW r, NEW d, NEW raw, NEW c
  PROVE  Somfy(r, d, raw, c).bit_count = 2238
  BY FrameFields DEF Somfy, SOMFY_FRAME_COUNT

\* The encoder of a protocol, of which FormatCmd makes the frame.
LEMMA Encoded ==
  ASSUME NEW c, c.protocol \in DOMAIN protocol_drivers
  PROVE  \/ FormatCmd(c) = Refused
         \/ \E r, d, raw : \/ FormatCmd(c) = Otax(r, d, raw)
                           \/ FormatCmd(c) = Dio(r, d, raw)
                           \/ FormatCmd(c) = HomeEasy(d, raw)
                           \/ FormatCmd(c) = Idk(d)
                           \/ FormatCmd(c) = Sumtech(r, d, raw)
                           \/ FormatCmd(c) = Auchan(r, d, raw)
                           \/ FormatCmd(c) = Auchan2(r, d, raw)
                           \/ FormatCmd(c) = Somfy(r, d, raw, c.rolling_code)
                           \/ FormatCmd(c) = Blyss(r, d, raw, c.rolling_code)
<1>1. c.protocol \in {"otax", "dio", "he", "idk", "sumtech", "auchan", "auchan2", "somfy", "blyss"}
  BY ProtocolNames
<1>2. CASE c.protocol = "otax"
  BY <1>2 DEF FormatCmd
<1>3. CASE c.protocol = "dio"
  BY <1>3 DEF FormatCmd
<1>4. CASE c.protocol = "he"
  BY <1>4 DEF FormatCmd
<1>5. CASE c.protocol = "idk"
  BY <1>5 DEF FormatCmd
<1>6. CASE c.protocol = "sumtech"
  BY <1>6 DEF FormatCmd
<1>7. CASE c.protocol = "auchan"
  BY <1>7 DEF FormatCmd
<1>8. CASE c.protocol = "auchan2"
  BY <1>8 DEF FormatCmd
<1>9. CASE c.protocol = "somfy"
  BY <1>9 DEF FormatCmd
<1>10. CASE c.protocol = "blyss"
  BY <1>10 DEF FormatCmd
<1> QED
  BY <1>1, <1>2, <1>3, <1>4, <1>5, <1>6, <1>7, <1>8, <1>9, <1>10

-----------------------------------------------------------------------------
(***************************************************************************)
(* The size of the text of a frame.                                        *)
(***************************************************************************)
LEMMA BytesFacts ==
  ASSUME NEW k \in Nat
  PROVE  ByteCount(k) \in Nat
  BY DEF ByteCount

LEMMA DigitSet == IsFiniteSet({0, 10, 100}) /\ Cardinality({0, 10, 100}) = 3
<1>1. IsFiniteSet({0, 10}) /\ Cardinality({0, 10}) = 2
  <2>1. IsFiniteSet({0}) /\ Cardinality({0}) = 1
    BY FS_Singleton
  <2>2. {0} \cup {10} = {0, 10} /\ 10 \notin {0}
    OBVIOUS
  <2> QED
    BY <2>1, <2>2, FS_AddElement
<1>2. {0, 10} \cup {100} = {0, 10, 100} /\ 100 \notin {0, 10}
  OBVIOUS
<1> QED
  BY <1>1, <1>2, FS_AddElement

LEMMA DigitsBound ==
  ASSUME NEW k \in Nat
  PROVE  /\ Digits(k) \in Nat
         /\ k < 1000 => Digits(k) <= 3
         /\ k < 10000 => Digits(k) <= 4
<1> DEFINE d3 == {0, 10, 100}
           d4 == {0, 10, 100, 1000}
           d5 == {0, 10, 100, 1000, 10000}
           reached == {d \in d5 : d <= k}
<1>1. d3 \cup {1000} = d4 /\ 1000 \notin d3 /\ d4 \cup {10000} = d5
  OBVIOUS
<1>2. reached \subseteq d5 /\ (k < 1000 => reached \subseteq d3) /\ (k < 10000 => reached \subseteq d4)
  OBVIOUS
<1>3. Digits(k) = Cardinality(reached)
  BY DEF Digits
<1>4. IsFiniteSet(d3) /\ Cardinality(d3) = 3
  BY DigitSet
<1> HIDE DEF reached, d3, d4, d5
<1>5. IsFiniteSet(d4) /\ Cardinality(d4) = 4
  BY <1>1, <1>4, FS_AddElement
<1>6. IsFiniteSet(d5)
  BY <1>1, <1>5, FS_AddElement
<1>7. IsFiniteSet(reached) /\ Cardinality(reached) \in Nat
  BY <1>2, <1>6, FS_Subset, FS_CardinalityType
<1>8. k < 1000 => Cardinality(reached) <= 3
  BY <1>2, <1>4, FS_Subset
<1>9. k < 10000 => Cardinality(reached) <= 4
  BY <1>2, <1>5, FS_Subset
<1> QED
  BY <1>3, <1>7, <1>8, <1>9

Bytes(k) == 1 .. ByteCount(k)
Printed(bits, k, padding) ==
    {c \in Bytes(k) \X {0, 10, 100} : ByteOf(bits, c[1], padding) >= c[2]}

LEMMA AllDigits ==
  ASSUME NEW k \in Nat
  PROVE  /\ Cardinality(Bytes(k)) = ByteCount(k)
         /\ IsFiniteSet(Bytes(k) \X {0, 10, 100})
         /\ Cardinality(Bytes(k) \X {0, 10, 100}) = ByteCount(k) * 3
<1>1. IsFiniteSet(Bytes(k)) /\ Cardinality(Bytes(k)) = ByteCount(k)
  BY BytesFacts, FS_Interval DEF Bytes
<1>2. IsFiniteSet(Bytes(k) \X {0, 10, 100})
      /\ Cardinality(Bytes(k) \X {0, 10, 100}) = Cardinality(Bytes(k)) * Cardinality({0, 10, 100})
  BY <1>1, DigitSet, FS_Product
<1> QED
  BY <1>1, <1>2, DigitSet

\* Each byte takes three characters at most; one digit less if one of them is short.
LEMMA PrintedBound ==
  ASSUME NEW k \in Nat, NEW bits, NEW padding
  PROVE  /\ Cardinality(Printed(bits, k, padding)) \in Nat
         /\ Cardinality(Printed(bits, k, padding)) <= ByteCount(k) * 3
         /\ \A n \in Bytes(k) : ~ (ByteOf(bits, n, padding) >= 100)
               => Cardinality(Printed(bits, k, padding)) <= ByteCount(k) * 3 - 1
<1> DEFINE all == Bytes(k) \X {0, 10, 100}
           printed == Printed(bits, k, padding)
<1>1. IsFiniteSet(all) /\ Cardinality(all) = ByteCount(k) * 3
  BY AllDigits
<1>2. printed \subseteq all
  BY DEF Printed
<1>3. ASSUME NEW n \in Bytes(k), ~ (ByteOf(bits, n, padding) >= 100)
      PROVE  Cardinality(printed) <= ByteCount(k) * 3 - 1
  <2> DEFINE c == <<n, 100>>
  <2>1. c \in all /\ c[1] = n /\ c[2] = 100
    OBVIOUS
  <2>2. c \notin printed
    <3> HIDE DEF c
    <3> QED
      BY <1>3, <2>1 DEF Printed
  <2> HIDE DEF c, all, printed
  <2>3. printed \subseteq all \ {c}
    BY <1>2, <2>2
  <2>4. IsFiniteSet(all \ {c}) /\ Cardinality(all \ {c}) = Cardinality(all) - 1
    BY <1>1, <2>1, FS_RemoveElement
  <2>5. Cardinality(printed) <= Cardinality(all \ {c})
    BY <2>3, <2>4, FS_Subset
  <2> QED
    BY <1>1, <2>4, <2>5
<1> HIDE DEF all, printed
<1>4. Cardinality(printed) \in Nat /\ Cardinality(printed) <= Cardinality(all)
  BY <1>1, <1>2, FS_Subset, FS_CardinalityType
<1> QED
  BY <1>1, <1>3, <1>4 DEF printed

LEMMA TextSizeIs ==
  ASSUME NEW bits, NEW k \in Nat, NEW padding
  PROVE  TextSize(bits, k, padding) = Digits(k) + ByteCount(k) + Cardinality(Printed(bits, k, padding)) + 1
  BY AllDigits DEF TextSize, Printed, Bytes

(***************************************************************************)
(* The text of a frame of less than a thousand bits fits, whatever the     *)
(* bits; that of a longer one if a byte has less than three digits.        *)
(***************************************************************************)
LEMMA ShortTextFits ==
  ASSUME NEW bits, NEW k \in Nat, k < 1000
  PROVE  TextFits(bits, k)
<1>1. ASSUME NEW padding \in {0, 1} PROVE TextSize(bits, k, padding) <= StrSize(k)
  <2> DEFINE c == Cardinality(Printed(bits, k, padding))
  <2>1. c \in Nat /\ c <= ByteCount(k) * 3
    BY PrintedBound
  <2>2. TextSize(bits, k, padding) = Digits(k) + ByteCount(k) + c + 1
    BY TextSizeIs
  <2> HIDE DEF c
  <2> QED
    BY <2>1, <2>2, DigitsBound, BytesFacts DEF StrSize
<1> QED
  BY <1>1 DEF TextFits

LEMMA LongTextFits ==
  ASSUME NEW bits, NEW k \in Nat, k < 10000, NEW n \in Bytes(k),
         \A padding \in {0, 1} : ~ (ByteOf(bits, n, padding) >= 100)
  PROVE  TextFits(bits, k)
<1>1. ASSUME NEW padding \in {0, 1} PROVE TextSize(bits, k, padding) <= StrSize(k)
  <2> DEFINE c == Cardinality(Printed(bits, k, padding))
  <2>1. c \in Nat /\ c <= ByteCount(k) * 3 - 1
    BY PrintedBound
  <2>2. TextSize(bits, k, padding) = Digits(k) + ByteCount(k) + c + 1
    BY TextSizeIs
  <2> HIDE DEF c
  <2> QED
    BY <2>1, <2>2, DigitsBound, BytesFacts DEF StrSize
<1> QED
  BY <1>1 DEF TextFits

-----------------------------------------------------------------------------
(***************************************************************************)
(* The frame of Somfy, of more than a thousand bits, begins with a pulse   *)
(* and a gap, whatever the codes.                                          *)
(***************************************************************************)
Strings == Seq({0, 1})

\* The third byte of these bits is zero, as it is in the long gap after Somfy's wake-up pulse.
Quiet(s) == s \in Strings /\ Len(s) >= 24 /\ \A k \in 17 .. 24 : s[k] = 0

LEMMA StringsConcat ==
  ASSUME NEW a \in Strings, NEW b \in Strings
  PROVE  a \o b \in Strings /\ Len(a \o b) = Len(a) + Len(b)
  BY ConcatProperties DEF Strings

LEMMA QuietByte ==
  ASSUME NEW s, Quiet(s), NEW padding
  PROVE  ~ (ByteOf(s, 3, padding) >= 100)
<1>1. \A k \in 1 .. 8 : 8 * (3 - 1) + k <= Len(s) /\ s[8 * (3 - 1) + k] = 0
  BY DEF Quiet, Strings
<1>2. ByteOf(s, 3, padding) = 0
  BY <1>1 DEF ByteOf
<1> QED
  BY <1>2

LEMMA QuietConcat ==
  ASSUME NEW a, Quiet(a), NEW b \in Strings
  PROVE  Quiet(a \o b)
  BY DEF Quiet, Strings

LEMMA FlattenQuiet ==
  ASSUME NEW seqs \in Seq(Strings), Len(seqs) >= 1, Quiet(seqs[1])
  PROVE  Quiet(FlattenSeq(seqs))
<1> DEFINE len == Len(seqs)
<1>1. PICK f \in [0 .. len -> Strings] : Flattens(f, seqs, len)
  BY FlattenSteps, SeqMonoid DEF Strings
<1>2. len \in Nat /\ len >= 1 /\ \A n \in 1 .. len : seqs[n] \in Strings
  OBVIOUS
<1> DEFINE T == {n \in 0 .. len : n # 0 => Quiet(f[n])}
<1>3. 0 \in T
  BY <1>2
<1>4. ASSUME NEW n \in 0 .. len - 1, n \in T PROVE n + 1 \in T
  <2>1. f[n + 1] = f[n] \o seqs[n + 1] /\ seqs[n + 1] \in Strings /\ f[0] = << >>
    BY <1>1, <1>2 DEF Flattens, Concatenates
  <2>2. CASE n = 0
    <3>1. f[1] = << >> \o seqs[1] /\ seqs[1] \in Strings
      BY <2>1, <2>2
    <3>2. f[1] = seqs[1]
      BY <3>1 DEF Strings
    <3> QED
      BY <1>2, <2>2, <3>2
  <2>3. CASE n # 0
    <3>1. Quiet(f[n])
      BY <1>4, <2>3
    <3>2. Quiet(f[n + 1])
      BY <2>1, <3>1, QuietConcat
    <3> QED
      BY <1>2, <3>2
  <2> QED
    BY <2>2, <2>3
<1> HIDE DEF T
<1>5. 0 .. len \subseteq T
  BY <1>2, <1>3, <1>4, InductionTo
<1>6. len \in T /\ len # 0
  BY <1>2, <1>5
<1> QED
  BY <1>1, <1>6 DEF T, Flattens

LEMMA OneSignal ==
  ASSUME NEW s \in SegmentSet
  PROVE  Signal(<<s>>) = [t \in 1 .. s.time |-> s.level]
<1> DEFINE X == Strings
           w == <<s>>
<1>1. w \in Seq(SegmentSet) /\ Len(w) = 1 /\ w[1] = s
  OBVIOUS
<1>2. Levels[s] \in X /\ Levels[s] = [t \in 1 .. s.time |-> s.level]
  BY LevelsType DEF MapsTo, Levels, Strings
<1>3. Mapped(Levels, w) = <<Levels[s]>>
  <2>1. [n \in 1 .. 1 |-> Levels[w[n]]] = <<Levels[w[1]]>>
    OBVIOUS
  <2> HIDE DEF w
  <2> QED
    BY <1>1, <2>1 DEF Mapped
<1>4. Monoid(X)
  BY SeqMonoid DEF Strings
<1> HIDE DEF X, w
<1>5. FlattenSeq(<<Levels[s]>>) = Levels[s]
  BY <1>2, <1>4, FlattenSingle
<1> QED
  BY <1>1, <1>2, <1>3, <1>5, SignalIs DEF w

LEMMA HighLow ==
  ASSUME NEW n \in Nat
  PROVE  High(n) \in SegmentSet /\ Low(n) \in SegmentSet
  BY DEF High, Low, Segment, SegmentSet

LEMMA TwoSegments ==
  ASSUME NEW m \in Nat, NEW n \in Nat
  PROVE  <<High(m), Low(n)>> \in Seq(SegmentSet) /\ <<Low(m), High(n)>> \in Seq(SegmentSet)
         /\ <<Low(n)>> \in Seq(SegmentSet)
  BY HighLow

LEMMA WakeUpQuiet == Quiet(Signal(<<High(16), Low(12)>>))
<1> DEFINE a == [t \in 1 .. 16 |-> 1]
           b == [t \in 1 .. 12 |-> 0]
<1>1. High(16) \in SegmentSet /\ Low(12) \in SegmentSet
  BY HighLow
<1>2. Signal(<<High(16)>>) = a /\ Signal(<<Low(12)>>) = b
  BY <1>1, OneSignal DEF High, Low, Segment
<1>3. Signal(<<High(16), Low(12)>>) = Signal(<<High(16)>>) \o Signal(<<Low(12)>>)
  <2>1. PICK x : x = High(16)
    OBVIOUS
  <2>2. PICK y : y = Low(12)
    OBVIOUS
  <2>3. x \in SegmentSet /\ y \in SegmentSet
    BY <1>1, <2>1, <2>2
  <2>4. <<x>> \in Seq(SegmentSet) /\ <<y>> \in Seq(SegmentSet) /\ <<x, y>> = <<x>> \o <<y>>
    BY <2>3, TwoConcat
  <2>5. Signal(<<x>> \o <<y>>) = Signal(<<x>>) \o Signal(<<y>>)
    BY <2>4, SignalConcat
  <2> QED
    BY <2>1, <2>2, <2>4, <2>5
<1>4. a \in Strings /\ b \in Strings /\ Len(a) = 16 /\ Len(b) = 12
      /\ \A k \in 1 .. 12 : b[k] = 0
  BY DEF Strings
<1> HIDE DEF a, b
<1>5. Quiet(a \o b)
  <2>1. a \o b \in Strings /\ Len(a \o b) >= 24
    <3>1. a \in Strings /\ b \in Strings
      BY <1>4
    <3>2. a \o b \in Strings /\ Len(a \o b) = Len(a) + Len(b)
      BY <3>1, StringsConcat
    <3> QED
      BY <1>4, <3>2
  <2>2. ASSUME NEW k \in 17 .. 24 PROVE (a \o b)[k] = 0
    <3>1. k \in 1 .. Len(a) + Len(b) /\ ~ (k <= Len(a)) /\ k - Len(a) \in 1 .. 12
      BY <1>4
    <3>2. (a \o b)[k] = b[k - Len(a)]
      BY <1>4, <3>1, ConcatProperties DEF Strings
    <3> QED
      BY <1>4, <3>1, <3>2
  <2> QED
    BY <2>1, <2>2 DEF Quiet
<1> QED
  BY <1>2, <1>3, <1>5

LEMMA PulsesType ==
  ASSUME NEW n \in Nat
  PROVE  WritePulses(n) \in Seq(SegmentSet)
<1> DEFINE X == Seq(SegmentSet)
           x == <<High(4), Low(4)>>
           s == [i \in 1 .. n |-> x]
<1>1. x \in X /\ Monoid(X)
  BY TwoSegments, SeqMonoid
<1>2. <<High(8), Low(1)>> \in X
  BY TwoSegments
<1> HIDE DEF X, x
<1>3. s \in Seq(X)
  BY <1>1, Constantly
<1>4. Repeat(x, n) \in X
  BY <1>1, <1>3, FlattenType DEF Repeat
<1>5. Repeat(x, n) \o <<High(8), Low(1)>> \in X
  BY <1>1, <1>2, <1>4 DEF Monoid
<1> QED
  BY <1>5 DEF WritePulses, x, X

LEMMA DataType ==
  ASSUME NEW bits, Len(bits) \in Nat
  PROVE  WriteData(bits) \in Seq(SegmentSet)
<1> DEFINE X == Seq(SegmentSet)
           s == [n \in 1 .. Len(bits) |->
                    IF bits[n] = 1 THEN <<High(1), Low(1)>> ELSE <<Low(1), High(1)>>]
<1>1. <<High(1), Low(1)>> \in X /\ <<Low(1), High(1)>> \in X /\ Monoid(X)
  BY TwoSegments, SeqMonoid
<1> HIDE DEF X
<1>2. s \in Seq(X)
  BY <1>1
<1>3. FlattenSeq(s) \in X
  BY <1>1, <1>2, FlattenType
<1> QED
  BY <1>3 DEF WriteData, X

LEMMA MixedType ==
  ASSUME NEW d1, NEW d2, NEW d3, NEW d4, NEW d5, NEW d6, NEW d7
  PROVE  Len(Mixed(<<d1, d2, d3, d4, d5, d6, d7>>)) \in Nat
<1> DEFINE data == <<d1, d2, d3, d4, d5, d6, d7>>
           IsMixed(f) == f = [n \in 1 .. Len(data) |-> IF n = 1 THEN data[1] ELSE Xor(data[n], f[n - 1])]
           m2 == Xor(d2, d1)
           m3 == Xor(d3, m2)
           m4 == Xor(d4, m3)
           m5 == Xor(d5, m4)
           m6 == Xor(d6, m5)
           m7 == Xor(d7, m6)
           f == <<d1, m2, m3, m4, m5, m6, m7>>
<1>1. Len(data) = 7 /\ data[1] = d1 /\ data[2] = d2 /\ data[3] = d3 /\ data[4] = d4 /\ data[5] = d5
        /\ data[6] = d6 /\ data[7] = d7
  OBVIOUS
<1>2. f = [n \in 1 .. 7 |-> f[n]] /\ f[1] = d1 /\ f[2] = Xor(d2, f[1]) /\ f[3] = Xor(d3, f[2])
        /\ f[4] = Xor(d4, f[3]) /\ f[5] = Xor(d5, f[4]) /\ f[6] = Xor(d6, f[5]) /\ f[7] = Xor(d7, f[6])
  OBVIOUS
<1>3. Mixed(data) = CHOOSE g : IsMixed(g)
  BY DEF Mixed
<1> HIDE DEF data, f
<1>4. ASSUME NEW n \in 1 .. 7 PROVE f[n] = IF n = 1 THEN data[1] ELSE Xor(data[n], f[n - 1])
  BY <1>1, <1>2
<1>5. IsMixed(f)
  BY <1>1, <1>2, <1>4
<1>6. IsMixed(Mixed(data))
  BY <1>3, <1>5
<1>7. Len(Mixed(data)) = 7
  BY <1>1, <1>6
<1> QED
  BY <1>7 DEF data

LEMMA BitsLen ==
  ASSUME NEW bytes, Len(bytes) \in Nat
  PROVE  Len(BitsOf(bytes)) \in Nat
<1> DEFINE S == {Bit(bytes[p[1]], 8 - p[2]) : p \in (1 .. Len(bytes)) \X (1 .. 8)}
           X == Seq(S)
           s == [n \in 1 .. Len(bytes) |-> ByteBits(bytes[n])]
<1>1. ASSUME NEW n \in 1 .. Len(bytes) PROVE ByteBits(bytes[n]) \in X
  <2>1. ASSUME NEW k \in 1 .. 8 PROVE Bit(bytes[n], 8 - k) \in S
    <3> DEFINE p == <<n, k>>
    <3>1. p \in (1 .. Len(bytes)) \X (1 .. 8) /\ p[1] = n /\ p[2] = k
      OBVIOUS
    <3> HIDE DEF p
    <3> QED
      BY <3>1
  <2> HIDE DEF S
  <2>2. [k \in 1 .. 8 |-> Bit(bytes[n], 8 - k)] \in Seq(S)
    BY <2>1
  <2> QED
    BY <2>2 DEF ByteBits
<1>2. Monoid(X)
  BY SeqMonoid
<1> HIDE DEF X
<1>3. s \in Seq(X)
  BY <1>1
<1>4. FlattenSeq(s) \in X
  BY <1>2, <1>3, FlattenType
<1>5. Len(FlattenSeq(s)) \in Nat
  BY <1>4 DEF X
<1> QED
  BY <1>5 DEF BitsOf

LEMMA SomfyDataLen ==
  ASSUME NEW c, NEW key, NEW address, NEW command
  PROVE  Len(SomfyData(c, key, address, command)) \in Nat
<1> DEFINE data == <<Field(key, 0, 8), command * 16, Field(c, 8, 8), Field(c, 0, 8),
                     Field(address, 0, 8), Field(address, 8, 8), Field(address, 16, 8)>>
           changed == [data EXCEPT ![2] = @ + Checksum(data)]
<1>1. changed = <<data[1], data[2] + Checksum(data), data[3], data[4], data[5], data[6], data[7]>>
  OBVIOUS
<1> HIDE DEF data
<1>2. Len(Mixed(changed)) \in Nat
  BY <1>1, MixedType
<1>3. SomfyData(c, key, address, command) = BitsOf(Mixed(changed))
  BY DEF SomfyData, data
<1> QED
  BY <1>2, <1>3, BitsLen

LEMMA SomfyQuiet ==
  ASSUME NEW r, NEW d, NEW raw, NEW c
  PROVE  Quiet(Somfy(r, d, raw, c).bits)
<1> DEFINE data == Signal(WriteData(SomfyData(c, r, d, raw)))
           first == <<High(16), Low(12)>> \o WritePulses(2)
           start(i) == IF i = 1 THEN <<High(16), Low(12)>> \o WritePulses(2) ELSE WritePulses(7)
           gap == Signal(<<Low(48)>>)
           part(i) == Signal(start(i)) \o data \o gap
           parts == [i \in 1 .. 10 |-> part(i)]
<1>1. data \in Strings /\ gap \in Strings
  BY SomfyDataLen, DataType, TwoSegments, SignalType DEF Strings
<1>2. /\ Signal(first) = Signal(<<High(16), Low(12)>>) \o Signal(WritePulses(2))
      /\ Signal(WritePulses(2)) \in Strings /\ Signal(WritePulses(7)) \in Strings
  <2>1. <<High(16), Low(12)>> \in Seq(SegmentSet) /\ WritePulses(2) \in Seq(SegmentSet)
        /\ WritePulses(7) \in Seq(SegmentSet)
    BY TwoSegments, PulsesType
  <2> QED
    BY <2>1, SignalConcat, SignalType DEF Strings
<1>3. Quiet(Signal(first))
  BY <1>2, WakeUpQuiet, QuietConcat
<1>4. ASSUME NEW i \in 1 .. 10 PROVE Signal(start(i)) \in Strings
  BY <1>2, <1>3 DEF Quiet
<1>5. Signal(start(1)) = Signal(first)
  OBVIOUS
<1>6. Somfy(r, d, raw, c) = Frame(FlattenSeq(parts), 213 + (10 - 1) * 225)
  BY DEF Somfy, SOMFY_FRAME_COUNT
<1>7. Somfy(r, d, raw, c).bits = FlattenSeq(parts)
  BY <1>6 DEF Frame
<1> HIDE DEF data, gap, start, first
<1>8. ASSUME NEW i \in 1 .. 10 PROVE part(i) \in Strings
  <2>1. PICK x : x = Signal(start(i))
    OBVIOUS
  <2>2. x \in Strings
    BY <1>4, <2>1
  <2>3. (x \o data) \o gap \in Strings
    BY <1>1, <2>2, StringsConcat
  <2>4. part(i) = (x \o data) \o gap
    BY <2>1
  <2> QED
    BY <2>3, <2>4
<1>9. Quiet(part(1))
  BY <1>1, <1>3, <1>5, QuietConcat
<1> HIDE DEF part
<1>10. parts \in Seq(Strings) /\ Len(parts) = 10 /\ parts[1] = part(1)
  BY <1>8
<1> HIDE DEF parts
<1>11. Len(parts) >= 1 /\ Quiet(parts[1])
  BY <1>9, <1>10
<1>12. Quiet(FlattenSeq(parts))
  BY <1>10, <1>11, FlattenQuiet
<1> QED
  BY <1>7, <1>12

-----------------------------------------------------------------------------
LEMMA FormattedFits ==
  ASSUME NEW c, c.protocol \in DOMAIN protocol_drivers, FormatCmd(c).bit_count >= 0
  PROVE  FormatCmd(c).bit_count < 2^16 /\ TextFits(FormatCmd(c).bits, FormatCmd(c).bit_count)
<1> DEFINE f == FormatCmd(c)
<1>1. CASE f.bit_count \in Nat /\ f.bit_count < 1000
  BY <1>1, ShortTextFits
<1>2. CASE \E r, d, raw : f = Somfy(r, d, raw, c.rolling_code)
  <2>1. PICK r, d, raw : f = Somfy(r, d, raw, c.rolling_code)
    BY <1>2
  <2>2. f.bit_count = 2238 /\ Quiet(f.bits)
    BY <2>1, SomfyCount, SomfyQuiet
  <2>3. 3 \in Bytes(2238)
    BY DEF Bytes, ByteCount
  <2>4. TextFits(f.bits, 2238)
    BY <2>2, <2>3, QuietByte, LongTextFits
  <2> QED
    BY <2>2, <2>4
<1>3. f = Refused => f.bit_count = -1
  BY FrameFields DEF Refused
<1>4. \/ f.bit_count \in Nat /\ f.bit_count < 1000
      \/ \E r, d, raw : f = Somfy(r, d, raw, c.rolling_code)
      \/ f = Refused
  BY Encoded, BitCounts
<1> QED
  BY <1>1, <1>2, <1>3, <1>4

(***************************************************************************)
(* Whatever the commands, codes and rolling codes, and whatever overlaps:  *)
(* the text of every frame handed to the kernel module fits the string     *)
(* ook_gpio_send_frame() has for it, the frame of Somfy, whose length has  *)
(* a digit more than is reckoned with, included.                           *)
(***************************************************************************)
THEOREM TextAlwaysFits == Spec => []FrameTextFits
<1>1. ASSUME IInv PROVE FrameTextFits
  <2>1. ASSUME NEW p \in Procs, InProgress(p)
        PROVE  frame[p].bit_count < 2^16 /\ TextFits(frame[p].bits, frame[p].bit_count)
    <3>1. frame[p] = FormatCmd(cmd[p]) /\ frame[p].bit_count >= 0
      BY <1>1, <2>1 DEF IInv, FrameInv, InProgress
    <3>2. cmd[p].protocol \in DOMAIN protocol_drivers
      BY <1>1, CommandsAssumption DEF IInv, Shapes
    <3> QED
      BY <3>1, <3>2, FormattedFits
  <2> QED
    BY <2>1 DEF FrameTextFits
<1>2. IInv => FrameTextFits
  BY <1>1
<1> QED
  BY <1>2, Inductive, PTL

-----------------------------------------------------------------------------
(***************************************************************************)
(* The encoders.  A frame is right if the receiver of its protocol         *)
(* recovers from it what was meant (Carries).  Each of the nine is shown   *)
(* to be, first for all codes up to the maxima of its driver: what the     *)
(* encoder computes is followed bit by bit into the frame, what the        *)
(* receiver sums up is shown to be the number that has these bits.  Then   *)
(* a larger code is shown to make the frame of its low bits.  Sums and     *)
(* folds over sets and sequences are recursive functions that CHOOSE       *)
(* picks; each is shown to exist, and unrolled by induction over the       *)
(* number of elements.                                                     *)
(***************************************************************************)
(***************************************************************************)
(* Folding a finite set: ch chooses the element taken next, step combines  *)
(* it with what the others give.                                           *)
(***************************************************************************)
IsFold(iter, S, base, ch, step) ==
    iter = [t \in SUBSET S |->
              IF t = {} THEN base ELSE step[<<ch[t], iter[t \ {ch[t]}]>>]]

Chooses(ch, S) == \A t \in SUBSET S : t # {} => ch[t] \in t

LEMMA FoldExists ==
  ASSUME NEW S, IsFiniteSet(S), NEW V, NEW base \in V, NEW ch, Chooses(ch, S),
         NEW step \in [S \X V -> V]
  PROVE  \E iter \in [SUBSET S -> V] : IsFold(iter, S, base, ch, step)
<1> DEFINE F == [SUBSET S -> V]
           s0 == [t \in SUBSET S |-> base]
           after(f) == [t \in SUBSET S |-> IF t = {} THEN base ELSE step[<<ch[t], f[t \ {ch[t]}]>>]]
           up == [p \in Nat \X F |-> after(p[2])]
<1>1. s0 \in F
  OBVIOUS
<1>2. ASSUME NEW f \in F PROVE after(f) \in F
  <2>1. ASSUME NEW t \in SUBSET S, t # {} PROVE step[<<ch[t], f[t \ {ch[t]}]>>] \in V
    <3>1. ch[t] \in S /\ t \ {ch[t]} \in SUBSET S
      BY <2>1 DEF Chooses
    <3>2. f[t \ {ch[t]}] \in V
      BY <3>1
    <3> QED
      BY <3>1, <3>2
  <2> QED
    BY <2>1
<1> HIDE DEF after
<1>3. up \in [Nat \X F -> F]
  BY <1>2
<1> HIDE DEF F
<1>4. PICK r \in [Nat -> F] : IsRecursion(r, s0, up)
  BY <1>1, <1>3, Recursion
<1>5. ASSUME NEW n \in Nat PROVE r[n + 1] = after(r[n])
  <2>1. r[n + 1] = up[<<n, r[n]>>]
    BY <1>4 DEF IsRecursion
  <2>2. <<n, r[n]>> \in Nat \X F
    BY <1>4
  <2> QED
    BY <2>1, <2>2
<1> DEFINE g == [t \in SUBSET S |-> r[Cardinality(t)][t]]
<1>6. ASSUME NEW t \in SUBSET S
      PROVE  g[t] = IF t = {} THEN base ELSE step[<<ch[t], g[t \ {ch[t]}]>>]
  <2>1. CASE t = {}
    <3>1. Cardinality(t) = 0
      BY <2>1, FS_EmptySet
    <3>2. g[t] = r[0][t]
      BY <3>1
    <3>3. r[0] = s0
      BY <1>4 DEF IsRecursion
    <3> QED
      BY <2>1, <3>2, <3>3
  <2>2. CASE t # {}
    <3> DEFINE u == t \ {ch[t]}
    <3>1. ch[t] \in t /\ IsFiniteSet(t)
      BY <2>2, FS_Subset DEF Chooses
    <3>2. u \in SUBSET S /\ IsFiniteSet(u) /\ Cardinality(u) = Cardinality(t) - 1
      BY <3>1, FS_RemoveElement
    <3>3. Cardinality(u) \in Nat /\ Cardinality(t) \in Nat
      BY <3>1, <3>2, FS_CardinalityType
    <3>4. Cardinality(t) = Cardinality(u) + 1
      BY <3>2, <3>3
    <3>5. g[t] = r[Cardinality(u) + 1][t] /\ g[u] = r[Cardinality(u)][u]
      BY <3>2, <3>4
    <3> HIDE DEF g
    <3>6. r[Cardinality(u) + 1] = after(r[Cardinality(u)])
      BY <1>5, <3>3
    <3>7. g[t] = step[<<ch[t], r[Cardinality(u)][u]>>]
      BY <2>2, <3>5, <3>6 DEF after
    <3> QED
      BY <2>2, <3>5, <3>7
  <2> QED
    BY <2>1, <2>2
<1>7. IsFold(g, S, base, ch, step)
  <2>1. g = [t \in SUBSET S |-> g[t]]
    OBVIOUS
  <2> HIDE DEF g
  <2> QED
    BY <1>6, <2>1 DEF IsFold
<1>8. g \in F
  <2>1. ASSUME NEW t \in SUBSET S PROVE r[Cardinality(t)][t] \in V
    <3>1. Cardinality(t) \in Nat
      BY FS_Subset, FS_CardinalityType
    <3>2. r[Cardinality(t)] \in [SUBSET S -> V]
      BY <1>4, <3>1 DEF F
    <3> QED
      BY <3>2
  <2> QED
    BY <2>1 DEF F
<1> HIDE DEF g
<1> QED
  BY <1>7, <1>8 DEF F

LEMMA MaxOf ==
  ASSUME NEW k \in Nat
  PROVE  Max(1 .. k + 1) = k + 1 /\ (1 .. k + 1) \ {k + 1} = 1 .. k
<1>1. k + 1 \in 1 .. k + 1 /\ \A y \in 1 .. k + 1 : k + 1 >= y
  OBVIOUS
<1>2. \A x \in 1 .. k + 1 : (\A y \in 1 .. k + 1 : x >= y) => x = k + 1
  BY <1>1
<1>3. Max(1 .. k + 1) = CHOOSE x \in 1 .. k + 1 : \A y \in 1 .. k + 1 : x >= y
  BY DEF Max
<1>4. (1 .. k + 1) \ {k + 1} = 1 .. k
  OBVIOUS
<1> QED
  BY <1>1, <1>2, <1>3, <1>4

\* A non-empty finite set of naturals has its maximum as an element.
LEMMA MaxType ==
  ASSUME NEW n \in Nat, NEW t \in SUBSET (1 .. n), t # {}
  PROVE  Max(t) \in t
<1> DEFINE U == {k \in Nat : \A y \in t : y <= k}
<1>1. n \in U
  OBVIOUS
<1>2. PICK m \in U : \A k \in U : m <= k
  BY <1>1, LeastElement
<1>3. m \in t
  <2> SUFFICES ASSUME m \notin t PROVE FALSE
    OBVIOUS
  <2>1. \A y \in t : y <= m - 1 /\ y \in 1 .. n
    BY <1>2
  <2>2. PICK y \in t : TRUE
    OBVIOUS
  <2>3. m - 1 \in Nat
    BY <1>2, <2>1, <2>2
  <2>4. m - 1 \in U
    BY <2>1, <2>3
  <2> QED
    BY <1>2, <2>4
<1>4. \A y \in t : m >= y
  BY <1>2
<1> QED
  BY <1>3, <1>4 DEF Max

IsNumber(iter, s) ==
    iter = [t \in SUBSET DOMAIN s |->
              IF t = {} THEN 0 ELSE 2 * iter[t \ {Max(t)}] + s[Max(t)]]

LEMMA NumberDef == ASSUME NEW s PROVE Number(s) = (CHOOSE iter : IsNumber(iter, s))[DOMAIN s]
  BY Zenon DEF Number, FoldLeft, MapThenFoldSet, IsNumber

Maxima(n) == [t \in SUBSET (1 .. n) |-> Max(t)]

LEMMA MaximaChoose == ASSUME NEW n \in Nat PROVE Chooses(Maxima(n), 1 .. n)
  BY MaxType DEF Chooses, Maxima

\* The value of the bits read so far.
Horner(g, s, n) == g[0] = 0 /\ \A k \in 0 .. n - 1 : g[k + 1] = 2 * g[k] + s[k + 1]

LEMMA NumberHorner ==
  ASSUME NEW n \in Nat, NEW s \in [1 .. n -> Nat]
  PROVE  \E g : Horner(g, s, n) /\ Number(s) = g[n]
<1> DEFINE S == 1 .. n
           ch == Maxima(n)
           step == [p \in S \X Nat |-> 2 * p[2] + s[p[1]]]
<1>1. IsFiniteSet(S) /\ Chooses(ch, S) /\ step \in [S \X Nat -> Nat] /\ DOMAIN s = S
  <2>1. IsFiniteSet(S) /\ Chooses(ch, S)
    BY FS_Interval, MaximaChoose
  <2>2. ASSUME NEW p \in S \X Nat PROVE 2 * p[2] + s[p[1]] \in Nat
    OBVIOUS
  <2> QED
    BY <2>1, <2>2
<1>2. PICK f \in [SUBSET S -> Nat] : IsFold(f, S, 0, ch, step)
  <2> HIDE DEF S, ch, step
  <2> QED
    BY <1>1, FoldExists
<1>3. IsNumber(f, s)
  <2>1. ASSUME NEW t \in SUBSET S, t # {}
        PROVE  step[<<ch[t], f[t \ {ch[t]}]>>] = 2 * f[t \ {Max(t)}] + s[Max(t)]
    <3>1. ch[t] = Max(t) /\ Max(t) \in S
      BY <2>1, MaxType DEF Maxima
    <3>2. f[t \ {Max(t)}] \in Nat
      OBVIOUS
    <3> HIDE DEF S, ch
    <3> QED
      BY <3>1, <3>2
  <2> HIDE DEF S, ch, step
  <2>2. [t \in SUBSET S |-> IF t = {} THEN 0 ELSE step[<<ch[t], f[t \ {ch[t]}]>>]]
          = [t \in SUBSET S |-> IF t = {} THEN 0 ELSE 2 * f[t \ {Max(t)}] + s[Max(t)]]
    BY <2>1
  <2> QED
    BY <1>1, <1>2, <2>2 DEF IsFold, IsNumber
<1> DEFINE c == CHOOSE iter : IsNumber(iter, s)
           g == [k \in 0 .. n |-> c[1 .. k]]
<1>4. IsNumber(c, s)
  BY <1>3
<1> HIDE DEF c, ch, step
<1>5. c[{}] = 0 /\ \A t \in SUBSET S : t # {} => c[t] = 2 * c[t \ {Max(t)}] + s[Max(t)]
  <2>1. {} \in SUBSET S
    OBVIOUS
  <2> HIDE DEF S
  <2> QED
    BY <1>1, <1>4, <2>1 DEF IsNumber
<1>6. ASSUME NEW k \in 0 .. n - 1 PROVE c[1 .. k + 1] = 2 * c[1 .. k] + s[k + 1]
  <2>1. 1 .. k + 1 \in SUBSET S /\ 1 .. k + 1 # {}
    OBVIOUS
  <2>2. Max(1 .. k + 1) = k + 1 /\ (1 .. k + 1) \ {k + 1} = 1 .. k
    <3>1. k \in Nat
      OBVIOUS
    <3> QED
      BY <3>1, MaxOf, Zenon
  <2> HIDE DEF S
  <2> QED
    BY <1>5, <2>1, <2>2
<1>7. Horner(g, s, n)
  <2>1. 1 .. 0 = {}
    OBVIOUS
  <2>2. g[0] = 0
    BY <1>5, <2>1
  <2>3. ASSUME NEW k \in 0 .. n - 1 PROVE g[k + 1] = 2 * g[k] + s[k + 1]
    BY <1>6
  <2> HIDE DEF g
  <2> QED
    BY <2>2, <2>3 DEF Horner
<1>8. Number(s) = g[n]
  BY <1>1, NumberDef DEF c
<1> HIDE DEF g
<1> QED
  BY <1>7, <1>8

-----------------------------------------------------------------------------
PowerOfTwo(i) == 2^i \in Nat /\ 2^i >= 1 /\ 2^(i + 1) = 2 * 2^i

LEMMA Powers ==
  ASSUME NEW i \in 0 .. 27
  PROVE  PowerOfTwo(i)
<1>1. i \in {0, 1, 2, 3, 4, 5, 6, 7, 8, 9, 10, 11, 12, 13, 14, 15, 16, 17, 18, 19, 20, 21, 22, 23, 24, 25, 26, 27}
  OBVIOUS
<1>2. /\ PowerOfTwo(0) /\ PowerOfTwo(1) /\ PowerOfTwo(2) /\ PowerOfTwo(3)
      /\ PowerOfTwo(4) /\ PowerOfTwo(5) /\ PowerOfTwo(6) /\ PowerOfTwo(7)
      /\ PowerOfTwo(8) /\ PowerOfTwo(9) /\ PowerOfTwo(10) /\ PowerOfTwo(11)
      /\ PowerOfTwo(12) /\ PowerOfTwo(13) /\ PowerOfTwo(14) /\ PowerOfTwo(15)
      /\ PowerOfTwo(16) /\ PowerOfTwo(17) /\ PowerOfTwo(18) /\ PowerOfTwo(19)
      /\ PowerOfTwo(20) /\ PowerOfTwo(21) /\ PowerOfTwo(22) /\ PowerOfTwo(23)
      /\ PowerOfTwo(24) /\ PowerOfTwo(25) /\ PowerOfTwo(26) /\ PowerOfTwo(27)
  BY DEF PowerOfTwo
<1> QED
  BY <1>1, <1>2, ZenonT(30)

(***************************************************************************)
(* Sums over the elements of a finite set, in whatever order they are      *)
(* taken.                                                                  *)
(***************************************************************************)
AnyOf(t) == CHOOSE x \in t : TRUE

IsSum(iter, S, f) ==
    iter = [t \in SUBSET S |-> IF t = {} THEN 0 ELSE f[AnyOf(t)] + iter[t \ {AnyOf(t)}]]

SumAt(iter, f, t, x) == iter[t] = f[x] + iter[t \ {x}]

LEMMA SumExists ==
  ASSUME NEW S, IsFiniteSet(S), NEW f \in [S -> Nat]
  PROVE  \E iter : IsSum(iter, S, f)
<1> DEFINE ch == [t \in SUBSET S |-> AnyOf(t)]
           step == [p \in S \X Nat |-> f[p[1]] + p[2]]
<1>1. Chooses(ch, S)
  BY DEF Chooses, AnyOf
<1>2. step \in [S \X Nat -> Nat]
  <2>1. ASSUME NEW p \in S \X Nat PROVE f[p[1]] + p[2] \in Nat
    OBVIOUS
  <2> QED
    BY <2>1
<1>3. PICK g \in [SUBSET S -> Nat] : IsFold(g, S, 0, ch, step)
  <2> HIDE DEF ch, step
  <2> QED
    BY <1>1, <1>2, FoldExists
<1>4. ASSUME NEW t \in SUBSET S, t # {}
      PROVE  step[<<ch[t], g[t \ {ch[t]}]>>] = f[AnyOf(t)] + g[t \ {AnyOf(t)}]
  <2>1. ch[t] = AnyOf(t) /\ AnyOf(t) \in S
    BY <1>4 DEF AnyOf
  <2>2. g[t \ {AnyOf(t)}] \in Nat
    OBVIOUS
  <2> HIDE DEF ch
  <2> QED
    BY <2>1, <2>2
<1> HIDE DEF ch, step
<1>5. [t \in SUBSET S |-> IF t = {} THEN 0 ELSE step[<<ch[t], g[t \ {ch[t]}]>>]]
        = [t \in SUBSET S |-> IF t = {} THEN 0 ELSE f[AnyOf(t)] + g[t \ {AnyOf(t)}]]
  BY <1>4
<1>6. IsSum(g, S, f)
  BY <1>3, <1>5 DEF IsFold, IsSum
<1> QED
  BY <1>6

\* Sets of n elements.
Sized(S, n) == {t \in SUBSET S : Cardinality(t) = n}

LEMMA SizedFacts ==
  ASSUME NEW S, IsFiniteSet(S), NEW n \in Nat, NEW t \in Sized(S, n + 1)
  PROVE  t \in SUBSET S /\ t # {} /\ \A x \in t : t \ {x} \in Sized(S, n)
<1>1. t \in SUBSET S /\ IsFiniteSet(t) /\ Cardinality(t) = n + 1
  BY FS_Subset DEF Sized
<1>2. t # {}
  BY <1>1, FS_EmptySet
<1>3. ASSUME NEW x \in t PROVE t \ {x} \in Sized(S, n)
  <2>1. Cardinality(t \ {x}) = Cardinality(t) - 1
    BY <1>1, FS_RemoveElement
  <2> QED
    BY <1>1, <2>1 DEF Sized
<1> QED
  BY <1>1, <1>2, <1>3

LEMMA AllSized ==
  ASSUME NEW S, IsFiniteSet(S), NEW P,
         Sized(S, 0) \subseteq P, \A n \in Nat : Sized(S, n) \subseteq P => Sized(S, n + 1) \subseteq P
  PROVE  SUBSET S \subseteq P
<1> DEFINE T == {n \in Nat : Sized(S, n) \subseteq P}
<1>1. 0 \in T /\ \A n \in Nat : n \in T => n + 1 \in T
  OBVIOUS
<1> HIDE DEF T
<1>2. Nat \subseteq T
  BY <1>1, Induction
<1>3. ASSUME NEW t \in SUBSET S PROVE t \in P
  <2>1. Cardinality(t) \in Nat
    BY FS_Subset, FS_CardinalityType
  <2>2. t \in Sized(S, Cardinality(t))
    BY DEF Sized
  <2>3. Cardinality(t) \in T
    BY <1>2, <2>1
  <2> QED
    BY <2>2, <2>3 DEF T
<1> QED
  BY <1>3

LEMMA SumAny ==
  ASSUME NEW S, IsFiniteSet(S), NEW f \in [S -> Nat], NEW c, IsSum(c, S, f)
  PROVE  c[{}] = 0 /\ \A t \in SUBSET S : c[t] \in Nat /\ \A x \in t : SumAt(c, f, t, x)
<1>1. c[{}] = 0 /\ \A t \in SUBSET S : t # {} => c[t] = f[AnyOf(t)] + c[t \ {AnyOf(t)}] /\ AnyOf(t) \in t
  <2>1. {} \in SUBSET S
    OBVIOUS
  <2>2. \A t \in SUBSET S : t # {} => AnyOf(t) \in t
    BY DEF AnyOf
  <2> QED
    BY <2>1, <2>2 DEF IsSum
<1>2. ASSUME NEW t \in Sized(S, 0) PROVE t = {}
  <2>1. IsFiniteSet(t) /\ Cardinality(t) = 0
    BY FS_Subset DEF Sized
  <2> QED
    BY <2>1, FS_EmptySet
<1> DEFINE P == {t \in SUBSET S : c[t] \in Nat}
           R == {t \in SUBSET S : \A x \in t : SumAt(c, f, t, x)}
<1>3. Sized(S, 0) \subseteq P /\ Sized(S, 0) \subseteq R
  <2>1. ASSUME NEW t \in Sized(S, 0) PROVE t \in P /\ t \in R
    <3>1. t = {} /\ t \in SUBSET S
      BY <1>2 DEF Sized
    <3> QED
      BY <1>1, <3>1
  <2> QED
    BY <2>1
<1>4. ASSUME NEW n \in Nat, Sized(S, n) \subseteq P, NEW t \in Sized(S, n + 1) PROVE t \in P
  <2>1. t \in SUBSET S /\ t # {} /\ \A x \in t : t \ {x} \in Sized(S, n)
    BY SizedFacts
  <2>2. c[t] = f[AnyOf(t)] + c[t \ {AnyOf(t)}] /\ AnyOf(t) \in t
    BY <1>1, <2>1
  <2>3. t \ {AnyOf(t)} \in P /\ f[AnyOf(t)] \in Nat
    BY <1>4, <2>1, <2>2
  <2> QED
    BY <2>1, <2>2, <2>3
<1> HIDE DEF P
<1>5. SUBSET S \subseteq P
  BY <1>3, <1>4, AllSized
<1>6. \A t \in SUBSET S : c[t] \in Nat
  BY <1>5 DEF P
<1>7. ASSUME NEW n \in Nat, Sized(S, n) \subseteq R, NEW t \in Sized(S, n + 1) PROVE t \in R
  <2>1. t \in SUBSET S /\ t # {} /\ \A x \in t : t \ {x} \in Sized(S, n)
    BY SizedFacts
  <2>2. PICK y \in t : c[t] = f[y] + c[t \ {y}]
    BY <1>1, <2>1
  <2>3. ASSUME NEW x \in t, x # y PROVE c[t] = f[x] + c[t \ {x}]
    <3>1. PICK u : u = (t \ {y}) \ {x} /\ u = (t \ {x}) \ {y}
      OBVIOUS
    <3>2. x \in t \ {y} /\ y \in t \ {x} /\ t \ {x} \in R /\ t \ {y} \in R
      BY <1>7, <2>1, <2>3
    <3>3. SumAt(c, f, t \ {y}, x) /\ SumAt(c, f, t \ {x}, y)
      BY <3>2
    <3>4. c[t \ {y}] = f[x] + c[u] /\ c[t \ {x}] = f[y] + c[u]
      BY <3>1, <3>3 DEF SumAt
    <3>5. c[u] \in Nat /\ f[x] \in Nat /\ f[y] \in Nat
      BY <1>6, <2>1, <3>1
    <3> QED
      BY <2>2, <3>4, <3>5
  <2> QED
    BY <2>1, <2>2, <2>3 DEF SumAt
<1> HIDE DEF R
<1>8. SUBSET S \subseteq R
  BY <1>3, <1>7, AllSized
<1> QED
  BY <1>1, <1>6, <1>8 DEF R

\* g[k] is the sum of the first k values of f.
Adds(g, f, n) == g[0] = 0 /\ \A k \in 0 .. n - 1 : g[k + 1] = g[k] + f[k]

LEMMA SumSteps ==
  ASSUME NEW n \in Nat, NEW f \in [0 .. n - 1 -> Nat], NEW c, IsSum(c, 0 .. n - 1, f)
  PROVE  \E g : Adds(g, f, n) /\ c[0 .. n - 1] = g[n]
<1> DEFINE S == 0 .. n - 1
           g == [k \in 0 .. n |-> c[0 .. k - 1]]
<1>1. IsFiniteSet(S)
  BY FS_Interval
<1>2. c[{}] = 0 /\ \A t \in SUBSET S : c[t] \in Nat /\ \A x \in t : SumAt(c, f, t, x)
  <2> HIDE DEF S
  <2>1. f \in [S -> Nat] /\ IsSum(c, S, f)
    BY DEF S
  <2> QED
    BY <1>1, <2>1, SumAny
<1>3. ASSUME NEW k \in 0 .. n - 1 PROVE g[k + 1] = g[k] + f[k]
  <2>1. 0 .. k \in SUBSET S /\ k \in 0 .. k /\ (0 .. k) \ {k} = 0 .. k - 1 /\ 0 .. k - 1 \in SUBSET S
    OBVIOUS
  <2>2. c[0 .. k] = f[k] + c[0 .. k - 1] /\ c[0 .. k - 1] \in Nat /\ f[k] \in Nat
    <3>1. PICK t \in SUBSET S : t = 0 .. k /\ k \in t
      BY <2>1
    <3>2. PICK u \in SUBSET S : u = 0 .. k - 1 /\ u = t \ {k}
      BY <2>1, <3>1
    <3> HIDE DEF S
    <3>3. SumAt(c, f, t, k) /\ c[u] \in Nat
      BY <1>2, <3>1
    <3>4. c[t] = f[k] + c[u]
      BY <3>2, <3>3 DEF SumAt
    <3>5. f[k] \in Nat
      OBVIOUS
    <3> QED
      BY <3>1, <3>2, <3>3, <3>4, <3>5
  <2>3. g[k + 1] = c[0 .. k] /\ g[k] = c[0 .. k - 1]
    <3>1. k + 1 \in 0 .. n /\ k \in 0 .. n /\ (k + 1) - 1 = k
      OBVIOUS
    <3>2. g[k + 1] = c[0 .. (k + 1) - 1] /\ g[k] = c[0 .. k - 1]
      BY <3>1
    <3> QED
      BY <3>1, <3>2, Zenon
  <2> QED
    BY <2>2, <2>3
<1>4. g[0] = 0
  <2>1. 0 .. 0 - 1 = {}
    OBVIOUS
  <2>2. g[0] = c[0 .. 0 - 1]
    OBVIOUS
  <2> QED
    BY <1>2, <2>1, <2>2, Zenon
<1>5. g[n] = c[0 .. n - 1]
  OBVIOUS
<1> HIDE DEF g
<1> QED
  BY <1>3, <1>4, <1>5 DEF Adds

-----------------------------------------------------------------------------
(***************************************************************************)
(* Dividing by powers of two.                                              *)
(***************************************************************************)

Division(v, d) == v \div d \in Nat /\ v % d \in 0 .. d - 1 /\ v = (v \div d) * d + (v % d)

LEMMA Divide == ASSUME NEW v \in Nat, NEW d \in Nat, d >= 1 PROVE Division(v, d)
  BY DEF Division

QuotientAndRemainder(v, d) == \E q \in Nat, m \in 0 .. d - 1 : v = q * d + m /\ m = v % d /\ q = v \div d

LEMMA DivideBy == ASSUME NEW v \in Nat, NEW d \in Nat, d >= 1 PROVE QuotientAndRemainder(v, d)
  BY Divide DEF Division, QuotientAndRemainder

\* Dividing by a and then by b.
Decomposition(v, a, b) ==
    /\ v \div (b * a) = (v \div a) \div b
    /\ (v % (b * a)) \div a = (v \div a) % b

LEMMA Decompose ==
  ASSUME NEW v \in Nat, NEW a \in Nat, NEW b \in Nat, a >= 1, b >= 1
  PROVE  Decomposition(v, a, b)
<1>1. PICK q \in Nat, r \in 0 .. a - 1 : v = q * a + r /\ q = v \div a
  <2>1. v \div a \in Nat /\ v % a \in 0 .. a - 1 /\ v = (v \div a) * a + (v % a)
    OBVIOUS
  <2> QED
    BY <2>1
<1>2. PICK p \in Nat, t \in 0 .. b - 1 : q = p * b + t /\ p = q \div b /\ t = q % b
  <2>1. q \div b \in Nat /\ q % b \in 0 .. b - 1 /\ q = (q \div b) * b + (q % b)
    OBVIOUS
  <2> QED
    BY <2>1
<1>3. PICK m \in Nat : m = t * a + r
  <2>1. t * a \in Nat
    OBVIOUS
  <2> QED
    BY <2>1
<1>4. PICK d \in Nat : d = b * a
  OBVIOUS
<1>5. v = p * d + m
  <2>1. (p * b + t) * a = (p * b) * a + t * a
    OBVIOUS
  <2>2. (p * b) * a = p * (b * a)
    OBVIOUS
  <2>3. PICK x \in Nat : x = p * d /\ x = (p * b) * a
    BY <1>4, <2>2
  <2>4. q * a = x + t * a
    BY <1>2, <2>1, <2>3
  <2>5. t * a \in Nat /\ q * a \in Nat
    OBVIOUS
  <2> QED
    BY <1>1, <1>3, <2>3, <2>4, <2>5
<1>6. m < d
  <2>1. t * a <= (b - 1) * a
    <3>1. (b - 1 - t) * a >= 0
      OBVIOUS
    <3>2. (b - 1 - t) * a = (b - 1) * a - t * a
      OBVIOUS
    <3>3. (b - 1) * a \in Int /\ t * a \in Int
      OBVIOUS
    <3> QED
      BY <3>1, <3>2, <3>3
  <2>2. (b - 1) * a = b * a - a
    OBVIOUS
  <2> QED
    BY <1>3, <1>4, <2>1, <2>2
<1>7. v \div d = p /\ v % d = m
  BY <1>5, <1>6
<1>8. m \div a = t
  BY <1>3
<1> QED
  BY <1>1, <1>2, <1>4, <1>7, <1>8 DEF Decomposition

LEMMA DivideSum ==
  ASSUME NEW a \in Nat, NEW d \in Nat, d >= 1, NEW b \in 0 .. d - 1
  PROVE  (a * d + b) \div d = a /\ (a * d + b) % d = b
  OBVIOUS

\* Powers of two whose exponents add up.
LEMMA PowersAdd ==
  ASSUME NEW i \in Nat, NEW j \in Nat, i + j <= 28
  PROVE  2^i \in Nat /\ 2^i >= 1 /\ 2^j \in Nat /\ 2^j >= 1 /\ 2^(i + j) = 2^j * 2^i
<1> DEFINE pow == [k \in 0 .. 28 |-> 2^k]
<1>1. ASSUME NEW k \in 0 .. 28 PROVE pow[k] \in Nat /\ pow[k] >= 1 /\ pow[k] = 2^k
  <2>1. CASE k = 28
    BY <2>1
  <2>2. CASE k \in 0 .. 27
    BY <2>2, Powers DEF PowerOfTwo
  <2> QED
    BY <2>1, <2>2
<1>2. ASSUME NEW k \in 0 .. 27 PROVE pow[k + 1] = 2 * pow[k]
  <2>1. k + 1 \in 0 .. 28 /\ k \in 0 .. 28
    OBVIOUS
  <2>2. 2^(k + 1) = 2 * 2^k
    BY Powers DEF PowerOfTwo
  <2> QED
    BY <2>1, <2>2
<1>3. pow[0] = 1
  OBVIOUS
<1> HIDE DEF pow
<1> DEFINE T == {k \in 0 .. 28 - i : pow[i + k] = pow[k] * pow[i]}
<1>4. 0 \in T
  <2>1. pow[i + 0] = pow[i] /\ pow[i] \in Nat
    BY <1>1
  <2> QED
    BY <1>3, <2>1
<1>5. ASSUME NEW k \in 0 .. 28 - i - 1, k \in T PROVE k + 1 \in T
  <2>1. pow[i + k] = pow[k] * pow[i] /\ i + k \in 0 .. 27 /\ k \in 0 .. 27
    BY <1>5
  <2>2. pow[(i + k) + 1] = 2 * pow[i + k] /\ pow[k + 1] = 2 * pow[k]
    BY <1>2, <2>1
  <2>3. PICK x \in Nat, y \in Nat : x = pow[i] /\ y = pow[k]
    BY <1>1
  <2>4. 2 * (y * x) = (2 * y) * x
    OBVIOUS
  <2>5. pow[(i + k) + 1] = pow[k + 1] * pow[i] /\ (i + k) + 1 = i + (k + 1)
    BY <2>1, <2>2, <2>3, <2>4
  <2> QED
    BY <2>5
<1> HIDE DEF T
<1>6. 0 .. 28 - i \subseteq T
  BY <1>4, <1>5, InductionTo
<1>7. pow[i + j] = pow[j] * pow[i] /\ i \in 0 .. 28 /\ j \in 0 .. 28 /\ i + j \in 0 .. 28
  BY <1>6 DEF T
<1> QED
  BY <1>1, <1>7, Zenon

-----------------------------------------------------------------------------
(***************************************************************************)
(* The bits of a number, and the fields of some of them.                   *)
(***************************************************************************)

LEMMA PowerType == ASSUME NEW i \in 0 .. 28 PROVE 2^i \in Nat /\ 2^i >= 1
<1>1. i \in Nat /\ 0 \in Nat /\ i + 0 <= 28
  OBVIOUS
<1> QED
  BY <1>1, PowersAdd

LEMMA Remainder ==
  ASSUME NEW z \in Nat, NEW c \in Nat, c >= 1
  PROVE  (z % (c * 2)) % 2 = z % 2
<1>1. PICK d \in Nat : d = c * 2 /\ d >= 1
  OBVIOUS
<1>2. PICK p \in Nat, m \in Nat : z = p * d + m /\ m = z % d
  <2>1. QuotientAndRemainder(z, d)
    BY <1>1, DivideBy
  <2>2. PICK p \in Nat, m \in 0 .. d - 1 : z = p * d + m /\ m = z % d
    BY <2>1, Zenon DEF QuotientAndRemainder
  <2> QED
    BY <2>2
<1>3. PICK e \in Nat : e = p * c
  OBVIOUS
<1>4. p * d = e * 2
  <2>1. p * (c * 2) = (p * c) * 2
    OBVIOUS
  <2> QED
    BY <1>1, <1>3, <2>1
<1>5. z = e * 2 + m
  BY <1>2, <1>4
<1>6. (e * 2 + m) % 2 = m % 2
  OBVIOUS
<1> QED
  BY <1>1, <1>2, <1>5, <1>6

LEMMA BitType == ASSUME NEW x \in Nat, NEW i \in 0 .. 28 PROVE Bit(x, i) \in {0, 1}
<1>1. PICK a \in Nat : a = 2^i /\ a >= 1
  BY PowerType
<1>2. x \div a \in Nat
  BY <1>1
<1>3. (x \div a) % 2 \in {0, 1}
  BY <1>2
<1> QED
  BY <1>1, <1>3 DEF Bit

LEMMA BitShift ==
  ASSUME NEW x \in Nat, NEW l \in Nat, NEW i \in Nat, l + i <= 28
  PROVE  x \div 2^l \in Nat /\ Bit(x \div 2^l, i) = Bit(x, l + i)
<1>1. PICK a \in Nat, b \in Nat : a = 2^l /\ b = 2^i /\ a >= 1 /\ b >= 1 /\ 2^(l + i) = b * a
  BY PowersAdd
<1>2. x \div (b * a) = (x \div a) \div b /\ x \div a \in Nat
  <2>1. Decomposition(x, a, b) /\ Division(x, a)
    BY <1>1, Decompose, Divide
  <2> QED
    BY <2>1, Zenon DEF Decomposition, Division
<1> QED
  BY <1>1, <1>2 DEF Bit

LEMMA BitMask ==
  ASSUME NEW x \in Nat, NEW w \in 0 .. 28, NEW i \in 0 .. w - 1
  PROVE  x % 2^w \in 0 .. 2^w - 1 /\ Bit(x % 2^w, i) = Bit(x, i)
<1>1. PICK j \in Nat, k \in Nat : j = w - i /\ k = j - 1
  OBVIOUS
<1>2. PICK a \in Nat, b \in Nat : a = 2^i /\ b = 2^j /\ a >= 1 /\ b >= 1 /\ 2^w = b * a
  <2>1. i \in Nat /\ i + j = w
    BY <1>1
  <2>2. 2^i \in Nat /\ 2^i >= 1 /\ 2^j \in Nat /\ 2^j >= 1 /\ 2^(i + j) = 2^j * 2^i
    BY <2>1, PowersAdd
  <2> QED
    BY <2>1, <2>2, Zenon
<1>3. PICK c \in Nat : c = 2^k /\ c >= 1 /\ b = c * 2
  <2>1. 1 + k = j /\ 1 + k <= 28
    BY <1>1
  <2>2. 2^k \in Nat /\ 2^k >= 1 /\ 2^(1 + k) = 2^k * 2^1
    BY <2>1, PowersAdd
  <2>3. 2^1 = 2
    OBVIOUS
  <2> QED
    BY <1>2, <2>1, <2>2, <2>3, Zenon
<1>4. (x % (b * a)) \div a = (x \div a) % b /\ x \div a \in Nat
  <2>1. Decomposition(x, a, b) /\ Division(x, a)
    BY <1>2, Decompose, Divide
  <2> QED
    BY <2>1, Zenon DEF Decomposition, Division
<1>5. PICK z \in Nat : z = x \div a
  BY <1>4
<1>6. (z % (c * 2)) % 2 = z % 2
  BY <1>3, <1>5, Remainder
<1>7. Bit(x % 2^w, i) = Bit(x, i)
  <2>1. Bit(x % 2^w, i) = ((x % (b * a)) \div a) % 2 /\ Bit(x, i) = (x \div a) % 2
    BY <1>2, Zenon DEF Bit
  <2> QED
    BY <1>3, <1>4, <1>5, <1>6, <2>1, Zenon
<1>8. PICK n \in Nat : n = 2^w /\ n >= 1
  BY PowerType
<1>9. x % n \in 0 .. n - 1
  BY <1>8
<1> QED
  BY <1>7, <1>8, <1>9

LEMMA FieldFacts ==
  ASSUME NEW x \in Nat, NEW l \in Nat, NEW w \in Nat, l + w <= 28
  PROVE  /\ Field(x, l, w) \in 0 .. 2^w - 1
         /\ \A i \in 0 .. w - 1 : Bit(Field(x, l, w), i) = Bit(x, l + i)
<1>1. l \in 0 .. 28 /\ w \in 0 .. 28 /\ l + 0 <= 28
  OBVIOUS
<1>2. PICK y \in Nat : y = x \div 2^l
  BY <1>1, BitShift
<1>3. Field(x, l, w) = y % 2^w
  BY <1>2, Zenon DEF Field
<1>4. ASSUME NEW i \in 0 .. w - 1 PROVE Bit(y % 2^w, i) = Bit(x, l + i)
  <2>1. i \in Nat /\ l + i <= 28
    OBVIOUS
  <2>2. Bit(y, i) = Bit(x, l + i)
    BY <1>2, <2>1, BitShift
  <2>3. Bit(y % 2^w, i) = Bit(y, i)
    BY <1>1, BitMask
  <2> QED
    BY <2>2, <2>3
<1>5. y % 2^w \in 0 .. 2^w - 1
  <2>1. PICK n \in Nat : n = 2^w /\ n >= 1
    BY <1>1, PowerType
  <2>2. y % n \in 0 .. n - 1
    BY <2>1
  <2> QED
    BY <2>1, <2>2
<1> QED
  BY <1>3, <1>4, <1>5

\* A number written in front of another of k bits.
LEMMA Packed ==
  ASSUME NEW a \in Nat, NEW k \in 0 .. 28, NEW b \in 0 .. 2^k - 1
  PROVE  /\ a * 2^k + b \in Nat
         /\ \A i \in 0 .. k - 1 : Bit(a * 2^k + b, i) = Bit(b, i)
         /\ \A i \in k .. 28 : Bit(a * 2^k + b, i) = Bit(a, i - k)
<1>1. PICK d \in Nat : d = 2^k /\ d >= 1
  BY PowerType
<1>2. PICK x \in Nat : x = a * d + b
  <2>1. a * d \in Nat /\ b \in Nat
    BY <1>1
  <2> QED
    BY <2>1
<1>3. x \div d = a /\ x % d = b
  BY <1>1, <1>2
<1>4. ASSUME NEW i \in 0 .. k - 1 PROVE Bit(x, i) = Bit(b, i)
  BY <1>1, <1>3, BitMask
<1>5. ASSUME NEW i \in k .. 28 PROVE Bit(x, i) = Bit(a, i - k)
  <2>1. PICK j \in Nat : j = i - k /\ k + j = i /\ k + j <= 28 /\ k \in Nat
    OBVIOUS
  <2>2. Bit(x \div 2^k, j) = Bit(x, k + j)
    BY <2>1, BitShift
  <2> QED
    BY <1>1, <1>3, <2>1, <2>2
<1> QED
  BY <1>1, <1>2, <1>4, <1>5

\* The highest bits first: 2 * (v \div 2^(i + 1)) + Bit(v, i) is v \div 2^i.
LEMMA Halves ==
  ASSUME NEW v \in Nat, NEW i \in 0 .. 27
  PROVE  v \div 2^i = 2 * (v \div 2^(i + 1)) + Bit(v, i)
<1>1. PICK a \in Nat : a = 2^i /\ a >= 1 /\ 2^(i + 1) = 2 * a
  <2>1. i \in 0 .. 28
    OBVIOUS
  <2> QED
    BY <2>1, PowerType, Powers DEF PowerOfTwo
<1>2. v \div (2 * a) = (v \div a) \div 2 /\ v \div a \in Nat
  <2>1. Decomposition(v, a, 2) /\ Division(v, a)
    <3>1. 2 \in Nat /\ 2 >= 1
      OBVIOUS
    <3> QED
      BY <1>1, <3>1, Decompose, Divide
  <2> QED
    BY <2>1, Zenon DEF Decomposition, Division
<1>3. PICK z \in Nat : z = v \div a
  BY <1>2
<1>4. z = 2 * (z \div 2) + (z % 2)
  OBVIOUS
<1> QED
  BY <1>1, <1>2, <1>3, <1>4, Zenon DEF Bit

-----------------------------------------------------------------------------
(***************************************************************************)
(* Sequences of bits: joined, and read as a number.                        *)
(***************************************************************************)

LEMMA ConcatIndex ==
  ASSUME NEW S, NEW a \in Seq(S), NEW b \in Seq(S), NEW t, t = a \o b
  PROVE  /\ t \in Seq(S) /\ Len(t) = Len(a) + Len(b)
         /\ \A n \in 1 .. Len(a) : t[n] = a[n]
         /\ \A n \in 1 .. Len(b) : t[Len(a) + n] = b[n]
<1>1. Len(a) \in Nat /\ Len(b) \in Nat
  OBVIOUS
<1>2. /\ t \in Seq(S) /\ Len(t) = Len(a) + Len(b)
      /\ \A i \in 1 .. Len(a) + Len(b) : t[i] = IF i <= Len(a) THEN a[i] ELSE b[i - Len(a)]
  BY ConcatProperties
<1>3. ASSUME NEW n \in 1 .. Len(a) PROVE t[n] = a[n]
  BY <1>1, <1>2
<1>4. ASSUME NEW n \in 1 .. Len(b) PROVE t[Len(a) + n] = b[n]
  <2>1. PICK i \in 1 .. Len(a) + Len(b) : i = Len(a) + n /\ ~ (i <= Len(a)) /\ i - Len(a) = n
    BY <1>1
  <2> QED
    BY <1>2, <2>1
<1> QED
  BY <1>2, <1>3, <1>4


Concatenation(t, a, b, S) ==
    /\ t \in Seq(S) /\ Len(t) = Len(a) + Len(b)
    /\ \A n \in 1 .. Len(a) : t[n] = a[n]
    /\ \A n \in 1 .. Len(b) : t[Len(a) + n] = b[n]

LEMMA Concatenated ==
  ASSUME NEW S, NEW a \in Seq(S), NEW b \in Seq(S)
  PROVE  Concatenation(a \o b, a, b, S)
<1>1. PICK t : t = a \o b
  OBVIOUS
<1> QED
  BY <1>1, ConcatIndex DEF Concatenation

\* The bits of a number, the highest first.
Reads(s, w, v) ==
    /\ s \in [1 .. w -> Nat] /\ v \in 0 .. 2^w - 1
    /\ \A k \in 1 .. w : s[k] = Bit(v, w - k)

LEMMA NumberIs ==
  ASSUME NEW w \in 0 .. 28, NEW s, NEW v, Reads(s, w, v)
  PROVE  Number(s) = v
<1>1. v \in Nat /\ w \in Nat
  BY PowerType DEF Reads
<1>2. PICK g : Horner(g, s, w) /\ Number(s) = g[w]
  BY <1>1, NumberHorner DEF Reads
<1> DEFINE T == {k \in 0 .. w : g[k] = v \div 2^(w - k)}
<1>3. 0 \in T
  <2>1. PICK n \in Nat : n = 2^w /\ n >= 1
    BY PowerType
  <2>2. v \div n = 0
    BY <2>1 DEF Reads
  <2>3. g[0] = 0 /\ w - 0 = w
    BY <1>2 DEF Horner
  <2>4. 2^(w - 0) = n
    BY <2>1, <2>3, Zenon
  <2> QED
    BY <1>1, <2>2, <2>3, <2>4
<1>4. ASSUME NEW k \in 0 .. w - 1, k \in T PROVE k + 1 \in T
  <2>1. PICK i \in 0 .. 27 : i = w - (k + 1) /\ i + 1 = w - k
    OBVIOUS
  <2>2. v \div 2^i = 2 * (v \div 2^(i + 1)) + Bit(v, i)
    BY <1>1, Halves
  <2>3. g[k + 1] = 2 * g[k] + s[k + 1] /\ k + 1 \in 1 .. w
    BY <1>2 DEF Horner
  <2>4. s[k + 1] = Bit(v, i)
    BY <2>1, <2>3 DEF Reads
  <2>5. g[k] = v \div 2^(i + 1)
    BY <1>4, <2>1, Zenon
  <2>6. g[k + 1] = v \div 2^i
    BY <2>2, <2>3, <2>4, <2>5, Zenon
  <2>7. k + 1 \in 0 .. w
    OBVIOUS
  <2> QED
    BY <2>1, <2>6, <2>7, Zenon
<1> HIDE DEF T
<1>5. 0 .. w \subseteq T
  BY <1>1, <1>3, <1>4, InductionTo
<1>6. g[w] = v \div 2^0
  <2>1. w \in 0 .. w /\ w - w = 0
    OBVIOUS
  <2>2. g[w] = v \div 2^(w - w)
    BY <1>5, <2>1, Zenon DEF T
  <2> QED
    BY <2>1, <2>2, Zenon
<1> QED
  BY <1>1, <1>2, <1>6

\* The bits from .. to of b are those of v that begin with bit low.
Says(b, from, to, v, low) == \A j \in from .. to : b[j] = Bit(v, low + (to - j))

\* b is a sequence of n numbers.
Numbers(b, n) == n \in Nat /\ b \in Seq(Nat) /\ Len(b) = n

LEMMA ValueIs ==
  ASSUME NEW n, NEW b, Numbers(b, n), NEW from \in 1 .. n, NEW to \in from .. n, to - from < 28,
         NEW w, w = to - from + 1, NEW v \in 0 .. 2^w - 1, Says(b, from, to, v, 0)
  PROVE  Value(b, from, to) = v
<1> DEFINE s == SubSeq(b, from, to)
<1>1. w \in 0 .. 28 /\ w \in Nat
  BY DEF Numbers
<1>2. s \in [1 .. w -> Nat] /\ \A k \in 1 .. w : s[k] = b[from + k - 1]
  <2>1. from \in Int /\ to \in Int /\ from <= to /\ \A i \in from .. to : b[i] \in Nat
    BY DEF Numbers
  <2>2. /\ s \in Seq(Nat) /\ Len(s) = IF from <= to THEN to - from + 1 ELSE 0
        /\ \A i \in 1 .. to - from + 1 : s[i] = b[from + i - 1]
    BY <2>1, SubSeqProperties
  <2> HIDE DEF s
  <2> QED
    BY <2>1, <2>2, <1>1
<1>3. ASSUME NEW k \in 1 .. w PROVE s[k] = Bit(v, w - k)
  <2>1. PICK j \in from .. to : j = from + k - 1 /\ 0 + (to - j) = w - k
    BY <1>1 DEF Numbers
  <2> QED
    BY <1>2, <2>1 DEF Says
<1> HIDE DEF s
<1>4. Reads(s, w, v)
  BY <1>2, <1>3 DEF Reads
<1> QED
  BY <1>1, <1>4, NumberIs DEF Value, s

-----------------------------------------------------------------------------
\* The sequences of seqs have the same length, c.
Even(seqs, n, c, S) ==
    n \in Nat /\ c \in Nat /\ seqs \in [1 .. n -> Seq(S)] /\ \A m \in 1 .. n : Len(seqs[m]) = c

Blocks(t, seqs, n, c) == \A m \in 1 .. n, k \in 1 .. c : t[(m - 1) * c + k] = seqs[m][k]

\* t consists of the first n of seqs.
Consists(t, seqs, n, c, S) == t \in Seq(S) /\ Len(t) = n * c /\ Blocks(t, seqs, n, c)

Follows(u, t, seqs, n, c, S) ==
    seqs[n + 1] \in Seq(S) /\ Len(seqs[n + 1]) = c /\ u = t \o seqs[n + 1]

LEMMA EvenStep ==
  ASSUME NEW S, NEW n \in Nat, NEW c \in Nat, NEW seqs, NEW t, Consists(t, seqs, n, c, S),
         NEW u, Follows(u, t, seqs, n, c, S)
  PROVE  Consists(u, seqs, n + 1, c, S)
<1> USE DEF Consists, Follows
<1>1. PICK e \in Nat : e = n * c
  OBVIOUS
<1>2. (n + 1) * c = e + c /\ ((n + 1) - 1) * c = e
  BY <1>1
<1>3. /\ u \in Seq(S) /\ Len(u) = e + c
      /\ \A k \in 1 .. e : u[k] = t[k]
      /\ \A k \in 1 .. c : u[e + k] = seqs[n + 1][k]
  <2>1. PICK x \in Seq(S) : x = seqs[n + 1] /\ Len(x) = c
    OBVIOUS
  <2>2. u = t \o x
    BY <2>1
  <2>3. t \in Seq(S)
    OBVIOUS
  <2>4. Concatenation(u, t, x, S)
    BY <2>2, <2>3, Concatenated
  <2> QED
    BY <1>1, <2>1, <2>4 DEF Concatenation
<1>4. ASSUME NEW m \in 1 .. n, NEW k \in 1 .. c PROVE u[(m - 1) * c + k] = seqs[m][k]
  <2>1. PICK d \in Nat : d = (m - 1) * c
    OBVIOUS
  <2>2. (m - 1) * c + c <= n * c
    <3>1. (n - m) * c >= 0
      OBVIOUS
    <3>2. (n - m) * c = n * c - m * c /\ (m - 1) * c = m * c - c
      OBVIOUS
    <3>3. m * c \in Nat /\ n * c \in Nat
      OBVIOUS
    <3> QED
      BY <3>1, <3>2, <3>3
  <2>3. d + k \in 1 .. e
    <3>1. d + c <= e
      BY <1>1, <2>1, <2>2
    <3>2. d + k <= e /\ d + k >= 1 /\ d + k \in Int
      BY <3>1
    <3> QED
      BY <3>2
  <2>4. t[(m - 1) * c + k] = seqs[m][k]
    BY Zenon DEF Blocks, Consists
  <2> QED
    BY <1>3, <2>1, <2>3, <2>4
<1>5. ASSUME NEW m \in 1 .. n + 1, NEW k \in 1 .. c PROVE u[(m - 1) * c + k] = seqs[m][k]
  <2>1. CASE m = n + 1
    <3>1. (m - 1) * c = e
      BY <1>2, <2>1
    <3> QED
      BY <1>3, <2>1, <3>1
  <2>2. CASE m # n + 1
    <3>1. m \in 1 .. n
      BY <2>2
    <3> QED
      BY <1>4, <3>1
  <2> QED
    BY <2>1, <2>2
<1> QED
  BY <1>2, <1>3, <1>5 DEF Blocks, Consists

LEMMA FlattenEven ==
  ASSUME NEW S, NEW n, NEW c, NEW seqs, Even(seqs, n, c, S)
  PROVE  Consists(FlattenSeq(seqs), seqs, n, c, S)
<1> DEFINE X == Seq(S)
<1>1. n \in Nat /\ c \in Nat /\ seqs \in Seq(X) /\ Len(seqs) = n /\ Monoid(X)
      /\ \A m \in 1 .. n : seqs[m] \in X /\ Len(seqs[m]) = c
  BY SeqMonoid DEF Even
<1> HIDE DEF X
<1>2. PICK f \in [0 .. n -> X] : Flattens(f, seqs, n)
  BY <1>1, FlattenSteps
<1> DEFINE T == {k \in 0 .. n : Consists(f[k], seqs, k, c, S)}
<1>3. 0 \in T
  <2>1. f[0] = << >> /\ Len(<< >>) = 0 /\ 0 * c = 0 /\ << >> \in Seq(S)
    BY <1>1, <1>2 DEF Flattens, Concatenates
  <2>2. Blocks(f[0], seqs, 0, c)
    BY DEF Blocks
  <2> QED
    BY <1>1, <2>1, <2>2 DEF Consists
<1>4. ASSUME NEW k \in 0 .. n - 1, k \in T PROVE k + 1 \in T
  <2>1. k \in Nat /\ k + 1 \in 1 .. n /\ k \in 0 .. n /\ k + 1 \in 0 .. n
    BY <1>1
  <2>2. Consists(f[k], seqs, k, c, S)
    BY <1>4
  <2>3. Follows(f[k + 1], f[k], seqs, k, c, S)
    BY <1>1, <1>2, <2>1 DEF Flattens, Concatenates, Follows, X
  <2>4. Consists(f[k + 1], seqs, k + 1, c, S)
    BY <1>1, <2>1, <2>2, <2>3, EvenStep, Zenon
  <2> QED
    BY <2>1, <2>4
<1> HIDE DEF T
<1>5. 0 .. n \subseteq T
  BY <1>1, <1>3, <1>4, InductionTo
<1>6. n \in T /\ n \in 0 .. n
  BY <1>1, <1>5
<1>7. FlattenSeq(seqs) = f[n] /\ f[n] \in X
  BY <1>2, <1>6 DEF Flattens
<1> QED
  BY <1>6, <1>7 DEF T, X

-----------------------------------------------------------------------------
(***************************************************************************)
(* Bytes, their bits, and the bits of a frame that are those of a code.    *)
(***************************************************************************)

\* b is the first count bits of these bytes.
Encodes(b, bytes, n, count) ==
    /\ Numbers(b, count) /\ n \in Nat /\ bytes \in [1 .. n -> Nat]
    /\ \A m \in 1 .. n, k \in 1 .. 8 :
          8 * (m - 1) + k <= count => b[8 * (m - 1) + k] = Bit(bytes[m], 8 - k)

LEMMA AllBits ==
  ASSUME NEW bytes \in Seq(Nat), NEW n, Len(bytes) = n
  PROVE  Encodes(BitsOf(bytes), bytes, n, 8 * n)
<1> DEFINE seqs == [m \in 1 .. n |-> ByteBits(bytes[m])]
           t == FlattenSeq(seqs)
<1>1. n \in Nat /\ bytes \in [1 .. n -> Nat]
  OBVIOUS
<1>2. ASSUME NEW m \in 1 .. n
      PROVE  ByteBits(bytes[m]) \in Seq(Nat) /\ Len(ByteBits(bytes[m])) = 8
             /\ \A k \in 1 .. 8 : ByteBits(bytes[m])[k] = Bit(bytes[m], 8 - k)
  <2>1. ASSUME NEW k \in 1 .. 8 PROVE Bit(bytes[m], 8 - k) \in Nat
    <3>1. bytes[m] \in Nat /\ 8 - k \in 0 .. 28
      BY <1>1
    <3>2. Bit(bytes[m], 8 - k) \in {0, 1}
      BY <3>1, BitType
    <3> QED
      BY <3>2
  <2>2. ByteBits(bytes[m]) = [k \in 1 .. 8 |-> Bit(bytes[m], 8 - k)]
    BY DEF ByteBits
  <2> QED
    BY <2>1, <2>2
<1>3. Even(seqs, n, 8, Nat)
  BY <1>1, <1>2 DEF Even
<1>4. BitsOf(bytes) = t
  BY DEF BitsOf
<1>5. Consists(t, seqs, n, 8, Nat)
  BY <1>3, FlattenEven
<1>6. ASSUME NEW m \in 1 .. n, NEW k \in 1 .. 8 PROVE t[8 * (m - 1) + k] = Bit(bytes[m], 8 - k)
  <2>0. (m - 1) * 8 = 8 * (m - 1)
    BY <1>1
  <2>1. t[(m - 1) * 8 + k] = seqs[m][k]
    BY <1>5, Zenon DEF Consists, Blocks
  <2>2. seqs[m][k] = Bit(bytes[m], 8 - k)
    BY <1>2
  <2> QED
    BY <2>0, <2>1, <2>2, Zenon
<1> HIDE DEF t, seqs
<1>7. t \in Seq(Nat) /\ Len(t) = 8 * n
  BY <1>1, <1>5 DEF Consists
<1>8. 8 * n \in Nat
  BY <1>1
<1> QED
  BY <1>1, <1>4, <1>6, <1>7, <1>8 DEF Encodes, Numbers

\* The bits of a frame that count.
Cut(b, count) == SubSeq(b, 1, count)

LEMMA CountedBits ==
  ASSUME NEW bytes \in Seq(Nat), NEW n, Len(bytes) = n, NEW count \in Nat, count <= 8 * n,
         NEW b, b = Cut(BitsOf(bytes), count)
  PROVE  Encodes(b, bytes, n, count) /\ count <= Len(BitsOf(bytes))
<1>1. n \in Nat /\ bytes \in [1 .. n -> Nat]
  OBVIOUS
<1>2. PICK t : t = BitsOf(bytes)
  OBVIOUS
<1>3. Encodes(t, bytes, n, 8 * n)
  BY <1>2, AllBits
<1>4. t \in Seq(Nat) /\ Len(t) = 8 * n
      /\ \A m \in 1 .. n, k \in 1 .. 8 : 8 * (m - 1) + k <= 8 * n => t[8 * (m - 1) + k] = Bit(bytes[m], 8 - k)
  BY <1>3 DEF Encodes, Numbers
<1>8. b \in Seq(Nat) /\ Len(b) = count /\ \A j \in 1 .. count : b[j] = t[j]
  <2>1. ASSUME NEW i \in 1 .. count PROVE t[i] \in Nat
    <3>1. i \in 1 .. Len(t)
      BY <1>1, <1>4
    <3> QED
      BY <1>4, <3>1
  <2>2. /\ b \in Seq(Nat) /\ Len(b) = IF 1 <= count THEN count - 1 + 1 ELSE 0
        /\ \A i \in 1 .. count - 1 + 1 : b[i] = t[1 + i - 1]
    BY <1>2, <2>1, SubSeqProperties DEF Cut
  <2> QED
    BY <2>2
<1>9. ASSUME NEW m \in 1 .. n, NEW k \in 1 .. 8, 8 * (m - 1) + k <= count
      PROVE  b[8 * (m - 1) + k] = Bit(bytes[m], 8 - k)
  <2>1. 8 * (m - 1) + k \in 1 .. count /\ 8 * (m - 1) + k <= 8 * n
    BY <1>1, <1>9
  <2>2. t[8 * (m - 1) + k] = Bit(bytes[m], 8 - k)
    BY <1>4, <2>1, Zenon
  <2> QED
    BY <1>8, <2>1, <2>2
<1> QED
  BY <1>1, <1>2, <1>4, <1>8, <1>9 DEF Encodes, Numbers

\* v has no more than w bits.
Wide(v, w) == v \in 0 .. 2^w - 1

\* A byte holds f in w bits, with a before and c, of r bits, behind it.
ByteHolds(bytes, m, a, f, w, c, r) ==
    /\ a \in Nat /\ w \in Nat /\ r \in Nat /\ w + r <= 8
    /\ Wide(f, w) /\ Wide(c, r)
    /\ bytes[m] = (a * 2^w + f) * 2^r + c

\* Where the w bits before the last r of byte m are, among the count bits of n bytes.
Place(from, to, m, w, r, n, count) ==
    /\ m \in Nat /\ 1 <= m /\ m <= n
    /\ from = 8 * m - r - w + 1 /\ to = 8 * m - r /\ to <= count

LEMMA SaysByte ==
  ASSUME NEW b, NEW bytes, NEW n, NEW count, Encodes(b, bytes, n, count),
         NEW m, NEW a, NEW f, NEW w, NEW c, NEW r, ByteHolds(bytes, m, a, f, w, c, r),
         NEW from, NEW to, Place(from, to, m, w, r, n, count)
  PROVE  Says(b, from, to, f, 0)
<1>0. m \in 1 .. n /\ from = 8 * m - r - w + 1 /\ to = 8 * m - r /\ to <= count
  BY DEF Place, Encodes
<1>1. n \in Nat /\ m \in Nat /\ a \in Nat /\ w \in Nat /\ r \in Nat /\ w + r <= 8
      /\ w \in 0 .. 28 /\ r \in 0 .. 28
  BY <1>0 DEF Encodes, ByteHolds
<1>2. PICK x \in Nat : x = a * 2^w + f
  BY <1>1, Packed DEF ByteHolds, Wide
<1>3. bytes[m] = x * 2^r + c
  BY <1>2 DEF ByteHolds
<1>4. ASSUME NEW j \in from .. to PROVE b[j] = Bit(f, 0 + (to - j))
  <2>1. PICK k \in 1 .. 8, i \in 0 .. w - 1 :
           /\ j = 8 * (m - 1) + k /\ 8 - k = i + r /\ i = 0 + (to - j)
    <3>1. PICK k \in 1 .. 8 : k = j - 8 * (m - 1)
      BY <1>0, <1>1
    <3>2. to - j >= 0 /\ to - j <= w - 1 /\ to - j \in Int
      BY <1>0, <1>1
    <3>3. PICK i \in 0 .. w - 1 : i = to - j
      BY <3>2
    <3> QED
      BY <1>0, <1>1, <3>1, <3>3
  <2>2. 8 * (m - 1) + k <= count
    BY <1>0, <1>1, <2>1 DEF Encodes, Numbers
  <2>3. b[j] = Bit(bytes[m], 8 - k)
    BY <1>0, <2>1, <2>2 DEF Encodes
  <2>4. PICK q \in r .. 28 : q = 8 - k /\ q - r = i
    BY <1>1, <2>1
  <2>5. Bit(x * 2^r + c, q) = Bit(x, q - r)
    BY <1>1, Packed DEF ByteHolds, Wide
  <2>6. Bit(x, i) = Bit(f, i)
    BY <1>1, <1>2, Packed DEF ByteHolds, Wide
  <2> QED
    BY <1>3, <2>1, <2>3, <2>4, <2>5, <2>6, Zenon
<1> QED
  BY <1>4 DEF Says

\* The w bits of v from bit l on.
Within(l, w) == l \in Nat /\ w \in Nat /\ l + w <= 28

LEMMA FieldType ==
  ASSUME NEW v \in Nat, NEW l, NEW w, Within(l, w)
  PROVE  Wide(Field(v, l, w), w) /\ Field(v, l, w) \in Nat
<1>1. Field(v, l, w) \in 0 .. 2^w - 1
  BY FieldFacts, Zenon DEF Within
<1>2. PICK n \in Nat : n = 2^w
  <2>1. w \in 0 .. 28
    BY DEF Within
  <2> QED
    BY <2>1, PowerType
<1> QED
  BY <1>1, <1>2 DEF Wide

\* As many bits as are between from and to.
Covered(from, to, w) == from \in Nat /\ to \in Nat /\ to - from < w

LEMMA SaysField ==
  ASSUME NEW b, NEW v \in Nat, NEW l, NEW w, Within(l, w), NEW from, NEW to,
         Says(b, from, to, Field(v, l, w), 0), Covered(from, to, w)
  PROVE  Says(b, from, to, v, l)
<1> USE DEF Within, Covered
<1>1. ASSUME NEW j \in from .. to PROVE b[j] = Bit(v, l + (to - j))
  <2>1. PICK i \in 0 .. w - 1 : i = to - j /\ 0 + (to - j) = i
    OBVIOUS
  <2>2. Bit(Field(v, l, w), i) = Bit(v, l + i)
    BY FieldFacts
  <2> QED
    BY <2>1, <2>2 DEF Says
<1> QED
  BY <1>1 DEF Says

\* The bits to mid are those from high on, those from next on are the low ones.
Meets(from, mid, next, to, high, low) ==
    /\ from \in Nat /\ mid \in Nat /\ to \in Nat /\ low \in Nat
    /\ mid <= to /\ next = mid + 1 /\ high = low + (to - mid)

LEMMA SaysJoin ==
  ASSUME NEW b, NEW v, NEW from, NEW mid, NEW next, NEW to, NEW low, NEW high,
         Says(b, from, mid, v, high), Says(b, next, to, v, low), Meets(from, mid, next, to, high, low)
  PROVE  Says(b, from, to, v, low)
<1> USE DEF Meets
<1>1. ASSUME NEW j \in from .. to PROVE b[j] = Bit(v, low + (to - j))
  <2>1. CASE j \in from .. mid
    <3>1. high + (mid - j) = low + (to - j)
      BY <2>1
    <3> QED
      BY <2>1, <3>1 DEF Says
  <2>2. CASE j \in next .. to
    BY <2>2 DEF Says
  <2> QED
    BY <2>1, <2>2
<1> QED
  BY <1>1 DEF Says

\* Some of the n bits of b, w of them.
Span(from, to, w, n) == from \in 1 .. n /\ to \in from .. n /\ w = to - from + 1 /\ w <= 28

LEMMA ValueOf ==
  ASSUME NEW n, NEW b, Numbers(b, n), NEW v, NEW from, NEW to, Says(b, from, to, v, 0),
         NEW w, Span(from, to, w, n), Wide(v, w)
  PROVE  Value(b, from, to) = v
<1>1. n \in Nat
  BY DEF Numbers
<1>2. from \in 1 .. n /\ to \in from .. n /\ w = to - from + 1 /\ to - from < 28
  BY <1>1 DEF Span
<1> QED
  BY <1>2, ValueIs, Zenon DEF Wide

-----------------------------------------------------------------------------
(***************************************************************************)
(* Frames whose bytes hold the codes: sumtech first.                       *)
(***************************************************************************)

Room(w, r) == w \in Nat /\ r \in Nat /\ w + r <= 8

LEMMA ZeroWide == Wide(0, 0) /\ 0 \in Nat
<1>1. 0 \in 0 .. 2^0 - 1
  OBVIOUS
<1> QED
  BY <1>1, Zenon DEF Wide

LEMMA WideNat == ASSUME NEW v, NEW w \in 0 .. 28, Wide(v, w) PROVE v \in Nat
<1>1. PICK p \in Nat : p = 2^w
  BY PowerType
<1>2. v \in 0 .. p - 1
  BY <1>1, Zenon DEF Wide
<1> QED
  BY <1>2

LEMMA HoldsWhole ==
  ASSUME NEW bytes, NEW m, NEW f \in Nat, Wide(f, 8), bytes[m] = f
  PROVE  ByteHolds(bytes, m, 0, f, 8, 0, 0)
<1>1. (0 * 2^8 + f) * 2^0 + 0 = f /\ 8 \in Nat /\ 0 \in Nat /\ 8 + 0 <= 8
  OBVIOUS
<1> QED
  BY <1>1, ZeroWide, Zenon DEF ByteHolds

\* A byte of three parts.
LEMMA ThreeParts ==
  ASSUME NEW bytes, NEW m, NEW a, NEW p, NEW f, NEW q, NEW c, NEW s,
         Wide(a, p), Wide(f, q), Wide(c, s), Room(p, q + s), Room(q, s),
         bytes[m] = (a * 2^q + f) * 2^s + c
  PROVE  /\ ByteHolds(bytes, m, 0, a, p, f * 2^s + c, q + s)
         /\ ByteHolds(bytes, m, a, f, q, c, s)
         /\ ByteHolds(bytes, m, a * 2^q + f, c, s, 0, 0)
<1>1. p \in Nat /\ q \in Nat /\ s \in Nat /\ p + (q + s) <= 8 /\ q + s <= 8 /\ q + s \in Nat
      /\ p \in 0 .. 28 /\ q \in 0 .. 28 /\ s \in 0 .. 28
  BY DEF Room
<1>2. PICK x \in Nat, y \in Nat : x = 2^q /\ y = 2^s /\ x >= 1 /\ y >= 1
  BY <1>1, PowerType
<1>3. 2^(q + s) = y * x
  <2>1. q + s <= 28
    BY <1>1
  <2> QED
    BY <1>1, <1>2, <2>1, PowersAdd, Zenon
<1>4. a \in Nat /\ f \in Nat /\ c \in Nat
  BY <1>1, WideNat
<1>5. f \in 0 .. x - 1 /\ c \in 0 .. y - 1
  BY <1>2, Zenon DEF Wide
<1>6. PICK g \in Nat : g = f * y + c /\ g <= y * x - 1
  <2>1. (x - 1 - f) * y >= 0
    BY <1>2, <1>5
  <2>2. (x - 1 - f) * y = x * y - y - f * y
    BY <1>2, <1>4
  <2>3. x * y \in Nat /\ f * y \in Nat /\ y * x = x * y
    BY <1>2, <1>4
  <2> QED
    BY <1>2, <1>4, <1>5, <2>1, <2>2, <2>3
<1>7. Wide(g, q + s)
  <2>1. g \in 0 .. (y * x) - 1
    BY <1>2, <1>6
  <2> QED
    BY <1>3, <2>1, Zenon DEF Wide
<1>8. (a * x + f) * y + c = (0 * 2^p + a) * (y * x) + g
  <2>1. 0 * 2^p = 0
    <3>1. PICK z \in Nat : z = 2^p
      BY <1>1, PowerType
    <3> QED
      BY <3>1
  <2>2. (a * x + f) * y = (a * x) * y + f * y
    BY <1>2, <1>4
  <2>3. (a * x) * y = a * (y * x)
    BY <1>2, <1>4
  <2>4. f * y \in Nat /\ a * (y * x) \in Nat /\ 0 + a = a
    BY <1>2, <1>4
  <2> QED
    BY <1>4, <1>6, <2>1, <2>2, <2>3, <2>4
<1>9. ByteHolds(bytes, m, 0, a, p, f * 2^s + c, q + s)
  BY <1>1, <1>2, <1>3, <1>4, <1>6, <1>7, <1>8, ZeroWide, Zenon DEF ByteHolds
<1>10. ByteHolds(bytes, m, a, f, q, c, s)
  BY <1>1, <1>4, Zenon DEF ByteHolds
<1>11. ByteHolds(bytes, m, a * 2^q + f, c, s, 0, 0)
  <2>1. PICK h \in Nat : h = a * 2^q + f
    BY <1>2, <1>4
  <2>2. (h * y + c) * 2^0 + 0 = h * y + c /\ s + 0 <= 8 /\ 0 \in Nat
    BY <1>1, <1>2, <1>4
  <2> QED
    BY <1>1, <1>2, <2>1, <2>2, ZeroWide, Zenon DEF ByteHolds
<1> QED
  BY <1>9, <1>10, <1>11

LEMMA TwoParts ==
  ASSUME NEW bytes, NEW m, NEW a, NEW p, NEW f, NEW q,
         Wide(a, p), Wide(f, q), Room(p, q), bytes[m] = a * 2^q + f
  PROVE  ByteHolds(bytes, m, 0, a, p, f, q) /\ ByteHolds(bytes, m, a, f, q, 0, 0)
<1>1. p \in Nat /\ q \in Nat /\ p + q <= 8 /\ q + 0 <= 8 /\ p \in 0 .. 28 /\ q \in 0 .. 28 /\ 0 \in Nat
  BY DEF Room
<1>2. PICK x \in Nat, z \in Nat : x = 2^q /\ z = 2^p
  BY <1>1, PowerType
<1>3. a \in Nat /\ f \in Nat
  BY <1>1, WideNat
<1>4. (a * x + f) * 2^0 + 0 = a * x + f /\ 0 * z + a = a
  BY <1>2, <1>3
<1> QED
  BY <1>1, <1>2, <1>3, <1>4, ZeroWide, Zenon DEF ByteHolds

Whole(from, to, m, n, l, count) == Place(from, to, m, 8, 0, n, count) /\ Within(l, 8)

\* The byte m of b is eight bits of v.
LEMMA SaysWholeField ==
  ASSUME NEW b, NEW bytes, NEW n, NEW count, Encodes(b, bytes, n, count), NEW m,
         NEW v \in Nat, NEW l, bytes[m] = Field(v, l, 8),
         NEW from, NEW to, Whole(from, to, m, n, l, count)
  PROVE  Says(b, from, to, v, l)
<1>1. Wide(Field(v, l, 8), 8) /\ Field(v, l, 8) \in Nat
  BY FieldType, Zenon DEF Whole
<1>2. ByteHolds(bytes, m, 0, Field(v, l, 8), 8, 0, 0)
  BY <1>1, HoldsWhole
<1>4. Says(b, from, to, Field(v, l, 8), 0)
  BY <1>2, SaysByte DEF Whole
<1>5. Covered(from, to, 8)
  BY DEF Whole, Place, Covered
<1> QED
  BY <1>4, <1>5, SaysField DEF Whole

LEMMA BitAt ==
  ASSUME NEW b, NEW j, j \in Nat, NEW x \in {0, 1}, Says(b, j, j, x, 0)
  PROVE  b[j] = x
<1>1. b[j] = Bit(x, 0 + (j - j)) /\ 0 + (j - j) = 0
  BY DEF Says
<1>2. Bit(x, 0) = x
  BY DEF Bit
<1> QED
  BY <1>1, <1>2

LEMMA SumtechHears ==
  ASSUME NEW r \in Nat, Wide(r, 24), NEW d \in Nat, Wide(d, 7), NEW x, Wide(x, 1),
         NEW b, b = Cut(Sumtech(r, d, x).bits, 32)
  PROVE  /\ 32 <= Len(Sumtech(r, d, x).bits)
         /\ Value(b, 1, 24) = r /\ Value(b, 26, 32) = d /\ b[25] = x
<1> DEFINE bytes == <<Field(r, 16, 8), Field(r, 8, 8), Field(r, 0, 8), x * 128 + Field(d, 0, 7)>>
<1>1. Sumtech(r, d, x).bits = BitsOf(bytes)
  BY FrameFields DEF Sumtech
<1>2. Within(16, 8) /\ Within(8, 8) /\ Within(0, 8) /\ Within(0, 7) /\ Room(1, 7)
  BY DEF Within, Room
<1>3. x \in {0, 1}
  BY DEF Wide
<1>4. /\ Field(r, 16, 8) \in Nat /\ Field(r, 8, 8) \in Nat /\ Field(r, 0, 8) \in Nat
      /\ Field(d, 0, 7) \in Nat /\ Wide(Field(d, 0, 7), 7)
  BY <1>2, FieldType, Zenon
<1>5. bytes \in Seq(Nat) /\ Len(bytes) = 4 /\ bytes[1] = Field(r, 16, 8) /\ bytes[2] = Field(r, 8, 8)
      /\ bytes[3] = Field(r, 0, 8) /\ bytes[4] = x * 2^7 + Field(d, 0, 7)
  BY <1>3, <1>4
<1> HIDE DEF bytes
<1>6. Encodes(b, bytes, 4, 32) /\ 32 <= Len(BitsOf(bytes)) /\ Numbers(b, 32)
  <2>1. 32 \in Nat /\ 32 <= 8 * 4
    OBVIOUS
  <2>2. Encodes(b, bytes, 4, 32) /\ 32 <= Len(BitsOf(bytes))
    BY <1>1, <1>5, <2>1, CountedBits, Zenon
  <2> QED
    BY <2>2 DEF Encodes
<1>7. Value(b, 1, 24) = r
  <2>1. Whole(1, 8, 1, 4, 16, 32) /\ Whole(9, 16, 2, 4, 8, 32) /\ Whole(17, 24, 3, 4, 0, 32)
    BY <1>2 DEF Whole, Place
  <2>2. Says(b, 1, 8, r, 16) /\ Says(b, 9, 16, r, 8) /\ Says(b, 17, 24, r, 0)
    BY <1>5, <1>6, <2>1, SaysWholeField, ZenonT(30)
  <2>3. Meets(1, 8, 9, 16, 16, 8) /\ Meets(1, 16, 17, 24, 8, 0) /\ Span(1, 24, 24, 32)
    BY DEF Meets, Span
  <2>4. Says(b, 1, 24, r, 0)
    BY <2>2, <2>3, SaysJoin
  <2> QED
    BY <1>6, <2>3, <2>4, ValueOf
<1>8. ByteHolds(bytes, 4, 0, x, 1, Field(d, 0, 7), 7) /\ ByteHolds(bytes, 4, x, Field(d, 0, 7), 7, 0, 0)
  BY <1>2, <1>4, <1>5, TwoParts
<1>9. Value(b, 26, 32) = d
  <2>1. Place(26, 32, 4, 7, 0, 4, 32) /\ Covered(26, 32, 7) /\ Span(26, 32, 7, 32)
    BY DEF Place, Covered, Span
  <2>2. Says(b, 26, 32, d, 0)
    BY <1>2, <1>6, <1>8, <2>1, SaysByte, SaysField
  <2> QED
    BY <1>6, <2>1, <2>2, ValueOf
<1>10. b[25] = x
  <2>1. Place(25, 25, 4, 1, 7, 4, 32)
    BY DEF Place
  <2>2. Says(b, 25, 25, x, 0)
    BY <1>6, <1>8, <2>1, SaysByte
  <2> QED
    BY <1>3, <2>2, BitAt
<1> QED
  BY <1>1, <1>6, <1>7, <1>9, <1>10

-----------------------------------------------------------------------------
(***************************************************************************)
(* Spreading a code: two bits for each of its own.                         *)
(***************************************************************************)

Digit(code, zero, one, i) == IF Bit(code, i) = 1 THEN one ELSE zero

IsSpreadSum(iter, code, width, zero, one) ==
    iter = [t \in SUBSET (0 .. width - 1) |->
              IF t = {} THEN 0
              ELSE (IF Bit(code, CHOOSE x \in t : TRUE) = 1 THEN one ELSE zero) * 4^(CHOOSE x \in t : TRUE)
                     + iter[t \ {CHOOSE x \in t : TRUE}]]

LEMMA SpreadDef ==
  ASSUME NEW code, NEW width, NEW zero, NEW one
  PROVE  Spread(code, width, zero, one) = (CHOOSE iter : IsSpreadSum(iter, code, width, zero, one))[0 .. width - 1]
  BY Zenon DEF Spread, SumOf, MapThenSumSet, MapThenFoldSet, IsSpreadSum

FourIs(k) == 4^k = 2^(2 * k) /\ 4^(k + 1) = 4 * 4^k

LEMMA PowersOfFour ==
  ASSUME NEW k \in 0 .. 8
  PROVE  FourIs(k) /\ 4^k \in Nat /\ 4^k >= 1
<1>1. k \in {0, 1, 2, 3, 4, 5, 6, 7, 8}
  OBVIOUS
<1>2. FourIs(0) /\ FourIs(1) /\ FourIs(2) /\ FourIs(3) /\ FourIs(4) /\ FourIs(5) /\ FourIs(6) /\ FourIs(7) /\ FourIs(8)
  BY DEF FourIs
<1>3. FourIs(k)
  BY <1>1, <1>2, Zenon
<1>4. 2^(2 * k) \in Nat /\ 2^(2 * k) >= 1
  <2>1. 2 * k \in 0 .. 28
    OBVIOUS
  <2> QED
    BY <2>1, PowerType, Zenon
<1> QED
  BY <1>3, <1>4, Zenon DEF FourIs

SpreadSum(g, code, w, zero, one) ==
    g[0] = 0 /\ \A k \in 0 .. w - 1 : g[k + 1] = Digit(code, zero, one, k) * 4^k + g[k]

LEMMA SpreadSteps ==
  ASSUME NEW code, NEW w \in 0 .. 8, NEW zero \in 0 .. 3, NEW one \in 0 .. 3
  PROVE  \E g : SpreadSum(g, code, w, zero, one) /\ Spread(code, w, zero, one) = g[w]
<1> DEFINE S == 0 .. w - 1
           f == [i \in S |-> Digit(code, zero, one, i) * 4^i]
<1>1. ASSUME NEW i \in S PROVE Digit(code, zero, one, i) * 4^i \in Nat
  <2>0. i \in 0 .. 8
    OBVIOUS
  <2>1. PICK p \in Nat : p = 4^i
    BY <2>0, PowersOfFour
  <2>2. PICK d \in Nat : d = Digit(code, zero, one, i)
    BY DEF Digit
  <2>3. d * p \in Nat
    OBVIOUS
  <2> QED
    BY <2>1, <2>2, <2>3
<1>2. f \in [S -> Nat] /\ IsFiniteSet(S) /\ w \in Nat
  <2>1. f \in [S -> Nat]
    BY <1>1, Zenon
  <2>2. IsFiniteSet(S)
    BY FS_Interval
  <2> QED
    BY <2>1, <2>2
<1>3. ASSUME NEW iter PROVE IsSum(iter, S, f) <=> IsSpreadSum(iter, code, w, zero, one)
  <2>1. ASSUME NEW t \in SUBSET S, t # {}
        PROVE  f[AnyOf(t)] = (IF Bit(code, AnyOf(t)) = 1 THEN one ELSE zero) * 4^AnyOf(t)
    <3>1. AnyOf(t) \in S
      BY <2>1 DEF AnyOf
    <3> HIDE DEF S
    <3> QED
      BY <3>1 DEF Digit
  <2> HIDE DEF f
  <2>2. [t \in SUBSET S |-> IF t = {} THEN 0 ELSE f[AnyOf(t)] + iter[t \ {AnyOf(t)}]]
          = [t \in SUBSET S |-> IF t = {} THEN 0 ELSE
                (IF Bit(code, AnyOf(t)) = 1 THEN one ELSE zero) * 4^AnyOf(t) + iter[t \ {AnyOf(t)}]]
    BY <2>1, Zenon
  <2>3. IsSpreadSum(iter, code, w, zero, one) <=>
          iter = [t \in SUBSET S |-> IF t = {} THEN 0 ELSE
                (IF Bit(code, AnyOf(t)) = 1 THEN one ELSE zero) * 4^AnyOf(t) + iter[t \ {AnyOf(t)}]]
    BY Zenon DEF IsSpreadSum, AnyOf
  <2> QED
    BY <2>2, <2>3, Zenon DEF IsSum
<1> DEFINE c == CHOOSE iter : IsSpreadSum(iter, code, w, zero, one)
<1>4. \E iter : IsSum(iter, S, f)
  <2> HIDE DEF S, f
  <2> QED
    BY <1>2, SumExists
<1>5. IsSpreadSum(c, code, w, zero, one)
  BY <1>3, <1>4
<1> HIDE DEF c
<1>6. IsSum(c, 0 .. w - 1, f)
  BY <1>3, <1>5
<1>7. PICK g : Adds(g, f, w) /\ c[0 .. w - 1] = g[w]
  <2> HIDE DEF f
  <2> QED
    BY <1>2, <1>6, SumSteps
<1>8. ASSUME NEW k \in 0 .. w - 1 PROVE g[k + 1] = Digit(code, zero, one, k) * 4^k + g[k]
  <2> DEFINE V == {j \in 0 .. w : g[j] \in Nat}
  <2>1. 0 \in V
    BY <1>2, <1>7 DEF Adds
  <2>2. ASSUME NEW j \in 0 .. w - 1, j \in V PROVE j + 1 \in V
    <3>1. g[j + 1] = g[j] + f[j] /\ f[j] \in Nat /\ g[j] \in Nat
      BY <1>2, <1>7, <2>2 DEF Adds
    <3>2. j + 1 \in 0 .. w
      OBVIOUS
    <3> HIDE DEF f
    <3> QED
      BY <3>1, <3>2
  <2> HIDE DEF V
  <2>3. 0 .. w \subseteq V
    BY <1>2, <2>1, <2>2, InductionTo
  <2>4. g[k] \in Nat
    BY <2>3 DEF V
  <2>5. g[k + 1] = g[k] + f[k]
    BY <1>7 DEF Adds
  <2>6. f[k] = Digit(code, zero, one, k) * 4^k
    OBVIOUS
  <2>7. f[k] \in Nat
    BY <1>2
  <2> HIDE DEF f
  <2>8. g[k + 1] = f[k] + g[k]
    BY <2>4, <2>5, <2>7
  <2> QED
    BY <2>6, <2>8, Zenon
<1>9. SpreadSum(g, code, w, zero, one)
  BY <1>7, <1>8 DEF SpreadSum, Adds
<1>10. Spread(code, w, zero, one) = g[w]
  BY <1>7, SpreadDef DEF c
<1> QED
  BY <1>9, <1>10

\* s has two bits for each of the w low bits of code.
Spreads(s, code, w, zero, one) ==
    /\ Wide(s, 2 * w) /\ s \in Nat
    /\ \A i \in 0 .. w - 1 : /\ Bit(s, 2 * i) = Digit(code, zero, one, i) % 2
                             /\ Bit(s, 2 * i + 1) = Digit(code, zero, one, i) \div 2

LEMMA DigitBits ==
  ASSUME NEW d \in 0 .. 3
  PROVE  Bit(d, 0) = d % 2 /\ Bit(d, 1) = d \div 2
<1>1. d \in {0, 1, 2, 3}
  OBVIOUS
<1>2. CASE d = 0
  BY <1>2 DEF Bit
<1>3. CASE d = 1
  BY <1>3 DEF Bit
<1>4. CASE d = 2
  BY <1>4 DEF Bit
<1>5. CASE d = 3
  BY <1>5 DEF Bit
<1> QED
  BY <1>1, <1>2, <1>3, <1>4, <1>5

LEMMA SpreadStep ==
  ASSUME NEW code, NEW w \in 0 .. 8, NEW zero \in 0 .. 3, NEW one \in 0 .. 3,
         NEW g, SpreadSum(g, code, w, zero, one), NEW k \in 0 .. w - 1, Spreads(g[k], code, k, zero, one)
  PROVE  Spreads(g[k + 1], code, k + 1, zero, one)
<1>1. PICK d \in 0 .. 3 : d = Digit(code, zero, one, k)
  BY DEF Digit
<1>2. PICK e \in 0 .. 16 : e = 2 * k
  OBVIOUS
<1>3. PICK p \in Nat : p = 2^e /\ p = 4^k /\ p >= 1 /\ 4 * p = 2^(2 * (k + 1))
  <2>1. k \in 0 .. 8 /\ k + 1 \in 0 .. 8
    OBVIOUS
  <2>2. 4^k = 2^(2 * k) /\ 4^(k + 1) = 4 * 4^k /\ 4^k \in Nat /\ 4^k >= 1
    BY <2>1, PowersOfFour DEF FourIs
  <2>3. 4^(k + 1) = 2^(2 * (k + 1))
    BY <2>1, PowersOfFour, Zenon DEF FourIs
  <2> QED
    BY <1>2, <2>2, <2>3, Zenon
<1>4. PICK x \in 0 .. p - 1 : x = g[k]
  BY <1>2, <1>3, Zenon DEF Spreads, Wide
<1>5. PICK y : y = d * p + x /\ y = g[k + 1]
  BY <1>1, <1>3, <1>4, Zenon DEF SpreadSum
<1>6. y \in Nat /\ y <= 4 * p - 1
  <2>1. d * p \in Nat /\ d * p <= 3 * p
    OBVIOUS
  <2> QED
    BY <1>5, <2>1
<1>7. /\ \A i \in 0 .. e - 1 : Bit(y, i) = Bit(x, i)
      /\ \A i \in e .. 28 : Bit(y, i) = Bit(d, i - e)
  <2>1. e \in 0 .. 28 /\ d \in Nat
    OBVIOUS
  <2>2. y = d * 2^e + x /\ x \in 0 .. 2^e - 1
    BY <1>3, <1>5, Zenon
  <2> QED
    BY <2>1, <2>2, Packed, Zenon
<1>8. ASSUME NEW i \in 0 .. k
      PROVE  /\ Bit(y, 2 * i) = Digit(code, zero, one, i) % 2
             /\ Bit(y, 2 * i + 1) = Digit(code, zero, one, i) \div 2
  <2>1. CASE i = k
    <3>1. 2 * i \in e .. 28 /\ 2 * i - e = 0 /\ 2 * i + 1 \in e .. 28 /\ 2 * i + 1 - e = 1
      BY <1>2, <2>1
    <3>2. Bit(y, 2 * i) = Bit(d, 0) /\ Bit(y, 2 * i + 1) = Bit(d, 1)
      <4>1. Bit(y, 2 * i) = Bit(d, 2 * i - e)
        BY <1>7, <3>1, Zenon
      <4>2. PICK q \in e .. 28 : q = 2 * i + 1 /\ q - e = 1
        BY <3>1
      <4>3. Bit(y, q) = Bit(d, q - e)
        BY <1>7
      <4> QED
        BY <3>1, <4>1, <4>2, <4>3
    <3>3. Bit(d, 0) = d % 2 /\ Bit(d, 1) = d \div 2
      BY DigitBits
    <3> QED
      BY <1>1, <2>1, <3>2, <3>3, Zenon
  <2>2. CASE i # k
    <3>1. i \in 0 .. k - 1 /\ 2 * i \in 0 .. e - 1 /\ 2 * i + 1 \in 0 .. e - 1
      BY <1>2, <2>2
    <3> QED
      BY <1>4, <1>7, <3>1, Zenon DEF Spreads
  <2> QED
    BY <2>1, <2>2
<1>9. Wide(y, 2 * (k + 1)) /\ y \in Nat
  <2>1. y \in 0 .. 4 * p - 1
    BY <1>6
  <2> QED
    BY <1>3, <1>6, <2>1, Zenon DEF Wide
<1>10. (k + 1) - 1 = k
  OBVIOUS
<1> QED
  BY <1>5, <1>8, <1>9, <1>10, Zenon DEF Spreads

LEMMA SpreadIs ==
  ASSUME NEW code, NEW w \in 0 .. 8, NEW zero \in 0 .. 3, NEW one \in 0 .. 3
  PROVE  Spreads(Spread(code, w, zero, one), code, w, zero, one)
<1>1. PICK g : SpreadSum(g, code, w, zero, one) /\ Spread(code, w, zero, one) = g[w]
  BY SpreadSteps
<1> DEFINE T == {k \in 0 .. w : Spreads(g[k], code, k, zero, one)}
<1>2. 0 \in T
  <2>1. g[0] = 0
    BY <1>1 DEF SpreadSum
  <2>2. 0 \in 0 .. 2^0 - 1 /\ 2 * 0 = 0
    OBVIOUS
  <2>3. Wide(0, 2 * 0)
    BY <2>2, Zenon DEF Wide
  <2> QED
    BY <2>1, <2>3 DEF Spreads
<1>3. ASSUME NEW k \in 0 .. w - 1, k \in T PROVE k + 1 \in T
  <2>1. Spreads(g[k + 1], code, k + 1, zero, one)
    BY <1>1, <1>3, SpreadStep
  <2>2. k + 1 \in 0 .. w
    OBVIOUS
  <2> QED
    BY <2>1, <2>2
<1> HIDE DEF T
<1>4. 0 .. w \subseteq T
  BY <1>2, <1>3, InductionTo
<1>5. w \in T
  BY <1>4
<1> QED
  BY <1>1, <1>5 DEF T

-----------------------------------------------------------------------------
(***************************************************************************)
(* Frames of spread codes: auchan.                                         *)
(***************************************************************************)

\* One bit of the first of these bytes more is written than they need.
LEMMA LastBitZero ==
  ASSUME NEW b, NEW bytes, Encodes(b, bytes, 4, 25), bytes[4] = 0
  PROVE  b[25] = 0
<1>1. 8 * (4 - 1) + 1 <= 25 /\ 4 \in 1 .. 4 /\ 1 \in 1 .. 8
  OBVIOUS
<1>2. b[8 * (4 - 1) + 1] = Bit(bytes[4], 8 - 1)
  BY <1>1, Zenon DEF Encodes
<1>3. 8 * (4 - 1) + 1 = 25 /\ Bit(0, 8 - 1) = 0
  BY DEF Bit
<1> QED
  BY <1>2, <1>3, Zenon

LEMMA AuchanHears ==
  ASSUME NEW r \in Nat, Wide(r, 20), NEW d \in Nat, Wide(d, 3), NEW x, Wide(x, 1),
         NEW b, b = Cut(Auchan(r, d, x).bits, 25)
  PROVE  /\ 25 <= Len(Auchan(r, d, x).bits)
         /\ Value(b, 1, 20) = r /\ Value(b, 21, 23) = d /\ b[24] = x /\ b[25] = 0
<1> DEFINE bytes == <<Field(r, 12, 8), Field(r, 4, 8), Field(r, 0, 4) * 16 + Field(d, 0, 3) * 2 + x, 0>>
<1>1. Auchan(r, d, x).bits = BitsOf(bytes)
  BY FrameFields DEF Auchan
<1>2. Within(12, 8) /\ Within(4, 8) /\ Within(0, 4) /\ Within(0, 3) /\ Room(4, 3 + 1) /\ Room(3, 1)
  BY DEF Within, Room
<1>3. x \in {0, 1}
  BY DEF Wide
<1>4. /\ Field(r, 12, 8) \in Nat /\ Field(r, 4, 8) \in Nat /\ Field(r, 0, 4) \in Nat /\ Field(d, 0, 3) \in Nat
      /\ Wide(Field(d, 0, 3), 3) /\ Wide(Field(r, 0, 4), 4)
  BY <1>2, FieldType, Zenon
<1>5. bytes \in Seq(Nat) /\ Len(bytes) = 4 /\ bytes[1] = Field(r, 12, 8) /\ bytes[2] = Field(r, 4, 8)
      /\ bytes[3] = (Field(r, 0, 4) * 2^3 + Field(d, 0, 3)) * 2^1 + x /\ bytes[4] = 0
  BY <1>3, <1>4
<1> HIDE DEF bytes
<1>6. Encodes(b, bytes, 4, 25) /\ 25 <= Len(BitsOf(bytes)) /\ Numbers(b, 25)
  <2>1. 25 \in Nat /\ 25 <= 8 * 4
    OBVIOUS
  <2>2. Encodes(b, bytes, 4, 25) /\ 25 <= Len(BitsOf(bytes))
    BY <1>1, <1>5, <2>1, CountedBits, Zenon
  <2> QED
    BY <2>2 DEF Encodes
<1>7. /\ ByteHolds(bytes, 3, 0, Field(r, 0, 4), 4, Field(d, 0, 3) * 2^1 + x, 3 + 1)
      /\ ByteHolds(bytes, 3, Field(r, 0, 4), Field(d, 0, 3), 3, x, 1)
      /\ ByteHolds(bytes, 3, Field(r, 0, 4) * 2^3 + Field(d, 0, 3), x, 1, 0, 0)
  BY <1>2, <1>4, <1>5, ThreeParts, Zenon
<1>8. Value(b, 1, 20) = r
  <2>1. Whole(1, 8, 1, 4, 12, 25) /\ Whole(9, 16, 2, 4, 4, 25)
    BY <1>2 DEF Whole, Place
  <2>2. Says(b, 1, 8, r, 12) /\ Says(b, 9, 16, r, 4)
    BY <1>5, <1>6, <2>1, SaysWholeField
  <2>3. Place(17, 20, 3, 4, 3 + 1, 4, 25) /\ Covered(17, 20, 4)
    BY DEF Place, Covered
  <2>4. Says(b, 17, 20, r, 0)
    BY <1>2, <1>6, <1>7, <2>3, SaysByte, SaysField
  <2>5. Meets(1, 8, 9, 16, 12, 4) /\ Meets(1, 16, 17, 20, 4, 0) /\ Span(1, 20, 20, 25)
    BY DEF Meets, Span
  <2>6. Says(b, 1, 20, r, 0)
    BY <2>2, <2>4, <2>5, SaysJoin
  <2> QED
    BY <1>6, <2>5, <2>6, ValueOf
<1>9. Value(b, 21, 23) = d
  <2>1. Place(21, 23, 3, 3, 1, 4, 25) /\ Covered(21, 23, 3) /\ Span(21, 23, 3, 25)
    BY DEF Place, Covered, Span
  <2>2. Says(b, 21, 23, d, 0)
    BY <1>2, <1>6, <1>7, <2>1, SaysByte, SaysField
  <2> QED
    BY <1>6, <2>1, <2>2, ValueOf
<1>10. b[24] = x
  <2>1. Place(24, 24, 3, 1, 0, 4, 25)
    BY DEF Place
  <2>2. Says(b, 24, 24, x, 0)
    BY <1>6, <1>7, <2>1, SaysByte
  <2> QED
    BY <1>3, <2>2, BitAt
<1>11. b[25] = 0
  BY <1>5, <1>6, LastBitZero
<1> QED
  BY <1>1, <1>6, <1>8, <1>9, <1>10, <1>11

-----------------------------------------------------------------------------
(***************************************************************************)
(* Blyss: codes across the nibbles, and one of five rolling codes with     *)
(* its complement.                                                         *)
(***************************************************************************)

LEMMA Nibbles ==
  ASSUME NEW c \in 0 .. 255
  PROVE  c \div 16 = Field(c, 4, 4) /\ c % 16 = Field(c, 0, 4)
<1>1. Field(c, 4, 4) = (c \div 16) % 16 /\ Field(c, 0, 4) = c % 16
  <2>1. 2^4 = 16 /\ 2^0 = 1 /\ c \div 1 = c
    OBVIOUS
  <2> QED
    BY <2>1, Zenon DEF Field
<1>2. (c \div 16) % 16 = c \div 16
  OBVIOUS
<1> QED
  BY <1>1, <1>2

LEMMA RollingCodes ==
  ASSUME NEW k \in 0 .. 4
  PROVE  /\ rolling_code_table[k + 1] \in 0 .. 255 /\ 255 - rolling_code_table[k + 1] \in 0 .. 255
         /\ \A i \in 1 .. 5 : rolling_code_table[i] = rolling_code_table[k + 1] => i = k + 1
<1>1. k \in {0, 1, 2, 3, 4}
  OBVIOUS
<1>2. \A i \in 1 .. 5 : i \in {1, 2, 3, 4, 5}
  OBVIOUS
<1>3. /\ rolling_code_table[1] = 152 /\ rolling_code_table[2] = 218 /\ rolling_code_table[3] = 30
      /\ rolling_code_table[4] = 230 /\ rolling_code_table[5] = 103
  BY DEF rolling_code_table
<1> QED
  BY <1>1, <1>2, <1>3

\* A byte of two nibbles.
LEMMA Halved ==
  ASSUME NEW bytes, NEW m, NEW a, NEW f, Wide(a, 4), Wide(f, 4), Room(4, 4), bytes[m] = a * 2^4 + f
  PROVE  ByteHolds(bytes, m, 0, a, 4, f, 4) /\ ByteHolds(bytes, m, a, f, 4, 0, 0)
  BY TwoParts, Zenon

BlyssBytes(r, d, x, c, t) ==
    <<254, Field(r, 16, 4) * 16 + Field(r, 12, 4), Field(r, 4, 8), Field(r, 0, 4) * 16 + Field(d, 0, 4),
      x * 16 + c \div 16, (c % 16) * 16 + t \div 16, (t % 16) * 16>>

\* What of these codes is where.
BlyssParts(bytes, r, d, x, c, t) ==
    /\ bytes[1] = 254 /\ bytes[3] = Field(r, 4, 8)
    /\ bytes[2] = Field(r, 16, 4) * 2^4 + Field(r, 12, 4)
    /\ bytes[4] = Field(r, 0, 4) * 2^4 + Field(d, 0, 4)
    /\ bytes[5] = x * 2^4 + Field(c, 4, 4)
    /\ bytes[6] = Field(c, 0, 4) * 2^4 + Field(t, 4, 4)
    /\ bytes[7] = Field(t, 0, 4) * 2^4 + 0

NibbleOf(v, l) == Wide(Field(v, l, 4), 4) /\ Field(v, l, 4) \in Nat

BlyssLaid(bytes, r, d, x, c, t) ==
    /\ bytes \in Seq(Nat) /\ Len(bytes) = 7 /\ BlyssParts(bytes, r, d, x, c, t)
    /\ NibbleOf(r, 16) /\ NibbleOf(r, 12) /\ NibbleOf(r, 0) /\ NibbleOf(d, 0)
    /\ NibbleOf(c, 4) /\ NibbleOf(c, 0) /\ NibbleOf(t, 4) /\ NibbleOf(t, 0)

BlyssGiven(r, d, x, c, t) ==
    /\ r \in Nat /\ Wide(r, 20) /\ d \in Nat /\ Wide(d, 4)
    /\ x \in {0, 1} /\ c \in 0 .. 255 /\ t \in 0 .. 255

LEMMA BlyssLayout ==
  ASSUME NEW r, NEW d, NEW x, NEW c, NEW t, BlyssGiven(r, d, x, c, t),
         NEW bytes, bytes = BlyssBytes(r, d, x, c, t)
  PROVE  BlyssLaid(bytes, r, d, x, c, t)
<1>0. r \in Nat /\ d \in Nat /\ x \in {0, 1} /\ c \in 0 .. 255 /\ t \in 0 .. 255
  BY DEF BlyssGiven
<1>1. Within(16, 4) /\ Within(12, 4) /\ Within(4, 8) /\ Within(0, 4) /\ Within(4, 4) /\ c \in Nat /\ t \in Nat
  BY <1>0 DEF Within
<1>2. /\ NibbleOf(r, 16) /\ NibbleOf(r, 12) /\ NibbleOf(r, 0) /\ NibbleOf(d, 0)
      /\ NibbleOf(c, 4) /\ NibbleOf(c, 0) /\ NibbleOf(t, 4) /\ NibbleOf(t, 0)
  BY <1>0, <1>1, FieldType, Zenon DEF NibbleOf
<1>3. Field(r, 4, 8) \in Nat
  BY <1>0, <1>1, FieldType, Zenon
<1>4. c \div 16 = Field(c, 4, 4) /\ c % 16 = Field(c, 0, 4) /\ t \div 16 = Field(t, 4, 4) /\ t % 16 = Field(t, 0, 4)
  BY <1>0, Nibbles
<1>5. bytes = <<254, Field(r, 16, 4) * 16 + Field(r, 12, 4), Field(r, 4, 8), Field(r, 0, 4) * 16 + Field(d, 0, 4),
                x * 16 + Field(c, 4, 4), Field(c, 0, 4) * 16 + Field(t, 4, 4), Field(t, 0, 4) * 16>>
  BY <1>4, Zenon DEF BlyssBytes
<1>6. bytes \in Seq(Nat) /\ Len(bytes) = 7
  BY <1>0, <1>2, <1>3, <1>5 DEF NibbleOf
<1>7. BlyssParts(bytes, r, d, x, c, t)
  BY <1>0, <1>2, <1>5 DEF BlyssParts, NibbleOf
<1> QED
  BY <1>2, <1>6, <1>7 DEF BlyssLaid

LEMMA BlyssSays ==
  ASSUME NEW r, NEW d, NEW x, NEW c, NEW t, BlyssGiven(r, d, x, c, t),
         NEW bytes, BlyssLaid(bytes, r, d, x, c, t),
         NEW b, Encodes(b, bytes, 7, 52)
  PROVE  /\ Value(b, 1, 8) = 254 /\ Value(b, 9, 28) = r /\ Value(b, 29, 32) = d
         /\ Value(b, 33, 36) = x /\ Value(b, 37, 44) = c /\ Value(b, 45, 52) = t
<1>1. r \in Nat /\ d \in Nat /\ Wide(r, 20) /\ Wide(d, 4)
  BY DEF BlyssGiven
<1>2. c \in 0 .. 255 /\ t \in 0 .. 255
  BY DEF BlyssGiven
<1>5. x \in {0, 1} /\ c \in Nat /\ t \in Nat
  BY DEF BlyssGiven
<1>6. /\ bytes \in Seq(Nat) /\ Len(bytes) = 7 /\ BlyssParts(bytes, r, d, x, c, t)
      /\ NibbleOf(r, 16) /\ NibbleOf(r, 12) /\ NibbleOf(r, 0) /\ NibbleOf(d, 0)
      /\ NibbleOf(c, 4) /\ NibbleOf(c, 0) /\ NibbleOf(t, 4) /\ NibbleOf(t, 0)
  BY DEF BlyssLaid
<1>61. /\ bytes[1] = 254 /\ bytes[2] = Field(r, 16, 4) * 2^4 + Field(r, 12, 4)
       /\ bytes[4] = Field(r, 0, 4) * 2^4 + Field(d, 0, 4) /\ bytes[5] = x * 2^4 + Field(c, 4, 4)
       /\ bytes[6] = Field(c, 0, 4) * 2^4 + Field(t, 4, 4) /\ bytes[7] = Field(t, 0, 4) * 2^4 + 0
  BY <1>6 DEF BlyssParts
<1>62. /\ Wide(Field(r, 16, 4), 4) /\ Wide(Field(r, 12, 4), 4) /\ Wide(Field(r, 0, 4), 4) /\ Wide(Field(d, 0, 4), 4)
       /\ Wide(Field(c, 4, 4), 4) /\ Wide(Field(c, 0, 4), 4) /\ Wide(Field(t, 4, 4), 4) /\ Wide(Field(t, 0, 4), 4)
  BY <1>6 DEF NibbleOf
<1>7. Encodes(b, bytes, 7, 52) /\ Numbers(b, 52)
  BY DEF Encodes
<1>8. Room(4, 4) /\ Wide(x, 4) /\ Wide(0, 4) /\ Wide(254, 8) /\ Wide(c, 8) /\ Wide(t, 8)
  BY <1>2, <1>5 DEF Room, Wide
<1>9. /\ ByteHolds(bytes, 1, 0, 254, 8, 0, 0)
      /\ ByteHolds(bytes, 2, 0, Field(r, 16, 4), 4, Field(r, 12, 4), 4)
      /\ ByteHolds(bytes, 2, Field(r, 16, 4), Field(r, 12, 4), 4, 0, 0)
      /\ ByteHolds(bytes, 4, 0, Field(r, 0, 4), 4, Field(d, 0, 4), 4)
      /\ ByteHolds(bytes, 4, Field(r, 0, 4), Field(d, 0, 4), 4, 0, 0)
  <2>1. ByteHolds(bytes, 1, 0, 254, 8, 0, 0)
    BY <1>6, <1>8, HoldsWhole DEF BlyssParts
  <2>2. /\ ByteHolds(bytes, 2, 0, Field(r, 16, 4), 4, Field(r, 12, 4), 4)
        /\ ByteHolds(bytes, 2, Field(r, 16, 4), Field(r, 12, 4), 4, 0, 0)
    BY <1>61, <1>62, <1>8, Halved
  <2>3. /\ ByteHolds(bytes, 4, 0, Field(r, 0, 4), 4, Field(d, 0, 4), 4)
        /\ ByteHolds(bytes, 4, Field(r, 0, 4), Field(d, 0, 4), 4, 0, 0)
    BY <1>61, <1>62, <1>8, Halved
  <2> QED
    BY <2>1, <2>2, <2>3
<1>10. /\ ByteHolds(bytes, 5, 0, x, 4, Field(c, 4, 4), 4)
       /\ ByteHolds(bytes, 5, x, Field(c, 4, 4), 4, 0, 0)
       /\ ByteHolds(bytes, 6, 0, Field(c, 0, 4), 4, Field(t, 4, 4), 4)
       /\ ByteHolds(bytes, 6, Field(c, 0, 4), Field(t, 4, 4), 4, 0, 0)
       /\ ByteHolds(bytes, 7, 0, Field(t, 0, 4), 4, 0, 4)
  <2>1. ByteHolds(bytes, 5, 0, x, 4, Field(c, 4, 4), 4) /\ ByteHolds(bytes, 5, x, Field(c, 4, 4), 4, 0, 0)
    BY <1>61, <1>62, <1>8, Halved
  <2>2. /\ ByteHolds(bytes, 6, 0, Field(c, 0, 4), 4, Field(t, 4, 4), 4)
        /\ ByteHolds(bytes, 6, Field(c, 0, 4), Field(t, 4, 4), 4, 0, 0)
    BY <1>61, <1>62, <1>8, Halved
  <2>3. ByteHolds(bytes, 7, 0, Field(t, 0, 4), 4, 0, 4)
    BY <1>61, <1>62, <1>8, Halved
  <2> QED
    BY <2>1, <2>2, <2>3
<1>11. Within(16, 4) /\ Within(12, 4) /\ Within(4, 8) /\ Within(0, 4) /\ Within(4, 4)
  BY DEF Within
<1>12. Value(b, 1, 8) = 254
  <2>1. Place(1, 8, 1, 8, 0, 7, 52) /\ Span(1, 8, 8, 52)
    BY DEF Place, Span
  <2> QED
    BY <1>7, <1>8, <1>9, <2>1, SaysByte, ValueOf
<1>13. Value(b, 9, 28) = r
  <2>1. Place(9, 12, 2, 4, 4, 7, 52) /\ Place(13, 16, 2, 4, 0, 7, 52) /\ Place(25, 28, 4, 4, 4, 7, 52)
        /\ Covered(9, 12, 4) /\ Covered(13, 16, 4) /\ Covered(25, 28, 4) /\ Span(9, 28, 20, 52)
    BY DEF Place, Covered, Span
  <2>2. Says(b, 9, 12, r, 16) /\ Says(b, 13, 16, r, 12) /\ Says(b, 25, 28, r, 0)
    BY <1>1, <1>7, <1>9, <1>11, <2>1, SaysByte, SaysField
  <2>3. Whole(17, 24, 3, 7, 4, 52)
    BY <1>11 DEF Whole, Place
  <2>4. Says(b, 17, 24, r, 4)
    <3>1. bytes[3] = Field(r, 4, 8)
      BY <1>6 DEF BlyssParts
    <3> QED
      BY <1>1, <1>7, <2>3, <3>1, SaysWholeField
  <2>5. Meets(9, 12, 13, 16, 16, 12) /\ Meets(9, 16, 17, 24, 12, 4) /\ Meets(9, 24, 25, 28, 4, 0)
    BY DEF Meets
  <2>6. Says(b, 9, 28, r, 0)
    BY <2>2, <2>4, <2>5, SaysJoin
  <2> QED
    BY <1>1, <1>7, <2>1, <2>6, ValueOf
<1>14. Value(b, 29, 32) = d
  <2>1. Place(29, 32, 4, 4, 0, 7, 52) /\ Covered(29, 32, 4) /\ Span(29, 32, 4, 52)
    BY DEF Place, Covered, Span
  <2>2. Says(b, 29, 32, d, 0)
    BY <1>1, <1>7, <1>9, <1>11, <2>1, SaysByte, SaysField
  <2> QED
    BY <1>1, <1>7, <2>1, <2>2, ValueOf
<1>15. Value(b, 33, 36) = x
  <2>1. Place(33, 36, 5, 4, 4, 7, 52) /\ Span(33, 36, 4, 52)
    BY DEF Place, Span
  <2>2. Says(b, 33, 36, x, 0)
    BY <1>7, <1>10, <2>1, SaysByte
  <2> QED
    BY <1>7, <1>8, <2>1, <2>2, ValueOf
<1>16. Value(b, 37, 44) = c
  <2>1. Place(37, 40, 5, 4, 0, 7, 52) /\ Place(41, 44, 6, 4, 4, 7, 52) /\ Covered(37, 40, 4) /\ Covered(41, 44, 4)
        /\ Span(37, 44, 8, 52) /\ Meets(37, 40, 41, 44, 4, 0)
    BY DEF Place, Covered, Span, Meets
  <2>2. Says(b, 37, 40, Field(c, 4, 4), 0) /\ Says(b, 41, 44, Field(c, 0, 4), 0)
    BY <1>7, <1>10, <2>1, SaysByte, Zenon
  <2>4. Says(b, 37, 40, c, 4) /\ Says(b, 41, 44, c, 0)
    BY <1>5, <1>11, <2>1, <2>2, SaysField, Zenon
  <2>3. Says(b, 37, 44, c, 0)
    BY <2>1, <2>4, SaysJoin
  <2> QED
    BY <1>7, <1>8, <2>1, <2>3, ValueOf
<1>17. Value(b, 45, 52) = t
  <2>1. Place(45, 48, 6, 4, 0, 7, 52) /\ Place(49, 52, 7, 4, 4, 7, 52) /\ Covered(45, 48, 4) /\ Covered(49, 52, 4)
        /\ Span(45, 52, 8, 52) /\ Meets(45, 48, 49, 52, 4, 0)
    BY DEF Place, Covered, Span, Meets
  <2>2. Says(b, 45, 48, t, 4) /\ Says(b, 49, 52, t, 0)
    BY <1>5, <1>7, <1>10, <1>11, <2>1, SaysByte, SaysField
  <2>3. Says(b, 45, 52, t, 0)
    BY <2>1, <2>2, SaysJoin
  <2> QED
    BY <1>7, <1>8, <2>1, <2>3, ValueOf
<1> QED
  BY <1>12, <1>13, <1>14, <1>15, <1>16, <1>17

LEMMA BlyssFrame ==
  ASSUME NEW r, NEW d, NEW x, NEW c, NEW t, BlyssGiven(r, d, x, c, t)
  PROVE  /\ BlyssLaid(BlyssBytes(r, d, x, c, t), r, d, x, c, t)
         /\ Encodes(Cut(BitsOf(BlyssBytes(r, d, x, c, t)), 52), BlyssBytes(r, d, x, c, t), 7, 52)
         /\ 52 <= Len(BitsOf(BlyssBytes(r, d, x, c, t)))
<1>1. PICK bytes : bytes = BlyssBytes(r, d, x, c, t)
  OBVIOUS
<1>2. BlyssLaid(bytes, r, d, x, c, t)
  BY <1>1, BlyssLayout, Zenon
<1>3. bytes \in Seq(Nat) /\ Len(bytes) = 7
  BY <1>2 DEF BlyssLaid
<1>4. 52 \in Nat /\ 52 <= 8 * 7
  OBVIOUS
<1>5. Encodes(Cut(BitsOf(bytes), 52), bytes, 7, 52) /\ 52 <= Len(BitsOf(bytes))
  BY <1>3, <1>4, CountedBits, Zenon
<1> QED
  BY <1>1, <1>2, <1>5

BlyssSaid(b, r, d, x, k) ==
    /\ Value(b, 1, 8) = 254 /\ Value(b, 9, 28) = r /\ Value(b, 29, 32) = d
    /\ Value(b, 33, 36) = x /\ Value(b, 37, 44) = rolling_code_table[k + 1]
    /\ Value(b, 45, 52) = 255 - rolling_code_table[k + 1]

LEMMA BlyssHears ==
  ASSUME NEW r \in Nat, Wide(r, 20), NEW d \in Nat, Wide(d, 4), NEW x \in {0, 1}, NEW k \in 0 .. 4,
         NEW b, b = Cut(Blyss(r, d, x, k).bits, 52)
  PROVE  52 <= Len(Blyss(r, d, x, k).bits) /\ BlyssSaid(b, r, d, x, k)
<1>1. PICK c, t : c = rolling_code_table[k + 1] /\ t = 255 - rolling_code_table[k + 1]
  OBVIOUS
<1>2. c \in 0 .. 255 /\ t \in 0 .. 255
  BY <1>1, RollingCodes
<1>21. BlyssGiven(r, d, x, c, t)
  BY <1>2 DEF BlyssGiven
<1>3. Blyss(r, d, x, k).bits = BitsOf(BlyssBytes(r, d, x, c, t))
  <2>1. Blyss(r, d, x, k) = Frame(BitsOf(BlyssBytes(r, d, x, c, t)), 52)
    BY <1>1 DEF Blyss, BlyssBytes
  <2> QED
    BY <2>1, FrameFields
<1>4. PICK bytes : bytes = BlyssBytes(r, d, x, c, t)
  OBVIOUS
<1>5. BlyssLaid(bytes, r, d, x, c, t) /\ Encodes(b, bytes, 7, 52) /\ 52 <= Len(BitsOf(bytes))
  BY <1>21, <1>3, <1>4, BlyssFrame
<1>6. /\ Value(b, 1, 8) = 254 /\ Value(b, 9, 28) = r /\ Value(b, 29, 32) = d
      /\ Value(b, 33, 36) = x /\ Value(b, 37, 44) = c /\ Value(b, 45, 52) = t
  BY <1>21, <1>5, BlyssSays, SMTT(30)
<1> QED
  BY <1>1, <1>3, <1>4, <1>5, <1>6 DEF BlyssSaid

-----------------------------------------------------------------------------
(***************************************************************************)
(* Pairs of bits that say a code.                                          *)
(***************************************************************************)

\* w pairs of the n bits of b.
PairSpan(from, to, w, n) == from \in 1 .. n /\ to \in from .. n /\ w \in Nat /\ to = from + 2 * w - 1

\* The pairs of s are those of b from from on.
PairsAt(s, b, from, w) ==
    /\ Len(Firsts(s)) = w /\ Firsts(s) \in [1 .. w -> Nat]
    /\ Len(Seconds(s)) = w /\ Seconds(s) \in [1 .. w -> Nat]
    /\ \A n \in 1 .. w : Firsts(s)[n] = b[from + (2 * n - 2)] /\ Seconds(s)[n] = b[from + (2 * n - 1)]

LEMMA PairsOf ==
  ASSUME NEW n, NEW b, Numbers(b, n), NEW from, NEW to, NEW w, PairSpan(from, to, w, n)
  PROVE  PairsAt(SubSeq(b, from, to), b, from, w)
<1> DEFINE s == SubSeq(b, from, to)
<1>1. from \in Int /\ to \in Int /\ from <= to /\ w \in Nat /\ to - from + 1 = 2 * w
      /\ \A i \in from .. to : b[i] \in Nat
  BY DEF Numbers, PairSpan
<1>2. /\ s \in Seq(Nat) /\ Len(s) = IF from <= to THEN to - from + 1 ELSE 0
      /\ \A i \in 1 .. to - from + 1 : s[i] = b[from + i - 1]
  BY <1>1, SubSeqProperties
<1> HIDE DEF s
<1>3. Len(s) = 2 * w /\ \A i \in 1 .. 2 * w : s[i] \in Nat /\ s[i] = b[from + i - 1]
  BY <1>1, <1>2
<1>4. Len(s) \div 2 = w
  BY <1>1, <1>3
<1>5. Firsts(s) = [k \in 1 .. w |-> s[2 * k - 1]] /\ Seconds(s) = [k \in 1 .. w |-> s[2 * k]]
  BY <1>4 DEF Firsts, Seconds
<1>6. ASSUME NEW k \in 1 .. w
      PROVE  /\ s[2 * k - 1] \in Nat /\ s[2 * k - 1] = b[from + (2 * k - 2)]
             /\ s[2 * k] \in Nat /\ s[2 * k] = b[from + (2 * k - 1)]
  <2>1. 2 * k - 1 \in 1 .. 2 * w /\ 2 * k \in 1 .. 2 * w
    BY <1>1
  <2>2. from + (2 * k - 1) - 1 = from + (2 * k - 2) /\ from + (2 * k) - 1 = from + (2 * k - 1)
    BY <1>1
  <2> QED
    BY <1>3, <2>1, <2>2
<1>7. PairsAt(s, b, from, w)
  BY <1>1, <1>5, <1>6 DEF PairsAt
<1> QED
  BY <1>7 DEF s

\* Pairs that say the bits of v: the first of each has the bit, the second is 1.
LEMMA PairsSayOne ==
  ASSUME NEW n, NEW b, Numbers(b, n), NEW from, NEW to, NEW w \in 1 .. 8, PairSpan(from, to, w, n),
         NEW v, Wide(v, w), Says(b, from, to, Spread(v, w, 1, 3), 0)
  PROVE  Number(Firsts(SubSeq(b, from, to))) = v /\ All(Seconds(SubSeq(b, from, to)), 1)
<1>1. PICK s : s = SubSeq(b, from, to)
  OBVIOUS
<1>2. PICK p : p = Spread(v, w, 1, 3)
  OBVIOUS
<1>3. PairsAt(s, b, from, w)
  BY <1>1, PairsOf
<1>4. Spreads(p, v, w, 1, 3)
  <2>1. w \in 0 .. 8 /\ 1 \in 0 .. 3 /\ 3 \in 0 .. 3
    OBVIOUS
  <2> QED
    BY <1>2, <2>1, SpreadIs
<1>5. ASSUME NEW k \in 1 .. w PROVE Firsts(s)[k] = Bit(v, w - k) /\ Seconds(s)[k] = 1
  <2>1. PICK i \in 0 .. w - 1 : i = w - k
    OBVIOUS
  <2>2. from \in Nat /\ to = from + 2 * w - 1
    BY DEF PairSpan
  <2>3. /\ from + (2 * k - 2) \in from .. to /\ 0 + (to - (from + (2 * k - 2))) = 2 * i + 1
        /\ from + (2 * k - 1) \in from .. to /\ 0 + (to - (from + (2 * k - 1))) = 2 * i
    BY <2>1, <2>2
  <2>4. b[from + (2 * k - 2)] = Bit(p, 2 * i + 1) /\ b[from + (2 * k - 1)] = Bit(p, 2 * i)
    <3>1. b[from + (2 * k - 2)] = Bit(p, 0 + (to - (from + (2 * k - 2))))
          /\ b[from + (2 * k - 1)] = Bit(p, 0 + (to - (from + (2 * k - 1))))
      BY <1>2, <2>3 DEF Says
    <3> QED
      BY <2>3, <3>1
  <2>5. Firsts(s)[k] = b[from + (2 * k - 2)] /\ Seconds(s)[k] = b[from + (2 * k - 1)]
    BY <1>3 DEF PairsAt
  <2>6. Bit(p, 2 * i) = Digit(v, 1, 3, i) % 2 /\ Bit(p, 2 * i + 1) = Digit(v, 1, 3, i) \div 2
    BY <1>4 DEF Spreads
  <2>7. Bit(v, i) \in {0, 1}
    <3>1. v \in Nat /\ i \in 0 .. 28
      <4>1. w \in 0 .. 28
        OBVIOUS
      <4>2. v \in Nat
        BY <4>1, WideNat
      <4> QED
        BY <4>2
    <3> QED
      BY <3>1, BitType
  <2>8. Digit(v, 1, 3, i) = IF Bit(v, i) = 1 THEN 3 ELSE 1
    BY DEF Digit
  <2> HIDE DEF Digit
  <2>9. Digit(v, 1, 3, i) \div 2 = Bit(v, i) /\ Digit(v, 1, 3, i) % 2 = 1
    BY <2>7, <2>8
  <2>10. Firsts(s)[k] = Bit(v, i) /\ Seconds(s)[k] = 1
    BY <2>4, <2>5, <2>6, <2>9, Zenon
  <2> QED
    BY <2>1, <2>10
<1>6. Reads(Firsts(s), w, v)
  BY <1>3, <1>5 DEF Reads, PairsAt, Wide
<1>7. Number(Firsts(s)) = v
  <2>1. w \in 0 .. 28
    OBVIOUS
  <2> QED
    BY <1>6, <2>1, NumberIs
<1>8. All(Seconds(s), 1)
  BY <1>3, <1>5 DEF All, PairsAt
<1> QED
  BY <1>1, <1>7, <1>8

\* Pairs that say the bits of a five-bit v by their complement: the first of each is 0.
LEMMA Unrolled ==
  ASSUME NEW s \in [1 .. 5 -> Nat]
  PROVE  Number(s) = 16 * s[1] + 8 * s[2] + 4 * s[3] + 2 * s[4] + s[5]
<1>1. PICK g : Horner(g, s, 5) /\ Number(s) = g[5]
  BY NumberHorner
<1>2. /\ g[0] = 0 /\ g[0 + 1] = 2 * g[0] + s[0 + 1] /\ g[1 + 1] = 2 * g[1] + s[1 + 1]
      /\ g[2 + 1] = 2 * g[2] + s[2 + 1] /\ g[3 + 1] = 2 * g[3] + s[3 + 1] /\ g[4 + 1] = 2 * g[4] + s[4 + 1]
  BY <1>1 DEF Horner
<1>3. s[1] \in Nat /\ s[2] \in Nat /\ s[3] \in Nat /\ s[4] \in Nat /\ s[5] \in Nat
  OBVIOUS
<1>4. /\ g[0] = 0 /\ g[1] = 2 * g[0] + s[1] /\ g[2] = 2 * g[1] + s[2]
      /\ g[3] = 2 * g[2] + s[3] /\ g[4] = 2 * g[3] + s[4] /\ g[5] = 2 * g[4] + s[5]
  BY <1>2
<1> QED
  BY <1>1, <1>3, <1>4

LEMMA PairsSayNone ==
  ASSUME NEW n, NEW b, Numbers(b, n), NEW from, NEW to, PairSpan(from, to, 5, n),
         NEW v, Wide(v, 5), Says(b, from, to, Spread(v, 5, 1, 0), 0)
  PROVE  Number(Seconds(SubSeq(b, from, to))) = 31 - v /\ All(Firsts(SubSeq(b, from, to)), 0)
<1>1. PICK s : s = SubSeq(b, from, to)
  OBVIOUS
<1>2. PICK p : p = Spread(v, 5, 1, 0)
  OBVIOUS
<1>3. PairsAt(s, b, from, 5)
  BY <1>1, PairsOf
<1>4. Spreads(p, v, 5, 1, 0)
  <2>1. 5 \in 0 .. 8 /\ 1 \in 0 .. 3 /\ 0 \in 0 .. 3
    OBVIOUS
  <2> QED
    BY <1>2, <2>1, SpreadIs
<1>5. v \in Nat
  <2>1. 5 \in 0 .. 28
    OBVIOUS
  <2> QED
    BY <2>1, WideNat
<1> DEFINE r == [k \in 1 .. 5 |-> Bit(v, 5 - k)]
<1>6. ASSUME NEW k \in 1 .. 5 PROVE Seconds(s)[k] = 1 - r[k] /\ Firsts(s)[k] = 0 /\ r[k] \in Nat
  <2>1. PICK i \in 0 .. 4 : i = 5 - k
    OBVIOUS
  <2>2. from \in Nat /\ to = from + 2 * 5 - 1
    BY DEF PairSpan
  <2>3. /\ from + (2 * k - 2) \in from .. to /\ 0 + (to - (from + (2 * k - 2))) = 2 * i + 1
        /\ from + (2 * k - 1) \in from .. to /\ 0 + (to - (from + (2 * k - 1))) = 2 * i
    BY <2>1, <2>2
  <2>4. b[from + (2 * k - 2)] = Bit(p, 2 * i + 1) /\ b[from + (2 * k - 1)] = Bit(p, 2 * i)
    <3>1. b[from + (2 * k - 2)] = Bit(p, 0 + (to - (from + (2 * k - 2))))
          /\ b[from + (2 * k - 1)] = Bit(p, 0 + (to - (from + (2 * k - 1))))
      BY <1>2, <2>3 DEF Says
    <3> QED
      BY <2>3, <3>1
  <2>5. Firsts(s)[k] = b[from + (2 * k - 2)] /\ Seconds(s)[k] = b[from + (2 * k - 1)]
    BY <1>3 DEF PairsAt
  <2>6. Bit(p, 2 * i) = Digit(v, 1, 0, i) % 2 /\ Bit(p, 2 * i + 1) = Digit(v, 1, 0, i) \div 2
    BY <1>4 DEF Spreads
  <2>7. Bit(v, i) \in {0, 1}
    <3>1. i \in 0 .. 28
      OBVIOUS
    <3> QED
      BY <1>5, <3>1, BitType
  <2>8. Digit(v, 1, 0, i) = IF Bit(v, i) = 1 THEN 0 ELSE 1
    BY DEF Digit
  <2>9. Digit(v, 1, 0, i) \div 2 = 0 /\ Digit(v, 1, 0, i) % 2 = 1 - Bit(v, i)
    BY <2>7, <2>8
  <2>10. Firsts(s)[k] = 0 /\ Seconds(s)[k] = 1 - Bit(v, i)
    BY <2>4, <2>5, <2>6, <2>9, Zenon
  <2>11. r[k] = Bit(v, i)
    BY <2>1
  <2> QED
    BY <2>7, <2>10, <2>11
<1>7. Number(r) = v
  <2>1. Reads(r, 5, v) /\ 5 \in 0 .. 28
    BY <1>6 DEF Reads, Wide
  <2> QED
    BY <2>1, NumberIs
<1>8. r \in [1 .. 5 -> Nat] /\ Seconds(s) \in [1 .. 5 -> Nat]
  BY <1>3, <1>6 DEF PairsAt
<1> HIDE DEF r
<1>9. Number(Seconds(s)) = 31 - v
  <2>1. PICK q : q = Seconds(s)
    OBVIOUS
  <2>2. v = 16 * r[1] + 8 * r[2] + 4 * r[3] + 2 * r[4] + r[5]
    BY <1>7, <1>8, Unrolled
  <2>3. Number(q) = 16 * q[1] + 8 * q[2] + 4 * q[3] + 2 * q[4] + q[5]
    BY <1>8, <2>1, Unrolled
  <2>4. q[1] = 1 - r[1] /\ q[2] = 1 - r[2] /\ q[3] = 1 - r[3] /\ q[4] = 1 - r[4] /\ q[5] = 1 - r[5]
        /\ r[1] \in Nat /\ r[2] \in Nat /\ r[3] \in Nat /\ r[4] \in Nat /\ r[5] \in Nat
    BY <1>6, <2>1
  <2>5. PICK a \in Nat, c \in Nat, d \in Nat, e \in Nat, f \in Nat :
            a = r[1] /\ c = r[2] /\ d = r[3] /\ e = r[4] /\ f = r[5]
    BY <2>4
  <2>6. Number(q) = 16 * (1 - a) + 8 * (1 - c) + 4 * (1 - d) + 2 * (1 - e) + (1 - f)
    BY <2>3, <2>4, <2>5
  <2>7. v = 16 * a + 8 * c + 4 * d + 2 * e + f
    BY <2>2, <2>5
  <2>8. Number(q) = 31 - v
    BY <2>6, <2>7
  <2> QED
    BY <2>1, <2>8
<1>10. All(Firsts(s), 0)
  BY <1>3, <1>6 DEF All, PairsAt
<1> QED
  BY <1>1, <1>9, <1>10

-----------------------------------------------------------------------------
(***************************************************************************)
(* Frames of pairs: otax and idk.                                          *)
(***************************************************************************)

LEMMA OtaxHears ==
  ASSUME NEW r \in Nat, Wide(r, 5), NEW d \in Nat, Wide(d, 5), NEW x, Wide(x, 4),
         NEW b, b = Cut(Otax(r, d, x).bits, 25)
  PROVE  /\ 25 <= Len(Otax(r, d, x).bits)
         /\ Number(Firsts(SubSeq(b, 1, 10))) = r /\ All(Seconds(SubSeq(b, 1, 10)), 1)
         /\ Number(Seconds(SubSeq(b, 11, 20))) = 31 - d /\ All(Firsts(SubSeq(b, 11, 20)), 0)
         /\ Value(b, 21, 24) = x /\ b[25] = 0
<1>1. PICK v : v = Spread(r, 5, 1, 3)
  OBVIOUS
<1>2. PICK u : u = Spread(d, 5, 1, 0)
  OBVIOUS
<1>3. v \in Nat /\ u \in Nat
  <2>1. 5 \in 0 .. 8 /\ 1 \in 0 .. 3 /\ 3 \in 0 .. 3 /\ 0 \in 0 .. 3
    OBVIOUS
  <2>2. Spreads(v, r, 5, 1, 3) /\ Spreads(u, d, 5, 1, 0)
    BY <1>1, <1>2, <2>1, SpreadIs
  <2> QED
    BY <2>2 DEF Spreads
<1> DEFINE bytes == <<Field(v, 2, 8), Field(v, 0, 2) * 64 + Field(u, 4, 6), Field(u, 0, 4) * 16 + x, 0>>
<1>4. Otax(r, d, x).bits = BitsOf(bytes)
  <2>1. Otax(r, d, x) = Frame(BitsOf(bytes), 25)
    BY <1>1, <1>2 DEF Otax
  <2> QED
    BY <2>1, FrameFields
<1>5. /\ Within(2, 8) /\ Within(0, 2) /\ Within(4, 6) /\ Within(0, 4) /\ Room(2, 6) /\ Room(4, 4)
  BY DEF Within, Room
<1>6. x \in Nat
  <2>1. 4 \in 0 .. 28
    OBVIOUS
  <2> QED
    BY <2>1, WideNat
<1>7. /\ Field(v, 2, 8) \in Nat /\ Field(v, 0, 2) \in Nat /\ Field(u, 4, 6) \in Nat /\ Field(u, 0, 4) \in Nat
      /\ Wide(Field(v, 0, 2), 2) /\ Wide(Field(u, 4, 6), 6) /\ Wide(Field(u, 0, 4), 4)
  BY <1>3, <1>5, FieldType, Zenon
<1>8. bytes \in Seq(Nat) /\ Len(bytes) = 4 /\ bytes[1] = Field(v, 2, 8)
      /\ bytes[2] = Field(v, 0, 2) * 2^6 + Field(u, 4, 6) /\ bytes[3] = Field(u, 0, 4) * 2^4 + x /\ bytes[4] = 0
  BY <1>6, <1>7
<1> HIDE DEF bytes
<1>9. Encodes(b, bytes, 4, 25) /\ 25 <= Len(BitsOf(bytes)) /\ Numbers(b, 25)
  <2>1. 25 \in Nat /\ 25 <= 8 * 4
    OBVIOUS
  <2>2. Encodes(b, bytes, 4, 25) /\ 25 <= Len(BitsOf(bytes))
    BY <1>4, <1>8, <2>1, CountedBits, Zenon
  <2> QED
    BY <2>2 DEF Encodes
<1>10. /\ ByteHolds(bytes, 2, 0, Field(v, 0, 2), 2, Field(u, 4, 6), 6)
       /\ ByteHolds(bytes, 2, Field(v, 0, 2), Field(u, 4, 6), 6, 0, 0)
  BY <1>5, <1>7, <1>8, TwoParts
<1>11. /\ ByteHolds(bytes, 3, 0, Field(u, 0, 4), 4, x, 4) /\ ByteHolds(bytes, 3, Field(u, 0, 4), x, 4, 0, 0)
  BY <1>5, <1>7, <1>8, TwoParts
<1>12. Says(b, 1, 10, v, 0)
  <2>1. Whole(1, 8, 1, 4, 2, 25) /\ Place(9, 10, 2, 2, 6, 4, 25) /\ Covered(9, 10, 2) /\ Meets(1, 8, 9, 10, 2, 0)
    BY <1>5 DEF Whole, Place, Covered, Meets
  <2>2. Says(b, 1, 8, v, 2)
    BY <1>3, <1>8, <1>9, <2>1, SaysWholeField
  <2>3. Says(b, 9, 10, v, 0)
    BY <1>3, <1>5, <1>9, <1>10, <2>1, SaysByte, SaysField
  <2> QED
    BY <2>1, <2>2, <2>3, SaysJoin
<1>13. Says(b, 11, 20, u, 0)
  <2>1. /\ Place(11, 16, 2, 6, 0, 4, 25) /\ Covered(11, 16, 6) /\ Place(17, 20, 3, 4, 4, 4, 25) /\ Covered(17, 20, 4)
        /\ Meets(11, 16, 17, 20, 4, 0)
    BY DEF Place, Covered, Meets
  <2>2. Says(b, 11, 16, u, 4) /\ Says(b, 17, 20, u, 0)
    BY <1>3, <1>5, <1>9, <1>10, <1>11, <2>1, SaysByte, SaysField
  <2> QED
    BY <2>1, <2>2, SaysJoin
<1>14. PairSpan(1, 10, 5, 25) /\ PairSpan(11, 20, 5, 25) /\ 5 \in 1 .. 8
  BY DEF PairSpan
<1>15. Number(Firsts(SubSeq(b, 1, 10))) = r /\ All(Seconds(SubSeq(b, 1, 10)), 1)
  BY <1>1, <1>9, <1>12, <1>14, PairsSayOne
<1>16. Number(Seconds(SubSeq(b, 11, 20))) = 31 - d /\ All(Firsts(SubSeq(b, 11, 20)), 0)
  BY <1>2, <1>9, <1>13, <1>14, PairsSayNone
<1>17. Value(b, 21, 24) = x
  <2>1. Place(21, 24, 3, 4, 0, 4, 25) /\ Span(21, 24, 4, 25)
    BY DEF Place, Span
  <2>2. Says(b, 21, 24, x, 0)
    BY <1>9, <1>11, <2>1, SaysByte
  <2> QED
    BY <1>9, <2>1, <2>2, ValueOf
<1>18. b[25] = 0
  BY <1>8, <1>9, LastBitZero
<1> QED
  BY <1>4, <1>9, <1>15, <1>16, <1>17, <1>18

\* 85 is four pairs of 0 and 1.
LEMMA Filling ==
  ASSUME NEW k \in 1 .. 4
  PROVE  Bit(85, 8 - (2 * k - 1)) = 0 /\ Bit(85, 8 - 2 * k) = 1
<1>1. k \in {1, 2, 3, 4}
  OBVIOUS
<1>2. /\ Bit(85, 7) = 0 /\ Bit(85, 6) = 1 /\ Bit(85, 5) = 0 /\ Bit(85, 4) = 1
      /\ Bit(85, 3) = 0 /\ Bit(85, 2) = 1 /\ Bit(85, 1) = 0 /\ Bit(85, 0) = 1
  BY DEF Bit
<1> QED
  BY <1>1, <1>2

LEMMA FillingBytes ==
  ASSUME NEW b, NEW bytes, Encodes(b, bytes, 4, 25), bytes[2] = 85, bytes[3] = 85, bytes[4] = 85
  PROVE  /\ \A k \in 5 .. 12 : b[2 * k - 1] = 0 /\ b[2 * k] = 1
         /\ b[25] = 0
<1>1. ASSUME NEW m \in {2, 3}, NEW i \in 1 .. 4
      PROVE  b[8 * (m - 1) + (2 * i - 1)] = 0 /\ b[8 * (m - 1) + 2 * i] = 1
  <2>1. /\ 2 * i - 1 \in 1 .. 8 /\ 2 * i \in 1 .. 8 /\ m \in 1 .. 4
        /\ 8 * (m - 1) + (2 * i - 1) <= 25 /\ 8 * (m - 1) + 2 * i <= 25
    OBVIOUS
  <2>2. /\ b[8 * (m - 1) + (2 * i - 1)] = Bit(bytes[m], 8 - (2 * i - 1))
        /\ b[8 * (m - 1) + 2 * i] = Bit(bytes[m], 8 - 2 * i)
    BY <2>1, ZenonT(30) DEF Encodes
  <2>3. bytes[m] = 85
    OBVIOUS
  <2> QED
    BY <2>2, <2>3, Filling
<1>2. ASSUME NEW k \in 5 .. 12 PROVE b[2 * k - 1] = 0 /\ b[2 * k] = 1
  <2>1. CASE k \in 5 .. 8
    <3>1. PICK i \in 1 .. 4 : i = k - 4 /\ 8 * (2 - 1) + (2 * i - 1) = 2 * k - 1 /\ 8 * (2 - 1) + 2 * i = 2 * k
      BY <2>1
    <3>2. b[8 * (2 - 1) + (2 * i - 1)] = 0 /\ b[8 * (2 - 1) + 2 * i] = 1
      BY <1>1
    <3> QED
      BY <3>1, <3>2
  <2>2. CASE k \in 9 .. 12
    <3>1. PICK i \in 1 .. 4 : i = k - 8 /\ 8 * (3 - 1) + (2 * i - 1) = 2 * k - 1 /\ 8 * (3 - 1) + 2 * i = 2 * k
      BY <2>2
    <3>2. b[8 * (3 - 1) + (2 * i - 1)] = 0 /\ b[8 * (3 - 1) + 2 * i] = 1
      BY <1>1
    <3> QED
      BY <3>1, <3>2
  <2> QED
    BY <2>1, <2>2
<1>3. b[25] = 0
  <2>1. 8 * (4 - 1) + 1 <= 25 /\ 4 \in 1 .. 4 /\ 1 \in 1 .. 8
    OBVIOUS
  <2>2. b[8 * (4 - 1) + 1] = Bit(bytes[4], 8 - 1)
    BY <2>1, Zenon DEF Encodes
  <2>3. 8 * (4 - 1) + 1 = 25 /\ Bit(85, 8 - 1) = 0
    BY DEF Bit
  <2> QED
    BY <2>2, <2>3, Zenon
<1> QED
  BY <1>2, <1>3

LEMMA IdkHears ==
  ASSUME NEW d \in Nat, Wide(d, 4), NEW b, b = Cut(Idk(d).bits, 25)
  PROVE  /\ 25 <= Len(Idk(d).bits)
         /\ All(Seconds(SubSeq(b, 1, 24)), 1) /\ All(Firsts(SubSeq(b, 9, 24)), 0) /\ b[25] = 0
         /\ Number(Firsts(SubSeq(b, 1, 8))) = d
<1>1. PICK p : p = Spread(d, 8, 1, 3)
  OBVIOUS
<1>2. Spreads(p, d, 8, 1, 3)
  <2>1. 8 \in 0 .. 8 /\ 1 \in 0 .. 3 /\ 3 \in 0 .. 3
    OBVIOUS
  <2> QED
    BY <1>1, <2>1, SpreadIs
<1>3. p \in Nat
  BY <1>2 DEF Spreads
<1> DEFINE bytes == <<p % 256, 85, 85, 85>>
<1>4. Idk(d).bits = BitsOf(bytes)
  <2>1. Idk(d) = Frame(BitsOf(bytes), 25)
    BY <1>1 DEF Idk
  <2> QED
    BY <2>1, FrameFields
<1>5. bytes \in Seq(Nat) /\ Len(bytes) = 4 /\ bytes[1] = p % 2^8 /\ bytes[2] = 85 /\ bytes[3] = 85 /\ bytes[4] = 85
  BY <1>3
<1> HIDE DEF bytes
<1>6. Encodes(b, bytes, 4, 25) /\ 25 <= Len(BitsOf(bytes)) /\ Numbers(b, 25)
  <2>1. 25 \in Nat /\ 25 <= 8 * 4
    OBVIOUS
  <2>2. Encodes(b, bytes, 4, 25) /\ 25 <= Len(BitsOf(bytes))
    BY <1>4, <1>5, <2>1, CountedBits, ZenonT(30)
  <2> QED
    BY <2>2 DEF Encodes
<1>7. /\ \A k \in 5 .. 12 : b[2 * k - 1] = 0 /\ b[2 * k] = 1
      /\ b[25] = 0
  BY <1>5, <1>6, FillingBytes, ZenonT(30)
<1>8. ASSUME NEW k \in 1 .. 8 PROVE b[k] = Bit(p, 8 - k)
  <2>1. 8 * (1 - 1) + k <= 25 /\ 1 \in 1 .. 4 /\ 8 * (1 - 1) + k = k
    OBVIOUS
  <2>2. b[8 * (1 - 1) + k] = Bit(bytes[1], 8 - k)
    BY <1>6, <2>1, Zenon DEF Encodes
  <2>3. Bit(p % 2^8, 8 - k) = Bit(p, 8 - k)
    <3>1. 8 \in 0 .. 28 /\ 8 - k \in 0 .. 8 - 1
      OBVIOUS
    <3> QED
      BY <1>3, <3>1, BitMask, Zenon
  <2> QED
    BY <1>5, <2>1, <2>2, <2>3, Zenon
<1>9. ASSUME NEW k \in 1 .. 4 PROVE b[2 * k - 1] = Bit(d, 4 - k) /\ b[2 * k] = 1
  <2>1. PICK i \in 0 .. 3 : i = 4 - k /\ 8 - (2 * k - 1) = 2 * i + 1 /\ 8 - 2 * k = 2 * i
    OBVIOUS
  <2>2. 2 * k - 1 \in 1 .. 8 /\ 2 * k \in 1 .. 8 /\ i \in 0 .. 8 - 1 /\ i \in 0 .. 28
    OBVIOUS
  <2>3. b[2 * k - 1] = Bit(p, 2 * i + 1) /\ b[2 * k] = Bit(p, 2 * i)
    BY <1>8, <2>1, <2>2
  <2>4. Bit(p, 2 * i) = Digit(d, 1, 3, i) % 2 /\ Bit(p, 2 * i + 1) = Digit(d, 1, 3, i) \div 2
    BY <1>2, <2>2 DEF Spreads
  <2>5. Bit(d, i) \in {0, 1}
    BY <2>2, BitType
  <2>6. Digit(d, 1, 3, i) \div 2 = Bit(d, i) /\ Digit(d, 1, 3, i) % 2 = 1
    <3>1. Digit(d, 1, 3, i) = IF Bit(d, i) = 1 THEN 3 ELSE 1
      BY DEF Digit
    <3> QED
      BY <2>5, <3>1
  <2> QED
    BY <2>1, <2>3, <2>4, <2>6
<1>10. Number(Firsts(SubSeq(b, 1, 8))) = d
  <2>1. PICK s : s = SubSeq(b, 1, 8)
    OBVIOUS
  <2>2. PairSpan(1, 8, 4, 25)
    BY DEF PairSpan
  <2>3. PairsAt(s, b, 1, 4)
    BY <1>6, <2>1, <2>2, PairsOf
  <2>4. ASSUME NEW k \in 1 .. 4 PROVE Firsts(s)[k] = Bit(d, 4 - k)
    <3>1. Firsts(s)[k] = b[1 + (2 * k - 2)] /\ 1 + (2 * k - 2) = 2 * k - 1
      BY <2>3 DEF PairsAt
    <3> QED
      BY <1>9, <3>1
  <2>5. Reads(Firsts(s), 4, d) /\ 4 \in 0 .. 28
    BY <2>3, <2>4 DEF Reads, PairsAt, Wide
  <2> QED
    BY <2>1, <2>5, NumberIs
<1>11. All(Seconds(SubSeq(b, 1, 24)), 1)
  <2>1. PICK s : s = SubSeq(b, 1, 24)
    OBVIOUS
  <2>2. PairSpan(1, 24, 12, 25)
    BY DEF PairSpan
  <2>3. PairsAt(s, b, 1, 12)
    BY <1>6, <2>1, <2>2, PairsOf
  <2>4. ASSUME NEW k \in 1 .. 12 PROVE Seconds(s)[k] = 1
    <3>1. Seconds(s)[k] = b[1 + (2 * k - 1)] /\ 1 + (2 * k - 1) = 2 * k
      BY <2>3 DEF PairsAt
    <3>2. k \in 1 .. 4 \/ k \in 5 .. 12
      OBVIOUS
    <3> QED
      BY <1>7, <1>9, <3>1, <3>2
  <2> QED
    BY <2>1, <2>3, <2>4 DEF All, PairsAt
<1>12. All(Firsts(SubSeq(b, 9, 24)), 0)
  <2>1. PICK s : s = SubSeq(b, 9, 24)
    OBVIOUS
  <2>2. PairSpan(9, 24, 8, 25)
    BY DEF PairSpan
  <2>3. PairsAt(s, b, 9, 8)
    BY <1>6, <2>1, <2>2, PairsOf
  <2>4. ASSUME NEW k \in 1 .. 8 PROVE Firsts(s)[k] = 0
    <3>1. Firsts(s)[k] = b[9 + (2 * k - 2)]
      BY <2>3 DEF PairsAt
    <3>2. PICK i \in 5 .. 12 : i = k + 4 /\ 2 * i - 1 = 9 + (2 * k - 2)
      OBVIOUS
    <3> QED
      BY <1>7, <3>1, <3>2
  <2> QED
    BY <2>1, <2>3, <2>4 DEF All, PairsAt
<1> QED
  BY <1>4, <1>6, <1>7, <1>10, <1>11, <1>12

-----------------------------------------------------------------------------
(***************************************************************************)
(* Dio: each bit is followed by its complement.                            *)
(***************************************************************************)

Manchester(n) == Spread(n, 4, 1, 2)

LEMMA ManchesterBits ==
  ASSUME NEW n \in Nat, NEW i \in 0 .. 3
  PROVE  /\ Manchester(n) \in Nat
         /\ Bit(Manchester(n), 2 * i + 1) = Bit(n, i) /\ Bit(Manchester(n), 2 * i) = 1 - Bit(n, i)
<1>1. Spreads(Manchester(n), n, 4, 1, 2)
  <2>1. 4 \in 0 .. 8 /\ 1 \in 0 .. 3 /\ 2 \in 0 .. 3
    OBVIOUS
  <2> QED
    BY <2>1, SpreadIs DEF Manchester
<1>2. /\ Manchester(n) \in Nat /\ Bit(Manchester(n), 2 * i) = Digit(n, 1, 2, i) % 2
      /\ Bit(Manchester(n), 2 * i + 1) = Digit(n, 1, 2, i) \div 2
  <2>1. i \in 0 .. 4 - 1
    OBVIOUS
  <2> QED
    BY <1>1, <2>1, Zenon DEF Spreads
<1>3. Bit(n, i) \in {0, 1}
  <2>1. i \in 0 .. 28
    OBVIOUS
  <2> QED
    BY <2>1, BitType
<1>4. Digit(n, 1, 2, i) = IF Bit(n, i) = 1 THEN 2 ELSE 1
  BY DEF Digit
<1>5. Digit(n, 1, 2, i) % 2 = 1 - Bit(n, i) /\ Digit(n, 1, 2, i) \div 2 = Bit(n, i)
  BY <1>3, <1>4
<1> QED
  BY <1>2, <1>5

Nibble(byte, h) == IF h = 1 THEN byte \div 16 ELSE byte % 16

LEMMA NibbleBits ==
  ASSUME NEW byte \in Nat, NEW h \in {1, 2}, NEW i \in 1 .. 4
  PROVE  Nibble(byte, h) \in Nat /\ Bit(Nibble(byte, h), 4 - i) = Bit(byte, 8 - (4 * (h - 1) + i))
<1>0. 2^4 = 16 /\ 4 \in 0 .. 28 /\ 4 - i \in 0 .. 4 - 1 /\ 4 - i \in 0 .. 24 /\ 4 + (4 - i) <= 28
  OBVIOUS
<1>1. byte \div 2^4 \in Nat /\ Bit(byte \div 2^4, 4 - i) = Bit(byte, 4 + (4 - i))
  <2>1. 4 \in Nat /\ 4 - i \in Nat /\ 4 + (4 - i) <= 28
    OBVIOUS
  <2> QED
    BY <2>1, BitShift, Zenon
<1>2. byte % 2^4 \in Nat /\ Bit(byte % 2^4, 4 - i) = Bit(byte, 4 - i)
  <2>1. byte % 2^4 \in 0 .. 2^4 - 1 /\ Bit(byte % 2^4, 4 - i) = Bit(byte, 4 - i)
    BY <1>0, BitMask, Zenon
  <2> QED
    BY <2>1
<1>3. CASE h = 1
  <2>1. Nibble(byte, h) = byte \div 2^4 /\ 8 - (4 * (h - 1) + i) = 4 + (4 - i)
    BY <1>3 DEF Nibble
  <2> QED
    BY <1>1, <2>1, Zenon
<1>4. CASE h = 2
  <2>1. Nibble(byte, h) = byte % 2^4 /\ 8 - (4 * (h - 1) + i) = 4 - i
    BY <1>4 DEF Nibble
  <2> QED
    BY <1>2, <2>1, Zenon
<1> QED
  BY <1>3, <1>4

\* The bytes of a frame that has two bits for each of buf.
Doubled(buf) == FlattenSeq([n \in 1 .. 4 |-> <<Manchester(buf[n] \div 16), Manchester(buf[n] % 16)>>])

LEMMA DoubledBytes ==
  ASSUME NEW buf \in [1 .. 4 -> Nat]
  PROVE  /\ Doubled(buf) \in Seq(Nat) /\ Len(Doubled(buf)) = 8
         /\ \A m \in 1 .. 4, h \in {1, 2} : Doubled(buf)[(m - 1) * 2 + h] = Manchester(Nibble(buf[m], h))
<1> DEFINE seqs == [n \in 1 .. 4 |-> <<Manchester(buf[n] \div 16), Manchester(buf[n] % 16)>>]
<1>1. ASSUME NEW n \in 1 .. 4
      PROVE  /\ seqs[n] \in Seq(Nat) /\ Len(seqs[n]) = 2
             /\ \A h \in {1, 2} : seqs[n][h] = Manchester(Nibble(buf[n], h))
  <2>1. buf[n] \in Nat /\ buf[n] \div 16 \in Nat /\ buf[n] % 16 \in Nat /\ 0 \in 0 .. 3
    OBVIOUS
  <2>2. Manchester(buf[n] \div 16) \in Nat /\ Manchester(buf[n] % 16) \in Nat
    BY <2>1, ManchesterBits, Zenon
  <2>3. seqs[n] = <<Manchester(Nibble(buf[n], 1)), Manchester(Nibble(buf[n], 2))>>
    BY DEF Nibble
  <2>4. Manchester(Nibble(buf[n], 1)) \in Nat /\ Manchester(Nibble(buf[n], 2)) \in Nat
    BY <2>2 DEF Nibble
  <2> HIDE DEF seqs
  <2> QED
    BY <2>3, <2>4
<1>2. seqs = [n \in 1 .. 4 |-> seqs[n]]
  OBVIOUS
<1>3. Doubled(buf) = FlattenSeq(seqs)
  BY DEF Doubled
<1> HIDE DEF seqs
<1>4. Even(seqs, 4, 2, Nat)
  BY <1>1, <1>2 DEF Even
<1>5. Consists(FlattenSeq(seqs), seqs, 4, 2, Nat)
  BY <1>4, FlattenEven
<1>6. Doubled(buf) \in Seq(Nat) /\ Len(Doubled(buf)) = 8
  BY <1>3, <1>5 DEF Consists
<1>7. ASSUME NEW m \in 1 .. 4, NEW h \in {1, 2}
      PROVE  Doubled(buf)[(m - 1) * 2 + h] = Manchester(Nibble(buf[m], h))
  <2>1. h \in 1 .. 2
    OBVIOUS
  <2>2. FlattenSeq(seqs)[(m - 1) * 2 + h] = seqs[m][h]
    BY <1>5, <2>1, Zenon DEF Consists, Blocks
  <2> QED
    BY <1>1, <1>3, <2>2
<1> QED
  BY <1>6, <1>7

LEMMA FirstsOf ==
  ASSUME NEW b, NEW w \in Nat, NEW w2, w2 = 2 * w, Numbers(b, w2)
  PROVE  Numbers(Firsts(b), w) /\ \A n \in 1 .. w : Firsts(b)[n] = b[2 * n - 1]
<1>1. b \in Seq(Nat) /\ Len(b) = w2
  BY DEF Numbers
<1>2. ASSUME NEW n \in 1 .. w PROVE b[2 * n - 1] \in Nat
  <2>1. 2 * n - 1 \in 1 .. Len(b)
    BY <1>1
  <2> QED
    BY <1>1, <2>1
<1>3. Firsts(b) = [n \in 1 .. w |-> b[2 * n - 1]]
  <2>1. Len(b) \div 2 = w
    BY <1>1
  <2> QED
    BY <2>1 DEF Firsts
<1>4. Firsts(b) \in Seq(Nat) /\ Len(Firsts(b)) = w
  BY <1>2, <1>3
<1> QED
  BY <1>3, <1>4 DEF Numbers

\* Each bit of buf is followed by its complement.
LEMMA DoubledBits ==
  ASSUME NEW buf \in [1 .. 4 -> Nat], NEW b, b = Cut(BitsOf(Doubled(buf)), 64)
  PROVE  /\ 64 <= Len(BitsOf(Doubled(buf))) /\ Encodes(Firsts(b), buf, 4, 32)
         /\ \A n \in 1 .. 32 : b[2 * n - 1] # b[2 * n]
<1>1. PICK bytes : bytes = Doubled(buf)
  OBVIOUS
<1>2. bytes \in Seq(Nat) /\ Len(bytes) = 8
  BY <1>1, DoubledBytes
<1>3. Encodes(b, bytes, 8, 64) /\ 64 <= Len(BitsOf(bytes)) /\ Numbers(b, 64)
  <2>1. 64 \in Nat /\ 64 <= 8 * 8
    OBVIOUS
  <2>2. Encodes(b, bytes, 8, 64) /\ 64 <= Len(BitsOf(bytes))
    BY <1>1, <1>2, <2>1, CountedBits, Zenon
  <2> QED
    BY <2>2 DEF Encodes
<1>4. ASSUME NEW n \in 1 .. 32
      PROVE  \E m \in 1 .. 4, k \in 1 .. 8 :
                /\ n = 8 * (m - 1) + k
                /\ b[2 * n - 1] = Bit(buf[m], 8 - k) /\ b[2 * n] = 1 - Bit(buf[m], 8 - k)
  <2>1. PICK m \in 1 .. 4, h \in {1, 2}, i \in 1 .. 4 : n = 8 * (m - 1) + (4 * (h - 1) + i)
    <3>1. \/ n \in 1 .. 4 \/ n \in 5 .. 8 \/ n \in 9 .. 12 \/ n \in 13 .. 16
          \/ n \in 17 .. 20 \/ n \in 21 .. 24 \/ n \in 25 .. 28 \/ n \in 29 .. 32
      OBVIOUS
    <3> DEFINE At(m, h) == \E i \in 1 .. 4 : n = 8 * (m - 1) + (4 * (h - 1) + i)
    <3>2. /\ n \in 1 .. 4 => At(1, 1)
          /\ n \in 5 .. 8 => At(1, 2)
          /\ n \in 9 .. 12 => At(2, 1)
          /\ n \in 13 .. 16 => At(2, 2)
          /\ n \in 17 .. 20 => At(3, 1)
          /\ n \in 21 .. 24 => At(3, 2)
          /\ n \in 25 .. 28 => At(4, 1)
          /\ n \in 29 .. 32 => At(4, 2)
      OBVIOUS
    <3> HIDE DEF At
    <3>3. \E m \in 1 .. 4, h \in {1, 2} : At(m, h)
      BY <3>1, <3>2
    <3> QED
      BY <3>3 DEF At
  <2>2. PICK j \in 1 .. 8 : j = (m - 1) * 2 + h
    OBVIOUS
  <2>3. PICK q \in 0 .. 3 : q = 4 - i
    OBVIOUS
  <2>4. /\ 2 * n - 1 = 8 * (j - 1) + (2 * i - 1) /\ 2 * n = 8 * (j - 1) + 2 * i
        /\ 8 - (2 * i - 1) = 2 * q + 1 /\ 8 - 2 * i = 2 * q
        /\ 2 * i - 1 \in 1 .. 8 /\ 2 * i \in 1 .. 8 /\ 2 * n - 1 <= 64 /\ 2 * n <= 64
    BY <2>1, <2>2, <2>3
  <2>5. b[8 * (j - 1) + (2 * i - 1)] = Bit(bytes[j], 8 - (2 * i - 1)) /\ b[8 * (j - 1) + 2 * i] = Bit(bytes[j], 8 - 2 * i)
    <3>1. 8 * (j - 1) + (2 * i - 1) <= 64 /\ 8 * (j - 1) + 2 * i <= 64
      BY <2>4
    <3> QED
      BY <1>3, <2>4, <3>1, Zenon DEF Encodes
  <2>6. b[2 * n - 1] = Bit(bytes[j], 2 * q + 1) /\ b[2 * n] = Bit(bytes[j], 2 * q)
    BY <2>4, <2>5, Zenon
  <2>7. bytes[j] = Manchester(Nibble(buf[m], h))
    BY <1>1, <2>2, DoubledBytes
  <2>8. buf[m] \in Nat
    OBVIOUS
  <2>9. PICK k \in 1 .. 8 : k = 4 * (h - 1) + i
    BY <2>1
  <2>10. Nibble(buf[m], h) \in Nat /\ Bit(Nibble(buf[m], h), q) = Bit(buf[m], 8 - k)
    BY <2>3, <2>8, <2>9, NibbleBits, Zenon
  <2>11. b[2 * n - 1] = Bit(buf[m], 8 - k) /\ b[2 * n] = 1 - Bit(buf[m], 8 - k)
    BY <2>6, <2>7, <2>10, ManchesterBits
  <2> QED
    BY <2>1, <2>9, <2>11
<1>5. ASSUME NEW n \in 1 .. 32 PROVE b[2 * n - 1] # b[2 * n]
  <2>1. PICK m \in 1 .. 4, k \in 1 .. 8 : b[2 * n - 1] = Bit(buf[m], 8 - k) /\ b[2 * n] = 1 - Bit(buf[m], 8 - k)
    BY <1>4
  <2>2. Bit(buf[m], 8 - k) \in {0, 1}
    <3>1. buf[m] \in Nat /\ 8 - k \in 0 .. 28
      OBVIOUS
    <3> QED
      BY <3>1, BitType
  <2> QED
    BY <2>1, <2>2
<1>6. Numbers(Firsts(b), 32) /\ \A n \in 1 .. 32 : Firsts(b)[n] = b[2 * n - 1]
  <2>1. 32 \in Nat /\ 64 = 2 * 32
    OBVIOUS
  <2>2. Numbers(Firsts(b), 32) /\ \A n \in 1 .. 32 : Firsts(b)[n] = b[2 * n - 1]
    BY <1>3, <2>1, FirstsOf, Zenon
  <2> QED
    BY <2>2
<1>9. ASSUME NEW m \in 1 .. 4, NEW k \in 1 .. 8 PROVE Firsts(b)[8 * (m - 1) + k] = Bit(buf[m], 8 - k)
  <2>1. PICK n \in 1 .. 32 : n = 8 * (m - 1) + k
    OBVIOUS
  <2>2. PICK a \in 1 .. 4, c \in 1 .. 8 : n = 8 * (a - 1) + c /\ b[2 * n - 1] = Bit(buf[a], 8 - c)
    BY <1>4
  <2>3. a = m /\ c = k
    BY <2>1, <2>2
  <2> QED
    BY <1>6, <2>1, <2>2, <2>3
<1>10. Encodes(Firsts(b), buf, 4, 32)
  BY <1>6, <1>9 DEF Encodes
<1> QED
  BY <1>1, <1>3, <1>5, <1>10

\* The bytes of the frame before they are doubled.
DioBytes(bytes, r, d, x) ==
    /\ r \in Nat /\ Wide(r, 26) /\ d \in Nat /\ Wide(d, 4) /\ Wide(x, 2)
    /\ bytes \in [1 .. 4 -> Nat] /\ bytes[1] = Field(r, 18, 8) /\ bytes[2] = Field(r, 10, 8)
    /\ bytes[3] = Field(r, 2, 8) /\ bytes[4] = (Field(r, 0, 2) * 2^2 + x) * 2^4 + Field(d, 0, 4)

DioTold(s, r, d, x) == Value(s, 1, 26) = r /\ Value(s, 29, 32) = d /\ Value(s, 27, 28) = x

LEMMA DioSays ==
  ASSUME NEW r, NEW d, NEW x, NEW bytes, DioBytes(bytes, r, d, x), NEW s, Encodes(s, bytes, 4, 32)
  PROVE  DioTold(s, r, d, x)
<1>1. r \in Nat /\ Wide(r, 26) /\ d \in Nat /\ Wide(d, 4) /\ Wide(x, 2)
  BY DEF DioBytes
<1>2. Within(18, 8) /\ Within(10, 8) /\ Within(2, 8) /\ Within(0, 2) /\ Within(0, 4) /\ Room(2, 2 + 4) /\ Room(2, 4)
  BY DEF Within, Room
<1>4. Field(d, 0, 4) \in Nat /\ Wide(Field(r, 0, 2), 2) /\ Wide(Field(d, 0, 4), 4)
  BY <1>1, <1>2, FieldType, Zenon
<1>5. /\ bytes[1] = Field(r, 18, 8) /\ bytes[2] = Field(r, 10, 8)
      /\ bytes[3] = Field(r, 2, 8) /\ bytes[4] = (Field(r, 0, 2) * 2^2 + x) * 2^4 + Field(d, 0, 4)
  BY Zenon DEF DioBytes
<1>6. Encodes(s, bytes, 4, 32) /\ Numbers(s, 32)
  BY DEF Encodes
<1>7. /\ ByteHolds(bytes, 4, 0, Field(r, 0, 2), 2, x * 2^4 + Field(d, 0, 4), 2 + 4)
      /\ ByteHolds(bytes, 4, Field(r, 0, 2), x, 2, Field(d, 0, 4), 4)
      /\ ByteHolds(bytes, 4, Field(r, 0, 2) * 2^2 + x, Field(d, 0, 4), 4, 0, 0)
  BY <1>1, <1>2, <1>4, <1>5, ThreeParts, Zenon
<1>8. Value(s, 1, 26) = r
  <2>1. Whole(1, 8, 1, 4, 18, 32) /\ Whole(9, 16, 2, 4, 10, 32) /\ Whole(17, 24, 3, 4, 2, 32)
    BY <1>2 DEF Whole, Place
  <2>2. Says(s, 1, 8, r, 18) /\ Says(s, 9, 16, r, 10) /\ Says(s, 17, 24, r, 2)
    <3>1. Says(s, 1, 8, r, 18)
      BY <1>1, <1>5, <1>6, <2>1, SaysWholeField, Zenon
    <3>2. Says(s, 9, 16, r, 10)
      BY <1>1, <1>5, <1>6, <2>1, SaysWholeField, Zenon
    <3>3. Says(s, 17, 24, r, 2)
      BY <1>1, <1>5, <1>6, <2>1, SaysWholeField, Zenon
    <3> QED
      BY <3>1, <3>2, <3>3
  <2>3. Place(25, 26, 4, 2, 2 + 4, 4, 32) /\ Covered(25, 26, 2)
    BY DEF Place, Covered
  <2>4. Says(s, 25, 26, r, 0)
    BY <1>1, <1>2, <1>6, <1>7, <2>3, SaysByte, SaysField
  <2>5. Meets(1, 8, 9, 16, 18, 10) /\ Meets(1, 16, 17, 24, 10, 2) /\ Meets(1, 24, 25, 26, 2, 0) /\ Span(1, 26, 26, 32)
    BY DEF Meets, Span
  <2>6. Says(s, 1, 26, r, 0)
    BY <2>2, <2>4, <2>5, SaysJoin
  <2> QED
    BY <1>1, <1>6, <2>5, <2>6, ValueOf
<1>9. Value(s, 29, 32) = d
  <2>1. Place(29, 32, 4, 4, 0, 4, 32) /\ Covered(29, 32, 4) /\ Span(29, 32, 4, 32)
    BY DEF Place, Covered, Span
  <2>2. Says(s, 29, 32, d, 0)
    BY <1>1, <1>2, <1>6, <1>7, <2>1, SaysByte, SaysField
  <2> QED
    BY <1>1, <1>6, <2>1, <2>2, ValueOf
<1>10. Value(s, 27, 28) = x
  <2>1. Place(27, 28, 4, 2, 4, 4, 32) /\ Span(27, 28, 2, 32)
    BY DEF Place, Span
  <2>2. Says(s, 27, 28, x, 0)
    BY <1>1, <1>6, <1>7, <2>1, SaysByte
  <2> QED
    BY <1>1, <1>6, <2>1, <2>2, ValueOf
<1> QED
  BY <1>8, <1>9, <1>10 DEF DioTold

DioSaid(b, r, d, x) ==
    /\ \A n \in 1 .. 32 : b[2 * n - 1] # b[2 * n]
    /\ Value(Firsts(b), 1, 26) = r /\ Value(Firsts(b), 29, 32) = d /\ Value(Firsts(b), 27, 28) = x

LEMMA DioIs ==
  ASSUME NEW r, NEW d, NEW x
  PROVE  Dio(r, d, x) =
           Frame(BitsOf(Doubled(<<Field(r, 18, 8), Field(r, 10, 8), Field(r, 2, 8),
                                  Field(r, 0, 2) * 64 + x * 16 + Field(d, 0, 4)>>)), 64)
  BY Zenon DEF Dio, Doubled, Manchester

LEMMA DioHears ==
  ASSUME NEW r \in Nat, Wide(r, 26), NEW d \in Nat, Wide(d, 4), NEW x, Wide(x, 2),
         NEW b, b = Cut(Dio(r, d, x).bits, 64)
  PROVE  64 <= Len(Dio(r, d, x).bits) /\ DioSaid(b, r, d, x)
<1> DEFINE bytes == <<Field(r, 18, 8), Field(r, 10, 8), Field(r, 2, 8),
                      Field(r, 0, 2) * 64 + x * 16 + Field(d, 0, 4)>>
<1>1. Dio(r, d, x).bits = BitsOf(Doubled(bytes))
  BY DioIs, FrameFields
<1>2. Within(18, 8) /\ Within(10, 8) /\ Within(2, 8) /\ Within(0, 2) /\ Within(0, 4) /\ Room(2, 2 + 4) /\ Room(2, 4)
  BY DEF Within, Room
<1>3. x \in Nat
  <2>1. 2 \in 0 .. 28
    OBVIOUS
  <2> QED
    BY <2>1, WideNat
<1>4. /\ Field(r, 18, 8) \in Nat /\ Field(r, 10, 8) \in Nat /\ Field(r, 2, 8) \in Nat /\ Field(r, 0, 2) \in Nat
      /\ Field(d, 0, 4) \in Nat /\ Wide(Field(r, 0, 2), 2) /\ Wide(Field(d, 0, 4), 4)
  BY <1>2, FieldType, Zenon
<1>5. /\ bytes \in [1 .. 4 -> Nat] /\ bytes[1] = Field(r, 18, 8) /\ bytes[2] = Field(r, 10, 8)
      /\ bytes[3] = Field(r, 2, 8) /\ bytes[4] = (Field(r, 0, 2) * 2^2 + x) * 2^4 + Field(d, 0, 4)
  BY <1>3, <1>4
<1> HIDE DEF bytes
<1>6. /\ 64 <= Len(BitsOf(Doubled(bytes))) /\ Encodes(Firsts(b), bytes, 4, 32)
      /\ \A n \in 1 .. 32 : b[2 * n - 1] # b[2 * n]
  BY <1>1, <1>5, DoubledBits
<1>7. DioBytes(bytes, r, d, x)
  BY <1>5, Zenon DEF DioBytes
<1>8. DioTold(Firsts(b), r, d, x)
  BY <1>6, <1>7, DioSays, Zenon
<1>9. Value(Firsts(b), 1, 26) = r /\ Value(Firsts(b), 29, 32) = d /\ Value(Firsts(b), 27, 28) = x
  BY <1>8, Zenon DEF DioTold
<1>10. 64 <= Len(Dio(r, d, x).bits)
  BY <1>1, <1>6, Zenon
<1> QED
  BY <1>6, <1>9, <1>10, Zenon DEF DioSaid

-----------------------------------------------------------------------------
(***************************************************************************)
(* HomeEasy: nibbles in words of seven bits, from a table.                 *)
(***************************************************************************)

\* Some numbers of a sequence of them.
Part(from, to, w, n) == from \in 1 .. n /\ to \in from .. n /\ w = to - from + 1

\* s is that part of b.
Selects(s, b, from, w) == Numbers(s, w) /\ \A i \in 1 .. w : s[i] = b[from + i - 1]

LEMMA SubSeqIs ==
  ASSUME NEW n, NEW b, Numbers(b, n), NEW from, NEW to, NEW w, Part(from, to, w, n)
  PROVE  Selects(SubSeq(b, from, to), b, from, w)
<1>1. PICK s : s = SubSeq(b, from, to)
  OBVIOUS
<1>2. from \in Int /\ to \in Int /\ from <= to /\ w = to - from + 1 /\ w \in Nat /\ \A i \in from .. to : b[i] \in Nat
  BY DEF Numbers, Part
<1>3. /\ s \in Seq(Nat) /\ Len(s) = IF from <= to THEN to - from + 1 ELSE 0
      /\ \A i \in 1 .. to - from + 1 : s[i] = b[from + i - 1]
  BY <1>1, <1>2, SubSeqProperties
<1>4. Numbers(s, w) /\ \A i \in 1 .. w : s[i] = b[from + i - 1]
  BY <1>2, <1>3 DEF Numbers
<1> QED
  BY <1>1, <1>4 DEF Selects

LEMMA TailIs ==
  ASSUME NEW s, NEW n \in Nat, s \in Seq(Nat), Len(s) = n + 1
  PROVE  Tail(s) \in Seq(Nat) /\ Len(Tail(s)) = n /\ \A k \in 1 .. n : Tail(s)[k] = s[k + 1]
  OBVIOUS

LEMMA TableFacts ==
  ASSUME NEW i \in 1 .. 16
  PROVE  tb_fx[i] \in 0 .. 31 /\ \A j \in 1 .. 16 : tb_fx[j] = tb_fx[i] => j = i
<1>1. \A j \in 1 .. 16 : j \in {1, 2, 3, 4, 5, 6, 7, 8, 9, 10, 11, 12, 13, 14, 15, 16}
  OBVIOUS
<1>2. /\ tb_fx[1] = 7 /\ tb_fx[2] = 11 /\ tb_fx[3] = 13 /\ tb_fx[4] = 14 /\ tb_fx[5] = 19 /\ tb_fx[6] = 21
      /\ tb_fx[7] = 22 /\ tb_fx[8] = 25 /\ tb_fx[9] = 26 /\ tb_fx[10] = 28 /\ tb_fx[11] = 3 /\ tb_fx[12] = 5
      /\ tb_fx[13] = 6 /\ tb_fx[14] = 9 /\ tb_fx[15] = 10 /\ tb_fx[16] = 12
  BY DEF tb_fx
<1> QED
  BY <1>1, <1>2

KbufOf(v) == Tail(ByteBits(tb_fx[v + 1] + 64))

LEMMA KbufBits ==
  ASSUME NEW v \in 0 .. 15
  PROVE  /\ KbufOf(v) \in Seq(Nat) /\ Len(KbufOf(v)) = 7
         /\ KbufOf(v)[1] = 1 /\ KbufOf(v)[2] = 0
         /\ \A k \in 3 .. 7 : KbufOf(v)[k] = Bit(tb_fx[v + 1], 7 - k)
<1>1. PICK t \in 0 .. 31 : t = tb_fx[v + 1]
  BY TableFacts
<1>2. PICK y \in Nat : y = t + 64 /\ y = 2 * 2^5 + t
  OBVIOUS
<1>3. PICK w : w = ByteBits(y)
  OBVIOUS
<1>4. w \in Seq(Nat) /\ Len(w) = 8 /\ \A k \in 1 .. 8 : w[k] = Bit(y, 8 - k)
  <2>1. ASSUME NEW k \in 1 .. 8 PROVE Bit(y, 8 - k) \in Nat
    <3>1. 8 - k \in 0 .. 28
      OBVIOUS
    <3>2. Bit(y, 8 - k) \in {0, 1}
      BY <3>1, BitType
    <3> QED
      BY <3>2
  <2>2. w = [k \in 1 .. 8 |-> Bit(y, 8 - k)]
    BY <1>3 DEF ByteBits
  <2> QED
    BY <2>1, <2>2
<1>5. KbufOf(v) = Tail(w)
  BY <1>1, <1>2, <1>3 DEF KbufOf
<1>6. Tail(w) \in Seq(Nat) /\ Len(Tail(w)) = 7 /\ \A k \in 1 .. 7 : Tail(w)[k] = w[k + 1]
  <2>1. 7 \in Nat /\ Len(w) = 7 + 1
    BY <1>4
  <2> QED
    BY <1>4, <2>1, TailIs, Zenon
<1>7. /\ \A i \in 0 .. 5 - 1 : Bit(y, i) = Bit(t, i)
      /\ \A i \in 5 .. 28 : Bit(y, i) = Bit(2, i - 5)
  <2>1. 2 \in Nat /\ 5 \in 0 .. 28 /\ t \in 0 .. 2^5 - 1
    OBVIOUS
  <2>2. /\ \A i \in 0 .. 5 - 1 : Bit(2 * 2^5 + t, i) = Bit(t, i)
        /\ \A i \in 5 .. 28 : Bit(2 * 2^5 + t, i) = Bit(2, i - 5)
    BY <2>1, Packed, Zenon
  <2> QED
    BY <1>2, <2>2, Zenon
<1>8. ASSUME NEW k \in 3 .. 7 PROVE Tail(w)[k] = Bit(t, 7 - k)
  <2>1. 8 - (k + 1) = 7 - k /\ 7 - k \in 0 .. 5 - 1 /\ k \in 1 .. 7 /\ k + 1 \in 1 .. 8
    OBVIOUS
  <2>2. Tail(w)[k] = Bit(y, 7 - k)
    BY <1>4, <1>6, <2>1
  <2> QED
    BY <1>7, <2>1, <2>2
<1>9. Tail(w)[1] = 1 /\ Tail(w)[2] = 0
  <2>1. Tail(w)[1] = Bit(y, 6) /\ Tail(w)[2] = Bit(y, 5)
    <3>1. 1 \in 1 .. 7 /\ 2 \in 1 .. 7 /\ 2 \in 1 .. 8 /\ 3 \in 1 .. 8
          /\ 1 + 1 = 2 /\ 2 + 1 = 3 /\ 8 - 2 = 6 /\ 8 - 3 = 5
      OBVIOUS
    <3>2. Tail(w)[1] = w[1 + 1] /\ Tail(w)[2] = w[2 + 1] /\ w[2] = Bit(y, 8 - 2) /\ w[3] = Bit(y, 8 - 3)
      BY <1>4, <1>6, <3>1, Zenon
    <3> QED
      BY <3>1, <3>2, Zenon
  <2>2. Bit(y, 6) = Bit(2, 6 - 5) /\ Bit(y, 5) = Bit(2, 5 - 5) /\ 6 - 5 = 1 /\ 5 - 5 = 0
    <3>1. 6 \in 5 .. 28 /\ 5 \in 5 .. 28 /\ 6 - 5 = 1 /\ 5 - 5 = 0
      OBVIOUS
    <3> QED
      BY <1>7, <3>1, Zenon
  <2>3. Bit(2, 1) = 1 /\ Bit(2, 0) = 0
    BY DEF Bit
  <2> QED
    BY <2>1, <2>2, <2>3
<1> QED
  BY <1>1, <1>5, <1>6, <1>8, <1>9

\* The nibble that a word of b says.
WordAt(b, n)   == SubSeq(b, 7 * n + 2, 7 * n + 8)
NibbleAt(b, n) == (CHOOSE i \in 1 .. 16 : tb_fx[i] = Value(WordAt(b, n), 3, 7)) - 1

LEMMA WordSays ==
  ASSUME NEW s, Numbers(s, 7), NEW v \in 0 .. 15,
         s[1] = 1, s[2] = 0, \A k \in 3 .. 7 : s[k] = Bit(tb_fx[v + 1], 7 - k)
  PROVE  Value(s, 1, 2) = 2 /\ Value(s, 3, 7) = tb_fx[v + 1]
<1>1. Value(s, 1, 2) = 2
  <2>1. Span(1, 2, 2, 7) /\ Wide(2, 2)
    BY DEF Span, Wide
  <2>2. Says(s, 1, 2, 2, 0)
    <3>1. ASSUME NEW j \in 1 .. 2 PROVE s[j] = Bit(2, 0 + (2 - j))
      <4>1. Bit(2, 1) = 1 /\ Bit(2, 0) = 0
        BY DEF Bit
      <4>2. (j = 1 /\ 0 + (2 - j) = 1) \/ (j = 2 /\ 0 + (2 - j) = 0)
        OBVIOUS
      <4> QED
        BY <4>1, <4>2
    <3> QED
      BY <3>1 DEF Says
  <2> QED
    BY <2>1, <2>2, ValueOf
<1>2. Value(s, 3, 7) = tb_fx[v + 1]
  <2>1. PICK t \in 0 .. 31 : t = tb_fx[v + 1]
    BY TableFacts
  <2>2. Span(3, 7, 5, 7) /\ Wide(t, 5)
    BY DEF Span, Wide
  <2>3. Says(s, 3, 7, t, 0)
    <3>1. ASSUME NEW j \in 3 .. 7 PROVE s[j] = Bit(t, 0 + (7 - j))
      <4>1. 0 + (7 - j) = 7 - j
        OBVIOUS
      <4> QED
        BY <2>1, <4>1
    <3> QED
      BY <3>1 DEF Says
  <2>4. Value(s, 3, 7) = t
    BY <2>2, <2>3, ValueOf
  <2> QED
    BY <2>1, <2>4
<1> QED
  BY <1>1, <1>2

\* The frame of eight nibbles: a bit, a word for each, and seven bits that do not count.
Worded(g) == <<1>> \o FlattenSeq([n \in 1 .. 8 |-> KbufOf(g[n - 1])]) \o [n \in 1 .. 7 |-> 0]

LEMMA WordedBits ==
  ASSUME NEW g \in [0 .. 7 -> 0 .. 15]
  PROVE  /\ Worded(g) \in Seq(Nat) /\ Len(Worded(g)) = 64 /\ Worded(g)[1] = 1
         /\ \A n \in 0 .. 7, k \in 1 .. 7 : Worded(g)[7 * n + 1 + k] = KbufOf(g[n])[k]
<1> DEFINE seqs == [n \in 1 .. 8 |-> KbufOf(g[n - 1])]
           t == FlattenSeq(seqs)
           z == [n \in 1 .. 7 |-> 0]
<1>1. ASSUME NEW n \in 1 .. 8 PROVE KbufOf(g[n - 1]) \in Seq(Nat) /\ Len(KbufOf(g[n - 1])) = 7
  <2>1. g[n - 1] \in 0 .. 15
    OBVIOUS
  <2> QED
    BY <2>1, KbufBits
<1>2. Even(seqs, 8, 7, Nat)
  <2>1. seqs = [n \in 1 .. 8 |-> seqs[n]] /\ \A n \in 1 .. 8 : seqs[n] = KbufOf(g[n - 1])
    OBVIOUS
  <2> HIDE DEF seqs
  <2> QED
    BY <1>1, <2>1 DEF Even
<1>3. Consists(t, seqs, 8, 7, Nat)
  BY <1>2, FlattenEven
<1>4. t \in Seq(Nat) /\ Len(t) = 56
  <2> HIDE DEF t, seqs
  <2> QED
    BY <1>3 DEF Consists
<1>5. ASSUME NEW n \in 0 .. 7, NEW k \in 1 .. 7 PROVE t[n * 7 + k] = KbufOf(g[n])[k]
  <2>1. PICK m \in 1 .. 8 : m = n + 1 /\ m - 1 = n
    OBVIOUS
  <2>2. seqs[m] = KbufOf(g[n])
    BY <2>1
  <2> HIDE DEF t, seqs
  <2>3. t[(m - 1) * 7 + k] = seqs[m][k]
    BY <1>3, Zenon DEF Consists, Blocks
  <2> QED
    BY <2>1, <2>2, <2>3
<1>6. Worded(g) = (<<1>> \o t) \o z
  BY DEF Worded
<1>7. z \in Seq(Nat) /\ Len(z) = 7 /\ <<1>> \in Seq(Nat) /\ Len(<<1>>) = 1 /\ <<1>>[1] = 1
  OBVIOUS
<1> HIDE DEF t, seqs, z
<1>8. PICK h : h = <<1>>
  OBVIOUS
<1>9. h \in Seq(Nat) /\ Len(h) = 1 /\ h[1] = 1
  BY <1>7, <1>8
<1>10. PICK u : u = h \o t
  OBVIOUS
<1>11. Concatenation(u, h, t, Nat)
  BY <1>4, <1>9, <1>10, Concatenated
<1>12. u \in Seq(Nat) /\ Len(u) = 57 /\ u[1] = 1 /\ \A i \in 1 .. 56 : u[1 + i] = t[i]
  BY <1>4, <1>9, <1>11 DEF Concatenation
<1>13. PICK y : y = u \o z
  OBVIOUS
<1>14. Concatenation(y, u, z, Nat)
  BY <1>7, <1>12, <1>13, Concatenated
<1>15. y \in Seq(Nat) /\ Len(y) = 64 /\ \A i \in 1 .. 57 : y[i] = u[i]
  BY <1>7, <1>12, <1>14 DEF Concatenation
<1>16. ASSUME NEW n \in 0 .. 7, NEW k \in 1 .. 7 PROVE y[7 * n + 1 + k] = KbufOf(g[n])[k]
  <2>1. PICK i \in 1 .. 56 : i = n * 7 + k /\ 7 * n + 1 + k = 1 + i /\ 1 + i \in 1 .. 57
    OBVIOUS
  <2>2. y[1 + i] = u[1 + i] /\ u[1 + i] = t[i]
    BY <1>12, <1>15, <2>1
  <2>3. t[n * 7 + k] = KbufOf(g[n])[k]
    BY <1>5
  <2> QED
    BY <2>1, <2>2, <2>3, Zenon
<1>17. y[1] = 1
  BY <1>12, <1>15
<1>18. Worded(g) = y
  BY <1>6, <1>8, <1>10, <1>13
<1> QED
  BY <1>15, <1>16, <1>17, <1>18

LEMMA WordedSays ==
  ASSUME NEW g \in [0 .. 7 -> 0 .. 15], NEW b, b = Cut(Worded(g), 57)
  PROVE  /\ b[1] = 1
         /\ \A n \in 0 .. 7 : Value(WordAt(b, n), 1, 2) = 2 /\ NibbleAt(b, n) = g[n]
<1>1. PICK y : y = Worded(g)
  OBVIOUS
<1>2. /\ y \in Seq(Nat) /\ Len(y) = 64 /\ y[1] = 1
      /\ \A n \in 0 .. 7, k \in 1 .. 7 : y[7 * n + 1 + k] = KbufOf(g[n])[k]
  BY <1>1, WordedBits
<1>3. Numbers(b, 57) /\ \A i \in 1 .. 57 : b[i] = y[i]
  <2>1. Numbers(y, 64) /\ Part(1, 57, 57, 64)
    BY <1>2 DEF Numbers, Part
  <2>2. Selects(b, y, 1, 57)
    <3>1. b = SubSeq(y, 1, 57)
      BY <1>1 DEF Cut
    <3>2. Selects(SubSeq(y, 1, 57), y, 1, 57)
      BY <2>1, SubSeqIs
    <3> QED
      BY <3>1, <3>2
  <2>3. \A i \in 1 .. 57 : 1 + i - 1 = i
    OBVIOUS
  <2> QED
    BY <2>2, <2>3 DEF Selects
<1>4. b[1] = 1
  BY <1>2, <1>3
<1>5. ASSUME NEW n \in 0 .. 7 PROVE Value(WordAt(b, n), 1, 2) = 2 /\ NibbleAt(b, n) = g[n]
  <2>1. PICK v \in 0 .. 15 : v = g[n]
    OBVIOUS
  <2>2. PICK s : s = WordAt(b, n)
    OBVIOUS
  <2>3. PICK from, to : from = 7 * n + 2 /\ to = 7 * n + 8
    OBVIOUS
  <2>4. Part(from, to, 7, 57)
    BY <2>3 DEF Part
  <2>5. s = SubSeq(b, from, to)
    BY <2>2, <2>3 DEF WordAt
  <2>55. Selects(s, b, from, 7)
    BY <1>3, <2>4, <2>5, SubSeqIs
  <2>6. Numbers(s, 7) /\ \A i \in 1 .. 7 : s[i] = b[from + i - 1]
    BY <2>55 DEF Selects
  <2>7. Numbers(s, 7)
    BY <2>6
  <2>8. ASSUME NEW k \in 1 .. 7 PROVE s[k] = KbufOf(v)[k]
    <3>1. PICK i \in 1 .. 57 : i = 7 * n + 1 + k /\ from + k - 1 = i
      BY <2>3
    <3>2. s[k] = b[i] /\ b[i] = y[i]
      BY <1>3, <2>6, <3>1
    <3>3. y[7 * n + 1 + k] = KbufOf(g[n])[k]
      BY <1>2
    <3> QED
      BY <2>1, <3>1, <3>2, <3>3
  <2>9. s[1] = 1 /\ s[2] = 0 /\ \A k \in 3 .. 7 : s[k] = Bit(tb_fx[v + 1], 7 - k)
    <3>1. KbufOf(v)[1] = 1 /\ KbufOf(v)[2] = 0 /\ \A k \in 3 .. 7 : KbufOf(v)[k] = Bit(tb_fx[v + 1], 7 - k)
      BY KbufBits
    <3> QED
      BY <2>8, <3>1
  <2>10. Value(s, 1, 2) = 2 /\ Value(s, 3, 7) = tb_fx[v + 1]
    BY <2>7, <2>9, WordSays
  <2>11. (CHOOSE i \in 1 .. 16 : tb_fx[i] = tb_fx[v + 1]) = v + 1
    <3>1. v + 1 \in 1 .. 16
      OBVIOUS
    <3>2. \A j \in 1 .. 16 : tb_fx[j] = tb_fx[v + 1] => j = v + 1
      BY <3>1, TableFacts
    <3> QED
      BY <3>1, <3>2, Zenon
  <2>12. NibbleAt(b, n) = v
    <3>1. NibbleAt(b, n) = (CHOOSE i \in 1 .. 16 : tb_fx[i] = tb_fx[v + 1]) - 1
      BY <2>2, <2>10, Zenon DEF NibbleAt
    <3>2. PICK j : j = (CHOOSE i \in 1 .. 16 : tb_fx[i] = tb_fx[v + 1])
      OBVIOUS
    <3>3. j = v + 1
      BY <2>11, <3>2
    <3>4. NibbleAt(b, n) = j - 1
      BY <3>1, <3>2
    <3> QED
      BY <3>3, <3>4
  <2> QED
    BY <2>1, <2>2, <2>10, <2>12
<1> QED
  BY <1>4, <1>5

HeBuf(d, x) == <<0, Field(d, 8, 8), Field(d, 0, 8), x>>
HeNibbles(d, x) ==
    [n \in 0 .. 7 |-> IF n % 2 = 0 THEN HeBuf(d, x)[n \div 2 + 1] \div 16 ELSE HeBuf(d, x)[n \div 2 + 1] % 16]

HeGiven(d, x, a, c) == a \in Nat /\ c \in Nat /\ x \in Nat /\ d \in Nat /\ a = Field(d, 8, 8) /\ c = Field(d, 0, 8)
HeTold(g, x, a, c) ==
    /\ g[0] = 0 /\ g[1] = 0 /\ g[2] = a \div 16 /\ g[3] = a % 16
    /\ g[4] = c \div 16 /\ g[5] = c % 16 /\ g[6] = x \div 16 /\ g[7] = x % 16

LEMMA NibblesOf ==
  ASSUME NEW d, NEW x, NEW a, NEW c, HeGiven(d, x, a, c)
  PROVE  HeTold(HeNibbles(d, x), x, a, c)
<1>0. a \in Nat /\ c \in Nat /\ x \in Nat /\ d \in Nat /\ a = Field(d, 8, 8) /\ c = Field(d, 0, 8)
  BY DEF HeGiven
<1>1. PICK buf : buf = HeBuf(d, x)
  OBVIOUS
<1>2. buf[1] = 0 /\ buf[2] = a /\ buf[3] = c /\ buf[4] = x
  BY <1>0, <1>1 DEF HeBuf
<1>3. HeNibbles(d, x) = [n \in 0 .. 7 |-> IF n % 2 = 0 THEN buf[n \div 2 + 1] \div 16 ELSE buf[n \div 2 + 1] % 16]
  BY <1>1 DEF HeNibbles
<1>4. ASSUME NEW n \in 0 .. 7, NEW m, m = n \div 2 + 1
      PROVE  HeNibbles(d, x)[n] = IF n % 2 = 0 THEN buf[m] \div 16 ELSE buf[m] % 16
  BY <1>3, <1>4
<1>5. HeNibbles(d, x)[0] = 0
  <2>1. 0 \in 0 .. 7 /\ 1 = 0 \div 2 + 1 /\ 0 % 2 = 0
    OBVIOUS
  <2>2. HeNibbles(d, x)[0] = IF 0 % 2 = 0 THEN buf[1] \div 16 ELSE buf[1] % 16
    BY <1>4, <2>1, Zenon
  <2> QED
    BY <1>2, <2>1, <2>2
<1>6. HeNibbles(d, x)[1] = 0
  <2>1. 1 \in 0 .. 7 /\ 1 = 1 \div 2 + 1 /\ 1 % 2 = 1
    OBVIOUS
  <2>2. HeNibbles(d, x)[1] = IF 1 % 2 = 0 THEN buf[1] \div 16 ELSE buf[1] % 16
    BY <1>4, <2>1, Zenon
  <2> QED
    BY <1>2, <2>1, <2>2
<1>7. HeNibbles(d, x)[2] = a \div 16
  <2>1. 2 \in 0 .. 7 /\ 2 = 2 \div 2 + 1 /\ 2 % 2 = 0
    OBVIOUS
  <2>2. HeNibbles(d, x)[2] = IF 2 % 2 = 0 THEN buf[2] \div 16 ELSE buf[2] % 16
    BY <1>4, <2>1, Zenon
  <2> QED
    BY <1>2, <2>1, <2>2
<1>8. HeNibbles(d, x)[3] = a % 16
  <2>1. 3 \in 0 .. 7 /\ 2 = 3 \div 2 + 1 /\ 3 % 2 = 1
    OBVIOUS
  <2>2. HeNibbles(d, x)[3] = IF 3 % 2 = 0 THEN buf[2] \div 16 ELSE buf[2] % 16
    BY <1>4, <2>1, Zenon
  <2> QED
    BY <1>2, <2>1, <2>2
<1>9. HeNibbles(d, x)[4] = c \div 16
  <2>1. 4 \in 0 .. 7 /\ 3 = 4 \div 2 + 1 /\ 4 % 2 = 0
    OBVIOUS
  <2>2. HeNibbles(d, x)[4] = IF 4 % 2 = 0 THEN buf[3] \div 16 ELSE buf[3] % 16
    BY <1>4, <2>1, Zenon
  <2> QED
    BY <1>2, <2>1, <2>2
<1>10. HeNibbles(d, x)[5] = c % 16
  <2>1. 5 \in 0 .. 7 /\ 3 = 5 \div 2 + 1 /\ 5 % 2 = 1
    OBVIOUS
  <2>2. HeNibbles(d, x)[5] = IF 5 % 2 = 0 THEN buf[3] \div 16 ELSE buf[3] % 16
    BY <1>4, <2>1, Zenon
  <2> QED
    BY <1>2, <2>1, <2>2
<1>11. HeNibbles(d, x)[6] = x \div 16
  <2>1. 6 \in 0 .. 7 /\ 4 = 6 \div 2 + 1 /\ 6 % 2 = 0
    OBVIOUS
  <2>2. HeNibbles(d, x)[6] = IF 6 % 2 = 0 THEN buf[4] \div 16 ELSE buf[4] % 16
    BY <1>4, <2>1, Zenon
  <2> QED
    BY <1>2, <2>1, <2>2
<1>12. HeNibbles(d, x)[7] = x % 16
  <2>1. 7 \in 0 .. 7 /\ 4 = 7 \div 2 + 1 /\ 7 % 2 = 1
    OBVIOUS
  <2>2. HeNibbles(d, x)[7] = IF 7 % 2 = 0 THEN buf[4] \div 16 ELSE buf[4] % 16
    BY <1>4, <2>1, Zenon
  <2> QED
    BY <1>2, <2>1, <2>2
<1> QED
  BY <1>5, <1>6, <1>7, <1>8, <1>9, <1>10, <1>11, <1>12 DEF HeTold

LEMMA Recombined ==
  ASSUME NEW d \in Nat, Wide(d, 16)
  PROVE  /\ Field(d, 8, 8) \in 0 .. 255 /\ Field(d, 0, 8) \in 0 .. 255
         /\ d = Field(d, 8, 8) * 256 + Field(d, 0, 8)
<1>1. 2^8 = 256 /\ 2^0 = 1 /\ d \div 1 = d
  OBVIOUS
<1>2. Field(d, 8, 8) = (d \div 256) % 256 /\ Field(d, 0, 8) = d % 256
  BY <1>1, Zenon DEF Field
<1>3. (d \div 256) % 256 = d \div 256
  <2>1. d <= 65535
    BY DEF Wide
  <2> QED
    BY <2>1
<1> QED
  BY <1>2, <1>3

LEMMA HomeEasyIs ==
  ASSUME NEW d, NEW x
  PROVE  HomeEasy(d, x) = Frame(Worded(HeNibbles(d, x)), 57)
<1>1. PICK g : g = HeNibbles(d, x)
  OBVIOUS
<1>2. ASSUME NEW n \in 1 .. 8
      PROVE  g[n - 1] = IF (n - 1) % 2 = 0 THEN HeBuf(d, x)[(n - 1) \div 2 + 1] \div 16
                                           ELSE HeBuf(d, x)[(n - 1) \div 2 + 1] % 16
  <2>1. n - 1 \in 0 .. 7
    OBVIOUS
  <2> QED
    BY <1>1, <2>1 DEF HeNibbles
<1>3. [n \in 1 .. 8 |-> KbufOf(g[n - 1])]
        = [n \in 1 .. 8 |-> KbufOf(IF (n - 1) % 2 = 0 THEN HeBuf(d, x)[(n - 1) \div 2 + 1] \div 16
                                                      ELSE HeBuf(d, x)[(n - 1) \div 2 + 1] % 16)]
  BY <1>2, Zenon
<1>4. HomeEasy(d, x) = Frame(Worded(g), 57)
  BY <1>3, Zenon DEF HomeEasy, Worded, KbufOf, HeBuf
<1> QED
  BY <1>1, <1>4

LEMMA HomeEasyHears ==
  ASSUME NEW d \in Nat, Wide(d, 16), NEW x \in {0, 16}, NEW b, b = Cut(HomeEasy(d, x).bits, 57)
  PROVE  /\ 57 <= Len(HomeEasy(d, x).bits) /\ b[1] = 1 /\ \A n \in 0 .. 7 : Value(WordAt(b, n), 1, 2) = 2
         /\ \A n \in {0, 1, 7} : NibbleAt(b, n) = 0
         /\ NibbleAt(b, 2) * 4096 + NibbleAt(b, 3) * 256 + NibbleAt(b, 4) * 16 + NibbleAt(b, 5) = d
         /\ NibbleAt(b, 6) * 16 = x
<1>1. PICK g : g = HeNibbles(d, x)
  OBVIOUS
<1>2. PICK a, c : a = Field(d, 8, 8) /\ c = Field(d, 0, 8)
  OBVIOUS
<1>21. a \in 0 .. 255 /\ c \in 0 .. 255 /\ d = a * 256 + c
  BY <1>2, Recombined
<1>22. HeGiven(d, x, a, c)
  BY <1>2, <1>21 DEF HeGiven
<1>23. HeTold(g, x, a, c)
  BY <1>1, <1>22, NibblesOf
<1>3. /\ g[0] = 0 /\ g[1] = 0 /\ g[2] = a \div 16 /\ g[3] = a % 16
      /\ g[4] = c \div 16 /\ g[5] = c % 16 /\ g[6] = x \div 16 /\ g[7] = x % 16
  BY <1>23 DEF HeTold
<1>4. g \in [0 .. 7 -> 0 .. 15]
  <2>1. \A n \in 0 .. 7 : n \in {0, 1, 2, 3, 4, 5, 6, 7}
    OBVIOUS
  <2>2. /\ a \div 16 \in 0 .. 15 /\ a % 16 \in 0 .. 15 /\ c \div 16 \in 0 .. 15 /\ c % 16 \in 0 .. 15
        /\ x \div 16 \in 0 .. 15 /\ x % 16 \in 0 .. 15
    BY <1>21
  <2>3. \A n \in 0 .. 7 : g[n] \in 0 .. 15
    BY <1>3, <2>1, <2>2
  <2>4. g = [n \in 0 .. 7 |-> g[n]]
    BY <1>1 DEF HeNibbles
  <2> QED
    BY <2>3, <2>4
<1>5. HomeEasy(d, x).bits = Worded(g)
  BY <1>1, HomeEasyIs, FrameFields
<1>6. b[1] = 1 /\ \A n \in 0 .. 7 : Value(WordAt(b, n), 1, 2) = 2 /\ NibbleAt(b, n) = g[n]
  BY <1>4, <1>5, WordedSays
<1>7. 57 <= Len(HomeEasy(d, x).bits)
  <2>1. Len(Worded(g)) = 64
    BY <1>4, WordedBits, Zenon
  <2> QED
    BY <1>5, <2>1
<1>8. /\ NibbleAt(b, 0) = 0 /\ NibbleAt(b, 1) = 0 /\ NibbleAt(b, 2) = a \div 16 /\ NibbleAt(b, 3) = a % 16
      /\ NibbleAt(b, 4) = c \div 16 /\ NibbleAt(b, 5) = c % 16 /\ NibbleAt(b, 6) = x \div 16 /\ NibbleAt(b, 7) = x % 16
  BY <1>3, <1>6
<1>9. (a \div 16) * 4096 + (a % 16) * 256 + (c \div 16) * 16 + (c % 16) = a * 256 + c
  BY <1>21
<1>10. x % 16 = 0 /\ (x \div 16) * 16 = x
  OBVIOUS
<1>11. \A n \in {0, 1, 7} : NibbleAt(b, n) = 0
  BY <1>8, <1>10
<1>12. /\ NibbleAt(b, 2) * 4096 + NibbleAt(b, 3) * 256 + NibbleAt(b, 4) * 16 + NibbleAt(b, 5) = d
       /\ NibbleAt(b, 6) * 16 = x
  BY <1>21, <1>8, <1>9, <1>10
<1> QED
  BY <1>6, <1>7, <1>11, <1>12

(***************************************************************************)
(* Folding a sequence from the left.                                       *)
(***************************************************************************)
IsLeft(iter, s, base, step) ==
    iter = [t \in SUBSET DOMAIN s |-> IF t = {} THEN base ELSE step[<<iter[t \ {Max(t)}], s[Max(t)]>>]]

LEMMA LeftExists ==
  ASSUME NEW n \in Nat, NEW A, NEW s \in [1 .. n -> A], NEW V, NEW base \in V, NEW step \in [V \X A -> V]
  PROVE  \E c \in [SUBSET (1 .. n) -> V] : IsLeft(c, s, base, step)
<1> DEFINE S == 1 .. n
           ch == Maxima(n)
           turned == [p \in S \X V |-> step[<<p[2], s[p[1]]>>]]
<1>1. IsFiniteSet(S) /\ Chooses(ch, S) /\ turned \in [S \X V -> V] /\ DOMAIN s = S
  <2>1. IsFiniteSet(S) /\ Chooses(ch, S)
    BY FS_Interval, MaximaChoose
  <2>2. ASSUME NEW p \in S \X V PROVE step[<<p[2], s[p[1]]>>] \in V
    <3>1. p[2] \in V /\ s[p[1]] \in A
      OBVIOUS
    <3>2. <<p[2], s[p[1]]>> \in V \X A
      BY <3>1
    <3> QED
      BY <3>2
  <2> QED
    BY <2>1, <2>2
<1>2. PICK f \in [SUBSET S -> V] : IsFold(f, S, base, ch, turned)
  <2> HIDE DEF S, ch, turned
  <2> QED
    BY <1>1, FoldExists
<1>3. ASSUME NEW t \in SUBSET S, t # {}
      PROVE  turned[<<ch[t], f[t \ {ch[t]}]>>] = step[<<f[t \ {Max(t)}], s[Max(t)]>>]
  <2>1. ch[t] = Max(t) /\ Max(t) \in S
    BY <1>3, MaxType DEF Maxima
  <2>2. f[t \ {Max(t)}] \in V
    OBVIOUS
  <2> HIDE DEF S, ch
  <2> QED
    BY <2>1, <2>2
<1> HIDE DEF S, ch, turned
<1>4. [t \in SUBSET S |-> IF t = {} THEN base ELSE turned[<<ch[t], f[t \ {ch[t]}]>>]]
        = [t \in SUBSET S |-> IF t = {} THEN base ELSE step[<<f[t \ {Max(t)}], s[Max(t)]>>]]
  BY <1>3
<1>5. IsLeft(f, s, base, step)
  BY <1>1, <1>2, <1>4 DEF IsFold, IsLeft
<1> QED
  BY <1>5 DEF S

\* The sets on the way to 1 .. n.
LEMMA Initials ==
  ASSUME NEW n \in Nat, NEW k \in 0 .. n - 1
  PROVE  /\ 1 .. k + 1 \in SUBSET (1 .. n) /\ 1 .. k + 1 # {}
         /\ Max(1 .. k + 1) = k + 1 /\ (1 .. k + 1) \ {k + 1} = 1 .. k
<1>1. k \in Nat
  OBVIOUS
<1>2. Max(1 .. k + 1) = k + 1 /\ (1 .. k + 1) \ {k + 1} = 1 .. k
  BY <1>1, MaxOf, Zenon
<1>3. 1 .. k + 1 \in SUBSET (1 .. n) /\ 1 .. k + 1 # {}
  OBVIOUS
<1> QED
  BY <1>2, <1>3

-----------------------------------------------------------------------------
IsParity(iter, s) ==
    iter = [t \in SUBSET DOMAIN s |-> IF t = {} THEN 0 ELSE (iter[t \ {Max(t)}] + s[Max(t)]) % 2]

LEMMA ParityDef == ASSUME NEW s PROVE Parity(s) = (CHOOSE iter : IsParity(iter, s))[DOMAIN s]
  BY Zenon DEF Parity, FoldLeft, MapThenFoldSet, IsParity

\* The parity is that of the sum.
Accumulates(p, s, n) == p \in [0 .. n -> Nat] /\ p[0] = 0 /\ \A k \in 0 .. n - 1 : p[k + 1] = p[k] + s[k + 1]

LEMMA ParityOf ==
  ASSUME NEW n \in Nat, NEW s \in [1 .. n -> Nat], NEW p, Accumulates(p, s, n)
  PROVE  Parity(s) = p[n] % 2
<1> DEFINE step == [q \in Nat \X Nat |-> (q[1] + q[2]) % 2]
           S == 1 .. n
<1>1. step \in [Nat \X Nat -> Nat] /\ DOMAIN s = S /\ 0 \in Nat
  OBVIOUS
<1>2. PICK f \in [SUBSET S -> Nat] : IsLeft(f, s, 0, step)
  <2> HIDE DEF step
  <2> QED
    BY <1>1, LeftExists
<1>3. IsParity(f, s)
  <2>1. ASSUME NEW t \in SUBSET S, t # {}
        PROVE  step[<<f[t \ {Max(t)}], s[Max(t)]>>] = (f[t \ {Max(t)}] + s[Max(t)]) % 2
    <3>1. Max(t) \in S
      BY <2>1, MaxType
    <3>2. f[t \ {Max(t)}] \in Nat /\ s[Max(t)] \in Nat
      BY <3>1
    <3> QED
      BY <3>2
  <2> HIDE DEF S, step
  <2>2. [t \in SUBSET S |-> IF t = {} THEN 0 ELSE step[<<f[t \ {Max(t)}], s[Max(t)]>>]]
          = [t \in SUBSET S |-> IF t = {} THEN 0 ELSE (f[t \ {Max(t)}] + s[Max(t)]) % 2]
    BY <2>1
  <2> QED
    BY <1>1, <1>2, <2>2 DEF IsLeft, IsParity
<1> DEFINE c == CHOOSE iter : IsParity(iter, s)
<1>4. IsParity(c, s)
  BY <1>3
<1> HIDE DEF c, step
<1>5. c[{}] = 0 /\ \A t \in SUBSET S : t # {} => c[t] = (c[t \ {Max(t)}] + s[Max(t)]) % 2
  <2>1. {} \in SUBSET S
    OBVIOUS
  <2> HIDE DEF S
  <2> QED
    BY <1>1, <1>4, <2>1 DEF IsParity
<1> DEFINE T == {k \in 0 .. n : c[1 .. k] = p[k] % 2}
<1>6. 0 \in T
  <2>1. 1 .. 0 = {} /\ 0 \in 0 .. n /\ 0 % 2 = 0
    OBVIOUS
  <2>2. p[0] = 0
    BY DEF Accumulates
  <2> QED
    BY <1>5, <2>1, <2>2
<1>7. ASSUME NEW k \in 0 .. n - 1, k \in T PROVE k + 1 \in T
  <2>1. c[1 .. k + 1] = (c[1 .. k] + s[k + 1]) % 2
    <3>1. /\ 1 .. k + 1 \in SUBSET S /\ 1 .. k + 1 # {}
          /\ Max(1 .. k + 1) = k + 1 /\ (1 .. k + 1) \ {k + 1} = 1 .. k
      BY Initials, Zenon
    <3> HIDE DEF S
    <3> QED
      BY <1>5, <3>1
  <2>2. p[k] \in Nat /\ s[k + 1] \in Nat /\ p[k + 1] = p[k] + s[k + 1] /\ c[1 .. k] = p[k] % 2 /\ k + 1 \in 0 .. n
    BY <1>7 DEF Accumulates
  <2>3. PICK x \in Nat, y \in Nat : x = p[k] /\ y = s[k + 1]
    BY <2>2
  <2>4. ((x % 2) + y) % 2 = (x + y) % 2
    OBVIOUS
  <2> QED
    BY <2>1, <2>2, <2>3, <2>4
<1> HIDE DEF T
<1>8. 0 .. n \subseteq T
  BY <1>6, <1>7, InductionTo
<1>9. c[1 .. n] = p[n] % 2
  BY <1>8 DEF T
<1>10. Parity(s) = c[1 .. n]
  BY <1>1, ParityDef DEF c
<1> QED
  BY <1>9, <1>10

-----------------------------------------------------------------------------
(***************************************************************************)
(* Auchan2: two parities end the frame.                                    *)
(***************************************************************************)

\* The bits of t that are at odd (k = 0) or even places.
IsCrc(iter, t, k) ==
    iter = [u \in SUBSET (0 .. 18) |->
              IF u = {} THEN 0
              ELSE (IF (CHOOSE x \in u : TRUE) % 2 = k THEN t[(CHOOSE x \in u : TRUE) + 1] ELSE 0)
                     + iter[u \ {CHOOSE x \in u : TRUE}]]

CrcSum(t, k) == SumOf(LAMBDA i : IF i % 2 = k THEN t[i + 1] ELSE 0, 19)

LEMMA CrcDef == ASSUME NEW t, NEW k PROVE CrcSum(t, k) = (CHOOSE iter : IsCrc(iter, t, k))[0 .. 18]
<1>1. 19 - 1 = 18
  OBVIOUS
<1>2. CrcSum(t, k) = MapThenSumSet(LAMBDA i : IF i % 2 = k THEN t[i + 1] ELSE 0, 0 .. 18)
  BY <1>1, Zenon DEF CrcSum, SumOf
<1> QED
  BY <1>2, Zenon DEF MapThenSumSet, MapThenFoldSet, IsCrc

CrcTerms(t, k) == [i \in 0 .. 18 |-> IF i % 2 = k THEN t[i + 1] ELSE 0]

LEMMA CrcSteps ==
  ASSUME NEW t, \A i \in 1 .. 19 : t[i] \in Nat, NEW k
  PROVE  \E g : Adds(g, CrcTerms(t, k), 19) /\ CrcSum(t, k) = g[19] /\ CrcTerms(t, k) \in [0 .. 18 -> Nat]
<1> DEFINE f == CrcTerms(t, k)
           S == 0 .. 18
<1>1. ASSUME NEW i \in S PROVE f[i] = IF i % 2 = k THEN t[i + 1] ELSE 0
  BY DEF CrcTerms
<1>2. ASSUME NEW i \in S PROVE f[i] \in Nat
  <2>1. i + 1 \in 1 .. 19
    OBVIOUS
  <2>2. t[i + 1] \in Nat
    BY <2>1
  <2> QED
    BY <1>1, <2>2
<1>3. f \in [S -> Nat]
  <2>1. f = [i \in S |-> f[i]]
    BY DEF CrcTerms
  <2> HIDE DEF f, S
  <2> QED
    BY <1>2, <2>1
<1>4. IsFiniteSet(S)
  <2>1. 0 \in Int /\ 18 \in Int
    OBVIOUS
  <2> QED
    BY <2>1, FS_Interval, Zenon
<1>5. ASSUME NEW iter PROVE IsSum(iter, S, f) <=> IsCrc(iter, t, k)
  <2>1. ASSUME NEW u \in SUBSET S, u # {}
        PROVE  f[AnyOf(u)] = IF AnyOf(u) % 2 = k THEN t[AnyOf(u) + 1] ELSE 0
    <3>1. AnyOf(u) \in S
      BY <2>1 DEF AnyOf
    <3> HIDE DEF S, f
    <3> QED
      BY <1>1, <3>1
  <2> HIDE DEF f
  <2>2. [u \in SUBSET S |-> IF u = {} THEN 0 ELSE f[AnyOf(u)] + iter[u \ {AnyOf(u)}]]
          = [u \in SUBSET S |-> IF u = {} THEN 0 ELSE
                (IF AnyOf(u) % 2 = k THEN t[AnyOf(u) + 1] ELSE 0) + iter[u \ {AnyOf(u)}]]
    BY <2>1, Zenon
  <2>3. IsCrc(iter, t, k) <=>
          iter = [u \in SUBSET S |-> IF u = {} THEN 0 ELSE
                (IF AnyOf(u) % 2 = k THEN t[AnyOf(u) + 1] ELSE 0) + iter[u \ {AnyOf(u)}]]
    BY Zenon DEF IsCrc, AnyOf
  <2> QED
    BY <2>2, <2>3, Zenon DEF IsSum
<1> DEFINE c == CHOOSE iter : IsCrc(iter, t, k)
<1> HIDE DEF f
<1>6. \E iter : IsSum(iter, S, f)
  <2> HIDE DEF S
  <2> QED
    BY <1>3, <1>4, SumExists
<1>7. IsCrc(c, t, k)
  BY <1>5, <1>6
<1> HIDE DEF c
<1>8. IsSum(c, S, f)
  BY <1>5, <1>7
<1>9. PICK n \in Nat : n = 19 /\ S = 0 .. n - 1
  OBVIOUS
<1>10. \E g : Adds(g, f, n) /\ c[0 .. n - 1] = g[n]
  <2> HIDE DEF S
  <2>1. f \in [0 .. n - 1 -> Nat] /\ IsSum(c, 0 .. n - 1, f)
    BY <1>3, <1>8, <1>9
  <2> QED
    BY <2>1, SumSteps
<1>11. CrcSum(t, k) = c[S]
  BY CrcDef DEF c
<1> HIDE DEF S
<1> QED
  BY <1>3, <1>9, <1>10, <1>11 DEF S, f

\* What the sum is on the way.
LEMMA CrcPairs ==
  ASSUME NEW t, \A i \in 1 .. 19 : t[i] \in Nat, NEW k \in {0, 1},
         NEW g, Adds(g, CrcTerms(t, k), 19)
  PROVE  /\ g[0] = 0 /\ \A i \in 0 .. 19 : g[i] \in Nat
         /\ \A m \in 0 .. 8 : g[2 * m + 2] = g[2 * m] + t[2 * m + 1 + k]
         /\ g[19] = g[18] + IF k = 0 THEN t[19] ELSE 0
<1> DEFINE f == CrcTerms(t, k)
           n == 19
<1>1. ASSUME NEW i \in 0 .. 18 PROVE f[i] = (IF i % 2 = k THEN t[i + 1] ELSE 0) /\ f[i] \in Nat
  <2>1. i + 1 \in 1 .. 19
    OBVIOUS
  <2>2. t[i + 1] \in Nat
    BY <2>1
  <2>3. f[i] = IF i % 2 = k THEN t[i + 1] ELSE 0
    BY DEF CrcTerms
  <2> QED
    BY <2>2, <2>3
<1>2. g[0] = 0 /\ \A i \in 0 .. 18 : g[i + 1] = g[i] + f[i]
  <2>1. 19 - 1 = 18
    OBVIOUS
  <2> QED
    BY <2>1, Zenon DEF Adds
<1> HIDE DEF f
<1> DEFINE T == {i \in 0 .. n : g[i] \in Nat}
<1>3. 0 \in T
  BY <1>2
<1>4. ASSUME NEW i \in 0 .. n - 1, i \in T PROVE i + 1 \in T
  <2>1. i \in 0 .. 18 /\ g[i] \in Nat /\ i + 1 \in 0 .. n
    BY <1>4
  <2>2. g[i + 1] = g[i] + f[i] /\ f[i] \in Nat
    BY <1>1, <1>2, <2>1
  <2> QED
    BY <2>1, <2>2
<1>5. \A i \in 0 .. 19 : g[i] \in Nat
  <2>1. n \in Nat
    OBVIOUS
  <2> HIDE DEF T, n
  <2>2. 0 .. n \subseteq T
    BY <1>3, <1>4, <2>1, InductionTo
  <2> QED
    BY <2>2 DEF T, n
<1>6. ASSUME NEW m \in 0 .. 8 PROVE g[2 * m + 2] = g[2 * m] + t[2 * m + 1 + k]
  <2>1. /\ 2 * m \in 0 .. 18 /\ 2 * m + 1 \in 0 .. 18 /\ (2 * m) % 2 = 0 /\ (2 * m + 1) % 2 = 1
        /\ (2 * m + 1) + 1 = 2 * m + 2 /\ 2 * m \in 0 .. 19 /\ 2 * m + 1 \in 1 .. 19 /\ 2 * m + 2 \in 1 .. 19
    OBVIOUS
  <2>2. g[2 * m + 1] = g[2 * m] + f[2 * m] /\ g[2 * m + 2] = g[2 * m + 1] + f[2 * m + 1]
    BY <1>2, <2>1
  <2>3. f[2 * m] = (IF k = 0 THEN t[2 * m + 1] ELSE 0) /\ f[2 * m + 1] = (IF k = 1 THEN t[2 * m + 2] ELSE 0)
    <3>1. f[2 * m] = (IF (2 * m) % 2 = k THEN t[2 * m + 1] ELSE 0)
          /\ f[2 * m + 1] = (IF (2 * m + 1) % 2 = k THEN t[(2 * m + 1) + 1] ELSE 0)
      BY <1>1, <2>1, Zenon
    <3> QED
      BY <2>1, <3>1
  <2>4. t[2 * m + 1] \in Nat /\ t[2 * m + 2] \in Nat /\ g[2 * m] \in Nat
    BY <1>5, <2>1
  <2>5. CASE k = 0
    <3>1. 2 * m + 1 + k = 2 * m + 1
      BY <2>5
    <3> QED
      BY <2>2, <2>3, <2>4, <2>5, <3>1
  <2>6. CASE k = 1
    <3>1. 2 * m + 1 + k = 2 * m + 2
      BY <2>6
    <3> QED
      BY <2>2, <2>3, <2>4, <2>6, <3>1
  <2> QED
    BY <2>5, <2>6
<1>7. g[19] = g[18] + IF k = 0 THEN t[19] ELSE 0
  <2>1. 18 \in 0 .. 18 /\ 18 + 1 = 19 /\ 18 % 2 = 0
    OBVIOUS
  <2>2. g[19] = g[18] + f[18]
    BY <1>2, <2>1, Zenon
  <2>3. f[18] = IF 18 % 2 = k THEN t[18 + 1] ELSE 0
    BY <1>1, <2>1, Zenon
  <2>4. f[18] = IF k = 0 THEN t[19] ELSE 0
    BY <2>1, <2>3
  <2> QED
    BY <2>2, <2>4
<1> QED
  BY <1>2, <1>5, <1>6, <1>7

\* A frame says these 19 bits, and then the parities of its odd and of its even places.
Summed(b, t, g, k) ==
    /\ Numbers(b, 21) /\ \A i \in 1 .. 19 : t[i] \in Nat /\ b[i] = t[i]
    /\ Adds(g, CrcTerms(t, k), 19)
    /\ b[21 - k] = g[19] % 2

\* s is f with x behind it.
Grows(s, f, n, x) == s \in [1 .. n + 1 -> Nat] /\ s[n + 1] = x /\ \A i \in 1 .. n : s[i] = f[i]

LEMMA OneMore ==
  ASSUME NEW n \in Nat, NEW f \in [1 .. n -> Nat], NEW x \in Nat
  PROVE  Grows(f \o <<x>>, f, n, x)
<1>1. f \in Seq(Nat) /\ Len(f) = n
  OBVIOUS
<1>2. PICK y : y = <<x>> /\ y \in Seq(Nat) /\ Len(y) = 1 /\ y[1] = x
  <2>1. <<x>> \in Seq(Nat) /\ Len(<<x>>) = 1 /\ <<x>>[1] = x
    OBVIOUS
  <2> QED
    BY <2>1, Zenon
<1>3. PICK s : s = f \o y
  OBVIOUS
<1>4. Concatenation(s, f, y, Nat)
  BY <1>1, <1>2, <1>3, Concatenated, Zenon
<1>5. s \in Seq(Nat) /\ Len(s) = n + 1 /\ (\A i \in 1 .. n : s[i] = f[i])
  BY <1>1, <1>2, <1>4 DEF Concatenation
<1>6. s[n + 1] = x
  BY <1>1, <1>2, <1>4 DEF Concatenation
<1>7. s \in [1 .. n + 1 -> Nat]
  BY <1>5
<1> QED
  BY <1>2, <1>3, <1>5, <1>6, <1>7 DEF Grows

LEMMA FirstParity ==
  ASSUME NEW b, NEW t, NEW g, Summed(b, t, g, 0)
  PROVE  Parity(Firsts(SubSeq(b, 1, 20)) \o <<b[21]>>) = 0
<1>1. /\ \A i \in 1 .. 19 : t[i] \in Nat /\ b[i] = t[i]
      /\ b[21] = g[19] % 2 /\ Numbers(b, 21)
  BY DEF Summed
<1>2. /\ g[0] = 0 /\ \A i \in 0 .. 19 : g[i] \in Nat
      /\ \A m \in 0 .. 8 : g[2 * m + 2] = g[2 * m] + t[2 * m + 1 + 0]
      /\ g[19] = g[18] + IF 0 = 0 THEN t[19] ELSE 0
  <2>1. \A i \in 1 .. 19 : t[i] \in Nat
    BY <1>1
  <2>2. 0 \in {0, 1}
    OBVIOUS
  <2> QED
    BY <2>1, <2>2, CrcPairs DEF Summed
<1>3. PICK f : f = Firsts(SubSeq(b, 1, 20))
  OBVIOUS
<1>4. f \in [1 .. 10 -> Nat] /\ \A n \in 1 .. 10 : f[n] = b[2 * n - 1]
  <2>1. PairSpan(1, 20, 10, 21)
    BY DEF PairSpan
  <2>2. PairsAt(SubSeq(b, 1, 20), b, 1, 10)
    BY <1>1, <2>1, PairsOf
  <2>3. \A n \in 1 .. 10 : 1 + (2 * n - 2) = 2 * n - 1
    OBVIOUS
  <2> QED
    BY <1>3, <2>2, <2>3 DEF PairsAt
<1>5. b[21] \in Nat
  BY <1>1, <1>2
<1>6. PICK n \in Nat : n = 10
  OBVIOUS
<1>7. PICK s : s = f \o <<b[21]>>
  OBVIOUS
<1>8. s \in [1 .. 11 -> Nat] /\ s[11] = b[21] /\ \A i \in 1 .. 10 : s[i] = f[i]
  <2>1. f \in [1 .. n -> Nat]
    BY <1>4, <1>6
  <2>2. Grows(s, f, n, b[21])
    BY <1>5, <1>7, <2>1, OneMore
  <2>3. n + 1 = 11
    BY <1>6
  <2> QED
    BY <1>6, <2>2, <2>3, Zenon DEF Grows
<1> DEFINE P == [k \in 0 .. 11 |-> IF k <= 9 THEN g[2 * k] ELSE IF k = 10 THEN g[19] ELSE g[19] + (g[19] % 2)]
<1>9. P \in [0 .. 11 -> Nat]
  <2>1. ASSUME NEW k \in 0 .. 11 PROVE P[k] \in Nat
    <3>1. k <= 9 => 2 * k \in 0 .. 19
      OBVIOUS
    <3>2. g[19] \in Nat /\ g[19] + (g[19] % 2) \in Nat
      BY <1>2
    <3>3. k <= 9 => g[2 * k] \in Nat
      BY <1>2, <3>1
    <3> QED
      BY <3>2, <3>3
  <2> QED
    BY <2>1
<1>10. ASSUME NEW k \in 0 .. 10 PROVE P[k + 1] = P[k] + s[k + 1]
  <2>1. CASE k <= 8
    <3>1. k \in 0 .. 8 /\ k <= 9 /\ k + 1 <= 9 /\ 2 * (k + 1) = 2 * k + 2 /\ 2 * k + 1 + 0 = 2 * k + 1
          /\ 2 * (k + 1) - 1 = 2 * k + 1 /\ 2 * k + 1 \in 1 .. 19 /\ k + 1 \in 1 .. 10
      BY <2>1
    <3>2. s[k + 1] = t[2 * k + 1]
      BY <1>1, <1>4, <1>8, <3>1
    <3>3. g[2 * k + 2] = g[2 * k] + t[2 * k + 1]
      BY <1>2, <3>1
    <3>4. P[k + 1] = g[2 * k + 2] /\ P[k] = g[2 * k]
      BY <3>1
    <3> QED
      BY <3>2, <3>3, <3>4
  <2>2. CASE k = 9
    <3>1. s[10] = t[19]
      <4>1. 2 * 10 - 1 = 19 /\ 10 \in 1 .. 10 /\ 19 \in 1 .. 19
        OBVIOUS
      <4> QED
        BY <1>1, <1>4, <1>8, <4>1
    <3>2. P[10] = g[19] /\ P[9] = g[18]
      OBVIOUS
    <3>3. g[19] = g[18] + t[19]
      BY <1>2
    <3> QED
      BY <2>2, <3>1, <3>2, <3>3
  <2>3. CASE k = 10
    BY <1>1, <1>8, <2>3
  <2> QED
    BY <2>1, <2>2, <2>3
<1>11. P[0] = 0 /\ P[11] = g[19] + (g[19] % 2)
  <2>1. 2 * 0 = 0
    OBVIOUS
  <2> QED
    BY <1>2, <2>1
<1> HIDE DEF P
<1>12. Accumulates(P, s, 11)
  <2>1. 11 - 1 = 10
    OBVIOUS
  <2> QED
    BY <1>9, <1>10, <1>11, <2>1 DEF Accumulates
<1>13. Parity(s) = P[11] % 2
  <2>1. PICK w \in Nat : w = 11
    OBVIOUS
  <2>2. s \in [1 .. w -> Nat] /\ Accumulates(P, s, w)
    BY <1>8, <1>12, <2>1
  <2>3. Parity(s) = P[w] % 2
    BY <2>2, ParityOf, Zenon
  <2> QED
    BY <2>1, <2>3
<1>14. P[11] % 2 = 0
  <2>1. PICK z \in Nat : z = g[19]
    BY <1>2
  <2>2. (z + (z % 2)) % 2 = 0
    OBVIOUS
  <2> QED
    BY <1>11, <2>1, <2>2
<1> QED
  BY <1>3, <1>7, <1>13, <1>14

LEMMA SecondParity ==
  ASSUME NEW b, NEW t, NEW g, Summed(b, t, g, 1)
  PROVE  Parity(Seconds(SubSeq(b, 1, 20))) = 0
<1>1. /\ \A i \in 1 .. 19 : t[i] \in Nat /\ b[i] = t[i]
      /\ b[20] = g[19] % 2 /\ Numbers(b, 21)
  BY DEF Summed
<1>2. /\ g[0] = 0 /\ \A i \in 0 .. 19 : g[i] \in Nat
      /\ \A m \in 0 .. 8 : g[2 * m + 2] = g[2 * m] + t[2 * m + 1 + 1]
      /\ g[19] = g[18] + IF 1 = 0 THEN t[19] ELSE 0
  <2>1. \A i \in 1 .. 19 : t[i] \in Nat
    BY <1>1
  <2>2. 1 \in {0, 1}
    OBVIOUS
  <2> QED
    BY <2>1, <2>2, CrcPairs DEF Summed
<1>21. g[19] = g[18]
  BY <1>2
<1>3. PICK s : s = Seconds(SubSeq(b, 1, 20))
  OBVIOUS
<1>4. s \in [1 .. 10 -> Nat] /\ \A n \in 1 .. 10 : s[n] = b[2 * n]
  <2>1. PairSpan(1, 20, 10, 21)
    BY DEF PairSpan
  <2>2. PairsAt(SubSeq(b, 1, 20), b, 1, 10)
    BY <1>1, <2>1, PairsOf
  <2>3. \A n \in 1 .. 10 : 1 + (2 * n - 1) = 2 * n
    OBVIOUS
  <2> QED
    BY <1>3, <2>2, <2>3 DEF PairsAt
<1> DEFINE P == [k \in 0 .. 10 |-> IF k <= 9 THEN g[2 * k] ELSE g[18] + (g[18] % 2)]
<1>9. P \in [0 .. 10 -> Nat]
  <2>1. ASSUME NEW k \in 0 .. 10 PROVE P[k] \in Nat
    <3>1. k <= 9 => 2 * k \in 0 .. 19
      OBVIOUS
    <3>2. g[18] \in Nat /\ g[18] + (g[18] % 2) \in Nat
      BY <1>2
    <3>3. k <= 9 => g[2 * k] \in Nat
      BY <1>2, <3>1
    <3> QED
      BY <3>2, <3>3
  <2> QED
    BY <2>1
<1>10. ASSUME NEW k \in 0 .. 9 PROVE P[k + 1] = P[k] + s[k + 1]
  <2>1. CASE k <= 8
    <3>1. k \in 0 .. 8 /\ k <= 9 /\ k + 1 <= 9 /\ 2 * (k + 1) = 2 * k + 2 /\ 2 * k + 1 + 1 = 2 * k + 2
          /\ 2 * k + 2 \in 1 .. 19 /\ k + 1 \in 1 .. 10
      BY <2>1
    <3>2. s[k + 1] = t[2 * k + 2]
      BY <1>1, <1>4, <3>1
    <3>3. g[2 * k + 2] = g[2 * k] + t[2 * k + 2]
      BY <1>2, <3>1
    <3>4. P[k + 1] = g[2 * k + 2] /\ P[k] = g[2 * k]
      BY <3>1
    <3> QED
      BY <3>2, <3>3, <3>4
  <2>2. CASE k = 9
    <3>1. s[10] = b[20]
      <4>1. 2 * 10 = 20 /\ 10 \in 1 .. 10
        OBVIOUS
      <4> QED
        BY <1>4, <4>1
    <3>2. P[10] = g[18] + (g[18] % 2) /\ P[9] = g[18]
      OBVIOUS
    <3> QED
      BY <1>1, <1>21, <2>2, <3>1, <3>2
  <2> QED
    BY <2>1, <2>2
<1>11. P[0] = 0 /\ P[10] = g[18] + (g[18] % 2)
  <2>1. 2 * 0 = 0
    OBVIOUS
  <2> QED
    BY <1>2, <2>1
<1> HIDE DEF P
<1>12. Accumulates(P, s, 10)
  <2>1. 10 - 1 = 9
    OBVIOUS
  <2> QED
    BY <1>9, <1>10, <1>11, <2>1 DEF Accumulates
<1>13. Parity(s) = P[10] % 2
  <2>1. 10 \in Nat
    OBVIOUS
  <2> QED
    BY <1>4, <1>12, <2>1, ParityOf
<1>14. P[10] % 2 = 0
  <2>1. PICK z \in Nat : z = g[18]
    BY <1>2
  <2>2. (z + (z % 2)) % 2 = 0
    OBVIOUS
  <2> QED
    BY <1>11, <2>1, <2>2
<1> QED
  BY <1>3, <1>13, <1>14

-----------------------------------------------------------------------------
\* The second byte: the rest of the remote code, the device and half the command.
InMiddleByte(bytes, f, e, c, h) ==
    /\ ByteHolds(bytes, 2, 0, f, 5, e * 2^2 + (c * 2 + h), 1 + 2)
    /\ ByteHolds(bytes, 2, f, e, 1, c * 2 + h, 2)
    /\ ByteHolds(bytes, 2, f * 2 + e, c, 1, h, 1)
    /\ ByteHolds(bytes, 2, (f * 2 + e) * 2^1 + c, h, 1, 0, 0)

LEMMA MiddleByte ==
  ASSUME NEW bytes, NEW f, Wide(f, 5), NEW e \in {0, 1}, NEW c \in {0, 1}, NEW h \in {0, 1},
         bytes[2] = f * 8 + e * 4 + c * 2 + h
  PROVE  InMiddleByte(bytes, f, e, c, h)
<1>1. f \in 0 .. 31
  BY DEF Wide
<1>2. Room(5, 1 + 2) /\ Room(1, 2) /\ Room(6, 1 + 1) /\ Room(1, 1)
  BY DEF Room
<1>3. Wide(e, 1) /\ Wide(c, 1) /\ Wide(h, 1) /\ Wide(c * 2 + h, 2) /\ Wide(f * 2 + e, 6)
  <2>1. e \in 0 .. 2^1 - 1 /\ c \in 0 .. 2^1 - 1 /\ h \in 0 .. 2^1 - 1 /\ c * 2 + h \in 0 .. 2^2 - 1
        /\ f * 2 + e \in 0 .. 2^6 - 1
    BY <1>1
  <2> QED
    BY <2>1, Zenon DEF Wide
<1>4. bytes[2] = (f * 2^1 + e) * 2^2 + (c * 2 + h) /\ bytes[2] = ((f * 2 + e) * 2^1 + c) * 2^1 + h
  BY <1>1
<1>5. /\ ByteHolds(bytes, 2, 0, f, 5, e * 2^2 + (c * 2 + h), 1 + 2)
      /\ ByteHolds(bytes, 2, f, e, 1, c * 2 + h, 2)
  BY <1>2, <1>3, <1>4, ThreeParts, Zenon
<1>6. /\ ByteHolds(bytes, 2, f * 2 + e, c, 1, h, 1)
      /\ ByteHolds(bytes, 2, (f * 2 + e) * 2^1 + c, h, 1, 0, 0)
  BY <1>2, <1>3, <1>4, ThreeParts, Zenon
<1> QED
  BY <1>5, <1>6 DEF InMiddleByte

A2Data(r, d, x) ==
    <<Field(r, 5, 8),
      Field(r, 0, 5) * 8 + Bit(d, 0) * 4 + Bit(d, 1) * 2 + x \div 2,
      (x % 2) * 128>>

LEMMA A2Frame ==
  ASSUME NEW r, NEW d, NEW x
  PROVE  Auchan2(r, d, x) =
           Frame(BitsOf([A2Data(r, d, x) EXCEPT ![3] =
                     @ + ((CrcSum(BitsOf(A2Data(r, d, x)), 0) % 2)
                             + 2 * (CrcSum(BitsOf(A2Data(r, d, x)), 1) % 2)) * 8]), 21)
  BY Zenon DEF Auchan2, A2Data, CrcSum

\* How the frame is made.
A2Made(r, d, x, data, t, c0, c1, k, bytes) ==
    /\ data = A2Data(r, d, x) /\ t = BitsOf(data)
    /\ c0 = CrcSum(t, 0) % 2 /\ c1 = CrcSum(t, 1) % 2 /\ k = (c0 + 2 * c1) * 8
    /\ bytes = [data EXCEPT ![3] = @ + k]

LEMMA A2Text ==
  ASSUME NEW r, NEW d, NEW x, NEW data, NEW t, NEW c0, NEW c1, NEW k, NEW bytes,
         A2Made(r, d, x, data, t, c0, c1, k, bytes)
  PROVE  Auchan2(r, d, x).bits = BitsOf(bytes)
<1> USE DEF A2Made
<1>1. Auchan2(r, d, x) =
           Frame(BitsOf([data EXCEPT ![3] =
                     @ + ((CrcSum(BitsOf(data), 0) % 2) + 2 * (CrcSum(BitsOf(data), 1) % 2)) * 8]), 21)
  BY A2Frame
<1>2. k = ((CrcSum(BitsOf(data), 0) % 2) + 2 * (CrcSum(BitsOf(data), 1) % 2)) * 8
  OBVIOUS
<1>3. Auchan2(r, d, x) = Frame(BitsOf(bytes), 21)
  BY <1>1, <1>2
<1> QED
  BY <1>3, FrameFields

A2Same(bytes, data) ==
    /\ bytes[1] = data[1] /\ bytes[2] = data[2]
    /\ Bit(bytes[3], 7) = Bit(data[3], 7) /\ Bit(bytes[3], 6) = Bit(data[3], 6)
    /\ Bit(bytes[3], 5) = Bit(data[3], 5)

\* The first two bytes are the same, and the first three bits of the third.
LEMMA A2Prefix ==
  ASSUME NEW b, NEW bytes, Encodes(b, bytes, 3, 21), NEW t, NEW data, Encodes(t, data, 3, 24),
         A2Same(bytes, data)
  PROVE  \A i \in 1 .. 19 : t[i] \in Nat /\ b[i] = t[i]
<1>1. ASSUME NEW i \in 1 .. 19 PROVE t[i] \in Nat /\ b[i] = t[i]
  <2>1. PICK m \in 1 .. 3, k \in 1 .. 8 : i = 8 * (m - 1) + k /\ (m = 3 => k \in 1 .. 3)
    <3>1. CASE i <= 8
      <4>1. i = 8 * (1 - 1) + i /\ i \in 1 .. 8 /\ 1 \in 1 .. 3 /\ 1 # 3
        BY <3>1
      <4> QED
        BY <4>1, Zenon
    <3>2. CASE i > 8 /\ i <= 16
      <4>1. PICK k \in 1 .. 8 : k = i - 8
        BY <3>2
      <4>2. i = 8 * (2 - 1) + k /\ 2 \in 1 .. 3 /\ 2 # 3
        BY <4>1
      <4> QED
        BY <4>2, Zenon
    <3>3. CASE i > 16
      <4>1. PICK k \in 1 .. 8 : k = i - 16 /\ k \in 1 .. 3
        BY <3>3
      <4>2. i = 8 * (3 - 1) + k /\ 3 \in 1 .. 3
        BY <4>1
      <4> QED
        BY <4>1, <4>2, Zenon
    <3> QED
      BY <3>1, <3>2, <3>3
  <2>2. 8 * (m - 1) + k <= 21 /\ 8 * (m - 1) + k <= 24
    BY <2>1
  <2>3. b[i] = Bit(bytes[m], 8 - k) /\ t[i] = Bit(data[m], 8 - k)
    <3>1. b[8 * (m - 1) + k] = Bit(bytes[m], 8 - k)
      BY <2>2, Zenon DEF Encodes
    <3>2. t[8 * (m - 1) + k] = Bit(data[m], 8 - k)
      BY <2>2, Zenon DEF Encodes
    <3> QED
      BY <2>1, <3>1, <3>2, Zenon
  <2>4. t[i] \in Nat
    <3>1. data[m] \in Nat /\ 8 - k \in 0 .. 28
      BY DEF Encodes
    <3>2. Bit(data[m], 8 - k) \in {0, 1}
      BY <3>1, BitType
    <3> QED
      BY <2>3, <3>2
  <2>5. CASE m = 1 \/ m = 2
    BY <2>3, <2>4, <2>5 DEF A2Same
  <2>6. CASE m = 3
    <3>1. k = 1 \/ k = 2 \/ k = 3
      BY <2>1, <2>6
    <3>2. 8 - 1 = 7 /\ 8 - 2 = 6 /\ 8 - 3 = 5
      OBVIOUS
    <3>3. Bit(bytes[m], 8 - k) = Bit(data[m], 8 - k)
      BY <2>6, <3>1, <3>2, Zenon DEF A2Same
    <3> QED
      BY <2>3, <2>4, <3>3
  <2>7. m = 1 \/ m = 2 \/ m = 3
    OBVIOUS
  <2> QED
    BY <2>5, <2>6, <2>7
<1> QED
  BY <1>1

\* What the frame says of the codes.
A2Bytes(bytes, r, e, c, h, p, c0, c1) ==
    /\ e \in {0, 1} /\ c \in {0, 1} /\ h \in {0, 1} /\ p \in {0, 1} /\ c0 \in {0, 1} /\ c1 \in {0, 1}
    /\ bytes[1] = Field(r, 5, 8)
    /\ bytes[2] = Field(r, 0, 5) * 8 + e * 4 + c * 2 + h
    /\ bytes[3] = p * 128 + (c0 + 2 * c1) * 8

LEMMA A2Codes ==
  ASSUME NEW r \in Nat, Wide(r, 13), NEW b, NEW bytes, Encodes(b, bytes, 3, 21),
         NEW e, NEW c, NEW h, NEW p, NEW c0, NEW c1, A2Bytes(bytes, r, e, c, h, p, c0, c1)
  PROVE  Value(b, 1, 13) = r /\ b[14] = e /\ b[15] = c /\ b[16] = h
<1>1. Within(5, 8) /\ Within(0, 5)
  BY DEF Within
<1>2. Wide(Field(r, 0, 5), 5) /\ Field(r, 0, 5) \in Nat /\ Field(r, 5, 8) \in Nat
  BY <1>1, FieldType, Zenon
<1>3. PICK f : f = Field(r, 0, 5)
  OBVIOUS
<1>4. e \in {0, 1} /\ c \in {0, 1} /\ h \in {0, 1} /\ bytes[2] = f * 8 + e * 4 + c * 2 + h
  BY <1>3, Zenon DEF A2Bytes
<1>5. /\ ByteHolds(bytes, 2, 0, f, 5, e * 2^2 + (c * 2 + h), 1 + 2)
      /\ ByteHolds(bytes, 2, f, e, 1, c * 2 + h, 2)
      /\ ByteHolds(bytes, 2, f * 2 + e, c, 1, h, 1)
      /\ ByteHolds(bytes, 2, (f * 2 + e) * 2^1 + c, h, 1, 0, 0)
  <2>1. Wide(f, 5)
    BY <1>2, <1>3
  <2>2. InMiddleByte(bytes, f, e, c, h)
    BY <1>4, <2>1, MiddleByte, Zenon
  <2> QED
    BY <2>2 DEF InMiddleByte
<1>6. Numbers(b, 21)
  BY DEF Encodes
<1>7. Value(b, 1, 13) = r
  <2>1. Whole(1, 8, 1, 3, 5, 21)
    BY <1>1 DEF Whole, Place
  <2>2. Says(b, 1, 8, r, 5)
    BY <2>1, SaysWholeField DEF A2Bytes
  <2>3. Place(9, 13, 2, 5, 1 + 2, 3, 21) /\ Covered(9, 13, 5)
    BY DEF Place, Covered
  <2>4. Says(b, 9, 13, f, 0)
    BY <1>5, <2>3, SaysByte
  <2>41. Says(b, 9, 13, r, 0)
    BY <1>1, <1>3, <2>3, <2>4, SaysField
  <2>5. Meets(1, 8, 9, 13, 5, 0) /\ Span(1, 13, 13, 21)
    BY DEF Meets, Span
  <2>6. Says(b, 1, 13, r, 0)
    BY <2>2, <2>41, <2>5, SaysJoin
  <2> QED
    BY <1>6, <2>5, <2>6, ValueOf
<1>8. Place(14, 14, 2, 1, 2, 3, 21) /\ Place(15, 15, 2, 1, 1, 3, 21) /\ Place(16, 16, 2, 1, 0, 3, 21)
  BY DEF Place
<1>9. Says(b, 14, 14, e, 0) /\ Says(b, 15, 15, c, 0) /\ Says(b, 16, 16, h, 0)
  BY <1>5, <1>8, SaysByte
<1>10. 14 \in Nat /\ 15 \in Nat /\ 16 \in Nat
  OBVIOUS
<1> QED
  BY <1>4, <1>7, <1>9, <1>10, BitAt

\* A command of two bits is in two bytes.
LEMMA A2Command ==
  ASSUME NEW b, Numbers(b, 21), NEW x, Wide(x, 2), b[16] = x \div 2, b[17] = x % 2
  PROVE  Value(b, 16, 17) = x
<1>1. x \in 0 .. 3
  BY DEF Wide
<1>2. Bit(x, 1) = x \div 2 /\ Bit(x, 0) = x % 2
  BY <1>1 DEF Bit
<1>3. Says(b, 16, 17, x, 0)
  <2>1. ASSUME NEW j \in 16 .. 17 PROVE b[j] = Bit(x, 0 + (17 - j))
    <3>1. CASE j = 16
      <4>1. 0 + (17 - 16) = 1
        OBVIOUS
      <4> QED
        BY <1>2, <3>1, <4>1
    <3>2. CASE j = 17
      <4>1. 0 + (17 - 17) = 0
        OBVIOUS
      <4> QED
        BY <1>2, <3>2, <4>1
    <3>3. j = 16 \/ j = 17
      OBVIOUS
    <3> QED
      BY <3>1, <3>2, <3>3
  <2> QED
    BY <2>1 DEF Says
<1>4. Span(16, 17, 2, 21)
  BY DEF Span
<1> QED
  BY <1>3, <1>4, ValueOf

\* The bits and the bytes of what is given.
A2Values(r, d, x, e, c, h, p, g, v, z) ==
    /\ e \in {0, 1} /\ c \in {0, 1} /\ h \in {0, 1} /\ p \in {0, 1} /\ g \in Nat /\ v \in Nat /\ z \in Nat
    /\ c * 2 + e = d /\ h = x \div 2 /\ p = x % 2
    /\ g = Field(r, 5, 8) /\ v = Field(r, 0, 5) * 8 + e * 4 + c * 2 + h /\ z = p * 128
    /\ A2Data(r, d, x) = <<g, v, z>>

LEMMA A2Given ==
  ASSUME NEW r \in Nat, NEW d \in Nat, Wide(d, 2), NEW x, Wide(x, 2)
  PROVE  \E e, c, h, p, g, v, z : A2Values(r, d, x, e, c, h, p, g, v, z)
<1>1. PICK e \in {0, 1}, c \in {0, 1} : e = Bit(d, 0) /\ c = Bit(d, 1) /\ c * 2 + e = d
  <2>1. d \in 0 .. 3
    BY DEF Wide
  <2> QED
    BY <2>1 DEF Bit
<1>2. PICK h \in {0, 1}, p \in {0, 1} : h = x \div 2 /\ p = x % 2
  <2>1. x \in 0 .. 3
    BY DEF Wide
  <2> QED
    BY <2>1
<1>3. PICK f \in Nat, g \in Nat : f = Field(r, 0, 5) /\ g = Field(r, 5, 8)
  <2>1. Within(5, 8) /\ Within(0, 5)
    BY DEF Within
  <2> QED
    BY <2>1, FieldType, Zenon
<1>4. PICK v, z : v = f * 8 + e * 4 + c * 2 + h /\ z = p * 128
  OBVIOUS
<1>5. v \in Nat /\ z \in Nat
  BY <1>4
<1>6. A2Data(r, d, x) = <<g, v, z>>
  BY <1>1, <1>2, <1>3, <1>4, Zenon DEF A2Data
<1>7. A2Values(r, d, x, e, c, h, p, g, v, z)
  BY <1>1, <1>2, <1>3, <1>4, <1>5, <1>6, Zenon DEF A2Values
<1> QED
  BY <1>7

\* The bits of the third byte.
Third(y, p, c0, c1) == y = p * 128 + (c0 + 2 * c1) * 8 /\ p \in {0, 1} /\ c0 \in {0, 1} /\ c1 \in {0, 1}
ThirdBits(y, p, c0, c1) ==
    Bit(y, 7) = p /\ Bit(y, 6) = 0 /\ Bit(y, 5) = 0 /\ Bit(y, 4) = c1 /\ Bit(y, 3) = c0

LEMMA ThirdSays == ASSUME NEW y, NEW p, NEW c0, NEW c1, Third(y, p, c0, c1) PROVE ThirdBits(y, p, c0, c1)
<1>1. y \in {0, 8, 16, 24, 128, 136, 144, 152} /\ p \in {0, 1} /\ c0 \in {0, 1} /\ c1 \in {0, 1}
      /\ y = p * 128 + (c0 + 2 * c1) * 8
  BY DEF Third
<1>2. Bit(y, 7) = p /\ Bit(y, 6) = 0 /\ Bit(y, 5) = 0
  BY <1>1 DEF Bit
<1>3. Bit(y, 4) = c1 /\ Bit(y, 3) = c0
  BY <1>1 DEF Bit
<1> QED
  BY <1>2, <1>3 DEF ThirdBits

A2Tuple(data, g, v, z) == data \in Seq(Nat) /\ Len(data) = 3 /\ data[1] = g /\ data[2] = v /\ data[3] = z

LEMMA A2TupleIs ==
  ASSUME NEW g \in Nat, NEW v \in Nat, NEW z \in Nat
  PROVE  A2Tuple(<<g, v, z>>, g, v, z)
  BY DEF A2Tuple

LEMMA A2Changed ==
  ASSUME NEW data, NEW g \in Nat, NEW v \in Nat, NEW z \in Nat, data = <<g, v, z>>, NEW k \in Nat
  PROVE  [data EXCEPT ![3] = @ + k] = <<g, v, z + k>>
  OBVIOUS

LEMMA NumbersAt == ASSUME NEW n, NEW b, Numbers(b, n), NEW i \in 1 .. n PROVE b[i] \in Nat
  BY DEF Numbers

LEMMA A2Types ==
  ASSUME NEW t, NEW data, Encodes(t, data, 3, 24)
  PROVE  \A i \in 1 .. 19 : t[i] \in Nat
<1>1. Numbers(t, 24)
  BY DEF Encodes
<1>2. ASSUME NEW i \in 1 .. 19 PROVE t[i] \in Nat
  <2>1. i \in 1 .. 24
    OBVIOUS
  <2> QED
    BY <1>1, <2>1, NumbersAt
<1> QED
  BY <1>2

LEMMA A2Encodes ==
  ASSUME NEW data, NEW g, NEW v, NEW z, A2Tuple(data, g, v, z)
  PROVE  Encodes(BitsOf(data), data, 3, 24)
<1>1. 8 * 3 = 24
  OBVIOUS
<1>2. Encodes(BitsOf(data), data, 3, 8 * 3)
  BY AllBits DEF A2Tuple
<1> QED
  BY <1>1, <1>2, Zenon

LEMMA A2Cut ==
  ASSUME NEW bytes, NEW g, NEW v, NEW z, A2Tuple(bytes, g, v, z), NEW b, b = Cut(BitsOf(bytes), 21)
  PROVE  Encodes(b, bytes, 3, 21) /\ 21 <= Len(BitsOf(bytes))
<1>1. 21 \in Nat /\ 21 <= 8 * 3
  OBVIOUS
<1> QED
  BY <1>1, CountedBits, Zenon DEF A2Tuple

\* The sums of the bits sent, of which the frame has the parities.
A2Sums(t, s, u, c0, c1) ==
    /\ Adds(s, CrcTerms(t, 0), 19) /\ c0 = s[19] % 2
    /\ Adds(u, CrcTerms(t, 1), 19) /\ c1 = u[19] % 2
    /\ c0 \in {0, 1} /\ c1 \in {0, 1}

LEMMA A2SumsOf ==
  ASSUME NEW t, \A i \in 1 .. 19 : t[i] \in Nat,
         NEW c0, NEW c1, c0 = CrcSum(t, 0) % 2, c1 = CrcSum(t, 1) % 2
  PROVE  \E s, u : A2Sums(t, s, u, c0, c1)
<1>1. PICK s : Adds(s, CrcTerms(t, 0), 19) /\ CrcSum(t, 0) = s[19]
  BY CrcSteps
<1>2. PICK u : Adds(u, CrcTerms(t, 1), 19) /\ CrcSum(t, 1) = u[19]
  BY CrcSteps
<1>3. c0 \in {0, 1} /\ c1 \in {0, 1}
  <2>1. 0 \in {0, 1} /\ 1 \in {0, 1} /\ 19 \in 0 .. 19
    OBVIOUS
  <2>2. s[19] \in Nat /\ u[19] \in Nat
    BY <1>1, <1>2, <2>1, CrcPairs
  <2> QED
    BY <1>1, <1>2, <2>2
<1>4. A2Sums(t, s, u, c0, c1)
  BY <1>1, <1>2, <1>3, Zenon DEF A2Sums
<1> QED
  BY <1>4

A2Says(b, r, d, x) ==
    /\ Parity(Firsts(SubSeq(b, 1, 20)) \o <<b[21]>>) = 0 /\ Parity(Seconds(SubSeq(b, 1, 20))) = 0
    /\ Value(b, 1, 13) = r /\ b[15] * 2 + b[14] = d /\ Value(b, 16, 17) = x

LEMMA A2Hears ==
  ASSUME NEW r \in Nat, Wide(r, 13), NEW d, NEW x, Wide(x, 2),
         NEW e, NEW c, NEW h, NEW p, NEW g, NEW v, NEW z, A2Values(r, d, x, e, c, h, p, g, v, z),
         NEW c0, NEW c1, NEW data, A2Tuple(data, g, v, z),
         NEW t, Encodes(t, data, 3, 24), NEW s, NEW u, A2Sums(t, s, u, c0, c1),
         NEW y, Third(y, p, c0, c1), NEW bytes, A2Tuple(bytes, g, v, y),
         NEW b, Encodes(b, bytes, 3, 21)
  PROVE  A2Says(b, r, d, x)
<1>1. /\ e \in {0, 1} /\ c \in {0, 1} /\ h \in {0, 1} /\ p \in {0, 1}
      /\ c * 2 + e = d /\ h = x \div 2 /\ p = x % 2
      /\ g = Field(r, 5, 8) /\ v = Field(r, 0, 5) * 8 + e * 4 + c * 2 + h /\ z = p * 128
  BY Zenon DEF A2Values
<1>2. c0 \in {0, 1} /\ c1 \in {0, 1} /\ y = p * 128 + (c0 + 2 * c1) * 8
  BY Zenon DEF A2Sums, Third
<1>3. /\ data[1] = g /\ data[2] = v /\ data[3] = z
      /\ bytes[1] = g /\ bytes[2] = v /\ bytes[3] = y
  BY Zenon DEF A2Tuple
<1>19. Numbers(b, 21)
  BY DEF Encodes
<1>20. ThirdBits(y, p, c0, c1)
  BY ThirdSays
<1>21. ThirdBits(z, p, 0, 0)
  <2>1. Third(z, p, 0, 0)
    BY <1>1 DEF Third
  <2> QED
    BY <2>1, ThirdSays
<1>22. \A i \in 1 .. 19 : t[i] \in Nat /\ b[i] = t[i]
  <2>1. bytes[1] = data[1] /\ bytes[2] = data[2]
    BY <1>3, Zenon
  <2>2. Bit(bytes[3], 7) = Bit(data[3], 7) /\ Bit(bytes[3], 6) = Bit(data[3], 6) /\ Bit(bytes[3], 5) = Bit(data[3], 5)
    BY <1>3, <1>20, <1>21, Zenon DEF ThirdBits
  <2>3. A2Same(bytes, data)
    BY <2>1, <2>2, Zenon DEF A2Same
  <2> QED
    BY <2>3, A2Prefix, Zenon
<1>23. b[17] = p /\ b[20] = c1 /\ b[21] = c0
  <2>1. 3 \in 1 .. 3 /\ 1 \in 1 .. 8 /\ 4 \in 1 .. 8 /\ 5 \in 1 .. 8 /\ 8 - 1 = 7 /\ 8 - 4 = 4 /\ 8 - 5 = 3
        /\ 8 * (3 - 1) + 1 = 17 /\ 8 * (3 - 1) + 4 = 20 /\ 8 * (3 - 1) + 5 = 21
        /\ 17 <= 21 /\ 20 <= 21 /\ 21 <= 21
    OBVIOUS
  <2>2. \A m \in 1 .. 3, k \in 1 .. 8 : 8 * (m - 1) + k <= 21 => b[8 * (m - 1) + k] = Bit(bytes[m], 8 - k)
    BY DEF Encodes
  <2>3. b[17] = Bit(bytes[3], 7) /\ b[20] = Bit(bytes[3], 4) /\ b[21] = Bit(bytes[3], 3)
    BY <2>1, <2>2, Zenon
  <2> QED
    BY <1>3, <1>20, <2>3, Zenon DEF ThirdBits
<1>24. Summed(b, t, s, 0) /\ Summed(b, t, u, 1)
  <2>1. b[21 - 0] = s[19] % 2 /\ b[21 - 1] = u[19] % 2
    <3>1. 21 - 0 = 21 /\ 21 - 1 = 20
      OBVIOUS
    <3> QED
      BY <1>23, <3>1, Zenon DEF A2Sums
  <2> QED
    BY <1>19, <1>22, <2>1, Zenon DEF Summed, A2Sums
<1>25. A2Bytes(bytes, r, e, c, h, p, c0, c1)
  BY <1>1, <1>2, <1>3, Zenon DEF A2Bytes
<1>26. Value(b, 1, 13) = r /\ b[14] = e /\ b[15] = c /\ b[16] = h
  BY <1>25, A2Codes, Zenon
<1>27. Value(b, 16, 17) = x
  BY <1>1, <1>19, <1>23, <1>26, A2Command, Zenon
<1>28. b[15] * 2 + b[14] = d
  BY <1>1, <1>26, Zenon
<1> QED
  BY <1>24, <1>26, <1>27, <1>28, FirstParity, SecondParity, Zenon DEF A2Says

LEMMA Auchan2Hears ==
  ASSUME NEW r \in Nat, Wide(r, 13), NEW d \in Nat, Wide(d, 2), NEW x, Wide(x, 2),
         NEW b, b = Cut(Auchan2(r, d, x).bits, 21)
  PROVE  /\ 21 <= Len(Auchan2(r, d, x).bits)
         /\ Parity(Firsts(SubSeq(b, 1, 20)) \o <<b[21]>>) = 0 /\ Parity(Seconds(SubSeq(b, 1, 20))) = 0
         /\ Value(b, 1, 13) = r /\ b[15] * 2 + b[14] = d /\ Value(b, 16, 17) = x
<1>1. PICK e, c, h, p, g, v, z : A2Values(r, d, x, e, c, h, p, g, v, z)
  BY A2Given, Zenon
<1>2. g \in Nat /\ v \in Nat /\ z \in Nat /\ z = p * 128 /\ p \in {0, 1}
  BY <1>1, Zenon DEF A2Values
<1>3. PICK data : data = A2Data(r, d, x)
  OBVIOUS
<1>31. data = <<g, v, z>>
  BY <1>1, <1>3, Zenon DEF A2Values
<1>4. PICK t : t = BitsOf(data)
  OBVIOUS
<1>6. A2Tuple(data, g, v, z)
  BY <1>2, <1>31, A2TupleIs, Zenon
<1>7. Encodes(t, data, 3, 24)
  BY <1>4, <1>6, A2Encodes, Zenon
<1>8. \A i \in 1 .. 19 : t[i] \in Nat
  BY <1>7, A2Types
<1>9. PICK c0, c1 : c0 = CrcSum(t, 0) % 2 /\ c1 = CrcSum(t, 1) % 2
  OBVIOUS
<1>10. PICK s, u : A2Sums(t, s, u, c0, c1)
  BY <1>8, <1>9, A2SumsOf, Zenon
<1>11. c0 \in {0, 1} /\ c1 \in {0, 1}
  BY <1>10, Zenon DEF A2Sums
<1>12. PICK k \in Nat : k = (c0 + 2 * c1) * 8
  BY <1>11
<1>13. PICK y : y = z + k
  OBVIOUS
<1>130. y \in Nat
  BY <1>2, <1>13
<1>131. Third(y, p, c0, c1)
  BY <1>2, <1>11, <1>12, <1>13, Zenon DEF Third
<1>14. PICK bytes : bytes = [data EXCEPT ![3] = @ + k]
  OBVIOUS
<1>15. Auchan2(r, d, x).bits = BitsOf(bytes)
  <2>1. A2Made(r, d, x, data, t, c0, c1, k, bytes)
    BY <1>3, <1>4, <1>9, <1>12, <1>14, Zenon DEF A2Made
  <2> QED
    BY <2>1, A2Text
<1>16. bytes = <<g, v, y>>
  <2>1. [data EXCEPT ![3] = @ + k] = <<g, v, z + k>>
    BY <1>2, <1>31, A2Changed
  <2> QED
    BY <1>13, <1>14, <2>1, Zenon
<1>17. A2Tuple(bytes, g, v, y)
  BY <1>2, <1>130, <1>16, A2TupleIs, Zenon
<1>18. Encodes(b, bytes, 3, 21) /\ 21 <= Len(BitsOf(bytes))
  BY <1>15, <1>17, A2Cut, Zenon
<1>19. A2Says(b, r, d, x)
  BY <1>1, <1>6, <1>7, <1>10, <1>131, <1>17, <1>18, A2Hears
<1> QED
  BY <1>15, <1>18, <1>19, Zenon DEF A2Says

-----------------------------------------------------------------------------
(***************************************************************************)
(* What a receiver hears is what was meant, for each of these protocols.   *)
(***************************************************************************)

\* A protocol's command has its number in the frame for itself.
LEMMA CommandIs ==
  ASSUME NEW p, p # "blyss", NEW c \in DOMAIN RawCmd(p),
         \A e \in DOMAIN RawCmd(p) : RawCmd(p)[e] = RawCmd(p)[c] => e = c
  PROVE  CommandOf(p, RawCmd(p)[c]) = c
  BY DEF CommandOf

\* What is asked of protocol p, which is not one with groups.
Asked(given, p, r, d, c, x) ==
    /\ given.protocol = p /\ given.remote = r /\ given.device = d /\ given.command = c
    /\ c \in DOMAIN RawCmd(p) /\ x = RawCmd(p)[c] /\ CommandOf(p, x) = c

LEMMA MeantIs ==
  ASSUME NEW given, NEW p, NEW r, NEW d, NEW c, NEW x, Asked(given, p, r, d, c, x)
  PROVE  /\ p \in {"otax", "dio", "sumtech", "auchan", "auchan2"} => Meant(given) = Content(p, r, d, x, 0)
         /\ p \in {"he", "idk"} /\ r = 0 => Meant(given) = Content(p, 0, d, x, 0)
         /\ p = "somfy" => Meant(given) = Content(p, r, d, x, given.rolling_code)
<1> USE DEF Asked
<1>1. ASSUME p \in {"otax", "dio", "sumtech", "auchan", "auchan2"} PROVE Meant(given) = Content(p, r, d, x, 0)
  BY <1>1 DEF Meant, Content
<1>2. ASSUME p \in {"he", "idk"}, r = 0 PROVE Meant(given) = Content(p, 0, d, x, 0)
  BY <1>2 DEF Meant, Content
<1>3. ASSUME p = "somfy" PROVE Meant(given) = Content(p, r, d, x, given.rolling_code)
  BY <1>3 DEF Meant, Content
<1> QED
  BY <1>1, <1>2, <1>3

\* The frame says all of a command, one whose codes its format has room for.
CarriesWhole(f, given) ==
    /\ f.bit_count <= Len(f.bits)
    /\ LET heard == Heard(given.protocol, SubSeq(f.bits, 1, f.bit_count))
       IN  heard.valid /\ heard.content = Meant(given)

\* The frame of n bits says what was meant, if that is what a receiver hears.
Received(given, f, n, h) ==
    /\ f.bit_count = n /\ n <= Len(f.bits)
    /\ Heard(given.protocol, Cut(f.bits, n)) = h
    /\ h.valid /\ h.content = Meant(given)

LEMMA CarriesIs ==
  ASSUME NEW given, NEW f, NEW n, NEW h, Received(given, f, n, h)
  PROVE  CarriesWhole(f, given)
  BY Zenon DEF Received, CarriesWhole, Cut

LEMMA HeardFields == ASSUME NEW v, NEW c PROVE [valid |-> v, content |-> c].valid = v /\ [valid |-> v, content |-> c].content = c
  OBVIOUS

-----------------------------------------------------------------------------
LEMMA DioCarries ==
  ASSUME NEW given, NEW r \in Nat, Wide(r, 26), NEW d \in Nat, Wide(d, 4), NEW c, NEW x, Wide(x, 2),
         Asked(given, "dio", r, d, c, x)
  PROVE  CarriesWhole(FormatCmd(given), given)
<1>0. ASSUME NEW b, b = Cut(Dio(r, d, x).bits, 64)
      PROVE  64 <= Len(Dio(r, d, x).bits) /\ DioSaid(b, r, d, x)
  BY <1>0, DioHears
<1>1. PICK f : f = Dio(r, d, x)
  OBVIOUS
<1>2. FormatCmd(given) = f
  BY <1>1 DEF FormatCmd, Asked
<1>3. f.bit_count = 64
  BY <1>1, BitCounts
<1>4. PICK b : b = Cut(f.bits, 64)
  OBVIOUS
<1>5. 64 <= Len(f.bits) /\ DioSaid(b, r, d, x)
  <2>1. b = Cut(Dio(r, d, x).bits, 64)
    BY <1>1, <1>4, Zenon
  <2>2. 64 <= Len(Dio(r, d, x).bits) /\ DioSaid(b, r, d, x)
    BY <1>0, <2>1, Zenon
  <2> QED
    BY <1>1, <2>2, Zenon
<1>6. PICK h : h = DioHeard(b)
  OBVIOUS
<1>7. Heard("dio", b) = h /\ h.valid /\ h.content = Content("dio", r, d, x, 0)
  <2>1. Heard("dio", b) = h
    BY <1>6 DEF Heard
  <2>2. h.valid /\ h.content = Content("dio", r, d, x, 0)
    BY <1>5, <1>6, HeardFields DEF DioSaid, DioHeard
  <2> QED
    BY <2>1, <2>2
<1>8. Meant(given) = Content("dio", r, d, x, 0) /\ given.protocol = "dio"
  BY MeantIs DEF Asked
<1>9. Received(given, f, 64, h)
  BY <1>3, <1>4, <1>5, <1>7, <1>8, Zenon DEF Received
<1> QED
  BY <1>2, <1>9, CarriesIs

HomeEasySaid(b, r, d, x) ==
    /\ b[1] = 1 /\ (\A n \in 0 .. 7 : Value(WordAt(b, n), 1, 2) = 2) /\ (\A n \in {0, 1, 7} : NibbleAt(b, n) = 0)
    /\ NibbleAt(b, 2) * 4096 + NibbleAt(b, 3) * 256 + NibbleAt(b, 4) * 16 + NibbleAt(b, 5) = d
    /\ NibbleAt(b, 6) * 16 = x

LEMMA HomeEasyCarries ==
  ASSUME NEW given, NEW r, r = 0, NEW d \in Nat, Wide(d, 16), NEW c, NEW x \in {0, 16},
         Asked(given, "he", r, d, c, x)
  PROVE  CarriesWhole(FormatCmd(given), given)
<1>0. ASSUME NEW b, b = Cut(HomeEasy(d, x).bits, 57)
      PROVE  57 <= Len(HomeEasy(d, x).bits) /\ HomeEasySaid(b, r, d, x)
  BY <1>0, HomeEasyHears DEF HomeEasySaid
<1>1. PICK f : f = HomeEasy(d, x)
  OBVIOUS
<1>2. FormatCmd(given) = f
  BY <1>1 DEF FormatCmd, Asked
<1>3. f.bit_count = 57
  BY <1>1, BitCounts
<1>4. PICK b : b = Cut(f.bits, 57)
  OBVIOUS
<1>5. 57 <= Len(f.bits) /\ HomeEasySaid(b, r, d, x)
  <2>1. b = Cut(HomeEasy(d, x).bits, 57)
    BY <1>1, <1>4, Zenon
  <2>2. 57 <= Len(HomeEasy(d, x).bits) /\ HomeEasySaid(b, r, d, x)
    BY <1>0, <2>1, Zenon
  <2> QED
    BY <1>1, <2>2, Zenon
<1>6. PICK h : h = HomeEasyHeard(b)
  OBVIOUS
<1>7. Heard("he", b) = h /\ h.valid /\ h.content = Content("he", 0, d, x, 0)
  <2>1. Heard("he", b) = h
    BY <1>6 DEF Heard
  <2>2. h.valid /\ h.content = Content("he", 0, d, x, 0)
    BY <1>5, <1>6, HeardFields DEF HomeEasySaid, HomeEasyHeard, WordAt, NibbleAt
  <2> QED
    BY <2>1, <2>2
<1>8. Meant(given) = Content("he", 0, d, x, 0) /\ given.protocol = "he"
  BY MeantIs DEF Asked
<1>9. Received(given, f, 57, h)
  BY <1>3, <1>4, <1>5, <1>7, <1>8, Zenon DEF Received
<1> QED
  BY <1>2, <1>9, CarriesIs

OtaxSaid(b, r, d, x) ==
    /\ Number(Firsts(SubSeq(b, 1, 10))) = r /\ All(Seconds(SubSeq(b, 1, 10)), 1)
    /\ Number(Seconds(SubSeq(b, 11, 20))) = 31 - d /\ All(Firsts(SubSeq(b, 11, 20)), 0)
    /\ Value(b, 21, 24) = x /\ b[25] = 0

LEMMA OtaxCarries ==
  ASSUME NEW given, NEW r \in Nat, Wide(r, 5), NEW d \in Nat, Wide(d, 5), NEW c, NEW x, Wide(x, 4),
         Asked(given, "otax", r, d, c, x)
  PROVE  CarriesWhole(FormatCmd(given), given)
<1>0. ASSUME NEW b, b = Cut(Otax(r, d, x).bits, 25)
      PROVE  25 <= Len(Otax(r, d, x).bits) /\ OtaxSaid(b, r, d, x)
  BY <1>0, OtaxHears DEF OtaxSaid
<1>1. PICK f : f = Otax(r, d, x)
  OBVIOUS
<1>2. FormatCmd(given) = f
  BY <1>1 DEF FormatCmd, Asked
<1>3. f.bit_count = 25
  BY <1>1, BitCounts
<1>4. PICK b : b = Cut(f.bits, 25)
  OBVIOUS
<1>5. 25 <= Len(f.bits) /\ OtaxSaid(b, r, d, x)
  <2>1. b = Cut(Otax(r, d, x).bits, 25)
    BY <1>1, <1>4, Zenon
  <2>2. 25 <= Len(Otax(r, d, x).bits) /\ OtaxSaid(b, r, d, x)
    BY <1>0, <2>1, Zenon
  <2> QED
    BY <1>1, <2>2, Zenon
<1>6. PICK h : h = OtaxHeard(b)
  OBVIOUS
<1>60. 31 - (31 - d) = d
  OBVIOUS
<1>7. Heard("otax", b) = h /\ h.valid /\ h.content = Content("otax", r, d, x, 0)
  <2>1. Heard("otax", b) = h
    BY <1>6 DEF Heard
  <2>2. h.valid /\ h.content = Content("otax", r, d, x, 0)
    BY <1>5, <1>6, <1>60, HeardFields DEF OtaxSaid, OtaxHeard
  <2> QED
    BY <2>1, <2>2
<1>8. Meant(given) = Content("otax", r, d, x, 0) /\ given.protocol = "otax"
  BY MeantIs DEF Asked
<1>9. Received(given, f, 25, h)
  BY <1>3, <1>4, <1>5, <1>7, <1>8, Zenon DEF Received
<1> QED
  BY <1>2, <1>9, CarriesIs

SumtechSaid(b, r, d, x) ==
    /\ Value(b, 1, 24) = r /\ Value(b, 26, 32) = d /\ b[25] = x

LEMMA SumtechCarries ==
  ASSUME NEW given, NEW r \in Nat, Wide(r, 24), NEW d \in Nat, Wide(d, 7), NEW c, NEW x, Wide(x, 1),
         Asked(given, "sumtech", r, d, c, x)
  PROVE  CarriesWhole(FormatCmd(given), given)
<1>0. ASSUME NEW b, b = Cut(Sumtech(r, d, x).bits, 32)
      PROVE  32 <= Len(Sumtech(r, d, x).bits) /\ SumtechSaid(b, r, d, x)
  BY <1>0, SumtechHears DEF SumtechSaid
<1>1. PICK f : f = Sumtech(r, d, x)
  OBVIOUS
<1>2. FormatCmd(given) = f
  BY <1>1 DEF FormatCmd, Asked
<1>3. f.bit_count = 32
  BY <1>1, BitCounts
<1>4. PICK b : b = Cut(f.bits, 32)
  OBVIOUS
<1>5. 32 <= Len(f.bits) /\ SumtechSaid(b, r, d, x)
  <2>1. b = Cut(Sumtech(r, d, x).bits, 32)
    BY <1>1, <1>4, Zenon
  <2>2. 32 <= Len(Sumtech(r, d, x).bits) /\ SumtechSaid(b, r, d, x)
    BY <1>0, <2>1, Zenon
  <2> QED
    BY <1>1, <2>2, Zenon
<1>6. PICK h : h = SumtechHeard(b)
  OBVIOUS
<1>7. Heard("sumtech", b) = h /\ h.valid /\ h.content = Content("sumtech", r, d, x, 0)
  <2>1. Heard("sumtech", b) = h
    BY <1>6 DEF Heard
  <2>2. h.valid /\ h.content = Content("sumtech", r, d, x, 0)
    BY <1>5, <1>6, HeardFields DEF SumtechSaid, SumtechHeard
  <2> QED
    BY <2>1, <2>2
<1>8. Meant(given) = Content("sumtech", r, d, x, 0) /\ given.protocol = "sumtech"
  BY MeantIs DEF Asked
<1>9. Received(given, f, 32, h)
  BY <1>3, <1>4, <1>5, <1>7, <1>8, Zenon DEF Received
<1> QED
  BY <1>2, <1>9, CarriesIs

AuchanSaid(b, r, d, x) ==
    /\ Value(b, 1, 20) = r /\ Value(b, 21, 23) = d /\ b[24] = x /\ b[25] = 0

LEMMA AuchanCarries ==
  ASSUME NEW given, NEW r \in Nat, Wide(r, 20), NEW d \in Nat, Wide(d, 3), NEW c, NEW x, Wide(x, 1),
         Asked(given, "auchan", r, d, c, x)
  PROVE  CarriesWhole(FormatCmd(given), given)
<1>0. ASSUME NEW b, b = Cut(Auchan(r, d, x).bits, 25)
      PROVE  25 <= Len(Auchan(r, d, x).bits) /\ AuchanSaid(b, r, d, x)
  BY <1>0, AuchanHears DEF AuchanSaid
<1>1. PICK f : f = Auchan(r, d, x)
  OBVIOUS
<1>2. FormatCmd(given) = f
  BY <1>1 DEF FormatCmd, Asked
<1>3. f.bit_count = 25
  BY <1>1, BitCounts
<1>4. PICK b : b = Cut(f.bits, 25)
  OBVIOUS
<1>5. 25 <= Len(f.bits) /\ AuchanSaid(b, r, d, x)
  <2>1. b = Cut(Auchan(r, d, x).bits, 25)
    BY <1>1, <1>4, Zenon
  <2>2. 25 <= Len(Auchan(r, d, x).bits) /\ AuchanSaid(b, r, d, x)
    BY <1>0, <2>1, Zenon
  <2> QED
    BY <1>1, <2>2, Zenon
<1>6. PICK h : h = AuchanHeard(b)
  OBVIOUS
<1>7. Heard("auchan", b) = h /\ h.valid /\ h.content = Content("auchan", r, d, x, 0)
  <2>1. Heard("auchan", b) = h
    BY <1>6 DEF Heard
  <2>2. h.valid /\ h.content = Content("auchan", r, d, x, 0)
    BY <1>5, <1>6, HeardFields DEF AuchanSaid, AuchanHeard
  <2> QED
    BY <2>1, <2>2
<1>8. Meant(given) = Content("auchan", r, d, x, 0) /\ given.protocol = "auchan"
  BY MeantIs DEF Asked
<1>9. Received(given, f, 25, h)
  BY <1>3, <1>4, <1>5, <1>7, <1>8, Zenon DEF Received
<1> QED
  BY <1>2, <1>9, CarriesIs

Auchan2Said(b, r, d, x) ==
    /\ Parity(Firsts(SubSeq(b, 1, 20)) \o <<b[21]>>) = 0 /\ Parity(Seconds(SubSeq(b, 1, 20))) = 0
    /\ Value(b, 1, 13) = r /\ b[15] * 2 + b[14] = d /\ Value(b, 16, 17) = x

LEMMA Auchan2Carries ==
  ASSUME NEW given, NEW r \in Nat, Wide(r, 13), NEW d \in Nat, Wide(d, 2), NEW c, NEW x, Wide(x, 2),
         Asked(given, "auchan2", r, d, c, x)
  PROVE  CarriesWhole(FormatCmd(given), given)
<1>0. ASSUME NEW b, b = Cut(Auchan2(r, d, x).bits, 21)
      PROVE  21 <= Len(Auchan2(r, d, x).bits) /\ Auchan2Said(b, r, d, x)
  BY <1>0, Auchan2Hears DEF Auchan2Said
<1>1. PICK f : f = Auchan2(r, d, x)
  OBVIOUS
<1>2. FormatCmd(given) = f
  BY <1>1 DEF FormatCmd, Asked
<1>3. f.bit_count = 21
  BY <1>1, BitCounts
<1>4. PICK b : b = Cut(f.bits, 21)
  OBVIOUS
<1>5. 21 <= Len(f.bits) /\ Auchan2Said(b, r, d, x)
  <2>1. b = Cut(Auchan2(r, d, x).bits, 21)
    BY <1>1, <1>4, Zenon
  <2>2. 21 <= Len(Auchan2(r, d, x).bits) /\ Auchan2Said(b, r, d, x)
    BY <1>0, <2>1, Zenon
  <2> QED
    BY <1>1, <2>2, Zenon
<1>6. PICK h : h = Auchan2Heard(b)
  OBVIOUS
<1>7. Heard("auchan2", b) = h /\ h.valid /\ h.content = Content("auchan2", r, d, x, 0)
  <2>1. Heard("auchan2", b) = h
    BY <1>6 DEF Heard
  <2>2. h.valid /\ h.content = Content("auchan2", r, d, x, 0)
    BY <1>5, <1>6, HeardFields DEF Auchan2Said, Auchan2Heard
  <2> QED
    BY <2>1, <2>2
<1>8. Meant(given) = Content("auchan2", r, d, x, 0) /\ given.protocol = "auchan2"
  BY MeantIs DEF Asked
<1>9. Received(given, f, 21, h)
  BY <1>3, <1>4, <1>5, <1>7, <1>8, Zenon DEF Received
<1> QED
  BY <1>2, <1>9, CarriesIs

IdkSaid(b, r, d, x) ==
    /\ All(Seconds(SubSeq(b, 1, 24)), 1) /\ All(Firsts(SubSeq(b, 9, 24)), 0) /\ b[25] = 0
    /\ Number(Firsts(SubSeq(b, 1, 8))) = d

LEMMA IdkCarries ==
  ASSUME NEW given, NEW r, r = 0, NEW d \in Nat, Wide(d, 4), NEW c, NEW x, x = 0,
         Asked(given, "idk", r, d, c, x)
  PROVE  CarriesWhole(FormatCmd(given), given)
<1>0. ASSUME NEW b, b = Cut(Idk(d).bits, 25)
      PROVE  25 <= Len(Idk(d).bits) /\ IdkSaid(b, r, d, x)
  BY <1>0, IdkHears DEF IdkSaid
<1>1. PICK f : f = Idk(d)
  OBVIOUS
<1>2. FormatCmd(given) = f
  BY <1>1 DEF FormatCmd, Asked
<1>3. f.bit_count = 25
  BY <1>1, BitCounts
<1>4. PICK b : b = Cut(f.bits, 25)
  OBVIOUS
<1>5. 25 <= Len(f.bits) /\ IdkSaid(b, r, d, x)
  <2>1. b = Cut(Idk(d).bits, 25)
    BY <1>1, <1>4, Zenon
  <2>2. 25 <= Len(Idk(d).bits) /\ IdkSaid(b, r, d, x)
    BY <1>0, <2>1, Zenon
  <2> QED
    BY <1>1, <2>2, Zenon
<1>6. PICK h : h = IdkHeard(b)
  OBVIOUS
<1>7. Heard("idk", b) = h /\ h.valid /\ h.content = Content("idk", 0, d, x, 0)
  <2>1. Heard("idk", b) = h
    BY <1>6 DEF Heard
  <2>2. h.valid /\ h.content = Content("idk", 0, d, x, 0)
    BY <1>5, <1>6, HeardFields DEF IdkSaid, IdkHeard
  <2> QED
    BY <2>1, <2>2
<1>8. Meant(given) = Content("idk", 0, d, x, 0) /\ given.protocol = "idk"
  BY MeantIs DEF Asked
<1>9. Received(given, f, 25, h)
  BY <1>3, <1>4, <1>5, <1>7, <1>8, Zenon DEF Received
<1> QED
  BY <1>2, <1>9, CarriesIs

-----------------------------------------------------------------------------
(***************************************************************************)
(* Blyss, whose groups are devices to the receiver.                        *)
(***************************************************************************)

BlyssAsked(given, r, d, x, k) ==
    /\ given.protocol = "blyss" /\ given.remote = r /\ given.rolling_code = k
    /\ given.command \in DOMAIN RawCmd("blyss") /\ x = RawCmd("blyss")[given.command]
    /\ d = BlyssDevice(given.device, given.command)

LEMMA BlyssTable == RawCmd("blyss") = [OFF |-> 1, ON |-> 0, GOFF |-> 1, GON |-> 0]
  BY DEF RawCmd

LEMMA BlyssMeant ==
  ASSUME NEW given, NEW r, NEW d, NEW x, NEW k, BlyssAsked(given, r, d, x, k)
  PROVE  x \in {0, 1} /\ Meant(given) = Content("blyss", r, d, x, k)
<1>1. /\ DOMAIN RawCmd("blyss") = {"OFF", "ON", "GOFF", "GON"}
      /\ RawCmd("blyss")["OFF"] = 1 /\ RawCmd("blyss")["ON"] = 0
      /\ RawCmd("blyss")["GOFF"] = 1 /\ RawCmd("blyss")["GON"] = 0
  BY BlyssTable
<1>2. CommandOf("blyss", 1) = "OFF"
  BY <1>1 DEF CommandOf
<1>3. CommandOf("blyss", 0) = "ON"
  BY <1>1 DEF CommandOf
<1>4. /\ given.protocol = "blyss" /\ given.remote = r /\ given.rolling_code = k
      /\ given.command \in DOMAIN RawCmd("blyss") /\ x = RawCmd("blyss")[given.command]
      /\ d = BlyssDevice(given.device, given.command)
  BY DEF BlyssAsked
<1>5. CASE given.command = "OFF"
  BY <1>1, <1>2, <1>4, <1>5 DEF Meant, Content, BlyssDevice
<1>6. CASE given.command = "ON"
  BY <1>1, <1>3, <1>4, <1>6 DEF Meant, Content, BlyssDevice
<1>7. CASE given.command = "GOFF"
  BY <1>1, <1>2, <1>4, <1>7 DEF Meant, Content, BlyssDevice
<1>8. CASE given.command = "GON"
  BY <1>1, <1>3, <1>4, <1>8 DEF Meant, Content, BlyssDevice
<1> QED
  BY <1>1, <1>4, <1>5, <1>6, <1>7, <1>8

LEMMA IndexOf ==
  ASSUME NEW k \in 0 .. 4
  PROVE  (CHOOSE i \in 1 .. 5 : rolling_code_table[i] = rolling_code_table[k + 1]) - 1 = k
<1>1. PICK j \in 1 .. 5 : j = k + 1 /\ j - 1 = k
  OBVIOUS
<1>2. \A i \in 1 .. 5 : i \in {1, 2, 3, 4, 5}
  OBVIOUS
<1>3. /\ rolling_code_table[1] = 152 /\ rolling_code_table[2] = 218 /\ rolling_code_table[3] = 30
      /\ rolling_code_table[4] = 230 /\ rolling_code_table[5] = 103
  BY DEF rolling_code_table
<1>4. \A i \in 1 .. 5 : rolling_code_table[i] = rolling_code_table[j] => i = j
  BY <1>2, <1>3
<1>5. (CHOOSE i \in 1 .. 5 : rolling_code_table[i] = rolling_code_table[j]) = j
  BY <1>4
<1> QED
  BY <1>1, <1>5

LEMMA BlyssHeardIs ==
  ASSUME NEW b, NEW r, NEW d, NEW x, NEW k \in 0 .. 4, BlyssSaid(b, r, d, x, k)
  PROVE  BlyssHeard(b).valid /\ BlyssHeard(b).content = Content("blyss", r, d, x, k)
<1>1. PICK c : c = rolling_code_table[k + 1]
  OBVIOUS
<1>2. /\ Value(b, 1, 8) = 254 /\ Value(b, 9, 28) = r /\ Value(b, 29, 32) = d
      /\ Value(b, 33, 36) = x /\ Value(b, 37, 44) = c /\ Value(b, 45, 52) = 255 - c
  BY <1>1 DEF BlyssSaid
<1>3. (CHOOSE i \in 1 .. 5 : rolling_code_table[i] = c) - 1 = k
  BY <1>1, IndexOf
<1>4. \E i \in 1 .. 5 : rolling_code_table[i] = c
  <2>1. k + 1 \in 1 .. 5
    OBVIOUS
  <2> QED
    BY <1>1, <2>1
<1>5. PICK v : v <=> /\ Value(b, 1, 8) = 254 /\ Value(b, 45, 52) = 255 - Value(b, 37, 44)
                     /\ \E i \in 1 .. 5 : rolling_code_table[i] = Value(b, 37, 44)
  OBVIOUS
<1>6. BlyssHeard(b).content = Content("blyss", Value(b, 9, 28), Value(b, 29, 32), Value(b, 33, 36),
                         (CHOOSE i \in 1 .. 5 : rolling_code_table[i] = Value(b, 37, 44)) - 1)
  BY HeardFields DEF BlyssHeard
<1>7. BlyssHeard(b).valid <=> /\ Value(b, 1, 8) = 254 /\ Value(b, 45, 52) = 255 - Value(b, 37, 44)
                     /\ \E i \in 1 .. 5 : rolling_code_table[i] = Value(b, 37, 44)
  BY HeardFields DEF BlyssHeard
<1> QED
  BY <1>2, <1>3, <1>4, <1>6, <1>7

LEMMA BlyssCarries ==
  ASSUME NEW given, NEW r \in Nat, Wide(r, 20), NEW d \in Nat, Wide(d, 4), NEW x, NEW k \in 0 .. 4,
         BlyssAsked(given, r, d, x, k)
  PROVE  CarriesWhole(FormatCmd(given), given)
<1>01. x \in {0, 1}
  BY BlyssMeant
<1>0. ASSUME NEW b, b = Cut(Blyss(r, d, x, k).bits, 52)
      PROVE  52 <= Len(Blyss(r, d, x, k).bits) /\ BlyssSaid(b, r, d, x, k)
  BY <1>0, <1>01, BlyssHears
<1>1. PICK f : f = Blyss(r, d, x, k)
  OBVIOUS
<1>2. FormatCmd(given) = f
  BY <1>1 DEF FormatCmd, BlyssAsked
<1>3. f.bit_count = 52
  BY <1>1, BitCounts
<1>4. PICK b : b = Cut(f.bits, 52)
  OBVIOUS
<1>5. 52 <= Len(f.bits) /\ BlyssSaid(b, r, d, x, k)
  <2>1. b = Cut(Blyss(r, d, x, k).bits, 52)
    BY <1>1, <1>4, Zenon
  <2>2. 52 <= Len(Blyss(r, d, x, k).bits) /\ BlyssSaid(b, r, d, x, k)
    BY <1>0, <2>1, Zenon
  <2> QED
    BY <1>1, <2>2, Zenon
<1>6. PICK h : h = BlyssHeard(b)
  OBVIOUS
<1>7. Heard("blyss", b) = h /\ h.valid /\ h.content = Content("blyss", r, d, x, k)
  <2>1. Heard("blyss", b) = h
    BY <1>6 DEF Heard
  <2> QED
    BY <1>5, <1>6, <2>1, BlyssHeardIs
<1>8. Meant(given) = Content("blyss", r, d, x, k) /\ given.protocol = "blyss"
  BY BlyssMeant DEF BlyssAsked
<1>9. Received(given, f, 52, h)
  BY <1>3, <1>4, <1>5, <1>7, <1>8, Zenon DEF Received
<1> QED
  BY <1>2, <1>9, CarriesIs

-----------------------------------------------------------------------------
(***************************************************************************)
(* For every command whose codes its format has room for.                  *)
(***************************************************************************)

\* What is asked of a protocol: codes up to its maxima, a command it knows.
Possible(given, p) ==
    /\ given.protocol = p /\ given.command \in DOMAIN RawCmd(p)
    /\ given.remote \in 0 .. protocol_drivers[p].remote_code_max
    /\ given.device \in 0 .. protocol_drivers[p].device_code_max

LEMMA CodeFits ==
  ASSUME NEW v, NEW m, NEW w \in Nat, v \in 0 .. m, m = 2^w - 1
  PROVE  v \in Nat /\ Wide(v, w)
  BY DEF Wide

LEMMA AskedIs ==
  ASSUME NEW given, NEW p, p # "blyss", Possible(given, p),
         \A c, e \in DOMAIN RawCmd(p) : RawCmd(p)[e] = RawCmd(p)[c] => e = c
  PROVE  Asked(given, p, given.remote, given.device, given.command, RawCmd(p)[given.command])
<1>1. given.command \in DOMAIN RawCmd(p)
  BY DEF Possible
<1>2. CommandOf(p, RawCmd(p)[given.command]) = given.command
  BY <1>1, CommandIs
<1> QED
  BY <1>1, <1>2 DEF Possible, Asked

LEMMA OtaxRight ==
  ASSUME NEW given, Possible(given, "otax")
  PROVE  CarriesWhole(FormatCmd(given), given)
<1>1. PICK t : t = RawCmd("otax")
  OBVIOUS
<1>2. DOMAIN t = {"OFF", "ON"} /\ t["OFF"] = 1 /\ t["ON"] = 4
  <2>1. RawCmd("otax") = [OFF |-> 1, ON |-> 4]
    BY DEF RawCmd
  <2> QED
    BY <1>1, <2>1
<1>3. \A c, e \in DOMAIN t : t[e] = t[c] => e = c
  BY <1>2
<1>4. PICK x : x = t[given.command]
  OBVIOUS
<1>5. Asked(given, "otax", given.remote, given.device, given.command, x)
  BY <1>1, <1>3, <1>4, AskedIs
<1>6. Wide(x, 4)
  <2>1. x \in {1, 4}
    BY <1>1, <1>2, <1>4 DEF Possible
  <2> QED
    BY <2>1 DEF Wide
<1>7. given.remote \in Nat /\ Wide(given.remote, 5)
  <2>1. protocol_drivers["otax"].remote_code_max = 2^5 - 1
    BY DEF protocol_drivers, otax_driver, Driver
  <2>2. PICK m : m = protocol_drivers["otax"].remote_code_max
    OBVIOUS
  <2>3. given.remote \in 0 .. m /\ m = 2^5 - 1
    BY <2>1, <2>2 DEF Possible
  <2> QED
    BY <2>3, CodeFits
<1>8. given.device \in Nat /\ Wide(given.device, 5)
  <2>1. protocol_drivers["otax"].device_code_max = 2^5 - 1
    BY DEF protocol_drivers, otax_driver, Driver
  <2>2. PICK m : m = protocol_drivers["otax"].device_code_max
    OBVIOUS
  <2>3. given.device \in 0 .. m /\ m = 2^5 - 1
    BY <2>1, <2>2 DEF Possible
  <2> QED
    BY <2>3, CodeFits
<1> QED
  BY <1>5, <1>6, <1>7, <1>8, OtaxCarries

LEMMA DioRight ==
  ASSUME NEW given, Possible(given, "dio")
  PROVE  CarriesWhole(FormatCmd(given), given)
<1>1. PICK t : t = RawCmd("dio")
  OBVIOUS
<1>2. DOMAIN t = {"OFF", "ON", "GOFF", "GON"} /\ t["OFF"] = 0 /\ t["ON"] = 1 /\ t["GOFF"] = 2 /\ t["GON"] = 3
  <2>1. RawCmd("dio") = [OFF |-> 0, ON |-> 1, GOFF |-> 2, GON |-> 3]
    BY DEF RawCmd
  <2> QED
    BY <1>1, <2>1
<1>3. \A c, e \in DOMAIN t : t[e] = t[c] => e = c
  BY <1>2
<1>4. PICK x : x = t[given.command]
  OBVIOUS
<1>5. Asked(given, "dio", given.remote, given.device, given.command, x)
  BY <1>1, <1>3, <1>4, AskedIs
<1>6. Wide(x, 2)
  <2>1. x \in {0, 1, 2, 3}
    BY <1>1, <1>2, <1>4 DEF Possible
  <2> QED
    BY <2>1 DEF Wide
<1>7. given.remote \in Nat /\ Wide(given.remote, 26)
  <2>1. protocol_drivers["dio"].remote_code_max = 2^26 - 1
    BY DEF protocol_drivers, dio_driver, Driver
  <2>2. PICK m : m = protocol_drivers["dio"].remote_code_max
    OBVIOUS
  <2>3. given.remote \in 0 .. m /\ m = 2^26 - 1
    BY <2>1, <2>2 DEF Possible
  <2> QED
    BY <2>3, CodeFits
<1>8. given.device \in Nat /\ Wide(given.device, 4)
  <2>1. protocol_drivers["dio"].device_code_max = 2^4 - 1
    BY DEF protocol_drivers, dio_driver, Driver
  <2>2. PICK m : m = protocol_drivers["dio"].device_code_max
    OBVIOUS
  <2>3. given.device \in 0 .. m /\ m = 2^4 - 1
    BY <2>1, <2>2 DEF Possible
  <2> QED
    BY <2>3, CodeFits
<1> QED
  BY <1>5, <1>6, <1>7, <1>8, DioCarries

LEMMA HomeEasyRight ==
  ASSUME NEW given, Possible(given, "he")
  PROVE  CarriesWhole(FormatCmd(given), given)
<1>1. PICK t : t = RawCmd("he")
  OBVIOUS
<1>2. DOMAIN t = {"OFF", "ON"} /\ t["OFF"] = 0 /\ t["ON"] = 16
  <2>1. RawCmd("he") = [OFF |-> 0, ON |-> 16]
    BY DEF RawCmd
  <2> QED
    BY <1>1, <2>1
<1>3. \A c, e \in DOMAIN t : t[e] = t[c] => e = c
  BY <1>2
<1>4. PICK x : x = t[given.command]
  OBVIOUS
<1>5. Asked(given, "he", given.remote, given.device, given.command, x)
  BY <1>1, <1>3, <1>4, AskedIs
<1>6. x \in {0, 16}
  <2>1. x \in {0, 16}
    BY <1>1, <1>2, <1>4 DEF Possible
  <2> QED
    BY <2>1
<1>7. given.device \in Nat /\ Wide(given.device, 16)
  <2>1. protocol_drivers["he"].device_code_max = 2^16 - 1
    BY DEF protocol_drivers, he_driver, Driver
  <2>2. PICK m : m = protocol_drivers["he"].device_code_max
    OBVIOUS
  <2>3. given.device \in 0 .. m /\ m = 2^16 - 1
    BY <2>1, <2>2 DEF Possible
  <2> QED
    BY <2>3, CodeFits
<1>8. given.remote = 0
  <2>1. protocol_drivers["he"].remote_code_max = 0
    BY DEF protocol_drivers, he_driver, Driver
  <2>2. given.remote \in 0 .. protocol_drivers["he"].remote_code_max
    BY DEF Possible
  <2> QED
    BY <2>1, <2>2
<1> QED
  BY <1>5, <1>6, <1>7, <1>8, HomeEasyCarries

LEMMA IdkRight ==
  ASSUME NEW given, Possible(given, "idk")
  PROVE  CarriesWhole(FormatCmd(given), given)
<1>1. PICK t : t = RawCmd("idk")
  OBVIOUS
<1>2. DOMAIN t = {"ON"} /\ t["ON"] = 0
  <2>1. RawCmd("idk") = [ON |-> 0]
    BY DEF RawCmd
  <2> QED
    BY <1>1, <2>1
<1>3. \A c, e \in DOMAIN t : t[e] = t[c] => e = c
  BY <1>2
<1>4. PICK x : x = t[given.command]
  OBVIOUS
<1>5. Asked(given, "idk", given.remote, given.device, given.command, x)
  BY <1>1, <1>3, <1>4, AskedIs
<1>6. x = 0
  <2>1. x \in {0}
    BY <1>1, <1>2, <1>4 DEF Possible
  <2> QED
    BY <2>1
<1>7. given.device \in Nat /\ Wide(given.device, 4)
  <2>1. protocol_drivers["idk"].device_code_max = 2^4 - 1
    BY DEF protocol_drivers, idk_driver, Driver
  <2>2. PICK m : m = protocol_drivers["idk"].device_code_max
    OBVIOUS
  <2>3. given.device \in 0 .. m /\ m = 2^4 - 1
    BY <2>1, <2>2 DEF Possible
  <2> QED
    BY <2>3, CodeFits
<1>8. given.remote = 0
  <2>1. protocol_drivers["idk"].remote_code_max = 0
    BY DEF protocol_drivers, idk_driver, Driver
  <2>2. given.remote \in 0 .. protocol_drivers["idk"].remote_code_max
    BY DEF Possible
  <2> QED
    BY <2>1, <2>2
<1> QED
  BY <1>5, <1>6, <1>7, <1>8, IdkCarries

LEMMA SumtechRight ==
  ASSUME NEW given, Possible(given, "sumtech")
  PROVE  CarriesWhole(FormatCmd(given), given)
<1>1. PICK t : t = RawCmd("sumtech")
  OBVIOUS
<1>2. DOMAIN t = {"OFF", "ON"} /\ t["OFF"] = 0 /\ t["ON"] = 1
  <2>1. RawCmd("sumtech") = [OFF |-> 0, ON |-> 1]
    BY DEF RawCmd
  <2> QED
    BY <1>1, <2>1
<1>3. \A c, e \in DOMAIN t : t[e] = t[c] => e = c
  BY <1>2
<1>4. PICK x : x = t[given.command]
  OBVIOUS
<1>5. Asked(given, "sumtech", given.remote, given.device, given.command, x)
  BY <1>1, <1>3, <1>4, AskedIs
<1>6. Wide(x, 1)
  <2>1. x \in {0, 1}
    BY <1>1, <1>2, <1>4 DEF Possible
  <2> QED
    BY <2>1 DEF Wide
<1>7. given.remote \in Nat /\ Wide(given.remote, 24)
  <2>1. protocol_drivers["sumtech"].remote_code_max = 2^24 - 1
    BY DEF protocol_drivers, sumtech_driver, Driver
  <2>2. PICK m : m = protocol_drivers["sumtech"].remote_code_max
    OBVIOUS
  <2>3. given.remote \in 0 .. m /\ m = 2^24 - 1
    BY <2>1, <2>2 DEF Possible
  <2> QED
    BY <2>3, CodeFits
<1>8. given.device \in Nat /\ Wide(given.device, 7)
  <2>1. protocol_drivers["sumtech"].device_code_max = 2^7 - 1
    BY DEF protocol_drivers, sumtech_driver, Driver
  <2>2. PICK m : m = protocol_drivers["sumtech"].device_code_max
    OBVIOUS
  <2>3. given.device \in 0 .. m /\ m = 2^7 - 1
    BY <2>1, <2>2 DEF Possible
  <2> QED
    BY <2>3, CodeFits
<1> QED
  BY <1>5, <1>6, <1>7, <1>8, SumtechCarries

LEMMA AuchanRight ==
  ASSUME NEW given, Possible(given, "auchan")
  PROVE  CarriesWhole(FormatCmd(given), given)
<1>1. PICK t : t = RawCmd("auchan")
  OBVIOUS
<1>2. DOMAIN t = {"OFF", "ON"} /\ t["OFF"] = 1 /\ t["ON"] = 0
  <2>1. RawCmd("auchan") = [OFF |-> 1, ON |-> 0]
    BY DEF RawCmd
  <2> QED
    BY <1>1, <2>1
<1>3. \A c, e \in DOMAIN t : t[e] = t[c] => e = c
  BY <1>2
<1>4. PICK x : x = t[given.command]
  OBVIOUS
<1>5. Asked(given, "auchan", given.remote, given.device, given.command, x)
  BY <1>1, <1>3, <1>4, AskedIs
<1>6. Wide(x, 1)
  <2>1. x \in {0, 1}
    BY <1>1, <1>2, <1>4 DEF Possible
  <2> QED
    BY <2>1 DEF Wide
<1>7. given.remote \in Nat /\ Wide(given.remote, 20)
  <2>1. protocol_drivers["auchan"].remote_code_max = 2^20 - 1
    BY DEF protocol_drivers, auchan_driver, Driver
  <2>2. PICK m : m = protocol_drivers["auchan"].remote_code_max
    OBVIOUS
  <2>3. given.remote \in 0 .. m /\ m = 2^20 - 1
    BY <2>1, <2>2 DEF Possible
  <2> QED
    BY <2>3, CodeFits
<1>8. given.device \in Nat /\ Wide(given.device, 3)
  <2>1. protocol_drivers["auchan"].device_code_max = 2^3 - 1
    BY DEF protocol_drivers, auchan_driver, Driver
  <2>2. PICK m : m = protocol_drivers["auchan"].device_code_max
    OBVIOUS
  <2>3. given.device \in 0 .. m /\ m = 2^3 - 1
    BY <2>1, <2>2 DEF Possible
  <2> QED
    BY <2>3, CodeFits
<1> QED
  BY <1>5, <1>6, <1>7, <1>8, AuchanCarries

LEMMA Auchan2Right ==
  ASSUME NEW given, Possible(given, "auchan2")
  PROVE  CarriesWhole(FormatCmd(given), given)
<1>1. PICK t : t = RawCmd("auchan2")
  OBVIOUS
<1>2. DOMAIN t = {"OFF", "ON", "GOFF", "GON"} /\ t["OFF"] = 0 /\ t["ON"] = 1 /\ t["GOFF"] = 2 /\ t["GON"] = 3
  <2>1. RawCmd("auchan2") = [OFF |-> 0, ON |-> 1, GOFF |-> 2, GON |-> 3]
    BY DEF RawCmd
  <2> QED
    BY <1>1, <2>1
<1>3. \A c, e \in DOMAIN t : t[e] = t[c] => e = c
  BY <1>2
<1>4. PICK x : x = t[given.command]
  OBVIOUS
<1>5. Asked(given, "auchan2", given.remote, given.device, given.command, x)
  BY <1>1, <1>3, <1>4, AskedIs
<1>6. Wide(x, 2)
  <2>1. x \in {0, 1, 2, 3}
    BY <1>1, <1>2, <1>4 DEF Possible
  <2> QED
    BY <2>1 DEF Wide
<1>7. given.remote \in Nat /\ Wide(given.remote, 13)
  <2>1. protocol_drivers["auchan2"].remote_code_max = 2^13 - 1
    BY DEF protocol_drivers, auchan2_driver, Driver
  <2>2. PICK m : m = protocol_drivers["auchan2"].remote_code_max
    OBVIOUS
  <2>3. given.remote \in 0 .. m /\ m = 2^13 - 1
    BY <2>1, <2>2 DEF Possible
  <2> QED
    BY <2>3, CodeFits
<1>8. given.device \in Nat /\ Wide(given.device, 2)
  <2>1. protocol_drivers["auchan2"].device_code_max = 2^2 - 1
    BY DEF protocol_drivers, auchan2_driver, Driver
  <2>2. PICK m : m = protocol_drivers["auchan2"].device_code_max
    OBVIOUS
  <2>3. given.device \in 0 .. m /\ m = 2^2 - 1
    BY <2>1, <2>2 DEF Possible
  <2> QED
    BY <2>3, CodeFits
<1> QED
  BY <1>5, <1>6, <1>7, <1>8, Auchan2Carries

(***************************************************************************)
(* The exclusive or of two bytes, bit by bit.                              *)
(***************************************************************************)
Differs(a, b, i) == (Bit(a, i) + Bit(b, i)) % 2

IsXorSum(iter, a, b) ==
    iter = [t \in SUBSET (0 .. 7) |->
              IF t = {} THEN 0
              ELSE ((Bit(a, CHOOSE x \in t : TRUE) + Bit(b, CHOOSE x \in t : TRUE)) % 2) * 2^(CHOOSE x \in t : TRUE)
                     + iter[t \ {CHOOSE x \in t : TRUE}]]

LEMMA XorDef == ASSUME NEW a, NEW b PROVE Xor(a, b) = (CHOOSE iter : IsXorSum(iter, a, b))[0 .. 7]
<1>1. 8 - 1 = 7
  OBVIOUS
<1>2. Xor(a, b) = MapThenSumSet(LAMBDA i : ((Bit(a, i) + Bit(b, i)) % 2) * 2^i, 0 .. 7)
  BY <1>1, Zenon DEF Xor, SumOf
<1> QED
  BY <1>2, Zenon DEF MapThenSumSet, MapThenFoldSet, IsXorSum

XorTerms(a, b) == [i \in 0 .. 7 |-> Differs(a, b, i) * 2^i]

LEMMA DiffersType ==
  ASSUME NEW a \in Nat, NEW b \in Nat, NEW i \in 0 .. 28
  PROVE  Differs(a, b, i) \in {0, 1}
<1>1. PICK x \in {0, 1}, y \in {0, 1} : x = Bit(a, i) /\ y = Bit(b, i)
  BY BitType
<1> QED
  BY <1>1 DEF Differs

LEMMA XorTermsType ==
  ASSUME NEW a \in Nat, NEW b \in Nat
  PROVE  XorTerms(a, b) \in [0 .. 7 -> Nat]
<1>1. ASSUME NEW i \in 0 .. 7 PROVE Differs(a, b, i) * 2^i \in Nat
  <2>0. i \in 0 .. 28
    OBVIOUS
  <2>1. PICK p \in Nat : p = 2^i
    BY <2>0, PowerType
  <2>2. PICK d \in Nat : d = Differs(a, b, i)
    BY <2>0, DiffersType
  <2>3. d * p \in Nat
    OBVIOUS
  <2> QED
    BY <2>1, <2>2, <2>3
<1> QED
  BY <1>1, Zenon DEF XorTerms

LEMMA XorSteps ==
  ASSUME NEW a \in Nat, NEW b \in Nat
  PROVE  \E g : Adds(g, XorTerms(a, b), 8) /\ Xor(a, b) = g[8]
<1> DEFINE S == 0 .. 7
           f == XorTerms(a, b)
<1>1. ASSUME NEW i \in S PROVE f[i] = Differs(a, b, i) * 2^i
  BY DEF XorTerms
<1>2. f \in [S -> Nat] /\ IsFiniteSet(S)
  <2>1. 0 \in Int /\ 7 \in Int
    OBVIOUS
  <2>2. IsFiniteSet(S)
    BY <2>1, FS_Interval, Zenon
  <2> QED
    BY <2>2, XorTermsType
<1> HIDE DEF f
<1>3. ASSUME NEW iter PROVE IsSum(iter, S, f) <=> IsXorSum(iter, a, b)
  <2>1. ASSUME NEW t \in SUBSET S, t # {}
        PROVE  f[AnyOf(t)] = ((Bit(a, AnyOf(t)) + Bit(b, AnyOf(t))) % 2) * 2^AnyOf(t)
    <3>1. AnyOf(t) \in S
      BY <2>1 DEF AnyOf
    <3> HIDE DEF S
    <3> QED
      BY <1>1, <3>1 DEF Differs
  <2>2. [t \in SUBSET S |-> IF t = {} THEN 0 ELSE f[AnyOf(t)] + iter[t \ {AnyOf(t)}]]
          = [t \in SUBSET S |-> IF t = {} THEN 0 ELSE
                ((Bit(a, AnyOf(t)) + Bit(b, AnyOf(t))) % 2) * 2^AnyOf(t) + iter[t \ {AnyOf(t)}]]
    BY <2>1, Zenon
  <2>3. IsXorSum(iter, a, b) <=>
          iter = [t \in SUBSET S |-> IF t = {} THEN 0 ELSE
                ((Bit(a, AnyOf(t)) + Bit(b, AnyOf(t))) % 2) * 2^AnyOf(t) + iter[t \ {AnyOf(t)}]]
    BY Zenon DEF IsXorSum, AnyOf
  <2> QED
    BY <2>2, <2>3, Zenon DEF IsSum
<1> DEFINE c == CHOOSE iter : IsXorSum(iter, a, b)
<1>4. \E iter : IsSum(iter, S, f)
  <2> HIDE DEF S
  <2> QED
    BY <1>2, SumExists
<1>5. IsXorSum(c, a, b)
  BY <1>3, <1>4
<1> HIDE DEF c
<1>6. IsSum(c, S, f)
  BY <1>3, <1>5
<1>7. PICK n \in Nat : n = 8 /\ S = 0 .. n - 1
  OBVIOUS
<1>8. \E g : Adds(g, f, n) /\ c[0 .. n - 1] = g[n]
  <2> HIDE DEF S
  <2>1. f \in [0 .. n - 1 -> Nat] /\ IsSum(c, 0 .. n - 1, f)
    BY <1>2, <1>6, <1>7
  <2> QED
    BY <2>1, SumSteps
<1>9. Xor(a, b) = c[S]
  BY XorDef DEF c
<1> HIDE DEF S
<1> QED
  BY <1>7, <1>8, <1>9 DEF f

\* y has the first k bits of the exclusive or.
XorPart(y, a, b, k) == y \in Nat /\ Wide(y, k) /\ \A i \in 0 .. k - 1 : Bit(y, i) = Differs(a, b, i)

LEMMA XorStep ==
  ASSUME NEW a \in Nat, NEW b \in Nat, NEW k \in 0 .. 7, NEW x, XorPart(x, a, b, k),
         NEW y, y = Differs(a, b, k) * 2^k + x
  PROVE  XorPart(y, a, b, k + 1)
<1>1. PICK d \in {0, 1} : d = Differs(a, b, k)
  <2>1. k \in 0 .. 28
    OBVIOUS
  <2> QED
    BY <2>1, DiffersType
<1>2. PICK p \in Nat : p = 2^k /\ p >= 1 /\ 2^(k + 1) = 2 * p
  <2>1. k \in 0 .. 27
    OBVIOUS
  <2> QED
    BY <2>1, Powers DEF PowerOfTwo
<1>3. x \in 0 .. p - 1 /\ x \in Nat
  BY <1>2, Zenon DEF XorPart, Wide
<1>4. y = d * p + x
  BY <1>1, <1>2
<1>5. y \in 0 .. 2 * p - 1 /\ y \in Nat
  <2>1. CASE d = 0
    BY <1>2, <1>3, <1>4, <2>1
  <2>2. CASE d = 1
    BY <1>2, <1>3, <1>4, <2>2
  <2> QED
    BY <2>1, <2>2
<1>6. /\ \A i \in 0 .. k - 1 : Bit(y, i) = Bit(x, i)
      /\ \A i \in k .. 28 : Bit(y, i) = Bit(d, i - k)
  <2>1. k \in 0 .. 28 /\ d \in Nat
    OBVIOUS
  <2>2. x \in 0 .. 2^k - 1
    BY <1>2, <1>3, Zenon
  <2>3. /\ \A i \in 0 .. k - 1 : Bit(d * 2^k + x, i) = Bit(x, i)
        /\ \A i \in k .. 28 : Bit(d * 2^k + x, i) = Bit(d, i - k)
    BY <2>1, <2>2, Packed
  <2>4. y = d * 2^k + x
    BY <1>2, <1>4, Zenon
  <2> QED
    BY <2>3, <2>4, Zenon
<1>7. ASSUME NEW i \in 0 .. k PROVE Bit(y, i) = Differs(a, b, i)
  <2>1. CASE i = k
    <3>1. i \in k .. 28 /\ i - k = 0
      BY <2>1
    <3>2. Bit(y, i) = Bit(d, 0)
      BY <1>6, <3>1, Zenon
    <3>3. Bit(d, 0) = d
      BY DEF Bit
    <3> QED
      BY <1>1, <2>1, <3>2, <3>3
  <2>2. CASE i # k
    <3>1. i \in 0 .. k - 1
      BY <2>2
    <3> QED
      BY <1>6, <3>1, Zenon DEF XorPart
  <2> QED
    BY <2>1, <2>2
<1>8. Wide(y, k + 1)
  BY <1>2, <1>5, Zenon DEF Wide
<1>9. (k + 1) - 1 = k
  OBVIOUS
<1> QED
  BY <1>5, <1>7, <1>8, <1>9, Zenon DEF XorPart

LEMMA XorIs == ASSUME NEW a \in Nat, NEW b \in Nat PROVE XorPart(Xor(a, b), a, b, 8)
<1>1. PICK g : Adds(g, XorTerms(a, b), 8) /\ Xor(a, b) = g[8]
  BY XorSteps
<1> DEFINE T == {k \in 0 .. 8 : XorPart(g[k], a, b, k)}
<1>2. 0 \in T
  <2>1. g[0] = 0
    BY <1>1 DEF Adds
  <2>2. Wide(0, 0)
    BY ZeroWide
  <2> QED
    BY <2>1, <2>2 DEF XorPart
<1>3. ASSUME NEW k \in 0 .. 8 - 1, k \in T PROVE k + 1 \in T
  <2>0. k \in 0 .. 7 /\ k + 1 \in 0 .. 8
    OBVIOUS
  <2>1. g[k + 1] = g[k] + XorTerms(a, b)[k] /\ g[k] \in Nat
    BY <1>1, <1>3 DEF Adds, XorPart
  <2>2. XorTerms(a, b)[k] = Differs(a, b, k) * 2^k /\ XorTerms(a, b)[k] \in Nat
    BY <2>0, XorTermsType DEF XorTerms
  <2>3. g[k + 1] = Differs(a, b, k) * 2^k + g[k]
    <3>1. PICK x \in Nat, z \in Nat : x = g[k] /\ z = XorTerms(a, b)[k]
      BY <2>1, <2>2
    <3> QED
      BY <2>1, <2>2, <3>1
  <2>4. XorPart(g[k + 1], a, b, k + 1)
    BY <1>3, <2>0, <2>3, XorStep
  <2> QED
    BY <2>0, <2>4
<1> HIDE DEF T
<1>4. 0 .. 8 \subseteq T
  BY <1>2, <1>3, InductionTo
<1>5. 8 \in T
  BY <1>4
<1> QED
  BY <1>1, <1>5 DEF T

Byte(v) == v \in Nat /\ Wide(v, 8)

LEMMA SameNumber ==
  ASSUME NEW w \in 0 .. 28, NEW a, a \in Nat, Wide(a, w), NEW b, b \in Nat, Wide(b, w),
         \A i \in 0 .. w - 1 : Bit(a, i) = Bit(b, i)
  PROVE  a = b
<1> DEFINE s == [k \in 1 .. w |-> Bit(a, w - k)]
<1>1. ASSUME NEW k \in 1 .. w PROVE Bit(a, w - k) \in Nat /\ Bit(b, w - k) = Bit(a, w - k)
  <2>1. w - k \in 0 .. 28 /\ w - k \in 0 .. w - 1
    OBVIOUS
  <2>2. Bit(a, w - k) \in {0, 1}
    BY <2>1, BitType, Zenon
  <2> QED
    BY <2>1, <2>2
<1>2. s \in [1 .. w -> Nat] /\ \A k \in 1 .. w : s[k] = Bit(a, w - k)
  BY <1>1
<1> HIDE DEF s
<1>3. Reads(s, w, a) /\ Reads(s, w, b)
  BY <1>1, <1>2, Zenon DEF Reads, Wide
<1>4. Number(s) = a /\ Number(s) = b
  BY <1>3, NumberIs, Zenon
<1> QED
  BY <1>4

LEMMA SameBits ==
  ASSUME NEW a, Byte(a), NEW b, Byte(b), \A i \in 0 .. 7 : Bit(a, i) = Bit(b, i)
  PROVE  a = b
<1>1. 8 \in 0 .. 28 /\ 8 - 1 = 7
  OBVIOUS
<1> QED
  BY <1>1, SameNumber, Zenon DEF Byte

\* The exclusive or is a byte, and its bits are those in which the two differ.
LEMMA XorBits ==
  ASSUME NEW a \in Nat, NEW b \in Nat
  PROVE  Byte(Xor(a, b)) /\ \A i \in 0 .. 7 : Bit(Xor(a, b), i) = Differs(a, b, i)
<1>1. 8 - 1 = 7
  OBVIOUS
<1> QED
  BY <1>1, XorIs, Zenon DEF XorPart, Byte

LEMMA XorTwice ==
  ASSUME NEW a, Byte(a), NEW b, Byte(b)
  PROVE  Xor(Xor(a, b), b) = a
<1>1. PICK x : x = Xor(a, b)
  OBVIOUS
<1>2. Byte(x) /\ \A i \in 0 .. 7 : Bit(x, i) = Differs(a, b, i)
  BY <1>1, XorBits DEF Byte
<1>3. Byte(Xor(x, b)) /\ \A i \in 0 .. 7 : Bit(Xor(x, b), i) = Differs(x, b, i)
  BY <1>2, XorBits DEF Byte
<1>4. ASSUME NEW i \in 0 .. 7 PROVE Bit(Xor(x, b), i) = Bit(a, i)
  <2>1. i \in 0 .. 28
    OBVIOUS
  <2>2. PICK p \in {0, 1}, q \in {0, 1} : p = Bit(a, i) /\ q = Bit(b, i)
    BY <2>1, BitType DEF Byte
  <2>3. Bit(x, i) = (p + q) % 2
    BY <1>2, <2>2 DEF Differs
  <2>4. Bit(Xor(x, b), i) = (((p + q) % 2) + q) % 2
    BY <1>3, <2>2, <2>3 DEF Differs
  <2>5. (((p + q) % 2) + q) % 2 = p
    OBVIOUS
  <2> QED
    BY <2>2, <2>4, <2>5
<1> QED
  BY <1>1, <1>3, <1>4, SameBits

-----------------------------------------------------------------------------
(***************************************************************************)
(* The two folds of somfy.                                                 *)
(***************************************************************************)
CheckFold(s)  == FoldLeft(LAMBDA sum, b : Xor(Xor(sum, b), b \div 16), 0, s)

CheckStep(x, b)  == Xor(Xor(x, b), b \div 16)
NibbleStep(x, b) == Xor(x, Xor(b \div 16, b % 16))

IsCheck(iter, s) ==
    iter = [t \in SUBSET DOMAIN s |-> IF t = {} THEN 0 ELSE CheckStep(iter[t \ {Max(t)}], s[Max(t)])]
IsNibble(iter, s) ==
    iter = [t \in SUBSET DOMAIN s |-> IF t = {} THEN 0 ELSE NibbleStep(iter[t \ {Max(t)}], s[Max(t)])]

LEMMA CheckDef == ASSUME NEW s PROVE CheckFold(s) = (CHOOSE iter : IsCheck(iter, s))[DOMAIN s]
  BY Zenon DEF CheckFold, FoldLeft, MapThenFoldSet, IsCheck, CheckStep
LEMMA NibbleDef == ASSUME NEW s PROVE NibbleSum(s) = (CHOOSE iter : IsNibble(iter, s))[DOMAIN s]
  BY Zenon DEF NibbleSum, FoldLeft, MapThenFoldSet, IsNibble, NibbleStep

LEMMA StepTypes ==
  ASSUME NEW x \in Nat, NEW b \in Nat
  PROVE  CheckStep(x, b) \in Nat /\ NibbleStep(x, b) \in Nat
<1>1. b \div 16 \in Nat /\ b % 16 \in Nat
  OBVIOUS
<1>2. \A u, v \in Nat : Xor(u, v) \in Nat
  BY XorBits DEF Byte
<1> QED
  BY <1>1, <1>2, Zenon DEF CheckStep, NibbleStep

Checks(p, s, n)  == p[0] = 0 /\ \A k \in 0 .. n - 1 : p[k + 1] = CheckStep(p[k], s[k + 1])
Nibbled(p, s, n) == p[0] = 0 /\ \A k \in 0 .. n - 1 : p[k + 1] = NibbleStep(p[k], s[k + 1])

LEMMA CheckSteps ==
  ASSUME NEW n \in Nat, NEW s \in [1 .. n -> Nat]
  PROVE  \E p : Checks(p, s, n) /\ CheckFold(s) = p[n]
<1> DEFINE step == [q \in Nat \X Nat |-> CheckStep(q[1], q[2])]
           S == 1 .. n
<1>1. step \in [Nat \X Nat -> Nat] /\ DOMAIN s = S /\ 0 \in Nat
  BY StepTypes
<1>2. PICK f \in [SUBSET S -> Nat] : IsLeft(f, s, 0, step)
  <2> HIDE DEF step
  <2> QED
    BY <1>1, LeftExists
<1>3. IsCheck(f, s)
  <2>1. ASSUME NEW t \in SUBSET S, t # {}
        PROVE  step[<<f[t \ {Max(t)}], s[Max(t)]>>] = CheckStep(f[t \ {Max(t)}], s[Max(t)])
    <3>1. Max(t) \in S
      BY <2>1, MaxType
    <3>2. f[t \ {Max(t)}] \in Nat /\ s[Max(t)] \in Nat
      BY <3>1
    <3> QED
      BY <3>2
  <2> HIDE DEF S, step
  <2>2. [t \in SUBSET S |-> IF t = {} THEN 0 ELSE step[<<f[t \ {Max(t)}], s[Max(t)]>>]]
          = [t \in SUBSET S |-> IF t = {} THEN 0 ELSE CheckStep(f[t \ {Max(t)}], s[Max(t)])]
    BY <2>1
  <2> QED
    BY <1>1, <1>2, <2>2 DEF IsLeft, IsCheck
<1> DEFINE c == CHOOSE iter : IsCheck(iter, s)
<1>4. IsCheck(c, s)
  BY <1>3
<1> HIDE DEF c, step
<1>5. c[{}] = 0 /\ \A t \in SUBSET S : t # {} => c[t] = CheckStep(c[t \ {Max(t)}], s[Max(t)])
  <2>1. {} \in SUBSET S
    OBVIOUS
  <2> HIDE DEF S
  <2> QED
    BY <1>1, <1>4, <2>1 DEF IsCheck
<1> DEFINE p == [k \in 0 .. n |-> c[1 .. k]]
<1>6. p[0] = 0
  <2>1. 1 .. 0 = {} /\ 0 \in 0 .. n
    OBVIOUS
  <2> QED
    BY <1>5, <2>1
<1>7. ASSUME NEW k \in 0 .. n - 1 PROVE p[k + 1] = CheckStep(p[k], s[k + 1])
  <2>1. c[1 .. k + 1] = CheckStep(c[1 .. k], s[k + 1])
    <3>1. /\ 1 .. k + 1 \in SUBSET S /\ 1 .. k + 1 # {}
          /\ Max(1 .. k + 1) = k + 1 /\ (1 .. k + 1) \ {k + 1} = 1 .. k
      BY Initials, Zenon
    <3> HIDE DEF S
    <3> QED
      BY <1>5, <3>1
  <2>2. k \in 0 .. n /\ k + 1 \in 0 .. n
    OBVIOUS
  <2>3. p[k] = c[1 .. k] /\ p[k + 1] = c[1 .. k + 1]
    BY <2>2
  <2> QED
    BY <2>1, <2>3, Zenon
<1>8. p[n] = c[S] /\ CheckFold(s) = c[S]
  BY <1>1, CheckDef DEF c
<1> HIDE DEF p
<1> QED
  BY <1>6, <1>7, <1>8 DEF Checks

LEMMA NibbleSteps ==
  ASSUME NEW n \in Nat, NEW s \in [1 .. n -> Nat]
  PROVE  \E p : Nibbled(p, s, n) /\ NibbleSum(s) = p[n]
<1> DEFINE step == [q \in Nat \X Nat |-> NibbleStep(q[1], q[2])]
           S == 1 .. n
<1>1. step \in [Nat \X Nat -> Nat] /\ DOMAIN s = S /\ 0 \in Nat
  BY StepTypes
<1>2. PICK f \in [SUBSET S -> Nat] : IsLeft(f, s, 0, step)
  <2> HIDE DEF step
  <2> QED
    BY <1>1, LeftExists
<1>3. IsNibble(f, s)
  <2>1. ASSUME NEW t \in SUBSET S, t # {}
        PROVE  step[<<f[t \ {Max(t)}], s[Max(t)]>>] = NibbleStep(f[t \ {Max(t)}], s[Max(t)])
    <3>1. Max(t) \in S
      BY <2>1, MaxType
    <3>2. f[t \ {Max(t)}] \in Nat /\ s[Max(t)] \in Nat
      BY <3>1
    <3> QED
      BY <3>2
  <2> HIDE DEF S, step
  <2>2. [t \in SUBSET S |-> IF t = {} THEN 0 ELSE step[<<f[t \ {Max(t)}], s[Max(t)]>>]]
          = [t \in SUBSET S |-> IF t = {} THEN 0 ELSE NibbleStep(f[t \ {Max(t)}], s[Max(t)])]
    BY <2>1
  <2> QED
    BY <1>1, <1>2, <2>2 DEF IsLeft, IsNibble
<1> DEFINE c == CHOOSE iter : IsNibble(iter, s)
<1>4. IsNibble(c, s)
  BY <1>3
<1> HIDE DEF c, step
<1>5. c[{}] = 0 /\ \A t \in SUBSET S : t # {} => c[t] = NibbleStep(c[t \ {Max(t)}], s[Max(t)])
  <2>1. {} \in SUBSET S
    OBVIOUS
  <2> HIDE DEF S
  <2> QED
    BY <1>1, <1>4, <2>1 DEF IsNibble
<1> DEFINE p == [k \in 0 .. n |-> c[1 .. k]]
<1>6. p[0] = 0
  <2>1. 1 .. 0 = {} /\ 0 \in 0 .. n
    OBVIOUS
  <2> QED
    BY <1>5, <2>1
<1>7. ASSUME NEW k \in 0 .. n - 1 PROVE p[k + 1] = NibbleStep(p[k], s[k + 1])
  <2>1. c[1 .. k + 1] = NibbleStep(c[1 .. k], s[k + 1])
    <3>1. /\ 1 .. k + 1 \in SUBSET S /\ 1 .. k + 1 # {}
          /\ Max(1 .. k + 1) = k + 1 /\ (1 .. k + 1) \ {k + 1} = 1 .. k
      BY Initials, Zenon
    <3> HIDE DEF S
    <3> QED
      BY <1>5, <3>1
  <2>2. k \in 0 .. n /\ k + 1 \in 0 .. n
    OBVIOUS
  <2>3. p[k] = c[1 .. k] /\ p[k + 1] = c[1 .. k + 1]
    BY <2>2
  <2> QED
    BY <2>1, <2>3, Zenon
<1>8. p[n] = c[S] /\ NibbleSum(s) = c[S]
  BY <1>1, NibbleDef DEF c
<1> HIDE DEF p
<1> QED
  BY <1>6, <1>7, <1>8 DEF Nibbled

LEMMA NoBits == ASSUME NEW i \in 0 .. 28 PROVE Bit(0, i) = 0
<1>1. PICK p \in Nat : p = 2^i /\ p >= 1
  BY PowerType
<1>2. 0 \div p = 0
  <2>1. 0 \in 0 .. p - 1 /\ 0 \in Nat /\ 0 * p + 0 = 0
    BY <1>1
  <2>2. (0 * p + 0) \div p = 0
    BY <1>1, <2>1, DivideSum
  <2> QED
    BY <2>1, <2>2, Zenon
<1> QED
  BY <1>1, <1>2 DEF Bit

LEMMA HighBits ==
  ASSUME NEW w \in 0 .. 28, NEW v, Wide(v, w), NEW i \in w .. 28
  PROVE  Bit(v, i) = 0
<1>1. v \in 0 .. 2^w - 1 /\ 0 \in Nat
  BY DEF Wide
<1>2. Bit(0 * 2^w + v, i) = Bit(0, i - w)
  BY <1>1, Packed
<1>3. v \in Nat
  BY WideNat
<1>4. 0 * 2^w + v = v
  <2>1. PICK p \in Nat : p = 2^w
    BY PowerType
  <2> QED
    BY <1>3, <2>1
<1>5. i - w \in 0 .. 28
  OBVIOUS
<1> QED
  BY <1>2, <1>4, <1>5, NoBits

\* What a byte adds to either sum: the exclusive or of its halves.
Halfs(b, i) == (Bit(b, i) + Bit(b, i + 4)) % 2

LEMMA HalfBits ==
  ASSUME NEW b, Byte(b), NEW i \in 0 .. 7
  PROVE  /\ b \div 16 \in Nat /\ b % 16 \in Nat
         /\ Bit(b \div 16, i) = Bit(b, i + 4)
         /\ i \in 0 .. 3 => Bit(b % 16, i) = Bit(b, i)
         /\ i \notin 0 .. 3 => Bit(b % 16, i) = 0 /\ Bit(b, i + 4) = 0
<1>1. 2^4 = 16 /\ b \in Nat /\ Wide(b, 8) /\ 4 \in Nat /\ 4 \in 0 .. 28 /\ i \in Nat
  BY DEF Byte
<1>2. b \div 16 \in Nat /\ Bit(b \div 16, i) = Bit(b, i + 4)
  <2>1. 4 + i <= 28 /\ 4 + i = i + 4
    OBVIOUS
  <2>2. b \div 2^4 \in Nat /\ Bit(b \div 2^4, i) = Bit(b, 4 + i)
    BY <1>1, <2>1, BitShift
  <2> QED
    BY <1>1, <2>1, <2>2, Zenon
<1>3. b % 16 \in Nat /\ b % 16 \in 0 .. 2^4 - 1
  BY <1>1
<1>4. ASSUME i \in 0 .. 3 PROVE Bit(b % 16, i) = Bit(b, i)
  <2>1. i \in 0 .. 4 - 1
    BY <1>4
  <2>2. Bit(b % 2^4, i) = Bit(b, i)
    BY <1>1, <2>1, BitMask
  <2> QED
    BY <1>1, <2>2, Zenon
<1>5. ASSUME i \notin 0 .. 3 PROVE Bit(b % 16, i) = 0 /\ Bit(b, i + 4) = 0
  <2>1. i \in 4 .. 28 /\ i + 4 \in 8 .. 28 /\ 8 \in 0 .. 28
    BY <1>5
  <2>2. Wide(b % 16, 4)
    BY <1>3, Zenon DEF Wide
  <2>3. Bit(b % 16, i) = 0
    BY <1>1, <2>1, <2>2, HighBits, Zenon
  <2>4. Bit(b, i + 4) = 0
    BY <1>1, <2>1, HighBits, Zenon
  <2> QED
    BY <2>3, <2>4
<1> QED
  BY <1>2, <1>3, <1>4, <1>5

LEMMA StepBits ==
  ASSUME NEW x \in Nat, NEW b, Byte(b), NEW i \in 0 .. 7
  PROVE  /\ i \in 0 .. 3 => /\ Bit(CheckStep(x, b), i) = (Bit(x, i) + Halfs(b, i)) % 2
                            /\ Bit(NibbleStep(x, b), i) = (Bit(x, i) + Halfs(b, i)) % 2
         /\ i \notin 0 .. 3 => Bit(NibbleStep(x, b), i) = Bit(x, i)
<1>0. b \in Nat /\ i \in 0 .. 28 /\ i + 4 \in 0 .. 28
  BY DEF Byte
<1>1. PICK u \in {0, 1}, v \in {0, 1}, w \in {0, 1} : u = Bit(x, i) /\ v = Bit(b, i) /\ w = Bit(b, i + 4)
  BY <1>0, BitType
<1>2. PICK h \in Nat, l \in Nat : h = b \div 16 /\ l = b % 16
  BY HalfBits
<1>3. Bit(h, i) = w /\ (i \in 0 .. 3 => Bit(l, i) = v) /\ (i \notin 0 .. 3 => Bit(l, i) = 0 /\ w = 0)
  BY <1>1, <1>2, HalfBits
<1>4. PICK y \in Nat, z \in Nat : y = Xor(x, b) /\ z = Xor(h, l)
  BY <1>0, XorBits DEF Byte
<1>5. Bit(y, i) = (u + v) % 2 /\ Bit(z, i) = (w + Bit(l, i)) % 2
  BY <1>0, <1>1, <1>3, <1>4, XorBits DEF Differs
<1>6. CheckStep(x, b) = Xor(y, h) /\ NibbleStep(x, b) = Xor(x, z)
  BY <1>2, <1>4 DEF CheckStep, NibbleStep
<1>7. Bit(Xor(y, h), i) = (((u + v) % 2) + w) % 2 /\ Bit(Xor(x, z), i) = (u + ((w + Bit(l, i)) % 2)) % 2
  BY <1>1, <1>3, <1>5, XorBits DEF Differs
<1>8. Halfs(b, i) = (v + w) % 2
  BY <1>1 DEF Halfs
<1>9. /\ (((u + v) % 2) + w) % 2 = (u + ((v + w) % 2)) % 2
      /\ (u + ((w + v) % 2)) % 2 = (u + ((v + w) % 2)) % 2
      /\ (u + ((0 + 0) % 2)) % 2 = u
  OBVIOUS
<1> QED
  BY <1>1, <1>3, <1>6, <1>7, <1>8, <1>9

\* The bytes d, and e with the checksum c in the low half of the second.
Checked(d, e, c, x) ==
    /\ d \in [1 .. 7 -> Nat] /\ e \in [1 .. 7 -> Nat] /\ \A n \in 1 .. 7 : Byte(d[n]) /\ Byte(e[n])
    /\ x \in 0 .. 15 /\ c \in 0 .. 15 /\ d[2] = x * 16 /\ e[2] = x * 16 + c
    /\ \A n \in 1 .. 7 : n # 2 => e[n] = d[n]

LEMMA SecondHalfs ==
  ASSUME NEW d, NEW e, NEW c, NEW x, Checked(d, e, c, x), NEW i \in 0 .. 3
  PROVE  Halfs(d[2], i) = Bit(x, i) /\ Halfs(e[2], i) = (Bit(c, i) + Bit(x, i)) % 2
<1>1. x \in 0 .. 15 /\ c \in 0 .. 15 /\ d[2] = x * 16 /\ e[2] = x * 16 + c
  BY DEF Checked
<1>2. 2^4 = 16 /\ 0 \in 0 .. 2^4 - 1 /\ c \in 0 .. 2^4 - 1 /\ x \in Nat /\ 4 \in 0 .. 28
  BY <1>1
<1>3. i \in 0 .. 4 - 1 /\ i + 4 \in 4 .. 28 /\ i + 4 - 4 = i /\ i \in 0 .. 28
  OBVIOUS
<1>4. ASSUME NEW b \in 0 .. 2^4 - 1
      PROVE  Bit(x * 16 + b, i) = Bit(b, i) /\ Bit(x * 16 + b, i + 4) = Bit(x, i)
  <2>1. /\ \A j \in 0 .. 4 - 1 : Bit(x * 2^4 + b, j) = Bit(b, j)
        /\ \A j \in 4 .. 28 : Bit(x * 2^4 + b, j) = Bit(x, j - 4)
    BY <1>2, Packed
  <2>2. PICK y : y = x * 2^4 + b
    OBVIOUS
  <2>3. (\A j \in 0 .. 4 - 1 : Bit(y, j) = Bit(b, j)) /\ (\A j \in 4 .. 28 : Bit(y, j) = Bit(x, j - 4))
    BY <2>1, <2>2, Zenon
  <2>4. Bit(y, i) = Bit(b, i) /\ Bit(y, i + 4) = Bit(x, i + 4 - 4)
    BY <1>3, <2>3
  <2> QED
    BY <1>2, <1>3, <2>2, <2>4, Zenon
<1>5. d[2] = x * 16 + 0
  BY <1>1
<1>6. Bit(d[2], i) = 0 /\ Bit(d[2], i + 4) = Bit(x, i)
  BY <1>2, <1>3, <1>4, <1>5, NoBits, Zenon
<1>7. Bit(e[2], i) = Bit(c, i) /\ Bit(e[2], i + 4) = Bit(x, i)
  <2>1. Bit(x * 16 + c, i) = Bit(c, i) /\ Bit(x * 16 + c, i + 4) = Bit(x, i)
    BY <1>2, <1>4, Zenon
  <2> QED
    BY <1>1, <2>1, Zenon
<1>8. PICK u \in {0, 1} : u = Bit(x, i)
  BY <1>2, <1>3, BitType
<1> QED
  BY <1>6, <1>7, <1>8 DEF Halfs

\* After k bytes the two sums differ by the checksum, once it has been passed.
Tracks(p, q, c, k) ==
    /\ p \in Nat /\ q \in Nat
    /\ \A i \in 4 .. 7 : Bit(q, i) = 0
    /\ \A i \in 0 .. 3 : Bit(q, i) = (Bit(p, i) + IF k >= 2 THEN Bit(c, i) ELSE 0) % 2

LEMMA TracksOn ==
  ASSUME NEW d, NEW e, NEW c, NEW x, Checked(d, e, c, x), NEW k \in 0 .. 6,
         NEW p, NEW q, Tracks(p, q, c, k)
  PROVE  Tracks(CheckStep(p, d[k + 1]), NibbleStep(q, e[k + 1]), c, k + 1)
<1>1. PICK n \in 1 .. 7 : n = k + 1
  OBVIOUS
<1>2. PICK f, g : f = d[n] /\ g = e[n]
  OBVIOUS
<1>3. Byte(f) /\ Byte(g) /\ f \in Nat /\ g \in Nat /\ c \in Nat /\ x \in Nat /\ (n # 2 => g = f)
  BY <1>2 DEF Checked
<1>4. CheckStep(p, f) \in Nat /\ NibbleStep(q, g) \in Nat
  BY <1>3, StepTypes DEF Tracks
<1>5. ASSUME NEW i \in 4 .. 7 PROVE Bit(NibbleStep(q, g), i) = 0
  <2>1. i \in 0 .. 7 /\ i \notin 0 .. 3
    OBVIOUS
  <2>2. Bit(NibbleStep(q, g), i) = Bit(q, i)
    BY <1>3, <2>1, StepBits DEF Tracks
  <2> QED
    BY <2>2 DEF Tracks
<1>6. ASSUME NEW i \in 0 .. 3
      PROVE  Bit(NibbleStep(q, g), i) = (Bit(CheckStep(p, f), i) + IF n >= 2 THEN Bit(c, i) ELSE 0) % 2
  <2>1. i \in 0 .. 7 /\ i \in 0 .. 28
    OBVIOUS
  <2>2. PICK u \in {0, 1}, v \in {0, 1}, w \in {0, 1}, z \in {0, 1} :
           u = Bit(p, i) /\ v = Bit(q, i) /\ w = Bit(c, i) /\ z = Bit(x, i)
    BY <1>3, <2>1, BitType DEF Tracks
  <2>3. v = (u + IF k >= 2 THEN w ELSE 0) % 2
    BY <2>2 DEF Tracks
  <2>4. /\ Bit(CheckStep(p, f), i) = (u + Halfs(f, i)) % 2
        /\ Bit(NibbleStep(q, g), i) = (v + Halfs(g, i)) % 2
    BY <1>3, <2>1, <2>2, StepBits DEF Tracks
  <2>5. CASE n = 2
    <3>1. Halfs(f, i) = z /\ Halfs(g, i) = (w + z) % 2
      BY <1>2, <2>2, <2>5, SecondHalfs
    <3>2. v = u
      BY <1>1, <2>2, <2>3, <2>5
    <3>3. Bit(NibbleStep(q, g), i) = (u + ((w + z) % 2)) % 2 /\ Bit(CheckStep(p, f), i) = (u + z) % 2
      BY <2>4, <3>1, <3>2
    <3>4. (u + ((w + z) % 2)) % 2 = (((u + z) % 2) + w) % 2
      OBVIOUS
    <3> QED
      BY <2>2, <2>5, <3>3, <3>4
  <2>6. CASE n # 2
    <3>1. PICK h \in {0, 1} : h = Halfs(f, i) /\ h = Halfs(g, i)
      <4>1. i + 4 \in 0 .. 28
        OBVIOUS
      <4>2. PICK a \in {0, 1}, b \in {0, 1} : a = Bit(f, i) /\ b = Bit(f, i + 4)
        BY <1>3, <2>1, <4>1, BitType
      <4>3. Halfs(f, i) \in {0, 1}
        BY <4>2 DEF Halfs
      <4> QED
        BY <1>3, <2>6, <4>3
    <3>2. PICK m \in {0, 1} : m = (IF k >= 2 THEN w ELSE 0) /\ m = (IF n >= 2 THEN w ELSE 0)
      BY <1>1, <2>6
    <3>3. v = (u + m) % 2
      BY <2>3, <3>2
    <3>4. (((u + m) % 2) + h) % 2 = (((u + h) % 2) + m) % 2
      OBVIOUS
    <3> QED
      BY <2>2, <2>4, <3>1, <3>2, <3>3, <3>4
  <2> QED
    BY <2>5, <2>6
<1> QED
  BY <1>1, <1>2, <1>4, <1>5, <1>6 DEF Tracks

LEMMA ChecksumHolds ==
  ASSUME NEW d, NEW e, NEW c, NEW x, Checked(d, e, c, x), c = CheckFold(d) % 16
  PROVE  NibbleSum(e) = 0
<1>1. d \in [1 .. 7 -> Nat] /\ e \in [1 .. 7 -> Nat] /\ c \in 0 .. 15
  BY DEF Checked
<1>2. PICK p : Checks(p, d, 7) /\ CheckFold(d) = p[7]
  BY <1>1, CheckSteps
<1>3. PICK q : Nibbled(q, e, 7) /\ NibbleSum(e) = q[7]
  BY <1>1, NibbleSteps
<1> DEFINE T == {k \in 0 .. 7 : Tracks(p[k], q[k], c, k)}
<1>4. 0 \in T
  <2>1. p[0] = 0 /\ q[0] = 0
    BY <1>2, <1>3 DEF Checks, Nibbled
  <2>2. \A i \in 0 .. 7 : Bit(0, i) = 0
    BY NoBits
  <2>3. Tracks(0, 0, c, 0)
    BY <2>2 DEF Tracks
  <2> QED
    BY <2>1, <2>3
<1>5. ASSUME NEW k \in 0 .. 7 - 1, k \in T PROVE k + 1 \in T
  <2>1. k \in 0 .. 6 /\ k + 1 \in 0 .. 7
    OBVIOUS
  <2>2. p[k + 1] = CheckStep(p[k], d[k + 1]) /\ q[k + 1] = NibbleStep(q[k], e[k + 1])
    BY <1>2, <1>3 DEF Checks, Nibbled
  <2>3. Tracks(CheckStep(p[k], d[k + 1]), NibbleStep(q[k], e[k + 1]), c, k + 1)
    BY <1>5, <2>1, TracksOn
  <2> QED
    BY <2>1, <2>2, <2>3
<1> HIDE DEF T
<1>6. 0 .. 7 \subseteq T
  BY <1>4, <1>5, InductionTo
<1>7. Tracks(p[7], q[7], c, 7)
  BY <1>6 DEF T
<1>8. PICK u \in Nat, v \in Nat : u = p[7] /\ v = q[7]
  BY <1>7 DEF Tracks
<1>9. Byte(v)
  <2>1. 6 \in 0 .. 6 /\ 6 + 1 = 7 /\ 6 \in 0 .. 7
    OBVIOUS
  <2>2. v = NibbleStep(q[6], e[7])
    BY <1>3, <1>8, <2>1 DEF Nibbled
  <2>3. q[6] \in Nat /\ e[7] \in Nat
    BY <1>1, <1>6, <2>1 DEF T, Tracks
  <2>4. Xor(e[7] \div 16, e[7] % 16) \in Nat
    <3>1. e[7] \div 16 \in Nat /\ e[7] % 16 \in Nat
      BY <2>3
    <3> QED
      BY <3>1, XorBits DEF Byte
  <2> QED
    BY <2>2, <2>3, <2>4, XorBits DEF NibbleStep
<1>10. ASSUME NEW i \in 0 .. 7 PROVE Bit(v, i) = 0
  <2>1. CASE i \in 4 .. 7
    BY <1>7, <1>8, <2>1 DEF Tracks
  <2>2. CASE i \in 0 .. 3
    <3>1. i \in 0 .. 4 - 1 /\ 4 \in 0 .. 28 /\ 2^4 = 16 /\ i \in 0 .. 28
      BY <2>2
    <3>2. Bit(u % 2^4, i) = Bit(u, i)
      BY <3>1, BitMask
    <3>3. Bit(c, i) = Bit(u, i)
      BY <1>2, <1>8, <3>1, <3>2
    <3>4. PICK a \in {0, 1} : a = Bit(u, i)
      BY <3>1, BitType
    <3>5. Bit(v, i) = (Bit(u, i) + Bit(c, i)) % 2
      BY <1>7, <1>8, <2>2 DEF Tracks
    <3> QED
      BY <3>3, <3>4, <3>5
  <2> QED
    BY <2>1, <2>2
<1>11. Byte(0)
  BY DEF Byte, Wide
<1>12. \A i \in 0 .. 7 : Bit(0, i) = 0
  BY NoBits
<1> QED
  BY <1>3, <1>8, <1>9, <1>10, <1>11, <1>12, SameBits

(***************************************************************************)
(* Mixing, and taking apart again.                                         *)
(***************************************************************************)
IsMixed(f, data) == f = [n \in 1 .. Len(data) |-> IF n = 1 THEN data[1] ELSE Xor(data[n], f[n - 1])]

LEMMA MixedExists ==
  ASSUME NEW data, Len(data) = 7
  PROVE  IsMixed(Mixed(data), data)
<1> DEFINE m2 == Xor(data[2], data[1])
           m3 == Xor(data[3], m2)
           m4 == Xor(data[4], m3)
           m5 == Xor(data[5], m4)
           m6 == Xor(data[6], m5)
           m7 == Xor(data[7], m6)
           f == <<data[1], m2, m3, m4, m5, m6, m7>>
<1>1. /\ f = [n \in 1 .. 7 |-> f[n]] /\ f[1] = data[1] /\ f[2] = Xor(data[2], f[1])
      /\ f[3] = Xor(data[3], f[2]) /\ f[4] = Xor(data[4], f[3]) /\ f[5] = Xor(data[5], f[4])
      /\ f[6] = Xor(data[6], f[5]) /\ f[7] = Xor(data[7], f[6])
  OBVIOUS
<1> HIDE DEF f
<1>2. ASSUME NEW n \in 1 .. 7 PROVE f[n] = IF n = 1 THEN data[1] ELSE Xor(data[n], f[n - 1])
  BY <1>1
<1>3. IsMixed(f, data)
  BY <1>1, <1>2 DEF IsMixed
<1>4. Mixed(data) = CHOOSE g : IsMixed(g, data)
  BY Zenon DEF Mixed, IsMixed
<1> QED
  BY <1>3, <1>4

LEMMA MixedIs ==
  ASSUME NEW data, Len(data) = 7
  PROVE  /\ Mixed(data) = [n \in 1 .. 7 |-> Mixed(data)[n]] /\ Mixed(data)[1] = data[1]
         /\ \A n \in 1 .. 6 : Mixed(data)[n + 1] = Xor(data[n + 1], Mixed(data)[n])
<1>1. PICK m : m = Mixed(data)
  OBVIOUS
<1>2. m = [n \in 1 .. 7 |-> IF n = 1 THEN data[1] ELSE Xor(data[n], m[n - 1])]
  BY <1>1, MixedExists DEF IsMixed
<1>3. m = [n \in 1 .. 7 |-> m[n]] /\ m[1] = data[1]
  BY <1>2
<1>4. ASSUME NEW n \in 1 .. 6 PROVE m[n + 1] = Xor(data[n + 1], m[n])
  <2>1. n + 1 \in 1 .. 7 /\ n + 1 # 1 /\ n + 1 - 1 = n
    OBVIOUS
  <2> QED
    BY <1>2, <2>1
<1> QED
  BY <1>1, <1>3, <1>4

Telegram(s) == s \in Seq(Nat) /\ Len(s) = 7 /\ \A n \in 1 .. 7 : Byte(s[n])

LEMMA TelegramAt == ASSUME NEW s, Telegram(s) PROVE s \in [1 .. 7 -> Nat]
<1>1. PICK k \in Nat : k = 7
  OBVIOUS
<1>2. s \in Seq(Nat) /\ Len(s) = k
  BY <1>1 DEF Telegram
<1>3. s \in [1 .. k -> Nat]
  BY <1>2
<1> QED
  BY <1>1, <1>3

LEMMA FunctionSeq ==
  ASSUME NEW X, NEW k \in Nat, NEW s \in [1 .. k -> X]
  PROVE  s \in Seq(X) /\ Len(s) = k
  OBVIOUS

LEMMA FunctionTelegram ==
  ASSUME NEW s, s = [n \in 1 .. 7 |-> s[n]], \A n \in 1 .. 7 : Byte(s[n])
  PROVE  Telegram(s)
<1>1. PICK k \in Nat : k = 7
  OBVIOUS
<1>2. \A n \in 1 .. 7 : s[n] \in Nat
  BY DEF Byte
<1>3. s = [n \in 1 .. k |-> s[n]] /\ \A n \in 1 .. k : s[n] \in Nat
  BY <1>1, <1>2, Zenon
<1>4. s \in [1 .. k -> Nat]
  BY <1>3
<1>5. s \in Seq(Nat) /\ Len(s) = k
  BY <1>4, FunctionSeq, Zenon
<1> QED
  BY <1>1, <1>5 DEF Telegram

LEMMA MixedTelegram ==
  ASSUME NEW data, Telegram(data)
  PROVE  Telegram(Mixed(data))
<1>1. PICK m : m = Mixed(data)
  OBVIOUS
<1>2. Len(data) = 7
  BY DEF Telegram
<1>3. /\ m = [n \in 1 .. 7 |-> m[n]] /\ m[1] = data[1]
      /\ \A n \in 1 .. 6 : m[n + 1] = Xor(data[n + 1], m[n])
  BY <1>1, <1>2, MixedIs
<1> DEFINE T == {k \in 0 .. 6 : Byte(m[k + 1])}
<1>4. 0 \in T
  <2>1. 0 + 1 = 1 /\ 1 \in 1 .. 7
    OBVIOUS
  <2> QED
    BY <1>3, <2>1 DEF Telegram
<1>5. ASSUME NEW k \in 0 .. 6 - 1, k \in T PROVE k + 1 \in T
  <2>1. PICK n \in 1 .. 6 : n = k + 1 /\ n \in 0 .. 6 /\ n + 1 \in 1 .. 7
    OBVIOUS
  <2>2. m[n + 1] = Xor(data[n + 1], m[n]) /\ m[n] \in Nat /\ data[n + 1] \in Nat
    BY <1>3, <1>5, <2>1 DEF Telegram, Byte
  <2>3. Byte(m[n + 1])
    BY <2>2, XorBits
  <2> QED
    BY <2>1, <2>3
<1> HIDE DEF T
<1>6. 0 .. 6 \subseteq T
  BY <1>4, <1>5, InductionTo
<1>7. ASSUME NEW n \in 1 .. 7 PROVE Byte(m[n])
  <2>1. PICK k \in 0 .. 6 : n = k + 1
    <3>1. n - 1 \in 0 .. 6 /\ n = (n - 1) + 1
      OBVIOUS
    <3> QED
      BY <3>1
  <2> QED
    BY <1>6, <2>1 DEF T
<1> QED
  BY <1>1, <1>3, <1>7, FunctionTelegram

LEMMA Unmixing ==
  ASSUME NEW data, Telegram(data)
  PROVE  Unmixed(Mixed(data)) = data
<1>1. PICK m : m = Mixed(data)
  OBVIOUS
<1>2. Len(data) = 7 /\ Telegram(m)
  BY <1>1, MixedTelegram DEF Telegram
<1>3. m[1] = data[1] /\ \A n \in 1 .. 6 : m[n + 1] = Xor(data[n + 1], m[n])
  BY <1>1, <1>2, MixedIs
<1>4. ASSUME NEW n \in 1 .. 7 PROVE (IF n = 1 THEN m[1] ELSE Xor(m[n], m[n - 1])) = data[n]
  <2>1. CASE n = 1
    BY <1>3, <2>1
  <2>2. CASE n # 1
    <3>1. PICK k \in 1 .. 6 : k = n - 1 /\ n = k + 1 /\ k \in 1 .. 7
      BY <2>2
    <3>2. m[n] = Xor(data[n], m[k])
      BY <1>3, <3>1
    <3>3. Byte(data[n]) /\ Byte(m[k])
      BY <1>2, <3>1 DEF Telegram
    <3>4. Xor(Xor(data[n], m[k]), m[k]) = data[n]
      BY <3>3, XorTwice
    <3> QED
      BY <2>2, <3>1, <3>2, <3>4
  <2> QED
    BY <2>1, <2>2
<1>5. Unmixed(m) = [n \in 1 .. 7 |-> data[n]]
  BY <1>4, Zenon DEF Unmixed
<1>6. data = [n \in 1 .. 7 |-> data[n]]
  BY TelegramAt
<1> QED
  BY <1>1, <1>5, <1>6

-----------------------------------------------------------------------------
(***************************************************************************)
(* The telegram of somfy, its checksum in place.                           *)
(***************************************************************************)

\* The telegram of somfy, with a byte r of the remote code, before and after its checksum is put in.
Unsealed(c, r, d, x) ==
    <<r, x * 16, Field(c, 8, 8), Field(c, 0, 8), Field(d, 0, 8), Field(d, 8, 8), Field(d, 16, 8)>>
Seal(data) == [data EXCEPT ![2] = @ + Checksum(data)]

LEMMA SomfyDataIs ==
  ASSUME NEW c, NEW r, NEW d, NEW x
  PROVE  SomfyData(c, r, d, x) = BitsOf(Mixed(Seal(Unsealed(c, Field(r, 0, 8), d, x))))
  BY Zenon DEF SomfyData, Seal, Unsealed

SomfyGiven(c, r, d, x) ==
    /\ c \in Nat /\ Wide(c, 16) /\ r \in Nat /\ Wide(r, 8) /\ d \in Nat /\ Wide(d, 24) /\ x \in 0 .. 15

SevenBytes(s, a1, a2, a3, a4, a5, a6, a7) ==
    s[1] = a1 /\ s[2] = a2 /\ s[3] = a3 /\ s[4] = a4 /\ s[5] = a5 /\ s[6] = a6 /\ s[7] = a7

AreBytes(a1, a2, a3, a4, a5, a6, a7) ==
    Byte(a1) /\ Byte(a2) /\ Byte(a3) /\ Byte(a4) /\ Byte(a5) /\ Byte(a6) /\ Byte(a7)

LEMMA AllSeven ==
  ASSUME NEW s, s = [n \in 1 .. 7 |-> s[n]], NEW a1, NEW a2, NEW a3, NEW a4, NEW a5, NEW a6, NEW a7,
         SevenBytes(s, a1, a2, a3, a4, a5, a6, a7), AreBytes(a1, a2, a3, a4, a5, a6, a7)
  PROVE  Telegram(s)
<1>1. \A n \in 1 .. 7 : n \in {1, 2, 3, 4, 5, 6, 7}
  OBVIOUS
<1>2. \A n \in 1 .. 7 : Byte(s[n])
  BY <1>1, Zenon DEF SevenBytes, AreBytes
<1> QED
  BY <1>2, FunctionTelegram

LEMMA FieldByte == ASSUME NEW v \in Nat, NEW l, Within(l, 8) PROVE Byte(Field(v, l, 8))
  BY FieldType DEF Byte

LEMMA Sealed ==
  ASSUME NEW c, NEW r, NEW d, NEW x, SomfyGiven(c, r, d, x),
         NEW s, s = Unsealed(c, r, d, x)
  PROVE  /\ Telegram(Seal(s)) /\ NibbleSum(Seal(s)) = 0
         /\ \E k \in 0 .. 15 : SevenBytes(Seal(s), r, x * 16 + k, Field(c, 8, 8), Field(c, 0, 8),
                                          Field(d, 0, 8), Field(d, 8, 8), Field(d, 16, 8))
<1>1. c \in Nat /\ r \in Nat /\ d \in Nat /\ x \in 0 .. 15 /\ Byte(r)
  BY DEF SomfyGiven, Byte
<1>2. PICK c8, c0, d0, d8, d16 : /\ c8 = Field(c, 8, 8) /\ c0 = Field(c, 0, 8)
        /\ d0 = Field(d, 0, 8) /\ d8 = Field(d, 8, 8) /\ d16 = Field(d, 16, 8)
  OBVIOUS
<1>3. Byte(c8) /\ Byte(c0) /\ Byte(d0) /\ Byte(d8) /\ Byte(d16)
  <2>1. Within(8, 8) /\ Within(0, 8) /\ Within(16, 8)
    BY DEF Within
  <2> QED
    BY <1>1, <1>2, <2>1, FieldByte
<1>4. s = [n \in 1 .. 7 |-> s[n]] /\ SevenBytes(s, r, x * 16, c8, c0, d0, d8, d16)
  BY <1>2 DEF Unsealed, SevenBytes
<1>5. PICK k : k = CheckFold(s) % 16
  OBVIOUS
<1>6. PICK e : e = Seal(s)
  OBVIOUS
<1>7. ASSUME NEW m \in 0 .. 15 PROVE Byte(x * 16 + m)
  <2>1. x * 16 + m \in Nat /\ x * 16 + m \in 0 .. 2^8 - 1
    BY <1>1
  <2> QED
    BY <2>1, Zenon DEF Byte, Wide
<1>8. Byte(x * 16)
  <2>1. x * 16 + 0 = x * 16 /\ 0 \in 0 .. 15
    BY <1>1
  <2> QED
    BY <1>7, <2>1, Zenon
<1>9. Telegram(s)
  <2>1. AreBytes(r, x * 16, c8, c0, d0, d8, d16)
    BY <1>1, <1>3, <1>8, Zenon DEF AreBytes
  <2> QED
    BY <1>4, <2>1, AllSeven
<1>10. k \in 0 .. 15
  <2>1. PICK p : Checks(p, s, 7) /\ CheckFold(s) = p[7]
    BY <1>9, TelegramAt, CheckSteps
  <2> DEFINE T == {j \in 0 .. 7 : p[j] \in Nat}
  <2>2. 0 \in T
    BY <2>1 DEF Checks
  <2>3. ASSUME NEW j \in 0 .. 7 - 1, j \in T PROVE j + 1 \in T
    <3>1. j + 1 \in 1 .. 7 /\ j + 1 \in 0 .. 7
      OBVIOUS
    <3>2. s[j + 1] \in Nat /\ p[j] \in Nat
      BY <1>9, <2>3, <3>1 DEF Telegram, Byte
    <3>3. p[j + 1] = CheckStep(p[j], s[j + 1])
      BY <2>1 DEF Checks
    <3> QED
      BY <3>1, <3>2, <3>3, StepTypes
  <2> HIDE DEF T
  <2>4. 0 .. 7 \subseteq T
    BY <2>2, <2>3, InductionTo
  <2>5. p[7] \in Nat
    BY <2>4 DEF T
  <2> QED
    BY <1>5, <2>1, <2>5
<1>11. e = [n \in 1 .. 7 |-> e[n]] /\ SevenBytes(e, r, x * 16 + k, c8, c0, d0, d8, d16)
  <2>1. Checksum(s) = k
    BY <1>5, Zenon DEF Checksum, CheckFold
  <2>2. e = [s EXCEPT ![2] = @ + k]
    BY <1>6, <2>1 DEF Seal
  <2>3. DOMAIN s = 1 .. 7
    BY <1>4
  <2>4. e = [n \in 1 .. 7 |-> IF n = 2 THEN s[2] + k ELSE s[n]]
    BY <2>2, <2>3
  <2> QED
    BY <1>4, <2>4 DEF SevenBytes
<1>12. Telegram(e)
  <2>1. Byte(x * 16 + k)
    BY <1>7, <1>10
  <2>2. AreBytes(r, x * 16 + k, c8, c0, d0, d8, d16)
    BY <1>1, <1>3, <2>1, Zenon DEF AreBytes
  <2> QED
    BY <1>11, <2>2, AllSeven
<1>13. Checked(s, e, k, x)
  <2>1. s \in [1 .. 7 -> Nat] /\ e \in [1 .. 7 -> Nat]
    BY <1>9, <1>12, TelegramAt
  <2>2. \A n \in 1 .. 7 : Byte(s[n]) /\ Byte(e[n])
    BY <1>9, <1>12 DEF Telegram
  <2>3. s[2] = x * 16 /\ e[2] = x * 16 + k
    BY <1>4, <1>11 DEF SevenBytes
  <2>4. ASSUME NEW n \in 1 .. 7, n # 2 PROVE e[n] = s[n]
    <3>1. n \in {1, 3, 4, 5, 6, 7}
      BY <2>4
    <3> QED
      BY <1>4, <1>11, <3>1 DEF SevenBytes
  <2> QED
    BY <1>1, <1>10, <2>1, <2>2, <2>3, <2>4 DEF Checked
<1>14. NibbleSum(e) = 0
  BY <1>5, <1>13, ChecksumHolds
<1> QED
  BY <1>2, <1>6, <1>10, <1>11, <1>12, <1>14

\* The codes that a receiver puts together again.
SomfyCodes(s, c, r, d, x) ==
    /\ s[1] = r /\ s[5] + 256 * s[6] + 65536 * s[7] = d
    /\ s[2] \div 16 = x /\ s[3] * 256 + s[4] = c

LEMMA Reassembled ==
  ASSUME NEW c, NEW r, NEW d, NEW x, SomfyGiven(c, r, d, x), NEW k \in 0 .. 15,
         NEW s, SevenBytes(s, r, x * 16 + k, Field(c, 8, 8), Field(c, 0, 8),
                           Field(d, 0, 8), Field(d, 8, 8), Field(d, 16, 8))
  PROVE  SomfyCodes(s, c, r, d, x)
<1>1. c \in Nat /\ d \in Nat /\ x \in 0 .. 15 /\ c < 65536 /\ d < 16777216
  BY SMT DEF SomfyGiven, Wide
<1>2. ASSUME NEW v \in Nat
      PROVE  /\ Field(v, 0, 8) = v % 256 /\ Field(v, 8, 8) = (v \div 256) % 256
             /\ Field(v, 16, 8) = (v \div 65536) % 256
  <2>1. Field(v, 0, 8) = v % 256
    BY SMT DEF Field
  <2>2. Field(v, 8, 8) = (v \div 256) % 256
    BY SMT DEF Field
  <2>3. Field(v, 16, 8) = (v \div 65536) % 256
    BY SMT DEF Field
  <2> QED
    BY <2>1, <2>2, <2>3, SMT
<1>3. /\ Field(d, 0, 8) = d % 256 /\ Field(d, 8, 8) = (d \div 256) % 256 /\ Field(d, 16, 8) = (d \div 65536) % 256
      /\ Field(c, 0, 8) = c % 256 /\ Field(c, 8, 8) = (c \div 256) % 256
  BY <1>1, <1>2, SMT
<1>4. ((c \div 256) % 256) * 256 + (c % 256) = c
  BY <1>1, SMT
<1>5. (d % 256) + 256 * ((d \div 256) % 256) + 65536 * ((d \div 65536) % 256) = d
  BY <1>1, SMT
<1>6. (x * 16 + k) \div 16 = x
  BY <1>1
<1> QED
  BY <1>3, <1>4, <1>5, <1>6, SMT DEF SevenBytes, SomfyCodes

-----------------------------------------------------------------------------
(***************************************************************************)
(* The signal somfy makes of its bits.                                     *)
(***************************************************************************)

Flat(level, n) == [t \in 1 .. n |-> level]

LEMMA TwoSignals ==
  ASSUME NEW x \in SegmentSet, NEW y \in SegmentSet
  PROVE  /\ <<x, y>> \in Seq(SegmentSet)
         /\ Signal(<<x, y>>) = Flat(x.level, x.time) \o Flat(y.level, y.time)
<1>1. <<x>> \in Seq(SegmentSet) /\ <<y>> \in Seq(SegmentSet) /\ <<x, y>> = <<x>> \o <<y>> /\ <<x, y>> \in Seq(SegmentSet)
  BY TwoConcat
<1>2. Signal(<<x>> \o <<y>>) = Signal(<<x>>) \o Signal(<<y>>)
  BY <1>1, SignalConcat
<1>3. Signal(<<x>>) = Flat(x.level, x.time) /\ Signal(<<y>>) = Flat(y.level, y.time)
  BY OneSignal DEF Flat
<1> QED
  BY <1>1, <1>2, <1>3

LEMMA FlatType ==
  ASSUME NEW level \in {0, 1}, NEW n \in Nat
  PROVE  Flat(level, n) \in Strings /\ Len(Flat(level, n)) = n /\ \A k \in 1 .. n : Flat(level, n)[k] = level
  BY DEF Flat, Strings

\* A pulse of m and a gap of n, or the gap first.
PulseIs(s, a, m, b, n) ==
    /\ s \in Strings /\ Len(s) = m + n
    /\ (\A k \in 1 .. m : s[k] = a) /\ (\A k \in 1 .. n : s[m + k] = b)

LEMMA FlatPair ==
  ASSUME NEW a \in {0, 1}, NEW b \in {0, 1}, NEW m \in Nat, NEW n \in Nat
  PROVE  PulseIs(Flat(a, m) \o Flat(b, n), a, m, b, n)
<1>1. PICK x : x = Flat(a, m)
  OBVIOUS
<1>2. PICK y : y = Flat(b, n)
  OBVIOUS
<1>3. /\ x \in Seq({0, 1}) /\ Len(x) = m /\ (\A k \in 1 .. m : x[k] = a)
      /\ y \in Seq({0, 1}) /\ Len(y) = n /\ (\A k \in 1 .. n : y[k] = b)
  BY <1>1, <1>2, FlatType DEF Strings
<1>4. Concatenation(x \o y, x, y, {0, 1})
  BY <1>3, Concatenated
<1> QED
  BY <1>1, <1>2, <1>3, <1>4 DEF Concatenation, PulseIs, Strings

LEMMA Pulse ==
  ASSUME NEW m \in Nat, NEW n \in Nat
  PROVE  /\ <<High(m), Low(n)>> \in Seq(SegmentSet) /\ PulseIs(Signal(<<High(m), Low(n)>>), 1, m, 0, n)
         /\ <<Low(m), High(n)>> \in Seq(SegmentSet) /\ PulseIs(Signal(<<Low(m), High(n)>>), 0, m, 1, n)
<1>1. /\ High(m) \in SegmentSet /\ Low(n) \in SegmentSet /\ Low(m) \in SegmentSet /\ High(n) \in SegmentSet
      /\ High(m).level = 1 /\ High(m).time = m /\ Low(n).level = 0 /\ Low(n).time = n
      /\ Low(m).level = 0 /\ Low(m).time = m /\ High(n).level = 1 /\ High(n).time = n
  BY HighLow DEF High, Low, Segment
<1>2. <<High(m), Low(n)>> \in Seq(SegmentSet) /\ Signal(<<High(m), Low(n)>>) = Flat(1, m) \o Flat(0, n)
  BY <1>1, TwoSignals
<1>3. <<Low(m), High(n)>> \in Seq(SegmentSet) /\ Signal(<<Low(m), High(n)>>) = Flat(0, m) \o Flat(1, n)
  BY <1>1, TwoSignals
<1>4. PulseIs(Flat(1, m) \o Flat(0, n), 1, m, 0, n) /\ PulseIs(Flat(0, m) \o Flat(1, n), 0, m, 1, n)
  BY FlatPair
<1> QED
  BY <1>2, <1>3, <1>4

\* Pieces of the same length each, one after the other.
Signals(seqs, n) == [m \in 1 .. n |-> Signal(seqs[m])]

LEMMA SignalFlat ==
  ASSUME NEW n \in Nat, NEW c \in Nat, NEW seqs \in [1 .. n -> Seq(SegmentSet)],
         \A m \in 1 .. n : Len(Signal(seqs[m])) = c
  PROVE  /\ FlattenSeq(seqs) \in Seq(SegmentSet)
         /\ Consists(Signal(FlattenSeq(seqs)), Signals(seqs, n), n, c, {0, 1})
<1> DEFINE X == Seq(SegmentSet)
           Y == Seq({0, 1})
           h == [s \in X |-> Signal(s)]
           images == Signals(seqs, n)
<1>1. Monoid(X) /\ Monoid(Y)
  BY SeqMonoid
<1>2. \A s \in X : Signal(s) \in Y
  BY SignalType
<1>3. Homomorphism(h, X, Y)
  <2>1. h \in [X -> Y]
    BY <1>2
  <2>2. << >> \in X
    OBVIOUS
  <2>3. h[<< >>] = << >>
    BY <2>2, SignalEmpty
  <2>4. ASSUME NEW a \in X, NEW b \in X PROVE h[a \o b] = h[a] \o h[b]
    <3>1. a \o b \in X
      OBVIOUS
    <3>2. Signal(a \o b) = Signal(a) \o Signal(b)
      BY SignalConcat
    <3> QED
      BY <3>1, <3>2
  <2> QED
    BY <2>1, <2>3, <2>4 DEF Homomorphism
<1>4. images \in [1 .. n -> Y] /\ \A m \in 1 .. n : images[m] = h[seqs[m]] /\ Len(images[m]) = c
  BY <1>2 DEF Signals
<1>5. seqs \in Seq(X) /\ Len(seqs) = n
  <2>1. seqs \in [1 .. n -> X]
    OBVIOUS
  <2> HIDE DEF X
  <2> QED
    BY <2>1, FunctionSeq
<1> HIDE DEF h, images, X, Y
<1>6. images \in Seq(Y) /\ Len(images) = n
  BY <1>4
<1>7. FlattenSeq(images) = h[FlattenSeq(seqs)]
  BY <1>1, <1>3, <1>4, <1>5, <1>6, FlattenHomomorphism
<1>8. FlattenSeq(seqs) \in X
  BY <1>1, <1>5, FlattenType
<1>9. FlattenSeq(images) = Signal(FlattenSeq(seqs))
  BY <1>7, <1>8 DEF h
<1>10. Even(images, n, c, {0, 1})
  BY <1>4 DEF Even, Y
<1>11. Consists(FlattenSeq(images), images, n, c, {0, 1})
  BY <1>10, FlattenEven
<1> QED
  BY <1>8, <1>9, <1>11 DEF X, images

DataIs(s, bits, w) ==
    /\ s \in Strings /\ Len(s) = 2 * w
    /\ \A n \in 1 .. w : s[2 * n - 1] = bits[n] /\ s[2 * n] = 1 - bits[n]

WrittenBits(bits, w) == Numbers(bits, w) /\ \A n \in 1 .. w : bits[n] \in {0, 1}

LEMMA DataSignal ==
  ASSUME NEW w, NEW bits, WrittenBits(bits, w)
  PROVE  WriteData(bits) \in Seq(SegmentSet) /\ DataIs(Signal(WriteData(bits)), bits, w)
<1> DEFINE one  == <<High(1), Low(1)>>
           zero == <<Low(1), High(1)>>
           seqs == [n \in 1 .. w |-> IF bits[n] = 1 THEN one ELSE zero]
<1>1. w \in Nat /\ Len(bits) = w /\ \A n \in 1 .. w : bits[n] \in {0, 1}
  BY DEF WrittenBits, Numbers
<1>2. /\ one \in Seq(SegmentSet) /\ zero \in Seq(SegmentSet)
      /\ PulseIs(Signal(one), 1, 1, 0, 1) /\ PulseIs(Signal(zero), 0, 1, 1, 1)
  BY Pulse
<1>3. WriteData(bits) = FlattenSeq(seqs)
  BY <1>1 DEF WriteData
<1> HIDE DEF one, zero
<1>4. seqs \in [1 .. w -> Seq(SegmentSet)] /\ \A n \in 1 .. w : seqs[n] = IF bits[n] = 1 THEN one ELSE zero
  BY <1>2
<1> HIDE DEF seqs
<1>5. ASSUME NEW n \in 1 .. w
      PROVE  Len(Signal(seqs[n])) = 2 /\ Signal(seqs[n])[1] = bits[n] /\ Signal(seqs[n])[2] = 1 - bits[n]
  <2>1. ASSUME NEW s, NEW a, NEW b, PulseIs(s, a, 1, b, 1) PROVE Len(s) = 2 /\ s[1] = a /\ s[2] = b
    <3>1. 1 \in 1 .. 1 /\ 1 + 1 = 2
      OBVIOUS
    <3> QED
      BY <2>1, <3>1 DEF PulseIs
  <2>2. CASE bits[n] = 1
    BY <1>2, <1>4, <2>1, <2>2
  <2>3. CASE bits[n] = 0
    BY <1>2, <1>4, <2>1, <2>3
  <2> QED
    BY <1>1, <2>2, <2>3
<1>6. PICK s : s = Signal(WriteData(bits))
  OBVIOUS
<1>7. FlattenSeq(seqs) \in Seq(SegmentSet) /\ Consists(s, Signals(seqs, w), w, 2, {0, 1})
  BY <1>1, <1>3, <1>4, <1>5, <1>6, SignalFlat
<1>8. ASSUME NEW n \in 1 .. w PROVE s[2 * n - 1] = bits[n] /\ s[2 * n] = 1 - bits[n]
  <2>1. \A k \in 1 .. 2 : s[(n - 1) * 2 + k] = Signals(seqs, w)[n][k]
    BY <1>7 DEF Consists, Blocks
  <2>2. Signals(seqs, w)[n] = Signal(seqs[n])
    BY DEF Signals
  <2>3. 1 \in 1 .. 2 /\ 2 \in 1 .. 2 /\ (n - 1) * 2 + 1 = 2 * n - 1 /\ (n - 1) * 2 + 2 = 2 * n
    BY <1>1
  <2>4. s[(n - 1) * 2 + 1] = Signal(seqs[n])[1] /\ s[(n - 1) * 2 + 2] = Signal(seqs[n])[2]
    BY <2>1, <2>2, <2>3, Zenon
  <2> QED
    BY <1>5, <2>3, <2>4, Zenon
<1>9. s \in Strings /\ Len(s) = 2 * w
  BY <1>1, <1>7 DEF Consists, Strings
<1> QED
  BY <1>3, <1>6, <1>7, <1>8, <1>9 DEF DataIs

-----------------------------------------------------------------------------
\* Before the data: eight periods of High and one of Low.
StartIs(s, l) ==
    /\ l \in Nat /\ s \in Strings /\ Len(s) = l + 9
    /\ (\A k \in 1 .. 8 : s[l + k] = 1) /\ s[l + 9] = 0

LEMMA StartAfter ==
  ASSUME NEW a \in Strings, NEW m, m = Len(a), NEW s, NEW l, StartIs(s, l)
  PROVE  StartIs(a \o s, m + l)
<1>1. l \in Nat /\ s \in Seq({0, 1}) /\ Len(s) = l + 9 /\ a \in Seq({0, 1}) /\ m \in Nat
  BY DEF StartIs, Strings
<1>2. PICK t : t = a \o s
  OBVIOUS
<1>3. Concatenation(t, a, s, {0, 1})
  BY <1>1, <1>2, Concatenated
<1>4. t \in Seq({0, 1}) /\ Len(t) = m + (l + 9) /\ \A n \in 1 .. l + 9 : t[m + n] = s[n]
  BY <1>1, <1>3 DEF Concatenation
<1>5. ASSUME NEW k \in 1 .. 8 PROVE t[m + l + k] = 1
  <2>1. l + k \in 1 .. l + 9 /\ m + (l + k) = m + l + k
    BY <1>1
  <2>2. t[m + (l + k)] = s[l + k] /\ s[l + k] = 1
    BY <1>4, <2>1 DEF StartIs
  <2> QED
    BY <2>1, <2>2
<1>6. t[m + l + 9] = 0
  <2>1. l + 9 \in 1 .. l + 9 /\ m + (l + 9) = m + l + 9
    BY <1>1
  <2>2. t[m + (l + 9)] = s[l + 9] /\ s[l + 9] = 0
    BY <1>4, <2>1 DEF StartIs
  <2> QED
    BY <2>1, <2>2
<1>7. m + l \in Nat /\ Len(t) = m + l + 9
  BY <1>1, <1>4
<1> QED
  BY <1>2, <1>4, <1>5, <1>6, <1>7 DEF StartIs, Strings

LEMMA PulsesSignal ==
  ASSUME NEW n \in Nat
  PROVE  WritePulses(n) \in Seq(SegmentSet) /\ StartIs(Signal(WritePulses(n)), 8 * n)
<1> DEFINE x == <<High(4), Low(4)>>
           y == <<High(8), Low(1)>>
           seqs == [i \in 1 .. n |-> x]
<1>1. x \in Seq(SegmentSet) /\ y \in Seq(SegmentSet) /\ PulseIs(Signal(x), 1, 4, 0, 4) /\ PulseIs(Signal(y), 1, 8, 0, 1)
  BY Pulse
<1>2. WritePulses(n) = FlattenSeq(seqs) \o y
  BY DEF WritePulses, Repeat
<1> HIDE DEF x, y
<1>3. Len(Signal(x)) = 8
  BY <1>1 DEF PulseIs
<1>4. seqs \in [1 .. n -> Seq(SegmentSet)] /\ \A m \in 1 .. n : Len(Signal(seqs[m])) = 8
  BY <1>1, <1>3
<1>5. PICK f : f = FlattenSeq(seqs)
  OBVIOUS
<1> HIDE DEF seqs
<1>6. f \in Seq(SegmentSet) /\ Consists(Signal(f), Signals(seqs, n), n, 8, {0, 1})
  BY <1>4, <1>5, SignalFlat
<1>7. Signal(f) \in Strings /\ Len(Signal(f)) = 8 * n
  BY <1>6 DEF Consists, Strings
<1>8. Signal(f \o y) = Signal(f) \o Signal(y) /\ f \o y \in Seq(SegmentSet)
  BY <1>1, <1>6, SignalConcat
<1>9. StartIs(Signal(y), 0)
  <2>1. PICK s : s = Signal(y)
    OBVIOUS
  <2>2. s \in Strings /\ Len(s) = 9 /\ (\A k \in 1 .. 8 : s[k] = 1) /\ s[8 + 1] = 0
    BY <1>1, <2>1 DEF PulseIs
  <2>3. (\A k \in 1 .. 8 : s[0 + k] = 1) /\ s[0 + 9] = 0 /\ Len(s) = 0 + 9
    BY <2>2
  <2> QED
    BY <2>1, <2>2, <2>3 DEF StartIs
<1>10. StartIs(Signal(f) \o Signal(y), 8 * n + 0)
  BY <1>7, <1>9, StartAfter
<1>11. 8 * n + 0 = 8 * n
  OBVIOUS
<1> QED
  BY <1>2, <1>5, <1>8, <1>10, <1>11

LEMMA WakeUpSignal ==
  /\ <<High(16), Low(12)>> \o WritePulses(2) \in Seq(SegmentSet)
  /\ StartIs(Signal(<<High(16), Low(12)>> \o WritePulses(2)), 44)
<1>1. PICK x : x = <<High(16), Low(12)>>
  OBVIOUS
<1>2. x \in Seq(SegmentSet) /\ PulseIs(Signal(x), 1, 16, 0, 12)
  BY <1>1, Pulse
<1>3. PICK y : y = WritePulses(2)
  OBVIOUS
<1>4. y \in Seq(SegmentSet) /\ StartIs(Signal(y), 16)
  <2>1. 2 \in Nat /\ 8 * 2 = 16
    OBVIOUS
  <2> QED
    BY <1>3, <2>1, PulsesSignal
<1>5. Signal(x \o y) = Signal(x) \o Signal(y) /\ x \o y \in Seq(SegmentSet)
  BY <1>2, <1>4, SignalConcat
<1>6. Signal(x) \in Strings /\ 28 = Len(Signal(x))
  BY <1>2 DEF PulseIs
<1>7. StartIs(Signal(x) \o Signal(y), 28 + 16)
  BY <1>4, <1>6, StartAfter
<1>8. 28 + 16 = 44
  OBVIOUS
<1> QED
  BY <1>1, <1>3, <1>5, <1>7, <1>8

\* One of the ten frames: the start, the data and a gap.
PartIs(t, l, data, w) ==
    /\ l \in Nat /\ t \in Strings /\ Len(t) = l + 9 + w + 48
    /\ (\A k \in 1 .. 8 : t[l + k] = 1) /\ t[l + 9] = 0
    /\ \A k \in 1 .. w : t[l + 9 + k] = data[k]

Pieces(s, l, data, w, gap) ==
    StartIs(s, l) /\ data \in Strings /\ Len(data) = w /\ gap \in Strings /\ Len(gap) = 48

LEMMA OnePart ==
  ASSUME NEW s, NEW l, NEW data, NEW w, NEW gap, Pieces(s, l, data, w, gap)
  PROVE  PartIs((s \o data) \o gap, l, data, w)
<1>0. StartIs(s, l) /\ data \in Strings /\ Len(data) = w /\ gap \in Strings /\ Len(gap) = 48
  BY DEF Pieces
<1>1. /\ s \in Seq({0, 1}) /\ data \in Seq({0, 1}) /\ gap \in Seq({0, 1}) /\ w \in Nat
      /\ l \in Nat /\ Len(s) = l + 9
  BY <1>0 DEF StartIs, Strings
<1>2. PICK a : a = s \o data
  OBVIOUS
<1>3. PICK t : t = a \o gap
  OBVIOUS
<1>4. /\ a \in Seq({0, 1}) /\ Len(a) = (l + 9) + w /\ (\A n \in 1 .. l + 9 : a[n] = s[n])
      /\ \A n \in 1 .. w : a[l + 9 + n] = data[n]
  <2>1. Concatenation(a, s, data, {0, 1})
    BY <1>0, <1>1, <1>2, Concatenated
  <2> QED
    BY <1>0, <1>1, <2>1 DEF Concatenation
<1>5. t \in Seq({0, 1}) /\ Len(t) = ((l + 9) + w) + 48 /\ \A n \in 1 .. (l + 9) + w : t[n] = a[n]
  <2>1. Concatenation(t, a, gap, {0, 1})
    BY <1>0, <1>1, <1>3, <1>4, Concatenated
  <2> QED
    BY <1>0, <1>1, <1>4, <2>1 DEF Concatenation
<1>6. ASSUME NEW n \in 1 .. l + 9 PROVE t[n] = s[n]
  BY <1>0, <1>1, <1>4, <1>5
<1>7. \A k \in 1 .. 8 : t[l + k] = 1
  <2>1. ASSUME NEW k \in 1 .. 8 PROVE t[l + k] = 1
    <3>1. l + k \in 1 .. l + 9
      BY <1>1
    <3> QED
      BY <1>0, <1>6, <3>1 DEF StartIs
  <2> QED
    BY <2>1
<1>8. t[l + 9] = 0
  <2>1. l + 9 \in 1 .. l + 9
    BY <1>1
  <2> QED
    BY <1>0, <1>6, <2>1 DEF StartIs
<1>9. ASSUME NEW k \in 1 .. w PROVE t[l + 9 + k] = data[k]
  <2>1. l + 9 + k \in 1 .. (l + 9) + w
    BY <1>1
  <2> QED
    BY <1>4, <1>5, <2>1
<1>10. Len(t) = l + 9 + w + 48
  BY <1>1, <1>5
<1> QED
  BY <1>0, <1>1, <1>2, <1>3, <1>5, <1>7, <1>8, <1>9, <1>10 DEF PartIs, Strings

-----------------------------------------------------------------------------
(***************************************************************************)
(* The ten frames of a telegram, one after the other.                      *)
(***************************************************************************)

LEMMA HeadAndRest ==
  ASSUME NEW X, NEW n \in Nat, NEW parts \in [1 .. n + 1 -> X],
         NEW rest, rest = [m \in 1 .. n |-> parts[m + 1]]
  PROVE  rest \in Seq(X) /\ Len(rest) = n /\ parts[1] \in X /\ parts = <<parts[1]>> \o rest
<1>1. rest \in [1 .. n -> X] /\ parts[1] \in X /\ \A m \in 1 .. n : rest[m] = parts[m + 1]
  OBVIOUS
<1>2. rest \in Seq(X) /\ Len(rest) = n
  BY <1>1, FunctionSeq
<1>3. PICK p : p = <<parts[1]>>
  OBVIOUS
<1>4. p \in Seq(X) /\ Len(p) = 1 /\ p[1] = parts[1]
  BY <1>1, <1>3
<1>5. PICK t : t = p \o rest
  OBVIOUS
<1>6. Concatenation(t, p, rest, X)
  BY <1>2, <1>4, <1>5, Concatenated
<1>7. t \in Seq(X) /\ Len(t) = n + 1 /\ t[1] = parts[1] /\ \A m \in 1 .. n : t[1 + m] = parts[m + 1]
  BY <1>1, <1>2, <1>4, <1>6 DEF Concatenation
<1>8. \A k \in 1 .. n + 1 : t[k] = parts[k]
  <2>1. ASSUME NEW k \in 1 .. n + 1, k # 1 PROVE t[k] = parts[k]
    <3>1. PICK m \in 1 .. n : k = m + 1 /\ k = 1 + m
      <4>1. k - 1 \in 1 .. n /\ k = (k - 1) + 1 /\ k = 1 + (k - 1)
        BY <2>1
      <4> QED
        BY <4>1
    <3> QED
      BY <1>7, <3>1
  <2> QED
    BY <1>7, <2>1
<1>9. t = [k \in 1 .. n + 1 |-> t[k]]
  BY <1>7
<1>10. t = parts
  BY <1>8, <1>9
<1> QED
  BY <1>1, <1>2, <1>3, <1>5, <1>10

\* The data from f on, and the end of the start before it.
LaidAt(b, f, data) ==
    /\ (\A k \in 1 .. 8 : b[(f - 10) + k] = 1) /\ b[f - 1] = 0
    /\ \A k \in 1 .. 112 : b[(f - 1) + k] = data[k]

PartsAre(parts, data) ==
    /\ parts \in [1 .. 10 -> Strings]
    /\ PartIs(parts[1], 44, data, 112)
    /\ \A i \in 2 .. 10 : PartIs(parts[i], 56, data, 112)

\* t is such a frame, found in b from o on.
PartFrom(b, o, t, l, data) ==
    o \in Nat /\ PartIs(t, l, data, 112) /\ \A k \in 1 .. Len(t) : b[o + k] = t[k]

LEMMA ShiftedPart ==
  ASSUME NEW b, NEW o, NEW t, NEW l, NEW data, PartFrom(b, o, t, l, data)
  PROVE  LaidAt(b, o + l + 10, data)
<1>1. PICK f : f = o + l + 10
  OBVIOUS
<1>2. PICK u : u = Len(t)
  OBVIOUS
<1>0. o \in Nat /\ PartIs(t, l, data, 112) /\ \A k \in 1 .. Len(t) : b[o + k] = t[k]
  BY DEF PartFrom
<1>3. l \in Nat /\ u = l + 9 + 112 + 48
  BY <1>0, <1>2 DEF PartIs
<1>4. u = l + 169
  BY <1>3
<1>5. \A k \in 1 .. u : b[o + k] = t[k]
  BY <1>0, <1>2
<1>6. ASSUME NEW k \in 1 .. 8 PROVE b[(f - 10) + k] = 1
  <2>1. l + k \in 1 .. u
    BY <1>3, <1>4
  <2>2. o + (l + k) = (f - 10) + k
    BY <1>0, <1>1, <1>3
  <2>3. b[o + (l + k)] = t[l + k]
    BY <1>5, <2>1
  <2>4. t[l + k] = 1
    BY <1>0 DEF PartIs
  <2> QED
    BY <2>2, <2>3, <2>4, Zenon
<1>7. b[f - 1] = 0
  <2>1. l + 9 \in 1 .. u
    BY <1>3, <1>4
  <2>2. o + (l + 9) = f - 1
    BY <1>0, <1>1, <1>3
  <2>3. b[o + (l + 9)] = t[l + 9]
    BY <1>5, <2>1
  <2>4. t[l + 9] = 0
    BY <1>0 DEF PartIs
  <2> QED
    BY <2>2, <2>3, <2>4, Zenon
<1>8. ASSUME NEW k \in 1 .. 112 PROVE b[(f - 1) + k] = data[k]
  <2>1. l + 9 + k \in 1 .. u
    BY <1>3, <1>4
  <2>2. o + (l + 9 + k) = (f - 1) + k
    BY <1>0, <1>1, <1>3
  <2>3. b[o + (l + 9 + k)] = t[l + 9 + k]
    BY <1>5, <2>1
  <2>4. t[l + 9 + k] = data[k]
    BY <1>0 DEF PartIs
  <2> QED
    BY <2>2, <2>3, <2>4, Zenon
<1>9. LaidAt(b, f, data)
  BY <1>6, <1>7, <1>8 DEF LaidAt
<1> QED
  BY <1>1, <1>9

SomfyLength == 2238
TenTimes(b, data) ==
    b \in Strings /\ Len(b) = SomfyLength /\ \A i \in 1 .. 10 : LaidAt(b, SomfyFrom(i), data)

LEMMA TenParts ==
  ASSUME NEW data, NEW parts, PartsAre(parts, data)
  PROVE  TenTimes(FlattenSeq(parts), data)
<1>b. PICK b : b = FlattenSeq(parts)
  OBVIOUS
<1> DEFINE X == Strings
<1>0. Monoid(X) /\ Associative(X)
  BY SeqMonoid, SeqAssociative DEF Strings
<1>1. PICK n \in Nat : n = 9 /\ n + 1 = 10
  OBVIOUS
<1>2. PICK rest : rest = [m \in 1 .. n |-> parts[m + 1]]
  OBVIOUS
<1>3. parts \in [1 .. n + 1 -> X]
  BY <1>1 DEF PartsAre
<1> HIDE DEF X
<1>4. rest \in Seq(X) /\ Len(rest) = n /\ parts[1] \in X /\ parts = <<parts[1]>> \o rest
  BY <1>2, <1>3, HeadAndRest
<1>5. PICK p : p = parts[1]
  OBVIOUS
<1>6. PICK r : r = FlattenSeq(rest)
  OBVIOUS
<1>7. b = p \o r
  <2>1. <<p>> \in Seq(X)
    BY <1>4, <1>5
  <2>2. FlattenSeq(<<p>> \o rest) = FlattenSeq(<<p>>) \o FlattenSeq(rest)
    BY <1>0, <1>4, <2>1, FlattenConcat
  <2>3. FlattenSeq(<<p>>) = p
    BY <1>0, <1>4, <1>5, FlattenSingle
  <2>4. FlattenSeq(parts) = FlattenSeq(<<p>> \o rest)
    BY <1>4, <1>5
  <2> QED
    BY <1>b, <1>6, <2>2, <2>3, <2>4
<1>8. ASSUME NEW m \in 1 .. n
      PROVE  rest[m] = parts[m + 1] /\ PartIs(rest[m], 56, data, 112) /\ Len(rest[m]) = 225 /\ rest[m] \in Strings
  <2>1. m + 1 \in 2 .. 10 /\ rest[m] = parts[m + 1]
    BY <1>1, <1>2
  <2>2. PartIs(parts[m + 1], 56, data, 112)
    BY <2>1 DEF PartsAre
  <2> QED
    BY <2>1, <2>2, SMTT(20) DEF PartIs
<1>9. Consists(r, rest, n, 225, {0, 1})
  <2>1. rest \in [1 .. n -> Seq({0, 1})]
    BY <1>2, <1>8 DEF Strings
  <2>2. Even(rest, n, 225, {0, 1})
    BY <1>8, <2>1 DEF Even
  <2> QED
    BY <1>6, <2>2, FlattenEven
<1>10. r \in Seq({0, 1}) /\ Len(r) = n * 225 /\ \A m \in 1 .. n, k \in 1 .. 225 : r[(m - 1) * 225 + k] = rest[m][k]
  BY <1>9 DEF Consists, Blocks
<1>11. PartIs(p, 44, data, 112) /\ p \in Seq({0, 1}) /\ Len(p) = 213
  <2>1. PartIs(p, 44, data, 112)
    BY <1>5 DEF PartsAre
  <2>2. p \in Strings /\ Len(p) = 44 + 9 + 112 + 48
    BY <2>1 DEF PartIs
  <2>3. 44 + 9 + 112 + 48 = 213
    OBVIOUS
  <2> QED
    BY <2>1, <2>2, <2>3, Zenon DEF Strings
<1>12. Concatenation(b, p, r, {0, 1})
  BY <1>7, <1>10, <1>11, Concatenated
<1>13. PICK z : z = n * 225
  OBVIOUS
<1>14. PICK h : h = 213
  OBVIOUS
<1>15. z = 2025 /\ h + z = 2238 /\ z \in Nat /\ h \in Nat
  BY <1>1, <1>13, <1>14
<1>16. Len(p) = h /\ Len(r) = z
  BY <1>10, <1>11, <1>13, <1>14
<1>17. /\ b \in Seq({0, 1}) /\ Len(b) = h + z /\ (\A k \in 1 .. h : b[k] = p[k])
       /\ \A k \in 1 .. z : b[h + k] = r[k]
  BY <1>12, <1>16, Zenon DEF Concatenation
<1>18. LaidAt(b, 54, data)
  <2>1. ASSUME NEW k \in 1 .. Len(p) PROVE b[0 + k] = p[k]
    <3>1. k \in 1 .. h /\ 0 + k = k
      BY <1>15, <1>16
    <3> QED
      BY <1>17, <3>1, Zenon
  <2>2. 54 = 0 + 44 + 10 /\ 0 \in Nat
    OBVIOUS
  <2>3. PartFrom(b, 0, p, 44, data)
    BY <1>11, <2>1, <2>2, Zenon DEF PartFrom
  <2>4. LaidAt(b, 0 + 44 + 10, data)
    BY <2>3, ShiftedPart
  <2> QED
    BY <2>2, <2>4
<1>19. ASSUME NEW m \in 1 .. n PROVE LaidAt(b, (h + (m - 1) * 225) + 56 + 10, data)
  <2>1. PICK y : y = (m - 1) * 225
    OBVIOUS
  <2>2. y \in Nat /\ y + 225 <= z
    BY <1>1, <1>13, <2>1
  <2>3. PICK o : o = h + y
    OBVIOUS
  <2>4. o \in Nat
    BY <1>15, <2>2, <2>3
  <2>5. ASSUME NEW k \in 1 .. 225 PROVE b[o + k] = rest[m][k]
    <3>1. y + k \in 1 .. z
      BY <1>15, <2>2
    <3>2. h + (y + k) = o + k
      BY <1>15, <2>2, <2>3
    <3>3. b[h + (y + k)] = r[y + k]
      BY <1>17, <3>1, Zenon
    <3>4. r[(m - 1) * 225 + k] = rest[m][k]
      <4>1. PICK c : c = 225
        OBVIOUS
      <4>2. Blocks(r, rest, n, c) /\ k \in 1 .. c
        BY <1>9, <4>1 DEF Consists
      <4>3. r[(m - 1) * c + k] = rest[m][k]
        BY <4>2, Zenon DEF Blocks
      <4> QED
        BY <4>1, <4>3
    <3> QED
      BY <2>1, <3>2, <3>3, <3>4, Zenon
  <2>6. \A k \in 1 .. Len(rest[m]) : b[o + k] = rest[m][k]
    <3>1. Len(rest[m]) = 225
      BY <1>8
    <3> QED
      BY <2>5, <3>1, Zenon
  <2>7. PartFrom(b, o, rest[m], 56, data)
    BY <1>8, <2>4, <2>6, Zenon DEF PartFrom
  <2>8. LaidAt(b, o + 56 + 10, data)
    BY <2>7, ShiftedPart
  <2> QED
    BY <2>1, <2>3, <2>8
<1>20. ASSUME NEW i \in 1 .. 10 PROVE LaidAt(b, SomfyFrom(i), data)
  <2>1. CASE i = 1
    BY <1>18, <2>1 DEF SomfyFrom
  <2>2. CASE i # 1
    <3>1. i - 1 \in 1 .. n
      BY <1>1, <2>2
    <3>2. LaidAt(b, (h + ((i - 1) - 1) * 225) + 56 + 10, data)
      BY <1>19, <3>1
    <3>3. SomfyFrom(i) = (h + ((i - 1) - 1) * 225) + 56 + 10
      BY <1>14, <2>2 DEF SomfyFrom
    <3> QED
      BY <3>2, <3>3
  <2> QED
    BY <2>1, <2>2
<1>21. Len(b) = h + z /\ b \in Strings
  BY <1>17, Zenon DEF Strings
<1>22. h + z = 2238
  BY <1>15
<1>23. Len(b) = SomfyLength
  BY <1>21, <1>22 DEF SomfyLength
<1>24. TenTimes(b, data)
  BY <1>20, <1>21, <1>23, Zenon DEF TenTimes
<1> QED
  BY <1>b, <1>24

LEMMA GapSignal == Signal(<<Low(48)>>) \in Strings /\ Len(Signal(<<Low(48)>>)) = 48
<1>1. Low(48) \in SegmentSet /\ Low(48).time = 48 /\ Low(48).level = 0
  BY DEF Low, Segment, SegmentSet
<1>2. PICK s : s = Low(48)
  OBVIOUS
<1>3. Signal(<<s>>) = [t \in 1 .. s.time |-> s.level]
  BY <1>1, <1>2, OneSignal
<1>4. PICK n \in Nat : n = s.time /\ n = 48
  BY <1>1, <1>2
<1>5. Signal(<<s>>) \in [1 .. n -> {0, 1}]
  BY <1>1, <1>2, <1>3, <1>4
<1>6. Signal(<<s>>) \in Seq({0, 1}) /\ Len(Signal(<<s>>)) = n
  BY <1>4, <1>5, FunctionSeq
<1> QED
  BY <1>2, <1>4, <1>6 DEF Strings

\* The data of a telegram, two periods for a bit.
SignalOf(m) == Signal(WriteData(BitsOf(m)))

LEMMA TelegramBits ==
  ASSUME NEW m, Telegram(m)
  PROVE  Encodes(BitsOf(m), m, 7, 56) /\ DataIs(SignalOf(m), BitsOf(m), 56)
<1>1. m \in Seq(Nat) /\ Len(m) = 7 /\ m \in [1 .. 7 -> Nat]
  <2>1. m \in Seq(Nat) /\ Len(m) = 7
    BY Zenon DEF Telegram
  <2>2. m \in [1 .. 7 -> Nat]
    BY TelegramAt, Zenon
  <2> QED
    BY <2>1, <2>2, Zenon
<1>2. PICK n \in Nat : n = 7 /\ 8 * n = 56
  OBVIOUS
<1>3. Encodes(BitsOf(m), m, n, 8 * n)
  BY <1>1, <1>2, AllBits
<1>4. Encodes(BitsOf(m), m, 7, 56)
  BY <1>2, <1>3
<1>5. ASSUME NEW j \in 1 .. 56 PROVE BitsOf(m)[j] \in {0, 1}
  <2>1. PICK i \in 1 .. 7, k \in 1 .. 8 : j = 8 * (i - 1) + k
    <3>1. ((j - 1) \div 8) + 1 \in 1 .. 7 /\ ((j - 1) % 8) + 1 \in 1 .. 8
          /\ j = 8 * ((((j - 1) \div 8) + 1) - 1) + (((j - 1) % 8) + 1)
      OBVIOUS
    <3> QED
      BY <3>1
  <2>2. BitsOf(m)[j] = Bit(m[i], 8 - k)
    BY <1>4, <2>1 DEF Encodes
  <2>3. m[i] \in Nat
    BY <1>1, Zenon
  <2>4. 8 - k \in 0 .. 28
    OBVIOUS
  <2> QED
    BY <2>2, <2>3, <2>4, BitType, Zenon
<1>6. WrittenBits(BitsOf(m), 56)
  BY <1>4, <1>5 DEF Encodes, WrittenBits
<1> QED
  BY <1>4, <1>6, DataSignal DEF SignalOf

LEMMA SomfyBits ==
  ASSUME NEW c, NEW r, NEW d, NEW x, NEW m, SomfyData(c, r, d, x) = BitsOf(m), Telegram(m)
  PROVE  TenTimes(Somfy(r, d, x, c).bits, SignalOf(m))
<1> DEFINE data == SignalOf(m)
           start(i) == IF i = 1 THEN <<High(16), Low(12)>> \o WritePulses(2) ELSE WritePulses(7)
           gap == Signal(<<Low(48)>>)
           part(i) == Signal(start(i)) \o data \o gap
           parts == [i \in 1 .. 10 |-> part(i)]
<1>1. data \in Strings /\ Len(data) = 112
  BY TelegramBits DEF DataIs
<1>2. Somfy(r, d, x, c) = Frame(FlattenSeq(parts), 213 + (10 - 1) * 225)
  BY DEF Somfy, SOMFY_FRAME_COUNT, SignalOf
<1>3. Somfy(r, d, x, c).bits = FlattenSeq(parts)
  BY <1>2, FrameFields
<1>4. StartIs(Signal(start(1)), 44)
  BY WakeUpSignal
<1>5. ASSUME NEW i \in 2 .. 10 PROVE StartIs(Signal(start(i)), 56)
  <2>1. StartIs(Signal(WritePulses(7)), 56)
    <3>1. 7 \in Nat /\ 8 * 7 = 56
      OBVIOUS
    <3> QED
      BY <3>1, PulsesSignal
  <2>2. start(i) = WritePulses(7)
    BY <1>5
  <2> QED
    BY <2>1, <2>2
<1> HIDE DEF data, gap, start
<1>6. gap \in Strings /\ Len(gap) = 48
  BY GapSignal DEF gap
<1>7. ASSUME NEW i \in 1 .. 10, NEW l, StartIs(Signal(start(i)), l)
      PROVE  PartIs(part(i), l, data, 112)
  <2>1. PICK z : z = Signal(start(i))
    OBVIOUS
  <2>2. PartIs((z \o data) \o gap, l, data, 112)
    <3>1. Pieces(z, l, data, 112, gap)
      BY <1>1, <1>6, <1>7, <2>1 DEF Pieces
    <3> QED
      BY <3>1, OnePart
  <2>3. part(i) = (z \o data) \o gap
    BY <2>1
  <2> QED
    BY <2>2, <2>3
<1>8. PartIs(part(1), 44, data, 112)
  BY <1>4, <1>7
<1>9. \A i \in 2 .. 10 : PartIs(part(i), 56, data, 112)
  <2>1. ASSUME NEW i \in 2 .. 10 PROVE PartIs(part(i), 56, data, 112)
    <3>1. i \in 1 .. 10
      OBVIOUS
    <3> QED
      BY <1>5, <1>7, <3>1
  <2> QED
    BY <2>1
<1> HIDE DEF part
<1>10. ASSUME NEW i \in 1 .. 10 PROVE part(i) \in Strings
  <2>1. i = 1 \/ i \in 2 .. 10
    OBVIOUS
  <2> QED
    BY <1>8, <1>9, <2>1 DEF PartIs
<1>11. PartsAre(parts, data)
  BY <1>8, <1>9, <1>10 DEF PartsAre
<1> HIDE DEF parts
<1> QED
  BY <1>3, <1>11, TenParts DEF data

-----------------------------------------------------------------------------
(***************************************************************************)
(* What a somfy receiver takes from each of the ten.                       *)
(***************************************************************************)

LEMMA FromRange ==
  ASSUME NEW i \in 1 .. 10
  PROVE  SomfyFrom(i) \in Nat /\ SomfyFrom(i) >= 54 /\ SomfyFrom(i) + 159 <= SomfyLength
<1>1. CASE i = 1
  BY <1>1 DEF SomfyFrom, SomfyLength
<1>2. CASE i # 1
  BY <1>2 DEF SomfyFrom, SomfyLength
<1> QED
  BY <1>1, <1>2

Alike(s, t, n) == Numbers(s, n) /\ Numbers(t, n) /\ \A k \in 1 .. n : s[k] = t[k]

LEMMA SameSequence ==
  ASSUME NEW s, NEW t, NEW n, Alike(s, t, n)
  PROVE  s = t
<1>1. s \in Seq(Nat) /\ Len(s) = n /\ t \in Seq(Nat) /\ Len(t) = n
  BY DEF Alike, Numbers
<1>2. s = [k \in 1 .. n |-> s[k]] /\ t = [k \in 1 .. n |-> t[k]]
  BY <1>1
<1> QED
  BY <1>2 DEF Alike

OneFrame(data) == data \in Strings /\ Len(data) = 112

LEMMA FrameFound ==
  ASSUME NEW b, NEW data, TenTimes(b, data), OneFrame(data), NEW i \in 1 .. 10
  PROVE  SomfyPairs(b, i) = data
<1>1. PICK f : f = SomfyFrom(i)
  OBVIOUS
<1>2. PICK n : n = SomfyLength
  OBVIOUS
<1>3. n \in Nat /\ f \in Nat /\ f >= 54 /\ f + 159 <= n
  BY <1>1, <1>2, FromRange DEF SomfyLength
<1>4. LaidAt(b, f, data) /\ Numbers(b, n)
  <2>1. b \in Seq({0, 1}) /\ Len(b) = n
    BY <1>2 DEF TenTimes, Strings
  <2>2. b \in Seq(Nat)
    BY <2>1
  <2> QED
    BY <1>1, <1>3, <2>1, <2>2 DEF TenTimes, Numbers
<1>5. PICK w : w = 112
  OBVIOUS
<1>6. PICK s : s = SubSeq(b, f, f + 111)
  OBVIOUS
<1>7. Selects(s, b, f, w)
  <2>1. Part(f, f + 111, w, n)
    BY <1>3, <1>5 DEF Part
  <2> QED
    BY <1>4, <1>6, <2>1, SubSeqIs
<1>9. ASSUME NEW k \in 1 .. w PROVE s[k] = data[k]
  <2>1. s[k] = b[f + k - 1]
    BY <1>7 DEF Selects
  <2>2. f + k - 1 = (f - 1) + k
    BY <1>3, <1>5
  <2>3. b[(f - 1) + k] = data[k]
    BY <1>4, <1>5 DEF LaidAt
  <2> QED
    BY <2>1, <2>2, <2>3
<1>10. data \in Seq({0, 1}) /\ Len(data) = w
  BY <1>5 DEF Strings, OneFrame
<1>11. s = data
  <2>1. Numbers(s, w)
    BY <1>7 DEF Selects
  <2>2. Numbers(data, w)
    BY <1>5, <1>10 DEF Numbers
  <2>3. Alike(s, data, w)
    BY <1>9, <2>1, <2>2, Zenon DEF Alike
  <2> QED
    BY <2>3, SameSequence
<1> QED
  BY <1>1, <1>6, <1>11 DEF SomfyPairs

LEMMA BytesFound ==
  ASSUME NEW m, Telegram(m)
  PROVE  SomfyBytes(SignalOf(m)) = m
<1>1. PICK data : data = SignalOf(m)
  OBVIOUS
<1>2. PICK bits : bits = BitsOf(m)
  OBVIOUS
<1>3. Encodes(bits, m, 7, 56) /\ DataIs(data, bits, 56)
  BY <1>1, <1>2, TelegramBits
<1>4. PICK w \in Nat : w = 56
  OBVIOUS
<1>5. PICK w2 \in Nat : w2 = 112 /\ w2 = 2 * w
  BY <1>4
<1>6. Numbers(data, w2)
  <2>1. data \in Seq({0, 1}) /\ Len(data) = 2 * w
    BY <1>3, <1>4 DEF DataIs, Strings
  <2> QED
    BY <1>5, <2>1 DEF Numbers
<1>7. PICK s : s = Firsts(data)
  OBVIOUS
<1>8. Numbers(s, w) /\ \A n \in 1 .. w : s[n] = data[2 * n - 1]
  BY <1>5, <1>6, <1>7, FirstsOf
<1>9. \A n \in 1 .. w : s[n] = bits[n]
  BY <1>3, <1>4, <1>8 DEF DataIs
<1>10. s = bits
  <2>1. Numbers(bits, w)
    BY <1>3, <1>4 DEF Encodes
  <2>2. Alike(s, bits, w)
    BY <1>8, <1>9, <2>1, Zenon DEF Alike
  <2> QED
    BY <2>2, SameSequence
<1>11. ASSUME NEW n \in 1 .. 7 PROVE Value(s, 8 * n - 7, 8 * n) = m[n]
  <2>1. m[n] \in Nat /\ Wide(m[n], 8)
    BY DEF Telegram, Byte
  <2>2. PICK f : f = 8 * n - 7
    OBVIOUS
  <2>3. PICK t : t = 8 * n
    OBVIOUS
  <2>4. Place(f, t, n, 8, 0, 7, 56) /\ Span(f, t, 8, 56)
    BY <2>2, <2>3 DEF Place, Span
  <2>5. ByteHolds(m, n, 0, m[n], 8, 0, 0)
    BY <2>1, HoldsWhole
  <2>6. Encodes(s, m, 7, 56)
    BY <1>3, <1>10
  <2>7. Says(s, f, t, m[n], 0)
    BY <2>4, <2>5, <2>6, SaysByte
  <2>8. Numbers(s, 56)
    BY <2>6 DEF Encodes
  <2>9. Value(s, f, t) = m[n]
    BY <2>1, <2>4, <2>7, <2>8, ValueOf
  <2> QED
    BY <2>2, <2>3, <2>9
<1>12. m = [n \in 1 .. 7 |-> m[n]]
  BY TelegramAt
<1>13. SomfyBytes(data) = [n \in 1 .. 7 |-> m[n]]
  BY <1>7, <1>11 DEF SomfyBytes
<1> QED
  BY <1>1, <1>12, <1>13

LEMMA PulseBits == Bit(510, 0) = 0 /\ \A i \in 1 .. 8 : Bit(510, i) = 1
<1>1. Bit(510, 0) = 0 /\ Bit(510, 1) = 1 /\ Bit(510, 2) = 1 /\ Bit(510, 3) = 1 /\ Bit(510, 4) = 1
      /\ Bit(510, 5) = 1 /\ Bit(510, 6) = 1 /\ Bit(510, 7) = 1 /\ Bit(510, 8) = 1
  BY SMT DEF Bit
<1>2. \A i \in 1 .. 8 : i \in {1, 2, 3, 4, 5, 6, 7, 8}
  OBVIOUS
<1> QED
  BY <1>1, <1>2, SMT

LEMMA PulseFound ==
  ASSUME NEW b, NEW data, TenTimes(b, data), NEW i \in 1 .. 10
  PROVE  Value(b, SomfyFrom(i) - 9, SomfyFrom(i) - 1) = 510
<1>1. PICK f : f = SomfyFrom(i)
  OBVIOUS
<1>2. PICK n : n = SomfyLength
  OBVIOUS
<1>3. n \in Nat /\ f \in Nat /\ f >= 54 /\ f + 159 <= n
  BY <1>1, <1>2, FromRange DEF SomfyLength
<1>4. LaidAt(b, f, data) /\ Numbers(b, n)
  <2>1. b \in Seq({0, 1}) /\ Len(b) = n
    BY <1>2 DEF TenTimes, Strings
  <2>2. b \in Seq(Nat)
    BY <2>1
  <2> QED
    BY <1>1, <1>3, <2>1, <2>2 DEF TenTimes, Numbers
<1>5. PICK v : v = 510
  OBVIOUS
<1>6. Bit(v, 0) = 0 /\ \A j \in 1 .. 8 : Bit(v, j) = 1
  BY <1>5, PulseBits, SMT
<1>7. Wide(v, 9)
  BY <1>5, SMT DEF Wide
<1>8. ASSUME NEW j \in f - 9 .. f - 1 PROVE b[j] = Bit(v, 0 + ((f - 1) - j))
  <2>1. CASE j = f - 1
    <3>1. 0 + ((f - 1) - j) = 0
      BY <1>3, <2>1
    <3> QED
      BY <1>4, <1>6, <2>1, <3>1 DEF LaidAt
  <2>2. CASE j # f - 1
    <3>1. PICK k \in 1 .. 8 : j = (f - 10) + k
      <4>1. j - (f - 10) \in 1 .. 8 /\ j = (f - 10) + (j - (f - 10))
        BY <1>3, <2>2
      <4> QED
        BY <4>1
    <3>2. 0 + ((f - 1) - j) \in 1 .. 8
      BY <1>3, <3>1
    <3> QED
      BY <1>4, <1>6, <3>1, <3>2 DEF LaidAt
  <2> QED
    BY <2>1, <2>2
<1>9. Says(b, f - 9, f - 1, v, 0)
  BY <1>8 DEF Says
<1>10. Span(f - 9, f - 1, 9, n)
  BY <1>3 DEF Span
<1>11. Value(b, f - 9, f - 1) = v
  BY <1>4, <1>7, <1>9, <1>10, ValueOf
<1> QED
  BY <1>1, <1>5, <1>11

SomfyTold(data) ==
    Content("somfy", data[1], data[5] + 256 * data[6] + 65536 * data[7],
            data[2] \div 16, data[3] * 256 + data[4])

LEMMA SomfyHeardIs ==
  ASSUME NEW b, NEW mixed, mixed = SomfyBytes(SomfyPairs(b, 1))
  PROVE  /\ SomfyHeard(b).valid = (SomfyAgree(b, mixed) /\ NibbleSum(Unmixed(mixed)) = 0)
         /\ SomfyHeard(b).content = SomfyTold(Unmixed(mixed))
<1>1. PICK v : v = (SomfyAgree(b, mixed) /\ NibbleSum(Unmixed(mixed)) = 0)
  OBVIOUS
<1>2. PICK data : data = Unmixed(mixed)
  OBVIOUS
<1>3. SomfyHeard(b) = [valid |-> v, content |-> SomfyTold(data)]
  BY <1>1, <1>2, SMT DEF SomfyHeard, SomfyTold
<1> QED
  BY <1>1, <1>2, <1>3, HeardFields

SomfySaid(b, c, r, d, x) ==
    \E s : /\ SomfyBytes(SomfyPairs(b, 1)) = Mixed(s) /\ Telegram(s)
           /\ SomfyAgree(b, Mixed(s)) /\ NibbleSum(s) = 0
           /\ SomfyCodes(s, c, r, d, x)

LEMMA WholeField == ASSUME NEW v, Byte(v) PROVE Field(v, 0, 8) = v
<1>1. 2^8 = 256 /\ 2^0 = 1
  OBVIOUS
<1>2. v \in 0 .. 255
  BY <1>1 DEF Byte, Wide
<1>3. Field(v, 0, 8) = (v \div 1) % 256
  BY <1>1, Zenon DEF Field
<1> QED
  BY <1>2, <1>3

LEMMA SomfyHears ==
  ASSUME NEW c, NEW r, NEW d, NEW x, SomfyGiven(c, r, d, x)
  PROVE  /\ Numbers(Somfy(r, d, x, c).bits, SomfyLength)
         /\ SomfySaid(Somfy(r, d, x, c).bits, c, r, d, x)
<1>1. PICK u : u = Unsealed(c, r, d, x)
  OBVIOUS
<1>2. PICK s : s = Seal(u)
  OBVIOUS
<1>3. PICK m : m = Mixed(s)
  OBVIOUS
<1>4. Telegram(s) /\ NibbleSum(s) = 0
  BY <1>1, <1>2, Sealed
<1>5. PICK k \in 0 .. 15 : SevenBytes(s, r, x * 16 + k, Field(c, 8, 8), Field(c, 0, 8),
                                      Field(d, 0, 8), Field(d, 8, 8), Field(d, 16, 8))
  BY <1>1, <1>2, Sealed
<1>6. SomfyCodes(s, c, r, d, x)
  BY <1>5, Reassembled
<1>7. Telegram(m)
  BY <1>3, <1>4, MixedTelegram
<1>8. SomfyData(c, r, d, x) = BitsOf(m)
  <2>1. Field(r, 0, 8) = r
    BY WholeField DEF SomfyGiven, Byte
  <2> QED
    BY <1>1, <1>2, <1>3, <2>1, SomfyDataIs
<1>9. PICK b : b = Somfy(r, d, x, c).bits
  OBVIOUS
<1>10. PICK data : data = SignalOf(m)
  OBVIOUS
<1>11. TenTimes(b, data)
  BY <1>7, <1>8, <1>9, <1>10, SomfyBits
<1>12. SomfyBytes(data) = m /\ OneFrame(data) /\ DataIs(data, BitsOf(m), 56)
  <2>1. DataIs(data, BitsOf(m), 56)
    BY <1>7, <1>10, TelegramBits
  <2>2. OneFrame(data)
    BY <2>1 DEF DataIs, OneFrame
  <2>3. SomfyBytes(data) = m
    BY <1>7, <1>10, BytesFound
  <2> QED
    BY <2>1, <2>2, <2>3
<1>13. ASSUME NEW i \in 1 .. 10
       PROVE  SomfyPairs(b, i) = data /\ Value(b, SomfyFrom(i) - 9, SomfyFrom(i) - 1) = 510
  BY <1>11, <1>12, FrameFound, PulseFound
<1>14. ASSUME NEW n \in 1 .. 56 PROVE data[2 * n - 1] # data[2 * n]
  <2>1. BitsOf(m)[n] \in Nat
    <3>1. Encodes(BitsOf(m), m, 7, 56)
      BY <1>7, TelegramBits
    <3>2. PICK w : w = 56
      OBVIOUS
    <3>3. Numbers(BitsOf(m), w) /\ n \in 1 .. w
      BY <3>1, <3>2 DEF Encodes
    <3> QED
      BY <3>3 DEF Numbers
  <2>2. data[2 * n - 1] = BitsOf(m)[n] /\ data[2 * n] = 1 - BitsOf(m)[n]
    BY <1>12 DEF DataIs
  <2> QED
    BY <2>1, <2>2
<1>15. SomfyAgree(b, m)
  BY <1>12, <1>13, <1>14 DEF SomfyAgree
<1>16. SomfyBytes(SomfyPairs(b, 1)) = m
  BY <1>12, <1>13
<1>17. Numbers(b, SomfyLength)
  <2>1. b \in Seq({0, 1}) /\ Len(b) = SomfyLength
    BY <1>11 DEF TenTimes, Strings
  <2>2. SomfyLength \in Nat
    BY DEF SomfyLength
  <2> QED
    BY <2>1, <2>2 DEF Numbers
<1>18. SomfySaid(b, c, r, d, x)
  BY <1>3, <1>4, <1>6, <1>15, <1>16 DEF SomfySaid
<1> QED
  BY <1>9, <1>17, <1>18

LEMMA SomfyHeardAs ==
  ASSUME NEW b, NEW c, NEW r, NEW d, NEW x, SomfySaid(b, c, r, d, x)
  PROVE  SomfyHeard(b).valid /\ SomfyHeard(b).content = Content("somfy", r, d, x, c)
<1>1. PICK s : /\ SomfyBytes(SomfyPairs(b, 1)) = Mixed(s) /\ Telegram(s)
               /\ SomfyAgree(b, Mixed(s)) /\ NibbleSum(s) = 0
               /\ SomfyCodes(s, c, r, d, x)
  BY DEF SomfySaid
<1>2. PICK m : m = Mixed(s)
  OBVIOUS
<1>3. Unmixed(m) = s
  BY <1>1, <1>2, Unmixing
<1>4. /\ SomfyHeard(b).valid = (SomfyAgree(b, m) /\ NibbleSum(Unmixed(m)) = 0)
      /\ SomfyHeard(b).content = SomfyTold(Unmixed(m))
  BY <1>1, <1>2, SomfyHeardIs
<1>5. SomfyTold(s) = Content("somfy", r, d, x, c)
  BY <1>1, SMT DEF SomfyTold, SomfyCodes
<1> QED
  BY <1>1, <1>2, <1>3, <1>4, <1>5, Zenon

-----------------------------------------------------------------------------
(***************************************************************************)
(* Somfy carries what was meant.                                           *)
(***************************************************************************)

LEMMA CutWhole ==
  ASSUME NEW b, NEW n, Numbers(b, n), n >= 1
  PROVE  Cut(b, n) = b /\ n <= Len(b)
<1>1. PICK s : s = SubSeq(b, 1, n)
  OBVIOUS
<1>2. Part(1, n, n, n)
  BY DEF Part, Numbers
<1>3. Selects(s, b, 1, n)
  BY <1>1, <1>2, SubSeqIs
<1>4. ASSUME NEW k \in 1 .. n PROVE s[k] = b[k]
  <2>1. 1 + k - 1 = k
    OBVIOUS
  <2>2. s[k] = b[1 + k - 1]
    BY <1>3 DEF Selects
  <2> QED
    BY <2>1, <2>2
<1>5. Alike(s, b, n)
  BY <1>3, <1>4, Zenon DEF Selects, Alike
<1>6. s = b
  BY <1>5, SameSequence
<1>7. n <= Len(b)
  BY DEF Numbers
<1> QED
  BY <1>1, <1>6, <1>7 DEF Cut

LEMMA SomfyCounted ==
  ASSUME NEW r, NEW d, NEW x, NEW c
  PROVE  Somfy(r, d, x, c).bit_count = SomfyLength
<1>1. 213 + (10 - 1) * 225 = SomfyLength
  BY DEF SomfyLength
<1> QED
  BY <1>1, FrameFields DEF Somfy, SOMFY_FRAME_COUNT

LEMMA SomfyCarries ==
  ASSUME NEW given, NEW r, NEW d, NEW e, NEW x, Asked(given, "somfy", r, d, e, x),
         SomfyGiven(given.rolling_code, r, d, x)
  PROVE  CarriesWhole(FormatCmd(given), given)
<1>1. PICK c : c = given.rolling_code
  OBVIOUS
<1>2. PICK f : f = Somfy(r, d, x, c)
  OBVIOUS
<1>3. FormatCmd(given) = f
  BY <1>1, <1>2 DEF FormatCmd, Asked
<1>4. PICK n : n = SomfyLength
  OBVIOUS
<1>5. f.bit_count = n
  BY <1>2, <1>4, SomfyCounted
<1>6. Numbers(f.bits, n) /\ SomfySaid(f.bits, c, r, d, x)
  BY <1>1, <1>2, <1>4, SomfyHears
<1>7. Cut(f.bits, n) = f.bits /\ n <= Len(f.bits)
  <2>1. n >= 1
    BY <1>4 DEF SomfyLength
  <2> QED
    BY <1>6, <2>1, CutWhole
<1>8. PICK h : h = SomfyHeard(f.bits)
  OBVIOUS
<1>9. Heard("somfy", f.bits) = h
  BY <1>8 DEF Heard
<1>10. h.valid /\ h.content = Content("somfy", r, d, x, c)
  BY <1>6, <1>8, SomfyHeardAs
<1>11. Meant(given) = Content("somfy", r, d, x, c) /\ given.protocol = "somfy"
  BY <1>1, MeantIs DEF Asked
<1>12. Received(given, f, n, h)
  BY <1>5, <1>7, <1>9, <1>10, <1>11, Zenon DEF Received
<1> QED
  BY <1>3, <1>12, CarriesIs

LEMMA SomfyRight ==
  ASSUME NEW given, Possible(given, "somfy"), given.rolling_code \in Nat, Wide(given.rolling_code, 16)
  PROVE  CarriesWhole(FormatCmd(given), given)
<1>1. PICK t : t = RawCmd("somfy")
  OBVIOUS
<1>2. /\ DOMAIN t = {"OFF", "ON", "PROG", "F1"}
      /\ t["OFF"] = 4 /\ t["ON"] = 2 /\ t["PROG"] = 8 /\ t["F1"] = 1
  <2>1. RawCmd("somfy") = [OFF |-> 4, ON |-> 2, PROG |-> 8, F1 |-> 1]
    BY DEF RawCmd
  <2> QED
    BY <1>1, <2>1
<1>3. \A c, e \in DOMAIN t : t[e] = t[c] => e = c
  BY <1>2
<1>4. PICK x : x = t[given.command]
  OBVIOUS
<1>5. Asked(given, "somfy", given.remote, given.device, given.command, x)
  BY <1>1, <1>3, <1>4, AskedIs
<1>6. x \in 0 .. 15
  <2>1. x \in {1, 2, 4, 8}
    BY <1>1, <1>2, <1>4 DEF Possible
  <2> QED
    BY <2>1
<1>7. given.remote \in Nat /\ Wide(given.remote, 8)
  <2>1. protocol_drivers["somfy"].remote_code_max = 2^8 - 1
    BY DEF protocol_drivers, somfy_driver, Driver
  <2>2. PICK m : m = protocol_drivers["somfy"].remote_code_max
    OBVIOUS
  <2>3. given.remote \in 0 .. m /\ m = 2^8 - 1
    BY <2>1, <2>2 DEF Possible
  <2> QED
    BY <2>3, CodeFits
<1>8. given.device \in Nat /\ Wide(given.device, 24)
  <2>1. protocol_drivers["somfy"].device_code_max = 2^24 - 1
    BY DEF protocol_drivers, somfy_driver, Driver
  <2>2. PICK m : m = protocol_drivers["somfy"].device_code_max
    OBVIOUS
  <2>3. given.device \in 0 .. m /\ m = 2^24 - 1
    BY <2>1, <2>2 DEF Possible
  <2> QED
    BY <2>3, CodeFits
<1>9. SomfyGiven(given.rolling_code, given.remote, given.device, x)
  BY <1>6, <1>7, <1>8, Zenon DEF SomfyGiven
<1> QED
  BY <1>5, <1>9, SomfyCarries

-----------------------------------------------------------------------------
(***************************************************************************)
(* All nine protocols, and the text of their timings.                      *)
(***************************************************************************)

LEMMA BlyssRight ==
  ASSUME NEW given, Possible(given, "blyss"), given.rolling_code \in 0 .. 4
  PROVE  CarriesWhole(FormatCmd(given), given)
<1>1. PICK x : x = RawCmd("blyss")[given.command]
  OBVIOUS
<1>2. PICK d : d = BlyssDevice(given.device, given.command)
  OBVIOUS
<1>3. PICK k \in 0 .. 4 : k = given.rolling_code
  OBVIOUS
<1>4. BlyssAsked(given, given.remote, d, x, k)
  BY <1>1, <1>2, <1>3 DEF BlyssAsked, Possible
<1>5. given.remote \in Nat /\ Wide(given.remote, 20)
  <2>1. protocol_drivers["blyss"].remote_code_max = 2^20 - 1
    BY DEF protocol_drivers, blyss_driver, Driver
  <2>2. PICK m : m = protocol_drivers["blyss"].remote_code_max
    OBVIOUS
  <2>3. given.remote \in 0 .. m /\ m = 2^20 - 1
    BY <2>1, <2>2 DEF Possible
  <2> QED
    BY <2>3, CodeFits
<1>6. d \in Nat /\ Wide(d, 4)
  <2>1. protocol_drivers["blyss"].device_code_max = 2^4 - 1
    BY DEF protocol_drivers, blyss_driver, Driver
  <2>2. PICK m \in Nat : m = protocol_drivers["blyss"].device_code_max /\ m = 2^4 - 1
    BY <2>1
  <2>3. d \in 0 .. m
    <3>1. given.device \in 0 .. m
      BY <2>2 DEF Possible
    <3> QED
      BY <1>2, <3>1 DEF BlyssDevice
  <2> QED
    BY <2>2, <2>3, CodeFits
<1> QED
  BY <1>4, <1>5, <1>6, BlyssCarries

NineProtocols == {"otax", "dio", "he", "idk", "sumtech", "auchan", "auchan2", "somfy", "blyss"}

\* In pairs, which have no base time.
InPairs(c) ==
    \E fmt, start, end, bit0, bit1, count :
        fmt # "RAW" /\ c = Timing(fmt, start, end, bit0, bit1, 0, count)

LEMMA PairsAsWritten ==
  ASSUME NEW c, InPairs(c)
  PROVE  TimingsText(c) = c
  BY DEF InPairs, TimingsText, Timing

LEMMA RawAsWritten ==
  ASSUME NEW base, NEW count, NEW c, c = Timing("RAW", None, None, None, None, base, count)
  PROVE  TimingsText(c) = c
<1>1. c.bit_fmt = "RAW" /\ c.base_time = base /\ c.frame_count = count
  BY DEF Timing
<1> QED
  BY <1>1, Zenon DEF TimingsText

LEMMA OwnTimings ==
  ASSUME NEW p \in NineProtocols
  PROVE  TimingsText(protocol_drivers[p].timings) = protocol_drivers[p].timings
<1>1. CASE p \in {"otax", "dio", "he", "idk", "auchan"}
  <2>1. InPairs(protocol_drivers[p].timings)
    <3>1. "HL" # "RAW"
      OBVIOUS
    <3>2. \E start, end, bit0, bit1, count :
              protocol_drivers[p].timings = Timing("HL", start, end, bit0, bit1, 0, count)
      BY <1>1 DEF protocol_drivers, Driver, otax_driver, dio_driver, he_driver, idk_driver, auchan_driver
    <3> QED
      BY <3>1, <3>2, Zenon DEF InPairs
  <2> QED
    BY <2>1, PairsAsWritten
<1>2. CASE p \in {"sumtech", "auchan2", "blyss"}
  <2>1. InPairs(protocol_drivers[p].timings)
    <3>1. "LH" # "RAW"
      OBVIOUS
    <3>2. \E start, end, bit0, bit1, count :
              protocol_drivers[p].timings = Timing("LH", start, end, bit0, bit1, 0, count)
      BY <1>2 DEF protocol_drivers, Driver, sumtech_driver, auchan2_driver, blyss_driver
    <3> QED
      BY <3>1, <3>2, Zenon DEF InPairs
  <2> QED
    BY <2>1, PairsAsWritten
<1>3. CASE p = "somfy"
  <2>1. protocol_drivers[p].timings = Timing("RAW", None, None, None, None, 625, 1)
    BY <1>3 DEF protocol_drivers, somfy_driver, Driver
  <2> QED
    BY <2>1, RawAsWritten
<1> QED
  BY <1>1, <1>2, <1>3 DEF NineProtocols

\* A command whose codes its format has room for.
HasRoom(given) ==
    /\ given.protocol \in NineProtocols
    /\ given.remote \in 0 .. protocol_drivers[given.protocol].remote_code_max
    /\ given.device \in 0 .. protocol_drivers[given.protocol].device_code_max
    /\ given.protocol = "somfy" => given.rolling_code \in Nat /\ Wide(given.rolling_code, 16)
    /\ given.protocol = "blyss" => given.rolling_code \in 0 .. 4

LEMMA OneIsRight ==
  ASSUME NEW given, HasRoom(given), FormatCmd(given).bit_count >= 0
  PROVE  CarriesWhole(FormatCmd(given), given)
<1>1. given.command \in DOMAIN RawCmd(given.protocol)
  <2>1. ~ (-1 >= 0)
    OBVIOUS
  <2>2. given.command \notin DOMAIN RawCmd(given.protocol) => FormatCmd(given) = Refused
    BY Zenon DEF FormatCmd
  <2>3. Refused.bit_count = -1
    BY FrameFields DEF Refused
  <2> QED
    BY <2>1, <2>2, <2>3
<1>2. Possible(given, given.protocol)
  BY <1>1 DEF HasRoom, Possible
<1>3. CASE given.protocol = "otax"
  BY <1>2, <1>3, OtaxRight
<1>4. CASE given.protocol = "dio"
  BY <1>2, <1>4, DioRight
<1>5. CASE given.protocol = "he"
  BY <1>2, <1>5, HomeEasyRight
<1>6. CASE given.protocol = "idk"
  BY <1>2, <1>6, IdkRight
<1>7. CASE given.protocol = "sumtech"
  BY <1>2, <1>7, SumtechRight
<1>8. CASE given.protocol = "auchan"
  BY <1>2, <1>8, AuchanRight
<1>9. CASE given.protocol = "auchan2"
  BY <1>2, <1>9, Auchan2Right
<1>10. CASE given.protocol = "somfy"
  BY <1>2, <1>10, SomfyRight DEF HasRoom
<1>11. CASE given.protocol = "blyss"
  BY <1>2, <1>11, BlyssRight DEF HasRoom
<1> QED
  BY <1>3, <1>4, <1>5, <1>6, <1>7, <1>8, <1>9, <1>10, <1>11 DEF HasRoom, NineProtocols

-----------------------------------------------------------------------------
(***************************************************************************)
(* Codes a format has no room for.  An encoder reads the low bits of a     *)
(* code only: the frame of a command is the frame of what is carried of    *)
(* it, whatever the numbers.                                               *)
(***************************************************************************)

LEMMA LowPart ==
  ASSUME NEW v \in Nat, NEW w \in 0 .. 28
  PROVE  v % 2^w \in Nat /\ Wide(v % 2^w, w)
<1>1. PICK n \in Nat : n = 2^w /\ n >= 1
  BY PowerType
<1>2. v % n \in 0 .. n - 1 /\ v % n \in Nat
  BY <1>1
<1> QED
  BY <1>1, <1>2, Zenon DEF Wide

\* u is the low w bits of v.
LowOf(u, v, w) == v \in Nat /\ u = v % 2^w

\* A field of the low w bits.
Inside(l, k, w) == l \in Nat /\ k \in Nat /\ w \in 0 .. 28 /\ l + k <= w

LEMMA FieldReduced ==
  ASSUME NEW u, NEW v, NEW w, LowOf(u, v, w), NEW l, NEW k, Inside(l, k, w)
  PROVE  Field(u, l, k) = Field(v, l, k)
<1>1. w \in 0 .. 28 /\ l \in Nat /\ k \in Nat /\ k \in 0 .. 28 /\ l + k <= w /\ l + k <= 28 /\ Within(l, k)
  BY DEF Inside, Within
<1>2. u \in Nat /\ v \in Nat /\ u = v % 2^w
  BY <1>1, LowPart DEF LowOf
<1>3. /\ Wide(Field(u, l, k), k) /\ Field(u, l, k) \in Nat
      /\ Wide(Field(v, l, k), k) /\ Field(v, l, k) \in Nat
  BY <1>1, <1>2, FieldType
<1>4. \A n \in 0 .. k - 1 : Bit(Field(u, l, k), n) = Bit(u, l + n)
  BY <1>1, <1>2, FieldFacts, Zenon
<1>5. \A n \in 0 .. k - 1 : Bit(Field(v, l, k), n) = Bit(v, l + n)
  BY <1>1, <1>2, FieldFacts, Zenon
<1>6. ASSUME NEW i \in 0 .. k - 1 PROVE Bit(Field(u, l, k), i) = Bit(Field(v, l, k), i)
  <2>1. l + i \in 0 .. w - 1 /\ k \in Nat
    BY <1>1
  <2>2. Bit(u, l + i) = Bit(v, l + i)
    BY <1>1, <1>2, <2>1, BitMask, Zenon
  <2>3. Bit(Field(u, l, k), i) = Bit(u, l + i) /\ Bit(Field(v, l, k), i) = Bit(v, l + i)
    BY <1>4, <1>5
  <2> QED
    BY <2>2, <2>3
<1>7. Field(u, l, k) = Field(v, l, k)
  BY <1>1, <1>3, <1>6, SameNumber
<1> QED
  BY <1>7

LEMMA BitReduced ==
  ASSUME NEW v \in Nat, NEW w \in 0 .. 28, NEW i \in 0 .. w - 1
  PROVE  Bit(v % 2^w, i) = Bit(v, i)
  BY BitMask

\* Of what is spread from more bits than are kept, as much as is kept is the same.
LEMMA SpreadLow ==
  ASSUME NEW v \in Nat, NEW w \in 0 .. 8, NEW k \in 0 .. w, NEW zero \in 0 .. 3, NEW one \in 0 .. 3
  PROVE  Spread(v % 2^k, w, zero, one) % 2^(2 * k) = Spread(v, w, zero, one) % 2^(2 * k)
<1>1. k \in 0 .. 28 /\ w \in 0 .. 8
  OBVIOUS
<1>2. PICK u \in Nat : u = v % 2^k
  BY <1>1, LowPart
<1>3. PICK s, t : s = Spread(u, w, zero, one) /\ t = Spread(v, w, zero, one)
  OBVIOUS
<1>4. Spreads(s, u, w, zero, one) /\ Spreads(t, v, w, zero, one)
  BY <1>3, SpreadIs
<1>5. s \in Nat /\ t \in Nat
  BY <1>4 DEF Spreads
<1>6. PICK m \in 0 .. 28 : m = 2 * k
  OBVIOUS
<1>7. /\ s % 2^m \in Nat /\ Wide(s % 2^m, m)
      /\ t % 2^m \in Nat /\ Wide(t % 2^m, m)
  BY <1>5, LowPart
<1>8. ASSUME NEW j \in 0 .. m - 1 PROVE Bit(s % 2^m, j) = Bit(t % 2^m, j)
  <2>1. PICK i \in 0 .. k - 1 : j = 2 * i \/ j = 2 * i + 1
    <3>1. j \div 2 \in 0 .. k - 1 /\ (j = 2 * (j \div 2) \/ j = 2 * (j \div 2) + 1)
      BY <1>6
    <3> QED
      BY <3>1
  <2>2. Bit(u, i) = Bit(v, i)
    BY <1>1, <1>2, BitReduced
  <2>3. Digit(u, zero, one, i) = Digit(v, zero, one, i)
    BY <2>2 DEF Digit
  <2>4. i \in 0 .. w - 1
    OBVIOUS
  <2>5. Bit(s, j) = Bit(t, j)
    BY <1>4, <2>1, <2>3, <2>4, Zenon DEF Spreads
  <2>6. Bit(s % 2^m, j) = Bit(s, j) /\ Bit(t % 2^m, j) = Bit(t, j)
    BY <1>5, BitReduced
  <2> QED
    BY <2>5, <2>6
<1>9. s % 2^m = t % 2^m
  BY <1>7, <1>8, SameNumber
<1> QED
  BY <1>2, <1>3, <1>6, <1>9

LEMMA SpreadReduced ==
  ASSUME NEW v \in Nat, NEW w \in 0 .. 8, NEW zero \in 0 .. 3, NEW one \in 0 .. 3
  PROVE  Spread(v % 2^w, w, zero, one) = Spread(v, w, zero, one)
<1>1. w \in 0 .. w /\ w \in 0 .. 28
  OBVIOUS
<1>2. PICK u \in Nat : u = v % 2^w
  BY <1>1, LowPart
<1>3. PICK s, t : s = Spread(u, w, zero, one) /\ t = Spread(v, w, zero, one)
  OBVIOUS
<1>4. /\ Wide(s, 2 * w) /\ s \in Nat
       /\ Wide(t, 2 * w) /\ t \in Nat
  <2>1. Spreads(s, u, w, zero, one) /\ Spreads(t, v, w, zero, one)
    BY <1>3, SpreadIs
  <2> QED
    BY <2>1 DEF Spreads
<1>5. PICK n \in Nat : n = 2^(2 * w) /\ n >= 1
  <2>1. 2 * w \in 0 .. 28
    OBVIOUS
  <2> QED
    BY <2>1, PowerType
<1>6. s \in 0 .. n - 1 /\ t \in 0 .. n - 1
  BY <1>4, <1>5, Zenon DEF Wide
<1>7. s % n = s /\ t % n = t
  BY <1>5, <1>6
<1>8. s % n = t % n
  <2>1. Spread(v % 2^w, w, zero, one) % 2^(2 * w) = Spread(v, w, zero, one) % 2^(2 * w)
    BY <1>1, SpreadLow
  <2> QED
    BY <1>2, <1>3, <1>5, <2>1, Zenon
<1> QED
  BY <1>2, <1>3, <1>7, <1>8

-----------------------------------------------------------------------------
LEMMA OtaxReduced ==
  ASSUME NEW r \in Nat, NEW d \in Nat, NEW x
  PROVE  Otax(r % 2^5, d % 2^5, x) = Otax(r, d, x)
<1>1. 5 \in 0 .. 8 /\ 0 \in 0 .. 3 /\ 1 \in 0 .. 3 /\ 3 \in 0 .. 3
  OBVIOUS
<1>2. PICK u, v : u = r % 2^5 /\ v = d % 2^5
  OBVIOUS
<1>3. Spread(u, 5, 1, 3) = Spread(r, 5, 1, 3) /\ Spread(v, 5, 1, 0) = Spread(d, 5, 1, 0)
  BY <1>1, <1>2, SpreadReduced, Zenon
<1>4. Otax(u, v, x) = Otax(r, d, x)
  BY <1>3, Zenon DEF Otax
<1> QED
  BY <1>2, <1>4

LEMMA DioReduced ==
  ASSUME NEW r \in Nat, NEW d \in Nat, NEW x
  PROVE  Dio(r % 2^26, d % 2^4, x) = Dio(r, d, x)
<1>1. Inside(18, 8, 26) /\ Inside(10, 8, 26) /\ Inside(2, 8, 26) /\ Inside(0, 2, 26) /\ Inside(0, 4, 4)
  BY DEF Inside
<1>2. PICK u, v : LowOf(u, r, 26) /\ LowOf(v, d, 4)
  BY DEF LowOf
<1>3. /\ \A l, k : Inside(l, k, 26) => Field(u, l, k) = Field(r, l, k)
      /\ \A l, k : Inside(l, k, 4) => Field(v, l, k) = Field(d, l, k)
  BY <1>2, FieldReduced
<1>4. /\ Field(u, 18, 8) = Field(r, 18, 8) /\ Field(u, 10, 8) = Field(r, 10, 8)
      /\ Field(u, 2, 8) = Field(r, 2, 8) /\ Field(u, 0, 2) = Field(r, 0, 2)
      /\ Field(v, 0, 4) = Field(d, 0, 4)
  BY <1>1, <1>3, Zenon
<1>5. Dio(u, v, x) = Dio(r, d, x)
  BY <1>4, DioIs, Zenon
<1> QED
  BY <1>2, <1>5 DEF LowOf

LEMMA HomeEasyReduced ==
  ASSUME NEW d \in Nat, NEW x
  PROVE  HomeEasy(d % 2^16, x) = HomeEasy(d, x)
<1>1. Inside(8, 8, 16) /\ Inside(0, 8, 16)
  BY DEF Inside
<1>2. PICK v : LowOf(v, d, 16)
  BY DEF LowOf
<1>3. \A l, k : Inside(l, k, 16) => Field(v, l, k) = Field(d, l, k)
  BY <1>2, FieldReduced
<1>4. Field(v, 8, 8) = Field(d, 8, 8) /\ Field(v, 0, 8) = Field(d, 0, 8)
  BY <1>1, <1>3, Zenon
<1>5. HeBuf(v, x) = HeBuf(d, x)
  BY <1>4, Zenon DEF HeBuf
<1>6. HeNibbles(v, x) = HeNibbles(d, x)
  BY <1>5, Zenon DEF HeNibbles
<1>7. HomeEasy(v, x) = HomeEasy(d, x)
  BY <1>6, HomeEasyIs, Zenon
<1> QED
  BY <1>2, <1>7 DEF LowOf

LEMMA IdkReduced ==
  ASSUME NEW d \in Nat
  PROVE  Idk(d % 2^4) = Idk(d)
<1>1. 2 * 4 = 8 /\ 2^8 = 256
  OBVIOUS
<1>2. PICK v : v = d % 2^4
  OBVIOUS
<1>3. Spread(v, 8, 1, 3) % 256 = Spread(d, 8, 1, 3) % 256
  <2>1. Spread(d % 2^4, 8, 1, 3) % 2^(2 * 4) = Spread(d, 8, 1, 3) % 2^(2 * 4)
    <3>1. 8 \in 0 .. 8 /\ 4 \in 0 .. 8 /\ 1 \in 0 .. 3 /\ 3 \in 0 .. 3
      OBVIOUS
    <3> QED
      BY <3>1, SpreadLow
  <2> QED
    BY <1>1, <1>2, <2>1, Zenon
<1>4. Idk(v) = Idk(d)
  BY <1>3, Zenon DEF Idk
<1> QED
  BY <1>2, <1>4

LEMMA SumtechReduced ==
  ASSUME NEW r \in Nat, NEW d \in Nat, NEW x
  PROVE  Sumtech(r % 2^24, d % 2^7, x) = Sumtech(r, d, x)
<1>1. Inside(16, 8, 24) /\ Inside(8, 8, 24) /\ Inside(0, 8, 24) /\ Inside(0, 7, 7)
  BY DEF Inside
<1>2. PICK u, v : LowOf(u, r, 24) /\ LowOf(v, d, 7)
  BY DEF LowOf
<1>3. /\ \A l, k : Inside(l, k, 24) => Field(u, l, k) = Field(r, l, k)
      /\ \A l, k : Inside(l, k, 7) => Field(v, l, k) = Field(d, l, k)
  BY <1>2, FieldReduced
<1>4. /\ Field(u, 16, 8) = Field(r, 16, 8) /\ Field(u, 8, 8) = Field(r, 8, 8)
      /\ Field(u, 0, 8) = Field(r, 0, 8) /\ Field(v, 0, 7) = Field(d, 0, 7)
  BY <1>1, <1>3, Zenon
<1>5. Sumtech(u, v, x) = Sumtech(r, d, x)
  BY <1>4, Zenon DEF Sumtech
<1> QED
  BY <1>2, <1>5 DEF LowOf

LEMMA AuchanReduced ==
  ASSUME NEW r \in Nat, NEW d \in Nat, NEW x
  PROVE  Auchan(r % 2^20, d % 2^3, x) = Auchan(r, d, x)
<1>1. Inside(12, 8, 20) /\ Inside(4, 8, 20) /\ Inside(0, 4, 20) /\ Inside(0, 3, 3)
  BY DEF Inside
<1>2. PICK u, v : LowOf(u, r, 20) /\ LowOf(v, d, 3)
  BY DEF LowOf
<1>3. /\ \A l, k : Inside(l, k, 20) => Field(u, l, k) = Field(r, l, k)
      /\ \A l, k : Inside(l, k, 3) => Field(v, l, k) = Field(d, l, k)
  BY <1>2, FieldReduced
<1>4. /\ Field(u, 12, 8) = Field(r, 12, 8) /\ Field(u, 4, 8) = Field(r, 4, 8)
      /\ Field(u, 0, 4) = Field(r, 0, 4) /\ Field(v, 0, 3) = Field(d, 0, 3)
  BY <1>1, <1>3, Zenon
<1>5. Auchan(u, v, x) = Auchan(r, d, x)
  BY <1>4, Zenon DEF Auchan
<1> QED
  BY <1>2, <1>5 DEF LowOf

LEMMA Auchan2Reduced ==
  ASSUME NEW r \in Nat, NEW d \in Nat, NEW x
  PROVE  Auchan2(r % 2^13, d % 2^2, x) = Auchan2(r, d, x)
<1>1. Inside(5, 8, 13) /\ Inside(0, 5, 13)
  BY DEF Inside
<1>2. 2 \in 0 .. 28 /\ 0 \in 0 .. 2 - 1 /\ 1 \in 0 .. 2 - 1
  OBVIOUS
<1>3. PICK u, v : LowOf(u, r, 13) /\ LowOf(v, d, 2)
  BY DEF LowOf
<1>4. \A l, k : Inside(l, k, 13) => Field(u, l, k) = Field(r, l, k)
  BY <1>3, FieldReduced
<1>5. Field(u, 5, 8) = Field(r, 5, 8) /\ Field(u, 0, 5) = Field(r, 0, 5)
  BY <1>1, <1>4, Zenon
<1>6. Bit(v, 0) = Bit(d, 0) /\ Bit(v, 1) = Bit(d, 1)
  BY <1>2, <1>3, BitReduced DEF LowOf
<1>7. A2Data(u, v, x) = A2Data(r, d, x)
  BY <1>5, <1>6, Zenon DEF A2Data
<1>8. Auchan2(u, v, x) = Auchan2(r, d, x)
  BY <1>7, A2Frame, Zenon
<1> QED
  BY <1>3, <1>8 DEF LowOf

\* The ten frames of somfy, which all have the same data.
SomfyFrame(bits) ==
    LET data     == Signal(WriteData(bits))
        start(i) == IF i = 1 THEN <<High(16), Low(12)>> \o WritePulses(2) ELSE WritePulses(7)
    IN  Frame(FlattenSeq([i \in 1 .. SOMFY_FRAME_COUNT |->
                             Signal(start(i)) \o data \o Signal(<<Low(48)>>)]),
              213 + (SOMFY_FRAME_COUNT - 1) * 225)

LEMMA SomfyIs ==
  ASSUME NEW r, NEW d, NEW x, NEW c
  PROVE  Somfy(r, d, x, c) = SomfyFrame(SomfyData(c, r, d, x))
  BY Zenon DEF Somfy, SomfyFrame

LEMMA SomfyReduced ==
  ASSUME NEW r \in Nat, NEW d \in Nat, NEW x, NEW c
  PROVE  Somfy(r % 2^8, d % 2^24, x, c) = Somfy(r, d, x, c)
<1>1. Inside(0, 8, 8) /\ Inside(0, 8, 24) /\ Inside(8, 8, 24) /\ Inside(16, 8, 24)
  BY DEF Inside
<1>2. PICK u, v : LowOf(u, r, 8) /\ LowOf(v, d, 24)
  BY DEF LowOf
<1>3. /\ \A l, k : Inside(l, k, 8) => Field(u, l, k) = Field(r, l, k)
      /\ \A l, k : Inside(l, k, 24) => Field(v, l, k) = Field(d, l, k)
  BY <1>2, FieldReduced
<1>4. /\ Field(u, 0, 8) = Field(r, 0, 8) /\ Field(v, 0, 8) = Field(d, 0, 8)
      /\ Field(v, 8, 8) = Field(d, 8, 8) /\ Field(v, 16, 8) = Field(d, 16, 8)
  BY <1>1, <1>3, Zenon
<1>5. Unsealed(c, Field(u, 0, 8), v, x) = Unsealed(c, Field(r, 0, 8), d, x)
  BY <1>4, Zenon DEF Unsealed
<1>6. SomfyData(c, u, v, x) = SomfyData(c, r, d, x)
  BY <1>5, SomfyDataIs, Zenon
<1>7. Somfy(u, v, x, c) = Somfy(r, d, x, c)
  BY <1>6, SomfyIs, Zenon
<1> QED
  BY <1>2, <1>7 DEF LowOf

LEMMA BlyssReduced ==
  ASSUME NEW r \in Nat, NEW d \in Nat, NEW x, NEW c, NEW e
  PROVE  Blyss(r % 2^20, BlyssDevice(d % 2^4, e), x, c) = Blyss(r, BlyssDevice(d, e), x, c)
<1>1. /\ Inside(16, 4, 20) /\ Inside(12, 4, 20) /\ Inside(4, 8, 20) /\ Inside(0, 4, 20)
      /\ Inside(0, 4, 4)
  BY DEF Inside
<1>2. PICK u, v : LowOf(u, r, 20) /\ LowOf(v, d, 4)
  BY DEF LowOf
<1>3. /\ \A l, k : Inside(l, k, 20) => Field(u, l, k) = Field(r, l, k)
      /\ \A l, k : Inside(l, k, 4) => Field(v, l, k) = Field(d, l, k)
  BY <1>2, FieldReduced
<1>4. /\ Field(u, 16, 4) = Field(r, 16, 4) /\ Field(u, 12, 4) = Field(r, 12, 4)
      /\ Field(u, 4, 8) = Field(r, 4, 8) /\ Field(u, 0, 4) = Field(r, 0, 4)
      /\ Field(v, 0, 4) = Field(d, 0, 4)
  BY <1>1, <1>3, Zenon
<1>5. PICK y, z : y = BlyssDevice(v, e) /\ z = BlyssDevice(d, e)
  OBVIOUS
<1>6. Field(y, 0, 4) = Field(z, 0, 4)
  BY <1>4, <1>5, Zenon DEF BlyssDevice
<1>7. Blyss(u, y, x, c) = Blyss(r, z, x, c)
  BY <1>4, <1>6, Zenon DEF Blyss
<1> QED
  BY <1>2, <1>5, <1>7 DEF LowOf

-----------------------------------------------------------------------------
\* A command, its codes any numbers.
IsCommand(given) ==
    given \in [protocol : NineProtocols, remote : Nat, device : Nat,
               command : STRING, rolling_code : Nat]

LEMMA CarriedIs ==
  ASSUME NEW given, IsCommand(given),
         NEW a, a = CodeBits[given.protocol][1], NEW b, b = CodeBits[given.protocol][2]
  PROVE  /\ Carried(given).protocol = given.protocol /\ Carried(given).command = given.command
         /\ Carried(given).rolling_code = given.rolling_code
         /\ Carried(given).remote = given.remote % 2^a
         /\ Carried(given).device = given.device % 2^b
<1>1. Carried(given) = [given EXCEPT !.remote = @ % 2^a, !.device = @ % 2^b]
  BY DEF Carried
<1>2. PICK u, v : u = given.remote % 2^a /\ v = given.device % 2^b
  OBVIOUS
<1>3. Carried(given) = [given EXCEPT !.remote = u, !.device = v]
  BY <1>1, <1>2, Zenon
<1> QED
  BY <1>2, <1>3 DEF IsCommand

\* The maximum of a driver is the number that has all the bits there is room for.
LEMMA RoomIsMaximum ==
  ASSUME NEW p \in NineProtocols
  PROVE  /\ CodeBits[p][1] \in 0 .. 28 /\ CodeBits[p][2] \in 0 .. 28
         /\ protocol_drivers[p].remote_code_max = 2^CodeBits[p][1] - 1
         /\ protocol_drivers[p].device_code_max = 2^CodeBits[p][2] - 1
<1>1. CASE p = "otax"
  BY <1>1 DEF CodeBits, protocol_drivers, otax_driver, Driver
<1>2. CASE p = "dio"
  BY <1>2 DEF CodeBits, protocol_drivers, dio_driver, Driver
<1>3. CASE p = "he"
  BY <1>3 DEF CodeBits, protocol_drivers, he_driver, Driver
<1>4. CASE p = "idk"
  BY <1>4 DEF CodeBits, protocol_drivers, idk_driver, Driver
<1>5. CASE p = "sumtech"
  BY <1>5 DEF CodeBits, protocol_drivers, sumtech_driver, Driver
<1>6. CASE p = "auchan"
  BY <1>6 DEF CodeBits, protocol_drivers, auchan_driver, Driver
<1>7. CASE p = "auchan2"
  BY <1>7 DEF CodeBits, protocol_drivers, auchan2_driver, Driver
<1>8. CASE p = "somfy"
  BY <1>8 DEF CodeBits, protocol_drivers, somfy_driver, Driver
<1>9. CASE p = "blyss"
  BY <1>9 DEF CodeBits, protocol_drivers, blyss_driver, Driver
<1> QED
  BY <1>1, <1>2, <1>3, <1>4, <1>5, <1>6, <1>7, <1>8, <1>9 DEF NineProtocols

LEMMA FormatReduced ==
  ASSUME NEW given, IsCommand(given)
  PROVE  FormatCmd(Carried(given)) = FormatCmd(given)
<1>1. PICK p, r, d, e, k :
         /\ given.protocol = p /\ given.remote = r /\ given.device = d
         /\ given.command = e /\ given.rolling_code = k
  OBVIOUS
<1>2. PICK less : less = Carried(given)
  OBVIOUS
<1>3. PICK a, b : a = CodeBits[p][1] /\ b = CodeBits[p][2]
  OBVIOUS
<1>4. PICK u, v : u = r % 2^a /\ v = d % 2^b
  OBVIOUS
<1>5. /\ less.protocol = p /\ less.remote = u /\ less.device = v
      /\ less.command = e /\ less.rolling_code = k
  BY <1>1, <1>2, <1>3, <1>4, CarriedIs
<1>6. PICK t : t = RawCmd(p)
  OBVIOUS
<1>7. p \in NineProtocols /\ r \in Nat /\ d \in Nat
  BY <1>1 DEF IsCommand
<1>8. CASE p = "otax"
  <2>1. a = 5 /\ b = 5
    BY <1>3, <1>8 DEF CodeBits
  <2>2. \A x : Otax(u, v, x) = Otax(r, d, x)
    BY <1>4, <1>7, <2>1, OtaxReduced
  <2>3. FormatCmd(given) = IF e \in DOMAIN t THEN Otax(r, d, t[e]) ELSE Refused
    BY <1>1, <1>6, <1>8 DEF FormatCmd
  <2>4. FormatCmd(less) = IF e \in DOMAIN t THEN Otax(u, v, t[e]) ELSE Refused
    BY <1>5, <1>6, <1>8 DEF FormatCmd
  <2> QED
    BY <1>2, <2>2, <2>3, <2>4, Zenon
<1>9. CASE p = "dio"
  <2>1. a = 26 /\ b = 4
    BY <1>3, <1>9 DEF CodeBits
  <2>2. \A x : Dio(u, v, x) = Dio(r, d, x)
    BY <1>4, <1>7, <2>1, DioReduced
  <2>3. FormatCmd(given) = IF e \in DOMAIN t THEN Dio(r, d, t[e]) ELSE Refused
    BY <1>1, <1>6, <1>9 DEF FormatCmd
  <2>4. FormatCmd(less) = IF e \in DOMAIN t THEN Dio(u, v, t[e]) ELSE Refused
    BY <1>5, <1>6, <1>9 DEF FormatCmd
  <2> QED
    BY <1>2, <2>2, <2>3, <2>4, Zenon
<1>10. CASE p = "he"
  <2>1. a = 0 /\ b = 16
    BY <1>3, <1>10 DEF CodeBits
  <2>2. \A x : HomeEasy(v, x) = HomeEasy(d, x)
    BY <1>4, <1>7, <2>1, HomeEasyReduced
  <2>3. FormatCmd(given) = IF e \in DOMAIN t THEN HomeEasy(d, t[e]) ELSE Refused
    BY <1>1, <1>6, <1>10 DEF FormatCmd
  <2>4. FormatCmd(less) = IF e \in DOMAIN t THEN HomeEasy(v, t[e]) ELSE Refused
    BY <1>5, <1>6, <1>10 DEF FormatCmd
  <2> QED
    BY <1>2, <2>2, <2>3, <2>4, Zenon
<1>11. CASE p = "idk"
  <2>1. a = 0 /\ b = 4
    BY <1>3, <1>11 DEF CodeBits
  <2>2. Idk(v) = Idk(d)
    BY <1>4, <1>7, <2>1, IdkReduced
  <2>3. FormatCmd(given) = IF e \in DOMAIN t THEN Idk(d) ELSE Refused
    BY <1>1, <1>6, <1>11 DEF FormatCmd
  <2>4. FormatCmd(less) = IF e \in DOMAIN t THEN Idk(v) ELSE Refused
    BY <1>5, <1>6, <1>11 DEF FormatCmd
  <2> QED
    BY <1>2, <2>2, <2>3, <2>4, Zenon
<1>12. CASE p = "sumtech"
  <2>1. a = 24 /\ b = 7
    BY <1>3, <1>12 DEF CodeBits
  <2>2. \A x : Sumtech(u, v, x) = Sumtech(r, d, x)
    BY <1>4, <1>7, <2>1, SumtechReduced
  <2>3. FormatCmd(given) = IF e \in DOMAIN t THEN Sumtech(r, d, t[e]) ELSE Refused
    BY <1>1, <1>6, <1>12 DEF FormatCmd
  <2>4. FormatCmd(less) = IF e \in DOMAIN t THEN Sumtech(u, v, t[e]) ELSE Refused
    BY <1>5, <1>6, <1>12 DEF FormatCmd
  <2> QED
    BY <1>2, <2>2, <2>3, <2>4, Zenon
<1>13. CASE p = "auchan"
  <2>1. a = 20 /\ b = 3
    BY <1>3, <1>13 DEF CodeBits
  <2>2. \A x : Auchan(u, v, x) = Auchan(r, d, x)
    BY <1>4, <1>7, <2>1, AuchanReduced
  <2>3. FormatCmd(given) = IF e \in DOMAIN t THEN Auchan(r, d, t[e]) ELSE Refused
    BY <1>1, <1>6, <1>13 DEF FormatCmd
  <2>4. FormatCmd(less) = IF e \in DOMAIN t THEN Auchan(u, v, t[e]) ELSE Refused
    BY <1>5, <1>6, <1>13 DEF FormatCmd
  <2> QED
    BY <1>2, <2>2, <2>3, <2>4, Zenon
<1>14. CASE p = "auchan2"
  <2>1. a = 13 /\ b = 2
    BY <1>3, <1>14 DEF CodeBits
  <2>2. \A x : Auchan2(u, v, x) = Auchan2(r, d, x)
    BY <1>4, <1>7, <2>1, Auchan2Reduced
  <2>3. FormatCmd(given) = IF e \in DOMAIN t THEN Auchan2(r, d, t[e]) ELSE Refused
    BY <1>1, <1>6, <1>14 DEF FormatCmd
  <2>4. FormatCmd(less) = IF e \in DOMAIN t THEN Auchan2(u, v, t[e]) ELSE Refused
    BY <1>5, <1>6, <1>14 DEF FormatCmd
  <2> QED
    BY <1>2, <2>2, <2>3, <2>4, Zenon
<1>15. CASE p = "somfy"
  <2>1. a = 8 /\ b = 24
    BY <1>3, <1>15 DEF CodeBits
  <2>2. \A x : Somfy(u, v, x, k) = Somfy(r, d, x, k)
    BY <1>4, <1>7, <2>1, SomfyReduced
  <2>3. FormatCmd(given) = IF e \in DOMAIN t THEN Somfy(r, d, t[e], k) ELSE Refused
    BY <1>1, <1>6, <1>15 DEF FormatCmd
  <2>4. FormatCmd(less) = IF e \in DOMAIN t THEN Somfy(u, v, t[e], k) ELSE Refused
    BY <1>5, <1>6, <1>15 DEF FormatCmd
  <2> QED
    BY <1>2, <2>2, <2>3, <2>4, Zenon
<1>16. CASE p = "blyss"
  <2>1. a = 20 /\ b = 4
    BY <1>3, <1>16 DEF CodeBits
  <2>2. \A x : Blyss(u, BlyssDevice(v, e), x, k) = Blyss(r, BlyssDevice(d, e), x, k)
    BY <1>4, <1>7, <2>1, BlyssReduced
  <2>3. FormatCmd(given) = IF e \in DOMAIN t THEN Blyss(r, BlyssDevice(d, e), t[e], k) ELSE Refused
    BY <1>1, <1>6, <1>16 DEF FormatCmd
  <2>4. FormatCmd(less) = IF e \in DOMAIN t THEN Blyss(u, BlyssDevice(v, e), t[e], k) ELSE Refused
    BY <1>5, <1>6, <1>16 DEF FormatCmd
  <2> QED
    BY <1>2, <2>2, <2>3, <2>4, Zenon
<1> QED
  BY <1>7, <1>8, <1>9, <1>10, <1>11, <1>12, <1>13, <1>14, <1>15, <1>16 DEF NineProtocols

\* Whatever the codes, and a rolling code of RollingCode.
MayBeAsked(given) ==
    /\ IsCommand(given)
    /\ given.protocol = "somfy" => given.rolling_code \in Nat /\ Wide(given.rolling_code, 16)
    /\ given.protocol = "blyss" => given.rolling_code \in 0 .. 4

LEMMA AnyIsRight ==
  ASSUME NEW given, MayBeAsked(given), FormatCmd(given).bit_count >= 0
  PROVE  Carries(FormatCmd(given), given)
<1>1. PICK p, a, b : p = given.protocol /\ a = CodeBits[p][1] /\ b = CodeBits[p][2]
  OBVIOUS
<1>2. PICK less : less = Carried(given)
  OBVIOUS
<1>3. IsCommand(given) /\ p \in NineProtocols /\ given.remote \in Nat /\ given.device \in Nat
  BY <1>1 DEF MayBeAsked, IsCommand
<1>4. /\ less.protocol = p /\ less.rolling_code = given.rolling_code
      /\ less.remote = given.remote % 2^a /\ less.device = given.device % 2^b
  BY <1>1, <1>2, <1>3, CarriedIs
<1>5. /\ a \in 0 .. 28 /\ b \in 0 .. 28
      /\ protocol_drivers[p].remote_code_max = 2^a - 1 /\ protocol_drivers[p].device_code_max = 2^b - 1
  BY <1>1, <1>3, RoomIsMaximum
<1>6. HasRoom(less)
  <2>1. Wide(less.remote, a) /\ Wide(less.device, b)
    BY <1>3, <1>4, <1>5, LowPart
  <2>2. /\ less.remote \in 0 .. protocol_drivers[p].remote_code_max
        /\ less.device \in 0 .. protocol_drivers[p].device_code_max
    BY <1>5, <2>1, Zenon DEF Wide
  <2> QED
    BY <1>1, <1>3, <1>4, <2>2, Zenon DEF HasRoom, MayBeAsked
<1>7. FormatCmd(less) = FormatCmd(given)
  BY <1>2, <1>3, FormatReduced
<1>8. CarriesWhole(FormatCmd(given), less)
  <2>1. FormatCmd(less).bit_count >= 0
    BY <1>7
  <2>2. CarriesWhole(FormatCmd(less), less)
    BY <1>6, <2>1, OneIsRight
  <2> QED
    BY <1>7, <2>2, Zenon
<1> QED
  BY <1>1, <1>2, <1>4, <1>8, Zenon DEF CarriesWhole, Carries

(***************************************************************************)
(* Every encoder is right for every command it may be asked, whatever the  *)
(* codes: a receiver of the protocol recovers from the frame format_cmd()  *)
(* makes the command and as many low bits of the codes as the format has   *)
(* room for, and the text of the timings (ook-gpio.c) has the signal of    *)
(* the protocol.  Nobody checks a code against the maximum of its driver   *)
(* (rf-ctrl.c:683-691), so the theorem asks no bound of them: that what is *)
(* above does no harm to the other fields is part of it, and that it is    *)
(* dropped in silence too.                                                 *)
(***************************************************************************)
THEOREM EncodersRight == EachIsRight
<1>1. ASSUME NEW given \in Commands, NEW p \in Procs PROVE MayBeAsked(given[p])
  <2>1. /\ given[p] \in [protocol : DOMAIN protocol_drivers, remote : Nat, device : Nat,
                         command : STRING, rolling_code : Nat]
        /\ given[p].protocol = "somfy" => given[p].rolling_code \in 0 .. 2^16 - 1
        /\ given[p].protocol = "blyss" => given[p].rolling_code \in 0 .. 4
    BY CommandsAssumption, Zenon
  <2>2. ASSUME NEW v, v \in 0 .. 2^16 - 1 PROVE v \in Nat /\ Wide(v, 16)
    BY <2>2 DEF Wide
  <2>3. IsCommand(given[p])
    BY <2>1, ProtocolNames, Zenon DEF IsCommand, NineProtocols
  <2> QED
    BY <2>1, <2>2, <2>3, Zenon DEF MayBeAsked
<1>2. ASSUME NEW given \in Commands, NEW p \in Procs,
             NEW own, own = protocol_drivers[given[p].protocol].timings,
             NEW f, f = FormatCmd(given[p]), f.bit_count >= 0
      PROVE  /\ SameSignal(TimingsText(own), own, SubSeq(f.bits, 1, f.bit_count))
             /\ Carries(f, given[p])
  <2>1. TimingsText(own) = own
    BY <1>1, <1>2, OwnTimings DEF MayBeAsked, IsCommand
  <2>2. SameSignal(TimingsText(own), own, SubSeq(f.bits, 1, f.bit_count))
    BY <2>1, Zenon DEF SameSignal
  <2>3. Carries(f, given[p])
    BY <1>1, <1>2, AnyIsRight
  <2> QED
    BY <2>2, <2>3
<1> QED
  BY <1>2, Zenon DEF EachIsRight

-----------------------------------------------------------------------------
(***************************************************************************)
(* From what the kernel transmits for an invocation a receiver recovers    *)
(* the command and of the codes what the format has room for (the nine     *)
(* encoders), whichever other invocation overlaps it and whatever write is *)
(* lost; and unless its timings were lost or replaced (ook-gpio.c, two     *)
(* writes to two files) the signal is that of its protocol.  For any       *)
(* codes, commands and number of invocations.                              *)
(***************************************************************************)
THEOREM RightWhenUndisturbed == Spec => TransmitsWhatIsMeant
<1> DEFINE Meaning(p) ==
        sent'[p] # sent[p] =>
            LET f == sent'[p].frame
            IN  /\ Carries(f, cmd[p])
                /\ p \notin disturbed =>
                      SameSignal(sent'[p].timings, Own(p), SubSeq(f.bits, 1, f.bit_count))
<1>1. ASSUME IInv, [Next]_vars, NEW p \in Procs PROVE Meaning(p)
  <2> SUFFICES ASSUME sent'[p] # sent[p]
               PROVE  LET f == sent'[p].frame
                      IN  /\ Carries(f, cmd[p])
                          /\ p \notin disturbed =>
                                SameSignal(sent'[p].timings, Own(p), SubSeq(f.bits, 1, f.bit_count))
    OBVIOUS
  <2>1. /\ FormatCmd(cmd[p]).bit_count >= 0 /\ sent'[p].frame = FormatCmd(cmd[p])
        /\ p \notin disturbed => sent'[p].timings = TimingsText(Own(p))
    BY <1>1, OwnTransmission
  <2>2. cmd \in Commands
    BY <1>1 DEF IInv, Shapes
  <2>3. LET f == FormatCmd(cmd[p])
        IN  /\ SameSignal(TimingsText(Own(p)), Own(p), SubSeq(f.bits, 1, f.bit_count))
            /\ Carries(f, cmd[p])
    BY <2>1, <2>2, EncodersRight DEF EachIsRight, Own
  <2> QED
    BY <2>1, <2>3
<1>2. IInv /\ [Next]_vars => [\A p \in Procs : Meaning(p)]_vars
  BY <1>1
<1> QED
  BY <1>2, Inductive, PTL DEF Spec, TransmitsWhatIsMeant
=============================================================================
