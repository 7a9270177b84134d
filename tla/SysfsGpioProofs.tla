-------------------------- MODULE SysfsGpioProofs --------------------------
(***************************************************************************)
(* Proofs about SysfsGpio, for any number of invocations, any timings and  *)
(* frames, and with or without kills: how the GPIO is given back, and the  *)
(* signal that is sent.                                                    *)
(***************************************************************************)
EXTENDS SysfsGpio, Lemmas

(***************************************************************************)
(* The inductive invariant.  A descriptor is open only where the driver    *)
(* has one, and a GPIO that is exported has been by somebody still to give *)
(* it back, or who could not.                                              *)
(***************************************************************************)
Shapes ==
    /\ pc \in [Procs -> Steps]
    /\ fd \in [Procs -> {"none", "valid", "stale"}]
    /\ ret \in [Procs -> {0, 1}]
    /\ disturbed \in BOOLEAN /\ lost \subseteq Procs

Opened == {"send", "off", "close"}

HeldInv ==
    /\ \A p \in Procs : fd[p] # "none" => pc[p] \in Opened
    /\ exported => \E p \in Procs : pc[p] \notin {"export", "done"}

(***************************************************************************)
(* As long as no two have used it at once, at most one is active; while it *)
(* sends, its descriptor works, and so does the output unless a write of   *)
(* its own was lost; and the line is low unless it sends, or one was       *)
(* killed or lost a write while sending.                                   *)
(***************************************************************************)
AloneInv ==
    ~ disturbed =>
        /\ \A p, q \in Procs : Active(p) /\ Active(q) => p = q
        /\ \A p \in Procs : pc[p] \in {"open", "send", "off"} /\ p \notin lost => output
        /\ \A p \in Procs : pc[p] \in {"send", "off"} => fd[p] = "valid"
        /\ \A p \in Procs : (pc[p] = "close" \/ (pc[p] = "unexport" /\ ret[p] = 0)) /\ p \notin lost
                              => line = 0
        /\ NoneKilled /\ lost = {} /\ (\A p \in Procs : pc[p] \notin {"send", "off"}) => line = 0

IInv == Shapes /\ HeldInv /\ AloneInv

-----------------------------------------------------------------------------
LEMMA InitIInv == Init => IInv
  BY DEF Init, IInv, Shapes, Steps, HeldInv, AloneInv, Active, NoneKilled

\* Whoever acts while another is active disturbs it; a killed one stays killed.
LEMMA StepFacts ==
  ASSUME IInv, NEW p \in Procs, Proceed(p) \/ Kill(p),
         disturbed' = (disturbed \/ \E q \in Procs \ {p} : Active(q))
  PROVE  /\ disturbed' \in BOOLEAN
         /\ ~ disturbed' => ~ disturbed /\ \A q \in Procs : q # p => ~ Active(q)
         /\ \A q \in Procs : q # p => pc'[q] = pc[q]
         /\ NoneKilled' => NoneKilled
         /\ lost \subseteq lost' /\ lost' \subseteq lost \cup {p}
<1>1. disturbed' \in BOOLEAN
  BY DEF IInv, Shapes
<1>2. ~ disturbed' => ~ disturbed /\ \A q \in Procs : q # p => ~ Active(q)
  BY DEF IInv, Shapes
<1>3. pc[p] # "killed" /\ \A q \in Procs : q # p => pc'[q] = pc[q]
  BY DEF IInv, Shapes, Proceed, Export, InitFails, Direction, OpenValue, SendStroke, FramesSent,
         TurnOff, CloseValue, Unexport, CannotUnexport, Kill, Goto
<1>4. lost \subseteq lost' /\ lost' \subseteq lost \cup {p}
  BY DEF Proceed, Export, InitFails, Direction, OpenValue, SendStroke, FramesSent, TurnOff,
         CloseValue, Unexport, CannotUnexport, Kill, WriteLost
<1> QED
  BY <1>1, <1>2, <1>3, <1>4 DEF NoneKilled

LEMMA StepIInv ==
  ASSUME IInv, NEW p \in Procs, Proceed(p) \/ Kill(p),
         disturbed' = (disturbed \/ \E q \in Procs \ {p} : Active(q))
  PROVE  IInv'
<1> USE DEF IInv, Shapes, Steps, Opened, Goto, kernel
<1>0. /\ disturbed' \in BOOLEAN
      /\ ~ disturbed' => ~ disturbed /\ \A q \in Procs : q # p => ~ Active(q)
      /\ \A q \in Procs : q # p => pc'[q] = pc[q]
      /\ NoneKilled' => NoneKilled
      /\ lost \subseteq lost' /\ lost' \subseteq Procs
  BY StepFacts
<1>1. CASE Export(p)
  <2> USE <1>1 DEF Export
  <2>1. Shapes' /\ HeldInv'
    BY <1>0 DEF HeldInv
  <2>2. AloneInv'
    BY <1>0 DEF AloneInv, Active
  <2> QED
    BY <2>1, <2>2
<1>2. CASE InitFails(p)
  <2> USE <1>2 DEF InitFails, AfterFailure
  <2>1. Shapes' /\ HeldInv'
    BY <1>0 DEF HeldInv
  <2>2. AloneInv'
    BY <1>0 DEF AloneInv, Active
  <2> QED
    BY <2>1, <2>2
<1>3. CASE Direction(p)
  <2> USE <1>3 DEF Direction, WriteLost
  <2>1. Shapes' /\ HeldInv'
    BY <1>0 DEF HeldInv
  <2>2. AloneInv'
    BY <1>0 DEF AloneInv, Active
  <2> QED
    BY <2>1, <2>2
<1>4. CASE OpenValue(p)
  <2> USE <1>4 DEF OpenValue
  <2>1. Shapes' /\ HeldInv'
    BY <1>0 DEF HeldInv
  <2>2. AloneInv'
    BY <1>0 DEF AloneInv, Active
  <2> QED
    BY <2>1, <2>2
<1>5. CASE SendStroke(p)
  <2>0. pc[p] = "send" /\ UNCHANGED <<exported, output, pc, fd, ret>>
    BY <1>5 DEF SendStroke
  <2>1. Shapes' /\ HeldInv'
    BY <1>0, <2>0 DEF HeldInv
  <2>2. AloneInv'
    BY <1>0, <2>0 DEF AloneInv, Active
  <2> QED
    BY <2>1, <2>2
<1>6. CASE FramesSent(p)
  <2> USE <1>6 DEF FramesSent
  <2>1. Shapes' /\ HeldInv'
    BY <1>0 DEF HeldInv
  <2>2. AloneInv'
    BY <1>0 DEF AloneInv, Active
  <2> QED
    BY <2>1, <2>2
<1>7. CASE TurnOff(p)
  <2> USE <1>7 DEF TurnOff, FinalLevel, WriteLost
  <2>1. Shapes' /\ HeldInv'
    BY <1>0 DEF HeldInv
  <2>2. AloneInv'
    BY <1>0 DEF AloneInv, Active
  <2> QED
    BY <2>1, <2>2
<1>8. CASE CloseValue(p)
  <2> USE <1>8 DEF CloseValue
  <2>1. Shapes' /\ HeldInv'
    BY <1>0 DEF HeldInv
  <2>2. AloneInv'
    BY <1>0 DEF AloneInv, Active
  <2> QED
    BY <2>1, <2>2
<1>9. CASE Unexport(p)
  <2> USE <1>9 DEF Unexport, AfterUnexport
  <2>1. Shapes' /\ HeldInv'
    BY <1>0 DEF HeldInv
  <2>2. AloneInv'
    BY <1>0 DEF AloneInv, Active
  <2> QED
    BY <2>1, <2>2
<1>10. CASE CannotUnexport(p)
  <2> USE <1>10 DEF CannotUnexport
  <2>1. Shapes' /\ HeldInv'
    BY <1>0 DEF HeldInv
  <2>2. AloneInv'
    BY <1>0 DEF AloneInv, Active
  <2> QED
    BY <2>1, <2>2
<1>11. CASE Kill(p)
  <2> USE <1>11 DEF Kill
  <2>1. Shapes' /\ HeldInv'
    BY <1>0 DEF HeldInv
  <2>2. ~ NoneKilled'
    BY DEF NoneKilled
  <2>3. AloneInv'
    BY <1>0, <2>2 DEF AloneInv, Active
  <2> QED
    BY <2>1, <2>3
<1> QED
  BY <1>1, <1>2, <1>3, <1>4, <1>5, <1>6, <1>7, <1>8, <1>9, <1>10, <1>11 DEF Proceed

LEMMA Inductive == Spec => []IInv
<1>1. IInv /\ Next => IInv'
  BY StepIInv DEF Next
<1>2. IInv /\ UNCHANGED vars => IInv'
  BY DEF vars, IInv, Shapes, HeldInv, AloneInv, Active, NoneKilled
<1> QED
  BY InitIInv, <1>1, <1>2, PTL DEF Spec

(***************************************************************************)
(* An invocation that has had the GPIO to itself gives it back with the    *)
(* transmitter off: when it succeeded and none of its writes was lost, and *)
(* when it failed unless one before it was killed or lost a write.         *)
(***************************************************************************)
THEOREM TransmitterOff == Spec => []OffWhenGivenBack
<1>1. IInv => OffWhenGivenBack
  BY DEF IInv, Shapes, AloneInv, Active, OffWhenGivenBack
<1> QED
  BY <1>1, Inductive, PTL

(***************************************************************************)
(* However many invocations overlapped and failed: when all that started   *)
(* have ended by themselves, the GPIO is not exported and no descriptor is *)
(* open.                                                                   *)
(***************************************************************************)
THEOREM GpioReleased == Spec => []ReleasedInTheEnd
<1>1. IInv => ReleasedInTheEnd
  BY DEF IInv, Shapes, HeldInv, Opened, ReleasedInTheEnd
<1> QED
  BY <1>1, Inductive, PTL
-----------------------------------------------------------------------------
StrokeSet == [level : {0, 1}, writes : BOOLEAN, time : Nat]

\* What is written first, or is written, or is the level before.
Follows(s, k) == s[k].writes \/ s[k].level = s[k - 1].level
Fits(s) == (s # << >> => s[1].writes) /\ \A k \in 2 .. Len(s) : Follows(s, k)
FittingStrokes == {s \in Seq(StrokeSet) : Fits(s)}

LEMMA FittingMonoid == Monoid(FittingStrokes)
<1>1. << >> \in FittingStrokes
  BY DEF FittingStrokes, Fits
<1>2. ASSUME NEW a \in FittingStrokes, NEW b \in FittingStrokes
      PROVE  a \o b \in FittingStrokes
  <2> DEFINE s == a \o b
  <2>1. /\ s \in Seq(StrokeSet) /\ Len(s) = Len(a) + Len(b)
        /\ Len(a) \in Nat /\ Len(b) \in Nat
        /\ \A i \in 1 .. Len(a) : s[i] = a[i]
        /\ \A i \in 1 .. Len(b) : s[Len(a) + i] = b[i]
    BY DEF FittingStrokes
  <2> HIDE DEF s
  <2>2. CASE Len(a) = 0
    <3>1. a = << >> /\ b \in Seq(StrokeSet)
      BY <2>2 DEF FittingStrokes
    <3>2. s = b
      BY <3>1, ConcatEmptySeq DEF s
    <3> QED
      BY <3>2 DEF s
  <2>3. CASE Len(b) = 0
    <3>1. b = << >> /\ a \in Seq(StrokeSet)
      BY <2>3 DEF FittingStrokes
    <3>2. s = a
      BY <3>1, ConcatEmptySeq DEF s
    <3> QED
      BY <3>2 DEF s
  <2>4. CASE Len(a) # 0 /\ Len(b) # 0
    <3>1. s[1].writes
      <4>1. a # << >> /\ 1 \in 1 .. Len(a)
        BY <2>1, <2>4
      <4> QED
        BY <2>1, <4>1 DEF FittingStrokes, Fits
    <3>2. ASSUME NEW k \in 2 .. Len(s) PROVE Follows(s, k)
      <4>1. CASE k <= Len(a)
        <5>1. k \in 1 .. Len(a) /\ k - 1 \in 1 .. Len(a) /\ k \in 2 .. Len(a)
          BY <2>1, <4>1
        <5>2. Follows(a, k)
          BY <5>1 DEF FittingStrokes, Fits
        <5>3. s[k] = a[k] /\ s[k - 1] = a[k - 1]
          BY <2>1, <5>1
        <5> QED
          BY <5>2, <5>3 DEF Follows
      <4>2. CASE k = Len(a) + 1
        <5>1. b[1].writes
          BY <2>4 DEF FittingStrokes, Fits
        <5>2. s[k] = b[1]
          BY <2>1, <2>4, <4>2
        <5> QED
          BY <5>1, <5>2 DEF Follows
      <4>3. CASE k > Len(a) + 1
        <5> DEFINE i == k - Len(a)
        <5>1. i \in 2 .. Len(b) /\ i \in 1 .. Len(b) /\ i - 1 \in 1 .. Len(b)
              /\ Len(a) + i = k /\ Len(a) + (i - 1) = k - 1
          BY <2>1, <4>3
        <5> HIDE DEF i
        <5>2. Follows(b, i)
          BY <5>1 DEF FittingStrokes, Fits
        <5>3. s[Len(a) + i] = b[i] /\ s[Len(a) + (i - 1)] = b[i - 1]
          BY <2>1, <5>1
        <5>4. s[k] = b[i] /\ s[k - 1] = b[i - 1]
          BY <5>1, <5>3
        <5> QED
          BY <5>2, <5>4 DEF Follows
      <4> QED
        BY <2>1, <4>1, <4>2, <4>3
    <3>3. s \in Seq(StrokeSet)
      BY <2>1
    <3>4. s \in FittingStrokes
      BY <3>1, <3>2, <3>3 DEF FittingStrokes, Fits
    <3> QED
      BY <3>4 DEF s
  <2> QED
    BY <2>2, <2>3, <2>4
<1>3. \A a \in FittingStrokes : << >> \o a = a /\ a \o << >> = a
  BY ConcatEmptySeq DEF FittingStrokes
<1> QED
  BY <1>1, <1>2, <1>3 DEF Monoid

LEMMA LastingFits ==
  ASSUME NEW level \in {0, 1}, NEW time \in Nat
  PROVE  Lasting(Stroke(level, TRUE, time)) \in FittingStrokes
<1> DEFINE s == Stroke(level, TRUE, time)
<1>1. s \in StrokeSet /\ s.writes = TRUE
  BY DEF StrokeSet, Stroke
<1> HIDE DEF s
<1>2. <<s>> \in Seq(StrokeSet) /\ Len(<<s>>) = 1 /\ <<s>>[1] = s
  BY <1>1
<1>3. <<s>> \in FittingStrokes
  BY <1>1, <1>2 DEF FittingStrokes, Fits
<1> QED
  BY <1>3, FittingMonoid DEF Lasting, Monoid, s

LEMMA TimesNat == Times \subseteq Nat /\ Counts \subseteq Nat
<1>1. UINT8_MAX \in Nat /\ UINT16_MAX \in Nat
  BY DEF UINT8_MAX, UINT16_MAX
<1> QED
  BY <1>1 DEF Times, Counts

LEMMA PairFacts == ASSUME NEW pair \in Pairs PROVE pair.h \in Nat /\ pair.l \in Nat
<1>1. pair.h \in Times /\ pair.l \in Times
  BY DEF Pairs
<1> QED
  BY <1>1, TimesNat

LEMMA EdgeFits ==
  ASSUME NEW fmt, NEW pair \in Pairs
  PROVE  EdgeStrokes(fmt, pair) \in FittingStrokes
<1>1. pair.h \in Nat /\ pair.l \in Nat
  BY PairFacts
<1>2. /\ Lasting(Stroke(1, TRUE, pair.h)) \in FittingStrokes
      /\ Lasting(Stroke(0, TRUE, pair.l)) \in FittingStrokes
  BY <1>1, LastingFits
<1> QED
  BY <1>2, FittingMonoid DEF EdgeStrokes, Monoid

LEMMA ConfigFacts ==
  ASSUME NEW c \in TimingConfigs
  PROVE  /\ c.start \in Pairs /\ c.end \in Pairs
         /\ \A b \in {0, 1} : c.bit[b + 1] \in Pairs
         /\ c.base_time \in Nat /\ c.frame_count \in Nat
         /\ c.bit_fmt \in {"HL", "LH", "RAW"}
<1>1. /\ c.start \in Pairs /\ c.end \in Pairs /\ c.bit \in BothBits
      /\ c.base_time \in Times /\ c.frame_count \in Counts /\ c.bit_fmt \in Formats
  BY DEF TimingConfigs
<1>2. \A b \in {0, 1} : c.bit[b + 1] \in Pairs
  BY <1>1 DEF BothBits
<1>3. c.base_time \in Nat /\ c.frame_count \in Nat
  BY <1>1, TimesNat
<1> QED
  BY <1>1, <1>2, <1>3 DEF Formats

BitEdges(c, bits) == [n \in 1 .. Len(bits) |-> EdgeStrokes(c.bit_fmt, c.bit[bits[n] + 1])]

LEMMA FrameFits ==
  ASSUME NEW c \in TimingConfigs, NEW bits \in Seq({0, 1})
  PROVE  FrameStrokes(c, bits) \in FittingStrokes
<1>1. CASE c.bit_fmt = "RAW"
  <2> DEFINE W(n) == n = 1 \/ bits[n] # bits[IF n = 1 THEN 1 ELSE n - 1]
             s == [n \in 1 .. Len(bits) |-> Stroke(bits[n], W(n), c.base_time)]
  <2>1. Len(bits) \in Nat /\ \A n \in 1 .. Len(bits) : bits[n] \in {0, 1}
    OBVIOUS
  <2>2. FrameStrokes(c, bits) = s
    BY <1>1 DEF FrameStrokes
  <2>3. \A n \in 1 .. Len(bits) : s[n] \in StrokeSet
    <3> SUFFICES ASSUME NEW n \in 1 .. Len(bits) PROVE s[n] \in StrokeSet
      OBVIOUS
    <3>1. s[n] = [level |-> bits[n], writes |-> W(n), time |-> c.base_time]
      BY DEF Stroke
    <3>2. W(n) \in BOOLEAN
      OBVIOUS
    <3>3. bits[n] \in {0, 1} /\ c.base_time \in Nat
      BY <2>1, ConfigFacts
    <3> HIDE DEF W, s
    <3> QED
      BY <3>1, <3>2, <3>3 DEF StrokeSet
  <2>4. s \in Seq(StrokeSet) /\ Len(s) = Len(bits)
    <3> HIDE DEF W
    <3> QED
      BY <2>1, <2>3
  <2>5. s # << >> => s[1].writes
    <3> SUFFICES ASSUME Len(bits) # 0 PROVE s[1].writes
      BY <2>4
    <3>1. 1 \in 1 .. Len(bits)
      BY <2>1
    <3>2. s[1].writes = W(1)
      BY <3>1 DEF Stroke
    <3> QED
      BY <3>2
  <2>6. ASSUME NEW k \in 2 .. Len(s) PROVE Follows(s, k)
    <3>1. k \in 1 .. Len(bits) /\ k - 1 \in 1 .. Len(bits) /\ k # 1
      BY <2>1, <2>4
    <3>2. s[k].writes = W(k) /\ s[k].level = bits[k] /\ s[k - 1].level = bits[k - 1]
      BY <3>1 DEF Stroke
    <3>3. W(k) <=> bits[k] # bits[k - 1]
      BY <3>1
    <3> HIDE DEF W, s
    <3> QED
      BY <3>2, <3>3 DEF Follows
  <2> HIDE DEF W, s
  <2> QED
    BY <2>2, <2>4, <2>5, <2>6 DEF FittingStrokes, Fits
<1>2. CASE c.bit_fmt # "RAW"
  <2>1. /\ EdgeStrokes(c.bit_fmt, c.start) \in FittingStrokes
        /\ EdgeStrokes(c.bit_fmt, c.end) \in FittingStrokes
    BY ConfigFacts, EdgeFits
  <2>2. BitEdges(c, bits) \in Seq(FittingStrokes)
    <3>1. ASSUME NEW n \in 1 .. Len(bits)
          PROVE  EdgeStrokes(c.bit_fmt, c.bit[bits[n] + 1]) \in FittingStrokes
      <4>1. bits[n] \in {0, 1}
        OBVIOUS
      <4>2. c.bit[bits[n] + 1] \in Pairs
        BY <4>1, ConfigFacts
      <4> QED
        BY <4>2, EdgeFits
    <3>2. Len(bits) \in Nat
      OBVIOUS
    <3> QED
      BY <3>1, <3>2 DEF BitEdges
  <2>3. FlattenSeq(BitEdges(c, bits)) \in FittingStrokes
    BY <2>2, FittingMonoid, FlattenType
  <2>4. FrameStrokes(c, bits) = EdgeStrokes(c.bit_fmt, c.start) \o FlattenSeq(BitEdges(c, bits))
                                  \o EdgeStrokes(c.bit_fmt, c.end)
    BY <1>2 DEF FrameStrokes, BitEdges
  <2> QED
    BY <2>1, <2>3, <2>4, FittingMonoid DEF Monoid
<1> QED
  BY <1>1, <1>2

LEMMA StrokesFit ==
  ASSUME NEW c \in TimingConfigs, NEW bits \in Seq({0, 1})
  PROVE  Strokes(c, bits) \in FittingStrokes
<1> DEFINE frames == [j \in FrameTimes(c) |-> FrameStrokes(c, bits)]
<1>1. frames \in Seq(FittingStrokes)
  <2>1. FrameStrokes(c, bits) \in FittingStrokes
    BY FrameFits
  <2>2. c.frame_count \in Nat
    BY ConfigFacts
  <2> QED
    BY <2>1, <2>2 DEF FrameTimes
<1>2. FlattenSeq(frames) \in FittingStrokes
  <2> HIDE DEF frames
  <2> QED
    BY <1>1, FittingMonoid, FlattenType
<1> QED
  BY <1>2 DEF Strokes

-----------------------------------------------------------------------------
(***************************************************************************)
(* The signal of the segments strokes make is the concatenation of the     *)
(* signals of its parts.                                                   *)
(***************************************************************************)
Plays  == [s \in StrokeSet |-> Segment(s.level, s.time)]
Played(strokes) == Mapped(Plays, strokes)

LEMMA PlaysType == MapsTo(Plays, StrokeSet, SegmentSet)
  BY DEF MapsTo, Plays, StrokeSet, SegmentSet, Segment

WaveSignal   == [w \in Seq(SegmentSet) |-> Signal(w)]
StrokeSignal == [s \in Seq(StrokeSet) |-> Signal(Played(s))]

LEMMA WaveSignalHomomorphism == Homomorphism(WaveSignal, Seq(SegmentSet), Seq({0, 1}))
<1>1. WaveSignal \in [Seq(SegmentSet) -> Seq({0, 1})]
  BY SignalType DEF WaveSignal
<1>2. WaveSignal[<< >>] = << >>
  BY SignalEmpty DEF WaveSignal
<1>3. ASSUME NEW a \in Seq(SegmentSet), NEW b \in Seq(SegmentSet)
      PROVE  WaveSignal[a \o b] = WaveSignal[a] \o WaveSignal[b]
  <2>1. a \o b \in Seq(SegmentSet)
    OBVIOUS
  <2> QED
    BY <2>1, SignalConcat DEF WaveSignal
<1> QED
  BY <1>1, <1>2, <1>3 DEF Homomorphism

LEMMA StrokeSignalHomomorphism == Homomorphism(StrokeSignal, Seq(StrokeSet), Seq({0, 1}))
<1>1. ASSUME NEW s \in Seq(StrokeSet) PROVE Played(s) \in Seq(SegmentSet)
  BY PlaysType, MapType DEF Played
<1>2. StrokeSignal \in [Seq(StrokeSet) -> Seq({0, 1})]
  BY <1>1, SignalType DEF StrokeSignal
<1>3. StrokeSignal[<< >>] = << >>
  BY SignalEmpty, MapEmpty DEF StrokeSignal, Played
<1>4. ASSUME NEW a \in Seq(StrokeSet), NEW b \in Seq(StrokeSet)
      PROVE  StrokeSignal[a \o b] = StrokeSignal[a] \o StrokeSignal[b]
  <2>1. a \o b \in Seq(StrokeSet)
    OBVIOUS
  <2>2. Played(a \o b) = Played(a) \o Played(b)
    BY PlaysType, MapConcat DEF Played
  <2>3. StrokeSignal[a \o b] = Signal(Played(a) \o Played(b))
    BY <2>1, <2>2 DEF StrokeSignal
  <2>4. Signal(Played(a) \o Played(b)) = Signal(Played(a)) \o Signal(Played(b))
    BY <1>1, SignalConcat
  <2> QED
    BY <2>3, <2>4 DEF StrokeSignal
<1> QED
  BY <1>2, <1>3, <1>4 DEF Homomorphism

LEMMA StrokeSignalOf ==
  ASSUME NEW s \in Seq(StrokeSet)
  PROVE  StrokeSignal[s] = Signal(Played(s))
  BY DEF StrokeSignal

LEMMA WaveSignalOf ==
  ASSUME NEW w \in Seq(SegmentSet)
  PROVE  WaveSignal[w] = Signal(w)
  BY DEF WaveSignal

\* A level kept for no time is not heard.
LEMMA LastingHeard ==
  ASSUME NEW level \in {0, 1}, NEW time \in Nat
  PROVE  StrokeSignal[Lasting(Stroke(level, TRUE, time))] = WaveSignal[<<Segment(level, time)>>]
<1> DEFINE s == Stroke(level, TRUE, time)
           g == Segment(level, time)
<1>1. s \in StrokeSet /\ g \in SegmentSet /\ Plays[s] = g /\ s.time = time
      /\ g.time = time /\ Levels[g] = [t \in 1 .. g.time |-> g.level]
  BY DEF StrokeSet, SegmentSet, Stroke, Segment, Plays, Levels
<1> HIDE DEF s, g
<1>2. <<s>> \in Seq(StrokeSet) /\ <<g>> \in Seq(SegmentSet)
  BY <1>1
<1>3. ASSUME time > 0 PROVE StrokeSignal[Lasting(s)] = WaveSignal[<<g>>]
  <2>1. Lasting(s) = <<s>>
    BY <1>1, <1>3 DEF Lasting
  <2>2. Played(<<s>>) = <<g>>
    BY <1>1 DEF Played, Mapped
  <2> QED
    BY <1>2, <2>1, <2>2, StrokeSignalOf, WaveSignalOf
<1>4. ASSUME time = 0 PROVE StrokeSignal[Lasting(s)] = WaveSignal[<<g>>]
  <2>1. Lasting(s) = << >>
    BY <1>1, <1>4 DEF Lasting
  <2>2. StrokeSignal[<< >>] = << >>
    BY StrokeSignalHomomorphism DEF Homomorphism
  <2>3. Levels[g] = << >>
    BY <1>1, <1>4
  <2>4. Mapped(Levels, <<g>>) = << << >> >>
    BY <2>3 DEF Mapped
  <2>5. FlattenSeq(<< << >> >>) = << >>
    <3>1. Monoid(Seq({0, 1})) /\ << >> \in Seq({0, 1})
      BY SeqMonoid
    <3> QED
      BY <3>1, FlattenSingle
  <2>6. WaveSignal[<<g>>] = << >>
    BY <1>2, <2>4, <2>5, SignalIs, WaveSignalOf
  <2> QED
    BY <2>1, <2>2, <2>6
<1>5. StrokeSignal[Lasting(s)] = WaveSignal[<<g>>]
  BY <1>3, <1>4
<1> QED
  BY <1>5 DEF s, g

LEMMA EdgeHeard ==
  ASSUME NEW fmt \in {"HL", "LH"}, NEW pair \in Pairs
  PROVE  /\ StrokeSignal[EdgeStrokes(fmt, pair)] = WaveSignal[Edge(fmt, pair)]
         /\ EdgeStrokes(fmt, pair) \in Seq(StrokeSet)
         /\ Edge(fmt, pair) \in Seq(SegmentSet)
<1> DEFINE high == Lasting(Stroke(1, TRUE, pair.h))
           low  == Lasting(Stroke(0, TRUE, pair.l))
           up   == Segment(1, pair.h)
           down == Segment(0, pair.l)
<1>1. pair.h \in Nat /\ pair.l \in Nat
  BY PairFacts
<1>2. /\ high \in Seq(StrokeSet) /\ low \in Seq(StrokeSet)
      /\ EdgeStrokes(fmt, pair) \in Seq(StrokeSet)
  BY <1>1, LastingFits, EdgeFits DEF FittingStrokes
<1>3. up \in SegmentSet /\ down \in SegmentSet
  BY <1>1 DEF Segment, SegmentSet
<1>4. StrokeSignal[high] = WaveSignal[<<up>>] /\ StrokeSignal[low] = WaveSignal[<<down>>]
  BY <1>1, LastingHeard
<1>5. /\ EdgeStrokes(fmt, pair) = IF fmt = "HL" THEN high \o low ELSE low \o high
      /\ Edge(fmt, pair) = IF fmt = "LH" THEN <<down, up>> ELSE <<up, down>>
  BY DEF EdgeStrokes, Edge
<1> HIDE DEF high, low, up, down
<1>6. /\ <<up>> \in Seq(SegmentSet) /\ <<down>> \in Seq(SegmentSet)
      /\ <<up, down>> = <<up>> \o <<down>> /\ <<down, up>> = <<down>> \o <<up>>
      /\ <<up, down>> \in Seq(SegmentSet) /\ <<down, up>> \in Seq(SegmentSet)
  BY <1>3, TwoConcat
<1>7. /\ StrokeSignal[high \o low] = StrokeSignal[high] \o StrokeSignal[low]
      /\ StrokeSignal[low \o high] = StrokeSignal[low] \o StrokeSignal[high]
  BY <1>2, StrokeSignalHomomorphism DEF Homomorphism
<1>8. /\ WaveSignal[<<up>> \o <<down>>] = WaveSignal[<<up>>] \o WaveSignal[<<down>>]
      /\ WaveSignal[<<down>> \o <<up>>] = WaveSignal[<<down>>] \o WaveSignal[<<up>>]
  BY <1>6, WaveSignalHomomorphism DEF Homomorphism
<1>9. CASE fmt = "HL"
  BY <1>2, <1>4, <1>5, <1>6, <1>7, <1>8, <1>9
<1>10. CASE fmt = "LH"
  BY <1>2, <1>4, <1>5, <1>6, <1>7, <1>8, <1>10
<1> QED
  BY <1>9, <1>10

LEMMA Flattened ==
  ASSUME NEW s \in Seq(Seq(StrokeSet)), NEW t \in Seq(Seq(SegmentSet)),
         SameImages(StrokeSignal, s, WaveSignal, t)
  PROVE  /\ StrokeSignal[FlattenSeq(s)] = WaveSignal[FlattenSeq(t)]
         /\ FlattenSeq(s) \in Seq(StrokeSet) /\ FlattenSeq(t) \in Seq(SegmentSet)
<1> DEFINE X == Seq(StrokeSet)
           Z == Seq(SegmentSet)
           Y == Seq({0, 1})
<1>1. Monoid(X) /\ Monoid(Z) /\ Monoid(Y)
  BY SeqMonoid
<1>2. Homomorphism(StrokeSignal, X, Y) /\ Homomorphism(WaveSignal, Z, Y)
  BY StrokeSignalHomomorphism, WaveSignalHomomorphism
<1>3. s \in Seq(X) /\ t \in Seq(Z)
  OBVIOUS
<1> HIDE DEF X, Y, Z
<1>4. StrokeSignal[FlattenSeq(s)] = WaveSignal[FlattenSeq(t)]
  BY <1>1, <1>2, <1>3, FlattenSameImages
<1>5. FlattenSeq(s) \in X /\ FlattenSeq(t) \in Z
  BY <1>1, <1>3, FlattenType
<1> QED
  BY <1>4, <1>5 DEF X, Z

IdealEdges(c, bits) == [n \in 1 .. Len(bits) |-> Edge(c.bit_fmt, c.bit[bits[n] + 1])]

LEMMA FrameHeard ==
  ASSUME NEW c \in TimingConfigs, NEW bits \in Seq({0, 1})
  PROVE  /\ StrokeSignal[FrameStrokes(c, bits)] = WaveSignal[IdealFrame(c, bits)]
         /\ FrameStrokes(c, bits) \in Seq(StrokeSet)
         /\ IdealFrame(c, bits) \in Seq(SegmentSet)
<1>0. FrameStrokes(c, bits) \in Seq(StrokeSet)
  BY FrameFits DEF FittingStrokes
<1>1. Len(bits) \in Nat /\ \A n \in 1 .. Len(bits) : bits[n] \in {0, 1}
  OBVIOUS
<1>2. CASE c.bit_fmt = "RAW"
  <2> DEFINE s == FrameStrokes(c, bits)
             g == [n \in 1 .. Len(bits) |-> Segment(bits[n], c.base_time)]
  <2>1. IdealFrame(c, bits) = g
    BY <1>2 DEF IdealFrame
  <2>2. g \in Seq(SegmentSet)
    <3>1. \A n \in 1 .. Len(bits) : Segment(bits[n], c.base_time) \in SegmentSet
      BY <1>1, ConfigFacts DEF Segment, SegmentSet
    <3> QED
      BY <1>1, <3>1
  <2>3. Len(s) = Len(bits) /\ \A n \in 1 .. Len(bits) : s[n].level = bits[n] /\ s[n].time = c.base_time
    BY <1>1, <1>2 DEF FrameStrokes, Stroke
  <2>4. \A n \in 1 .. Len(bits) : Plays[s[n]] = Segment(bits[n], c.base_time)
    <3> HIDE DEF s
    <3>1. s \in Seq(StrokeSet)
      BY <1>0 DEF s
    <3>2. \A n \in 1 .. Len(bits) : s[n] \in StrokeSet
      BY <3>1, <2>3
    <3> QED
      BY <2>3, <3>2 DEF Plays
  <2>5. Played(s) = g
    <3> HIDE DEF s
    <3> QED
      BY <2>3, <2>4 DEF Played, Mapped
  <2>6. StrokeSignal[s] = WaveSignal[g]
    <3> HIDE DEF g, s
    <3>1. s \in Seq(StrokeSet)
      BY <1>0 DEF s
    <3> QED
      BY <2>2, <2>5, <3>1, StrokeSignalOf, WaveSignalOf
  <2> QED
    BY <1>0, <2>1, <2>2, <2>6
<1>3. CASE c.bit_fmt # "RAW"
  <2> DEFINE a == EdgeStrokes(c.bit_fmt, c.start)
             e == EdgeStrokes(c.bit_fmt, c.end)
             x == Edge(c.bit_fmt, c.start)
             z == Edge(c.bit_fmt, c.end)
             m == FlattenSeq(BitEdges(c, bits))
             y == FlattenSeq(IdealEdges(c, bits))
  <2>1. c.bit_fmt \in {"HL", "LH"}
    BY <1>3, ConfigFacts
  <2>2. /\ StrokeSignal[a] = WaveSignal[x] /\ a \in Seq(StrokeSet) /\ x \in Seq(SegmentSet)
        /\ StrokeSignal[e] = WaveSignal[z] /\ e \in Seq(StrokeSet) /\ z \in Seq(SegmentSet)
    BY <2>1, ConfigFacts, EdgeHeard
  <2>3. ASSUME NEW n \in 1 .. Len(bits)
        PROVE  /\ BitEdges(c, bits)[n] \in Seq(StrokeSet)
               /\ IdealEdges(c, bits)[n] \in Seq(SegmentSet)
               /\ StrokeSignal[BitEdges(c, bits)[n]] = WaveSignal[IdealEdges(c, bits)[n]]
    <3> DEFINE p == c.bit[bits[n] + 1]
    <3>1. p \in Pairs
      BY <1>1, ConfigFacts
    <3>2. BitEdges(c, bits)[n] = EdgeStrokes(c.bit_fmt, p)
      BY DEF BitEdges
    <3>3. IdealEdges(c, bits)[n] = Edge(c.bit_fmt, p)
      BY DEF IdealEdges
    <3> HIDE DEF p
    <3> QED
      BY <2>1, <3>1, <3>2, <3>3, EdgeHeard
  <2>4. /\ Len(BitEdges(c, bits)) = Len(bits) /\ Len(IdealEdges(c, bits)) = Len(bits)
        /\ BitEdges(c, bits) \in Seq(Seq(StrokeSet))
        /\ IdealEdges(c, bits) \in Seq(Seq(SegmentSet))
    BY <1>1, <2>3 DEF BitEdges, IdealEdges
  <2>5. SameImages(StrokeSignal, BitEdges(c, bits), WaveSignal, IdealEdges(c, bits))
    BY <2>3, <2>4 DEF SameImages
  <2>6. StrokeSignal[m] = WaveSignal[y] /\ m \in Seq(StrokeSet) /\ y \in Seq(SegmentSet)
    BY <2>4, <2>5, Flattened
  <2>7. FrameStrokes(c, bits) = (a \o m) \o e /\ IdealFrame(c, bits) = (x \o y) \o z
    BY <1>3 DEF FrameStrokes, IdealFrame, BitEdges, IdealEdges
  <2> HIDE DEF a, e, x, z, m, y
  <2>8. a \o m \in Seq(StrokeSet) /\ x \o y \in Seq(SegmentSet) /\ (x \o y) \o z \in Seq(SegmentSet)
    BY <2>2, <2>6
  <2>9. StrokeSignal[a \o m] = StrokeSignal[a] \o StrokeSignal[m]
    BY <2>2, <2>6, StrokeSignalHomomorphism DEF Homomorphism
  <2>10. StrokeSignal[(a \o m) \o e] = StrokeSignal[a \o m] \o StrokeSignal[e]
    BY <2>2, <2>8, StrokeSignalHomomorphism DEF Homomorphism
  <2>11. WaveSignal[x \o y] = WaveSignal[x] \o WaveSignal[y]
    BY <2>2, <2>6, WaveSignalHomomorphism DEF Homomorphism
  <2>12. WaveSignal[(x \o y) \o z] = WaveSignal[x \o y] \o WaveSignal[z]
    BY <2>2, <2>8, WaveSignalHomomorphism DEF Homomorphism
  <2> QED
    BY <1>0, <2>2, <2>6, <2>7, <2>8, <2>9, <2>10, <2>11, <2>12
<1> QED
  BY <1>2, <1>3

(***************************************************************************)
(* What the strokes make the line do, heard as a signal, is the signal of  *)
(* the ideal wave, whatever the timings and the data.                      *)
(***************************************************************************)
LEMMA WaveHeard ==
  ASSUME NEW c \in TimingConfigs, NEW bits \in Seq({0, 1})
  PROVE  Signal(Played(Strokes(c, bits))) = Signal(IdealWave(c, bits))
<1> DEFINE frames == [j \in FrameTimes(c) |-> FrameStrokes(c, bits)]
           ideals == [j \in 1 .. c.frame_count |-> IdealFrame(c, bits)]
           k == c.frame_count
<1>1. k \in Nat /\ FrameTimes(c) = 1 .. k
  BY ConfigFacts DEF FrameTimes
<1>2. /\ StrokeSignal[FrameStrokes(c, bits)] = WaveSignal[IdealFrame(c, bits)]
      /\ FrameStrokes(c, bits) \in Seq(StrokeSet)
      /\ IdealFrame(c, bits) \in Seq(SegmentSet)
  BY FrameHeard
<1>3. /\ frames \in Seq(Seq(StrokeSet)) /\ Len(frames) = k
      /\ ideals \in Seq(Seq(SegmentSet)) /\ Len(ideals) = k
  BY <1>1, <1>2, Constantly
<1>4. \A n \in 1 .. k : StrokeSignal[frames[n]] = WaveSignal[ideals[n]]
  BY <1>1, <1>2
<1>5. Strokes(c, bits) = FlattenSeq(frames) /\ IdealWave(c, bits) = FlattenSeq(ideals)
  BY DEF Strokes, IdealWave, Repeat
<1> HIDE DEF frames, ideals, k
<1>6. SameImages(StrokeSignal, frames, WaveSignal, ideals)
  BY <1>3, <1>4 DEF SameImages
<1>7. /\ StrokeSignal[FlattenSeq(frames)] = WaveSignal[FlattenSeq(ideals)]
      /\ FlattenSeq(frames) \in Seq(StrokeSet) /\ FlattenSeq(ideals) \in Seq(SegmentSet)
  BY <1>3, <1>6, Flattened
<1> QED
  BY <1>5, <1>7, StrokeSignalOf, WaveSignalOf

-----------------------------------------------------------------------------
(***************************************************************************)
(* The second half of the invariant: how far each has got, and, as long as *)
(* no two have used the GPIO at once and no write of its was lost, that    *)
(* the line has followed the strokes up to there and stands where the last *)
(* of them left it, which is why a RAW bit that repeats the one before     *)
(* need not be written.                                                    *)
(***************************************************************************)
All == Strokes(config, data)
PlayedTo(k) == [n \in 1 .. k |-> Segment(All[n].level, All[n].time)]

Positions ==
    /\ pos \in [Procs -> Nat] /\ config \in Configs /\ data \in BitStrings
    /\ line \in {0, 1} /\ exported \in BOOLEAN /\ output \in BOOLEAN /\ (output => exported)
    /\ \A p \in Procs :
          /\ pos[p] <= Len(All)
          /\ pc[p] \in {"export", "direction", "open"} => pos[p] = 0

WaveOf(p) ==
    /\ pc[p] \in {"direction", "open"} => wave = << >>
    /\ pc[p] \in {"send", "off"} /\ p \notin lost => wave = PlayedTo(pos[p])
    /\ pc[p] = "send" /\ pos[p] > 0 /\ p \notin lost => line = All[pos[p]].level
    /\ pc[p] = "off" => pos[p] = Len(All)

WaveInv == ~ disturbed => \A p \in Procs : WaveOf(p)

LEMMA AllFits ==
  ASSUME Positions
  PROVE  /\ config \in TimingConfigs /\ data \in Seq({0, 1})
         /\ All \in Seq(StrokeSet) /\ Fits(All) /\ Len(All) \in Nat
<1>1. config \in TimingConfigs /\ data \in Seq({0, 1})
  BY SysfsAssumption DEF Positions
<1>2. All \in FittingStrokes
  BY <1>1, StrokesFit DEF All
<1> QED
  BY <1>1, <1>2 DEF FittingStrokes

LEMMA InitWave == Init => Positions /\ WaveInv
<1> SUFFICES ASSUME Init PROVE Positions /\ WaveInv
  OBVIOUS
<1>1. config \in TimingConfigs /\ data \in Seq({0, 1})
  BY SysfsAssumption DEF Init
<1>2. All \in FittingStrokes
  BY <1>1, StrokesFit DEF All
<1>3. Len(All) \in Nat
  BY <1>2 DEF FittingStrokes
<1>4. pos \in [Procs -> Nat] /\ \A p \in Procs : pos[p] = 0 /\ pc[p] = "export"
  BY DEF Init
<1>5. line \in {0, 1} /\ exported \in BOOLEAN /\ output \in BOOLEAN /\ (output => exported)
  BY DEF Init
<1>6. config \in Configs /\ data \in BitStrings
  BY DEF Init
<1>7. Positions
  BY <1>3, <1>4, <1>5, <1>6 DEF Positions
<1>8. WaveInv
  BY <1>4 DEF WaveInv, WaveOf
<1> QED
  BY <1>7, <1>8

LEMMA StepPositions ==
  ASSUME IInv, Positions, NEW p \in Procs, Proceed(p) \/ Kill(p)
  PROVE  Positions' /\ All' = All
<1>0. Len(All) \in Nat
  BY AllFits
<1>1. config' = config /\ data' = data
  BY DEF Proceed, Export, InitFails, Direction, OpenValue, SendStroke, FramesSent,
         TurnOff, CloseValue, Unexport, CannotUnexport, Kill
<1>2. All' = All
  BY <1>1 DEF All
<1>3. line' \in {0, 1} /\ exported' \in BOOLEAN /\ output' \in BOOLEAN /\ (output' => exported')
  <2>1. CASE SendStroke(p)
    <3>1. pos[p] < Len(All) /\ pos[p] \in Nat
      BY <2>1 DEF SendStroke, All, Positions
    <3>2. All[pos[p] + 1] \in StrokeSet
      BY <3>1, AllFits
    <3>3. All[pos[p] + 1].level \in {0, 1}
      BY <3>2 DEF StrokeSet
    <3>4. line' = line \/ line' = All[pos[p] + 1].level
      BY <2>1 DEF SendStroke, Drive, WriteLost, All
    <3>5. exported' = exported /\ output' = output
      BY <2>1 DEF SendStroke
    <3> QED
      BY <3>3, <3>4, <3>5 DEF Positions
  <2>2. CASE ~ SendStroke(p)
    <3>1. line' = line \/ line' = 0
      BY <2>2 DEF Proceed, Export, InitFails, Direction, OpenValue, FramesSent,
           TurnOff, CloseValue, Unexport, CannotUnexport, Kill, kernel, FinalLevel, WriteLost
    <3>2. \/ exported' = exported /\ output' = output
          \/ exported' = TRUE /\ output' = output
          \/ exported /\ exported' = exported /\ output' = TRUE
          \/ exported' = FALSE /\ output' = FALSE
      BY <2>2 DEF WriteLost, Proceed, Export, InitFails, Direction, OpenValue, FramesSent,
           TurnOff, CloseValue, Unexport, CannotUnexport, Kill, kernel, AfterUnexport
    <3>3. exported' \in BOOLEAN /\ output' \in BOOLEAN /\ (output' => exported')
      <4>1. exported \in BOOLEAN /\ output \in BOOLEAN /\ (output => exported)
        BY DEF Positions
      <4>2. CASE exported' = exported /\ output' = output
        BY <4>1, <4>2
      <4>3. CASE exported' = TRUE /\ output' = output
        BY <4>1, <4>3
      <4>4. CASE exported /\ exported' = exported /\ output' = TRUE
        BY <4>1, <4>4
      <4>5. CASE exported' = FALSE /\ output' = FALSE
        BY <4>5
      <4> QED
        BY <3>2, <4>2, <4>3, <4>4, <4>5
    <3> QED
      BY <3>1, <3>3 DEF Positions
  <2> QED
    BY <2>1, <2>2
<1>4. /\ pos' \in [Procs -> Nat]
      /\ \A q \in Procs : pos'[q] <= Len(All)
      /\ \A q \in Procs : pos'[q] # pos[q] => q = p /\ pc[p] = "send"
  <2>1. CASE SendStroke(p)
    <3>1. pos[p] < Len(All) /\ pos' = [pos EXCEPT ![p] = @ + 1] /\ pc[p] = "send"
      BY <2>1 DEF SendStroke, All
    <3> QED
      BY <1>0, <3>1 DEF Positions
  <2>2. CASE ~ SendStroke(p)
    <3>1. pos' = pos
      BY <2>2 DEF Proceed, Export, InitFails, Direction, OpenValue, FramesSent,
           TurnOff, CloseValue, Unexport, CannotUnexport, Kill
    <3> QED
      BY <3>1 DEF Positions
  <2> QED
    BY <2>1, <2>2
<1>5. ASSUME NEW q \in Procs, pc'[q] \in {"export", "direction", "open"} PROVE pos'[q] = 0
  <2>1. pc[q] \in {"export", "direction", "open"}
    BY <1>5 DEF IInv, Shapes, Goto, AfterFailure, Proceed, Export, InitFails, Direction, OpenValue, SendStroke,
         FramesSent, TurnOff, CloseValue, Unexport, CannotUnexport, Kill
  <2>2. pos[q] = 0
    BY <2>1 DEF Positions
  <2> QED
    BY <2>1, <2>2, <1>4
<1>6. pos' \in [Procs -> Nat] /\ config' \in Configs /\ data' \in BitStrings
  BY <1>1, <1>4 DEF Positions
<1>7. \A q \in Procs : pos'[q] <= Len(All')
  BY <1>2, <1>4
<1> QED
  BY <1>2, <1>3, <1>5, <1>6, <1>7 DEF Positions

LEMMA StrokeSent ==
  ASSUME IInv, Positions, WaveInv, NEW p \in Procs, SendStroke(p), ~ disturbed, ~ disturbed',
         p \notin lost'
  PROVE  /\ line' = All[pos[p] + 1].level
         /\ wave' = PlayedTo(pos[p] + 1)
         /\ pos'[p] = pos[p] + 1
<1> DEFINE k == pos[p]
           s == All[k + 1]
<1>1. /\ pc[p] = "send" /\ k \in Nat /\ k < Len(All) /\ Len(All) \in Nat
      /\ pos'[p] = k + 1 /\ wave' = Append(wave, Segment(line', s.time))
  BY AllFits DEF SendStroke, All, Positions
<1>2. /\ p \notin lost
      /\ IF s.writes THEN Drive(p, s.level) ELSE line' = line
  BY DEF SendStroke, WriteLost, All
<1>3. fd[p] = "valid" /\ output
  BY <1>1, <1>2 DEF IInv, AloneInv
<1>4. WaveOf(p)
  BY DEF WaveInv
<1>5. line' = s.level
  <2>1. CASE s.writes
    BY <1>2, <1>3, <2>1 DEF Drive
  <2>2. CASE ~ s.writes
    <3>1. k # 0
      <4>1. ASSUME k = 0 PROVE FALSE
        <5>1. All # << >> /\ k + 1 = 1
          BY <1>1, <4>1
        <5>2. All[1].writes
          BY <5>1, AllFits DEF Fits
        <5> QED
          BY <2>2, <5>1, <5>2
      <4> QED
        BY <4>1
    <3>2. k + 1 \in 2 .. Len(All) /\ (k + 1) - 1 = k
      BY <1>1, <3>1
    <3>3. Follows(All, k + 1)
      BY <3>2, AllFits DEF Fits
    <3>4. s.level = All[k].level
      BY <2>2, <3>2, <3>3 DEF Follows
    <3>5. line = All[k].level
      BY <1>1, <1>2, <1>4, <3>1 DEF WaveOf
    <3> QED
      BY <1>2, <2>2, <3>4, <3>5
  <2> QED
    BY <2>1, <2>2
<1>6. wave = PlayedTo(k)
  BY <1>1, <1>2, <1>4 DEF WaveOf
<1>7. Append(PlayedTo(k), Segment(s.level, s.time)) = PlayedTo(k + 1)
  BY <1>1 DEF PlayedTo
<1> QED
  BY <1>1, <1>5, <1>6, <1>7

LEMMA StepWave ==
  ASSUME IInv, Positions, WaveInv, NEW p \in Procs, Proceed(p) \/ Kill(p),
         disturbed' = (disturbed \/ \E q \in Procs \ {p} : Active(q))
  PROVE  WaveInv'
<1> SUFFICES ASSUME ~ disturbed', NEW q \in Procs PROVE WaveOf(q)'
  BY DEF WaveInv
<1>1. /\ ~ disturbed /\ \A r \in Procs : r # p => ~ Active(r)
      /\ \A r \in Procs : r # p => pc'[r] = pc[r]
  BY StepFacts
<1>2. CASE q # p
  <2>1. pc'[q] \in {"export", "done", "left", "killed"}
    BY <1>1, <1>2 DEF Active, IInv, Shapes, Steps
  <2> QED
    BY <2>1 DEF WaveOf
<1>3. CASE q = p
  <2> USE DEF IInv, Shapes, Goto
  <2>0. /\ WaveOf(p) /\ All' = All /\ Positions' /\ pos[p] \in Nat /\ pos'[p] \in Nat
        /\ pc[p] \in {"export", "direction", "open"} => pos[p] = 0
        /\ PlayedTo(0) = << >> /\ \A k : PlayedTo(k)' = PlayedTo(k)
    <3>1. Positions' /\ All' = All
      BY StepPositions
    <3>2. \A k : [n \in 1 .. k |-> Segment(All'[n].level, All'[n].time)]
                  = [n \in 1 .. k |-> Segment(All[n].level, All[n].time)]
      BY <3>1
    <3> QED
      BY <1>1, <3>1, <3>2 DEF WaveInv, Positions, PlayedTo
  <2>1. CASE Export(p)
    <3>1. pc'[p] = "direction" /\ wave' = << >>
      BY <2>1 DEF Export
    <3> QED
      BY <1>3, <3>1 DEF WaveOf
  <2>2. CASE InitFails(p)
    <3>1. pc'[p] = "unexport"
      BY <2>2 DEF InitFails, AfterFailure
    <3> QED
      BY <1>3, <3>1 DEF WaveOf
  <2>3. CASE Direction(p)
    <3>1. pc[p] = "direction" /\ pc'[p] = "open" /\ wave' = wave
      BY <2>3 DEF Direction
    <3> QED
      BY <1>3, <2>0, <3>1 DEF WaveOf
  <2>4. CASE OpenValue(p)
    <3>1. pc[p] = "open" /\ pc'[p] \in {"send", "unexport"} /\ wave' = wave /\ pos' = pos
          /\ lost' = lost
      BY <2>4 DEF OpenValue
    <3>2. wave = << >> /\ pos'[p] = 0
      BY <2>0, <3>1 DEF WaveOf
    <3>3. wave' = PlayedTo(pos[p])'
      BY <2>0, <3>1, <3>2
    <3> QED
      BY <1>3, <2>0, <3>1, <3>2, <3>3 DEF WaveOf
  <2>5. CASE SendStroke(p)
    <3>1. pc[p] = "send" /\ pc' = pc
      BY <2>5 DEF SendStroke
    <3>2. p \notin lost' => /\ line' = All[pos[p] + 1].level /\ wave' = PlayedTo(pos[p] + 1)
                           /\ pos'[p] = pos[p] + 1
      BY <1>1, <2>5, StrokeSent
    <3>3. p \notin lost' => wave' = PlayedTo(pos[p])' /\ line' = All'[pos'[p]].level
      BY <2>0, <3>2
    <3> QED
      BY <1>3, <3>1, <3>3 DEF WaveOf
  <2>6. CASE FramesSent(p)
    <3>1. pc[p] = "send" /\ pc'[p] = "off" /\ wave' = wave /\ pos' = pos /\ pos[p] = Len(All)
          /\ lost' = lost
      BY <2>6 DEF FramesSent, All
    <3>2. p \notin lost' => wave' = PlayedTo(pos[p])'
      BY <2>0, <3>1 DEF WaveOf
    <3> QED
      BY <1>3, <2>0, <3>1, <3>2 DEF WaveOf
  <2>7. CASE TurnOff(p)
    <3>1. pc'[p] = "close"
      BY <2>7 DEF TurnOff
    <3> QED
      BY <1>3, <3>1 DEF WaveOf
  <2>8. CASE CloseValue(p)
    <3>1. pc'[p] = "unexport"
      BY <2>8 DEF CloseValue
    <3> QED
      BY <1>3, <3>1 DEF WaveOf
  <2>9. CASE Unexport(p)
    <3>1. pc'[p] = "done"
      BY <2>9 DEF Unexport
    <3> QED
      BY <1>3, <3>1 DEF WaveOf
  <2>10. CASE CannotUnexport(p)
    <3>1. pc'[p] = "left"
      BY <2>10 DEF CannotUnexport
    <3> QED
      BY <1>3, <3>1 DEF WaveOf
  <2>11. CASE Kill(p)
    <3>1. pc'[p] = "killed"
      BY <2>11 DEF Kill
    <3> QED
      BY <1>3, <3>1 DEF WaveOf
  <2> QED
    BY <2>1, <2>2, <2>3, <2>4, <2>5, <2>6, <2>7, <2>8, <2>9, <2>10, <2>11 DEF Proceed
<1> QED
  BY <1>2, <1>3

LEMMA WaveInductive == Spec => [](IInv /\ Positions /\ WaveInv)
<1>1. IInv /\ Positions /\ WaveInv /\ Next => IInv' /\ Positions' /\ WaveInv'
  BY StepIInv, StepPositions, StepWave DEF Next
<1>2. IInv /\ Positions /\ WaveInv /\ UNCHANGED vars => IInv' /\ Positions' /\ WaveInv'
  <2> SUFFICES ASSUME IInv, Positions, WaveInv, UNCHANGED vars PROVE IInv' /\ Positions' /\ WaveInv'
    OBVIOUS
  <2>1. IInv'
    BY DEF vars, IInv, Shapes, HeldInv, AloneInv, Active, NoneKilled
  <2>2. Positions'
    BY DEF vars, Positions, All
  <2>3. WaveInv'
    BY DEF vars, WaveInv, WaveOf, All, PlayedTo
  <2> QED
    BY <2>1, <2>2, <2>3
<1> QED
  BY InitIInv, InitWave, <1>1, <1>2, PTL DEF Spec

(***************************************************************************)
(* Every state is of its type: no invocation sends more strokes than its   *)
(* frames have, and an output is exported.                                 *)
(***************************************************************************)
THEOREM TypeCorrect == Spec => []TypeOK
<1>1. IInv /\ Positions => TypeOK
  <2> SUFFICES ASSUME IInv, Positions PROVE TypeOK
    OBVIOUS
  <2>1. \A p \in Procs : pos[p] \in 0 .. Len(Strokes(config, data))
    BY AllFits DEF Positions, All
  <2> QED
    BY <2>1 DEF IInv, Shapes, Positions, TypeOK
<1> QED
  BY <1>1, WaveInductive, PTL

(***************************************************************************)
(* For all timings, formats, data and repetitions: an invocation that has  *)
(* had the GPIO to itself and lost no write has sent the signal that       *)
(* README.md:9-15 describes.                                               *)
(***************************************************************************)
THEOREM SignalCorrect == Spec => []SignalAsConfigured
<1>1. Positions /\ WaveInv => SignalAsConfigured
  <2> SUFFICES ASSUME Positions, WaveInv, NEW p \in Procs, pc[p] = "off", ~ disturbed,
                      p \notin lost
               PROVE  Signal(wave) = Signal(IdealWave(config, data))
    BY DEF SignalAsConfigured
  <2>1. wave = PlayedTo(Len(All))
    BY DEF WaveInv, WaveOf
  <2>2. PlayedTo(Len(All)) = Played(All)
    <3>1. \A n \in 1 .. Len(All) : Plays[All[n]] = Segment(All[n].level, All[n].time)
      <4>1. \A n \in 1 .. Len(All) : All[n] \in StrokeSet
        BY AllFits
      <4> QED
        BY <4>1 DEF Plays
    <3> QED
      BY <3>1 DEF PlayedTo, Played, Mapped
  <2> QED
    BY <2>1, <2>2, AllFits, WaveHeard DEF All
<1> QED
  BY <1>1, WaveInductive, PTL
=============================================================================
