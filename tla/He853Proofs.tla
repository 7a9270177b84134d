---------------------------- MODULE He853Proofs ----------------------------
(***************************************************************************)
(* Proofs about He853 and He853Dongle, for any frames and any number of    *)
(* attempts.                                                               *)
(***************************************************************************)
EXTENDS He853Dongle, TLAPS

\* The types, the Boolean ones apart: different provers deal with them.
Contents == [Registers -> Frames \cup {Blank}]

Flags == handle \in BOOLEAN /\ plugged \in BOOLEAN /\ gaveUp \in BOOLEAN

Types ==
    /\ frame \in Frames
    /\ step \in 0 .. 5
    /\ retry_count \in 0 .. MAX_HID_WRITE_ATTEMPT - 1
    /\ ret \in {0, -1}
    /\ register \in Contents
    /\ executed \in Seq(Contents)

(***************************************************************************)
(* The registers are filled in the order of the reports: as long as the    *)
(* dongle stays in and no report was given up, those before the current    *)
(* report hold the frame.                                                  *)
(***************************************************************************)
Filled ==
    ~ gaveUp /\ plugged =>
        /\ step > 1 => register["TIMING1"] = frame
        /\ step > 2 => register["TIMING2"] = frame
        /\ step > 3 => register["DATA1"] = frame
        /\ step > 4 => register["DATA2"] = frame

(***************************************************************************)
(* Nothing is transmitted before EXECUTE, and then at most once for each   *)
(* attempt made; a command is only under way on an open device.            *)
(***************************************************************************)
Transmissions ==
    /\ step \in 1 .. 4 => executed = << >>
    /\ step = 5 => Len(executed) <= retry_count
    /\ step = 0 => Len(executed) <= MAX_HID_WRITE_ATTEMPT
    /\ handle \/ step = 0

\* The inductive invariant.
Rest == Types /\ Filled /\ Transmissions /\ TransmitsFrame /\ SuccessMeansTransmitted

IInv == Flags /\ Rest

-----------------------------------------------------------------------------
\* The reports of a command, in order.
LEMMA ReportsInOrder ==
    /\ Len(Reports) = 5
    /\ Reports[1] = "TIMING1" /\ Reports[2] = "TIMING2"
    /\ Reports[3] = "DATA1" /\ Reports[4] = "DATA2" /\ Reports[5] = "EXECUTE"
  BY DEF Reports

\* Nothing transmitted yet.
LEMMA NothingYet ==
    /\ << >> \in Seq(Contents) /\ Len(<< >>) = 0
    /\ [r \in Registers |-> Blank] \in Contents
  BY DEF Contents

LEMMA InitIInv == Init => IInv
<1> SUFFICES ASSUME Init PROVE IInv
  OBVIOUS
<1>0. Flags
  BY DEF Init, Flags
<1>1. Types
  BY NothingYet, He853Assumption DEF Init, Types, Contents
<1>2. Filled /\ Transmissions /\ TransmitsFrame /\ SuccessMeansTransmitted
  BY NothingYet, He853Assumption
  DEF Init, Filled, Transmissions, TransmitsFrame, SuccessMeansTransmitted
<1> QED
  BY <1>0, <1>1, <1>2 DEF IInv, Rest

\* What one attempt at a report does to registers and transmissions, delivered or lost.
Attempt == (plugged /\ Deliver(Reports[step])) \/ Lost

LEMMA ConfigAttempt ==
  ASSUME IInv, step \in 1 .. 4, Attempt
  PROVE  /\ register' \in Contents
         /\ executed' = << >>
         /\ ~ gaveUp /\ plugged =>
               /\ step > 1 => register'["TIMING1"] = frame
               /\ step > 2 => register'["TIMING2"] = frame
               /\ step > 3 => register'["DATA1"] = frame
<1> USE DEF IInv, Rest, Types, Contents
<1>1. executed = << >>
  BY DEF Transmissions
<1>2. Reports[step] # "EXECUTE" /\ Reports[step] \in Registers
  BY ReportsInOrder DEF Registers
<1>3. executed' = << >> /\ (register' = register \/ register' = [register EXCEPT ![Reports[step]] = frame])
  BY <1>1, <1>2 DEF Attempt, Deliver, Lost
<1>4. register' \in Contents
  BY <1>2, <1>3
<1>5. ASSUME NEW r \in Registers, register[r] = frame PROVE register'[r] = frame
  BY <1>2, <1>3, <1>5
<1> QED
  BY <1>3, <1>4, <1>5 DEF Filled, Registers

LEMMA ExecuteAttempt ==
  ASSUME IInv, step = 5, Attempt
  PROVE  /\ register' = register
         /\ executed' \in Seq(Contents)
         /\ Len(executed') <= retry_count + 1
         /\ ~ gaveUp => \A n \in 1 .. Len(executed') : Holds(executed'[n], frame)
<1> USE DEF IInv, Rest, Types, Contents
<1>1. Reports[step] = "EXECUTE"
  BY ReportsInOrder
<1>2. register' = register
  BY <1>1 DEF Attempt, Deliver, Lost
<1>3. Len(executed) <= retry_count /\ retry_count \in Nat
  BY He853Assumption DEF Transmissions
<1>4. CASE executed' = executed
  BY <1>2, <1>3, <1>4 DEF TransmitsFrame
<1>5. CASE plugged /\ executed' = Append(executed, register)
  <2>1. ~ gaveUp => Holds(register, frame)
    BY <1>5 DEF Filled, Holds, Registers
  <2>2. executed' \in Seq(Contents) /\ Len(executed') = Len(executed) + 1
    BY <1>5
  <2>3. ASSUME NEW n \in 1 .. Len(executed'), ~ gaveUp PROVE Holds(executed'[n], frame)
    <3>1. CASE n = Len(executed')
      BY <1>5, <2>1, <2>2, <2>3, <3>1
    <3>2. CASE n # Len(executed')
      <4>1. n \in 1 .. Len(executed) /\ executed'[n] = executed[n]
        BY <1>5, <2>2, <3>2
      <4> QED
        BY <2>3, <4>1 DEF TransmitsFrame
    <3> QED
      BY <3>1, <3>2
  <2> QED
    BY <1>2, <1>3, <2>2, <2>3
<1> QED
  BY <1>1, <1>4, <1>5 DEF Attempt, Deliver, Lost

-----------------------------------------------------------------------------
LEMMA FlagsStep == IInv /\ [Next]_vars => Flags'
<1> SUFFICES ASSUME IInv, [Next]_vars PROVE Flags'
  OBVIOUS
<1> USE DEF IInv, Flags
<1>1. CASE Open \/ Close \/ Unplug \/ Plug
  BY <1>1 DEF Open, Close, Unplug, Plug
<1>2. ASSUME NEW f \in Frames, SendCmd(f) PROVE Flags'
  BY <1>2 DEF SendCmd
<1>3. CASE WriteSucceeds
  BY <1>3 DEF WriteSucceeds, NextReport
<1>4. CASE WriteFails
  BY <1>4 DEF WriteFails, NextReport
<1>5. CASE UNCHANGED vars
  BY <1>5 DEF vars
<1> QED
  BY <1>1, <1>2, <1>3, <1>4, <1>5 DEF Next

LEMMA WriteSucceedsIInv == IInv /\ WriteSucceeds => Rest'
<1> SUFFICES ASSUME IInv, WriteSucceeds PROVE Rest'
  OBVIOUS
<1>1. Attempt /\ step \in 1 .. 5
  BY ReportsInOrder DEF IInv, Rest, Types, WriteSucceeds, Attempt
<1>2. retry_count' = 0 /\ UNCHANGED <<handle, plugged, frame>> /\ 0 \in 0 .. MAX_HID_WRITE_ATTEMPT - 1
  BY He853Assumption DEF WriteSucceeds
<1>3. CASE step \in 1 .. 4
  <2>1. step' = step + 1 /\ (gaveUp' <=> gaveUp) /\ ret' = ret
    <3>1. step < Len(Reports)
      BY <1>3, ReportsInOrder
    <3> QED
      BY <3>1 DEF WriteSucceeds, NextReport
  <2>2. register'[Reports[step]] = frame
    <3>1. Reports[step] # "EXECUTE" /\ Reports[step] \in Registers
      BY <1>3, ReportsInOrder DEF Registers
    <3> QED
      BY <3>1 DEF IInv, Rest, Types, Contents, WriteSucceeds, Deliver
  <2>3. Types'
    <3>1. register' \in Contents /\ executed' = << >>
      BY <1>1, <1>3, ConfigAttempt
    <3> QED
      BY <1>2, <1>3, <2>1, <3>1, NothingYet DEF IInv, Rest, Types
  <2>4. Filled'
    BY <1>1, <1>2, <1>3, <2>1, <2>2, ConfigAttempt, ReportsInOrder DEF Filled
  <2>5. Transmissions' /\ TransmitsFrame' /\ SuccessMeansTransmitted'
    <3>1. executed' = << >> /\ Len(executed') = 0
      BY <1>1, <1>3, ConfigAttempt, NothingYet
    <3>2. handle' /\ step' \in 1 .. 5 /\ retry_count' \in Nat
      BY <1>2, <1>3, <2>1, He853Assumption DEF IInv, Rest, Transmissions
    <3>3. Transmissions'
      BY <3>1, <3>2 DEF Transmissions
    <3>4. TransmitsFrame' /\ SuccessMeansTransmitted'
      BY <3>1, <3>2 DEF TransmitsFrame, SuccessMeansTransmitted
    <3> QED
      BY <3>3, <3>4
  <2> QED
    BY <2>3, <2>4, <2>5 DEF Rest
<1>4. CASE step = 5
  <2>1. step' = 0 /\ ret' = 0 /\ gaveUp' = gaveUp
    BY <1>4, ReportsInOrder DEF WriteSucceeds, NextReport
  <2>2. executed' = Append(executed, register)
    BY <1>4, ReportsInOrder DEF WriteSucceeds, Deliver
  <2>3. Types' /\ Filled'
    BY <1>1, <1>2, <1>4, <2>1, ExecuteAttempt, ReportsInOrder DEF IInv, Rest, Types, Filled
  <2>4. Transmissions' /\ TransmitsFrame'
    BY <1>1, <1>2, <1>4, <2>1, ExecuteAttempt, He853Assumption
    DEF IInv, Rest, Types, Transmissions, TransmitsFrame
  <2>5. SuccessMeansTransmitted'
    BY <2>2 DEF IInv, Rest, Types, SuccessMeansTransmitted
  <2> QED
    BY <2>3, <2>4, <2>5 DEF Rest
<1> QED
  BY <1>1, <1>3, <1>4

LEMMA WriteFailsIInv == IInv /\ WriteFails => Rest'
<1> SUFFICES ASSUME IInv, WriteFails PROVE Rest'
  OBVIOUS
<1>1. Attempt /\ step \in 1 .. 5
  BY ReportsInOrder DEF IInv, Rest, Types, WriteFails, Attempt
<1>2. UNCHANGED <<handle, plugged, frame>> /\ retry_count' \in 0 .. MAX_HID_WRITE_ATTEMPT - 1
  <2>1. retry_count' = 0 \/ (retry_count' = retry_count + 1 /\ retry_count + 1 < MAX_HID_WRITE_ATTEMPT)
    BY DEF WriteFails, MayRetry
  <2> QED
    BY <2>1, He853Assumption DEF IInv, Rest, Types, WriteFails
<1>3. CASE step \in 1 .. 4
  <2>1. /\ ret' = ret
        /\ \/ step' = step /\ (gaveUp' <=> gaveUp)
           \/ step' = step + 1 /\ gaveUp'
    <3>1. step < Len(Reports)
      BY <1>3, ReportsInOrder
    <3>2. CASE UNCHANGED <<step, ret, gaveUp>>
      BY <3>2
    <3>3. CASE NextReport(TRUE)
      BY <3>1, <3>3 DEF NextReport
    <3> QED
      BY <3>2, <3>3 DEF WriteFails
  <2>2. Types'
    <3>1. register' \in Contents /\ executed' = << >>
      BY <1>1, <1>3, ConfigAttempt
    <3> QED
      BY <1>2, <1>3, <2>1, <3>1, NothingYet DEF IInv, Rest, Types
  <2>3. Filled'
    BY <1>1, <1>2, <1>3, <2>1, ConfigAttempt DEF Filled
  <2>4. Transmissions' /\ TransmitsFrame' /\ SuccessMeansTransmitted'
    <3>1. executed' = << >> /\ Len(executed') = 0
      BY <1>1, <1>3, ConfigAttempt, NothingYet
    <3>2. handle' /\ step' \in 1 .. 5 /\ retry_count' \in Nat
      BY <1>2, <1>3, <2>1, He853Assumption DEF IInv, Rest, Transmissions
    <3>3. Transmissions'
      BY <3>1, <3>2 DEF Transmissions
    <3>4. TransmitsFrame' /\ SuccessMeansTransmitted'
      BY <3>1, <3>2 DEF TransmitsFrame, SuccessMeansTransmitted
    <3> QED
      BY <3>3, <3>4
  <2> QED
    BY <2>2, <2>3, <2>4 DEF Rest
<1>4. CASE step = 5
  <2>1. \/ step' = 5 /\ gaveUp' = gaveUp /\ ret' = ret /\ retry_count' = retry_count + 1
        \/ step' = 0 /\ gaveUp' = gaveUp /\ ret' = -1
    BY <1>4, ReportsInOrder DEF WriteFails, NextReport
  <2>2. Types' /\ Filled'
    BY <1>1, <1>2, <1>4, <2>1, ExecuteAttempt, ReportsInOrder DEF IInv, Rest, Types, Filled
  <2>3. Transmissions' /\ TransmitsFrame'
    BY <1>1, <1>2, <1>4, <2>1, ExecuteAttempt, He853Assumption
    DEF IInv, Rest, Types, Transmissions, TransmitsFrame
  <2>4. SuccessMeansTransmitted'
    BY <2>1 DEF SuccessMeansTransmitted
  <2> QED
    BY <2>2, <2>3, <2>4 DEF Rest
<1> QED
  BY <1>1, <1>3, <1>4

LEMMA OtherStepsIInv ==
  IInv /\ (Open \/ Close \/ Unplug \/ Plug \/ \E f \in Frames : SendCmd(f)) => Rest'
<1> SUFFICES ASSUME IInv, Open \/ Close \/ Unplug \/ Plug \/ \E f \in Frames : SendCmd(f) PROVE Rest'
  OBVIOUS
<1> USE DEF IInv, Rest, Types, Filled, Transmissions, TransmitsFrame, SuccessMeansTransmitted
<1>1. CASE Open \/ Close
  BY <1>1 DEF Open, Close
<1>2. CASE Unplug
  <2>1. register' \in Contents
    BY <1>2, NothingYet DEF Unplug
  <2> QED
    BY <1>2, <2>1 DEF Unplug
<1>3. CASE Plug
  BY <1>3 DEF Plug
<1>4. ASSUME NEW f \in Frames, SendCmd(f) PROVE Rest'
  <2>1. executed' = << >> /\ gaveUp' = FALSE /\ retry_count' = 0 /\ frame' = f /\ handle
        /\ UNCHANGED <<handle, plugged, register>>
    BY <1>4 DEF SendCmd
  <2>2. (step' = 1 /\ ret' = ret) \/ (step' = 0 /\ ret' = -1)
    BY <1>4 DEF SendCmd
  <2> QED
    BY <2>1, <2>2, NothingYet, He853Assumption
<1> QED
  BY <1>1, <1>2, <1>3, <1>4

LEMMA Inductive == Spec => []IInv
<1>1. IInv /\ UNCHANGED vars => IInv'
  BY DEF vars, IInv, Rest, Flags, Types, Filled, Transmissions, TransmitsFrame, SuccessMeansTransmitted
<1>2. IInv /\ [Next]_vars => IInv'
  BY <1>1, FlagsStep, WriteSucceedsIInv, WriteFailsIInv, OtherStepsIInv DEF Next, IInv
<1> QED
  BY InitIInv, <1>2, PTL DEF Spec

\* Only acceptable frames are sent to the dongle.
UnderWay == step # 0 \/ executed # << >> => frame \in Acceptable

LEMMA UnderWayStep == IInv /\ UnderWay /\ [Next]_vars => UnderWay'
<1> SUFFICES ASSUME IInv, UnderWay, [Next]_vars PROVE UnderWay'
  OBVIOUS
<1> USE DEF UnderWay
<1>1. CASE Open \/ Close \/ Unplug \/ Plug
  BY <1>1 DEF Open, Close, Unplug, Plug
<1>2. ASSUME NEW f \in Frames, SendCmd(f) PROVE UnderWay'
  BY <1>2 DEF SendCmd
<1>3. CASE WriteSucceeds \/ WriteFails
  <2>1. step > 0 /\ frame' = frame
    BY <1>3 DEF WriteSucceeds, WriteFails
  <2>2. step # 0
    BY <2>1 DEF IInv, Rest, Types
  <2> QED
    BY <2>1, <2>2
<1>4. CASE UNCHANGED vars
  BY <1>4 DEF vars
<1> QED
  BY <1>1, <1>2, <1>3, <1>4 DEF Next

LEMMA AlwaysUnderWay == Spec => []UnderWay
<1>1. Init => UnderWay
  BY DEF Init, UnderWay
<1> QED
  BY <1>1, UnderWayStep, Inductive, PTL DEF Spec

-----------------------------------------------------------------------------
(***************************************************************************)
(* The bytes of the reports.                                               *)
(***************************************************************************)
LEMMA EntriesFit ==
  ASSUME NEW table, table \in {htimes, ltimes}, NEW entry \in table
  PROVE  entry[2] \in Nat /\ entry[2] <= 1040
<1>1. CASE table = htimes
  BY <1>1 DEF htimes
<1>2. CASE table = ltimes
  BY <1>2 DEF ltimes
<1> QED
  BY <1>1, <1>2

LEMMA CodeFits ==
  ASSUME NEW table, table \in {htimes, ltimes}, NEW usec
  PROVE  CodeOf(table, usec) \in Nat /\ CodeOf(table, usec) <= 1040
<1> DEFINE known == {entry \in table : entry[1] = usec \div 10}
<1>1. CASE known = {}
  BY <1>1 DEF CodeOf
<1>2. CASE known # {}
  <2>1. PICK entry : entry = CHOOSE e \in known : TRUE
    OBVIOUS
  <2>2. entry \in known
    BY <1>2, <2>1
  <2>3. CodeOf(table, usec) = entry[2]
    BY <1>2, <2>1 DEF CodeOf
  <2>4. entry \in table
    BY <2>2
  <2> QED
    BY <2>3, <2>4, EntriesFit
<1> QED
  BY <1>1, <1>2

LEMMA PairFields == ASSUME NEW h, NEW l PROVE Pair(h, l).h = h /\ Pair(h, l).l = l
  BY DEF Pair

LEMMA CodesAre ==
  ASSUME NEW pair
  PROVE  /\ Codes(pair).l = CodeOf(ltimes, pair.l)
         /\ CodeOf(ltimes, pair.l) # 0 /\ CodeOf(htimes, pair.h) = 0 => Codes(pair).h = 1
         /\ CodeOf(ltimes, pair.l) = 0 \/ CodeOf(htimes, pair.h) # 0
               => Codes(pair).h = CodeOf(htimes, pair.h)
  BY PairFields DEF Codes

\* The codes sent of a pair that is in the tables are heeded.
LEMMA CodesHeeded ==
  ASSUME NEW pair, Coded(pair)
  PROVE  Heeds(Codes(pair), pair) /\ Codes(pair).h \in Nat /\ Codes(pair).l \in Nat
         /\ Codes(pair).h <= 1040 /\ Codes(pair).l <= 1040
<1> DEFINE h == CodeOf(htimes, pair.h)
           l == CodeOf(ltimes, pair.l)
<1>1. h \in Nat /\ h <= 1040 /\ l \in Nat /\ l <= 1040
  BY CodeFits
<1>2. (pair.h > 0 => h > 0) /\ (pair.l > 0 => l > 0)
  BY DEF Coded
<1>3. Codes(pair).l = l /\ (l # 0 /\ h = 0 => Codes(pair).h = 1)
      /\ (l = 0 \/ h # 0 => Codes(pair).h = h)
  BY CodesAre
<1> QED
  BY <1>1, <1>2, <1>3 DEF Heeds

\* A code of two bytes is read back, one of one byte is.
LEMMA BytesRead ==
  ASSUME NEW code \in Nat, code <= 1040
  PROVE  Word(HighByte(code), LowByte(code)) = code /\ (code <= 255 => LowByte(code) = code)
<1>1. code = 256 * (code \div 256) + (code % 256) /\ code % 256 \in 0 .. 255 /\ code \div 256 \in 0 .. 255
  OBVIOUS
<1> DEFINE q == code \div 256
<1>2. q % 256 = q
  <2>1. q \in 0 .. 255
    BY <1>1
  <2> HIDE DEF q
  <2> QED
    BY <2>1
<1> QED
  BY <1>1, <1>2 DEF Word, HighByte, LowByte

Marker(codes) == Pair(Word(HighByte(codes.h), LowByte(codes.h)), Word(HighByte(codes.l), LowByte(codes.l)))
BitByte(codes) == Pair(LowByte(codes.h), LowByte(codes.l))

LEMMA MarkerHeeded ==
  ASSUME NEW pair, Coded(pair)
  PROVE  Heeds(Marker(Codes(pair)), pair)
<1>1. Heeds(Codes(pair), pair) /\ Codes(pair).h \in Nat /\ Codes(pair).l \in Nat
         /\ Codes(pair).h <= 1040 /\ Codes(pair).l <= 1040
  BY CodesHeeded
<1>2. Marker(Codes(pair)).h = Codes(pair).h /\ Marker(Codes(pair)).l = Codes(pair).l
  BY <1>1, BytesRead, PairFields DEF Marker
<1> QED
  BY <1>1, <1>2 DEF Heeds

LEMMA BitHeeded ==
  ASSUME NEW pair, CodedInByte(pair)
  PROVE  Heeds(BitByte(Codes(pair)), pair) /\ BitByte(Codes(pair)).l = CodeOf(ltimes, pair.l)
<1>1. Heeds(Codes(pair), pair) /\ Codes(pair).h \in Nat /\ Codes(pair).l \in Nat
         /\ Codes(pair).h <= 1040 /\ Codes(pair).l <= 1040
  BY CodesHeeded DEF CodedInByte
<1>2. Codes(pair).h <= 255 /\ Codes(pair).l <= 255 /\ Codes(pair).l = CodeOf(ltimes, pair.l)
  BY CodesAre DEF CodedInByte, UINT8_MAX
<1>3. BitByte(Codes(pair)).h = Codes(pair).h /\ BitByte(Codes(pair)).l = Codes(pair).l
  BY <1>1, <1>2, BytesRead, PairFields DEF BitByte
<1> QED
  BY <1>1, <1>2, <1>3 DEF Heeds

\* What is read of the registers when all four hold the reports of one frame.
LEMMA ReadBack ==
  ASSUME NEW f
  PROVE  LET r == Reading(Report(f))  t == f.timings
         IN  /\ r.start = Marker(Codes(t.start)) /\ r.end = Marker(Codes(t.end))
             /\ r.bit0 = BitByte(Codes(t.bit[1])) /\ r.bit1 = BitByte(Codes(t.bit[2]))
             /\ r.bit_count = LowByte(f.bit_count) /\ r.frame_count = t.frame_count
<1> DEFINE start == Codes(f.timings.start)
           bit0  == Codes(f.timings.bit[1])
           end   == Codes(f.timings.end)
           bit1  == Codes(f.timings.bit[2])
<1>1. /\ Report(f).TIMING1 =
            <<HighByte(start.h), LowByte(start.h), HighByte(start.l), LowByte(start.l),
              HighByte(end.h), LowByte(end.h), HighByte(end.l)>>
      /\ Report(f).TIMING2 =
            <<LowByte(end.l), LowByte(bit0.h), LowByte(bit0.l), LowByte(bit1.h),
              LowByte(bit1.l), LowByte(f.bit_count), f.timings.frame_count>>
  BY DEF Report
<1> HIDE DEF start, end, bit0, bit1
<1> QED
  BY <1>1 DEF Reading, Marker, BitByte, start, end, bit0, bit1

LEMMA BitsReadBack ==
  ASSUME NEW f, f.bit_count \in 0 .. HE853_DATA_BITS, NEW n \in 1 .. f.bit_count
  PROVE  BitRead(Report(f), n) = f.bits[n]
<1>1. DataBit(f, n) = f.bits[n]
  BY DEF DataBit, HE853_DATA_BITS
<1>2. Report(f).DATA1 = [k \in 1 .. 56 |-> DataBit(f, k)]
      /\ Report(f).DATA2 = [k \in 1 .. 56 |-> DataBit(f, k + 56)]
  BY DEF Report
<1>3. CASE n <= 56
  BY <1>1, <1>2, <1>3 DEF BitRead
<1>4. CASE ~(n <= 56)
  <2>1. n - 56 \in 1 .. 56 /\ (n - 56) + 56 = n
    BY <1>4 DEF HE853_DATA_BITS
  <2>2. Report(f).DATA2[n - 56] = DataBit(f, (n - 56) + 56)
    BY <1>2, <2>1
  <2> QED
    BY <1>1, <1>4, <2>1, <2>2 DEF BitRead
<1> QED
  BY <1>3, <1>4

LEMMA ReportsUnderstood ==
  ASSUME NEW f, Supported(f)
  PROVE  Understands(Report(f), f)
<1> DEFINE r == Reading(Report(f))
           t == f.timings
<1>1. /\ r.start = Marker(Codes(t.start)) /\ r.end = Marker(Codes(t.end))
      /\ r.bit0 = BitByte(Codes(t.bit[1])) /\ r.bit1 = BitByte(Codes(t.bit[2]))
      /\ r.bit_count = LowByte(f.bit_count) /\ r.frame_count = t.frame_count
  BY ReadBack
<1> HIDE DEF r
<1>2. Heeds(r.start, t.start) /\ Heeds(r.end, t.end)
  BY <1>1, MarkerHeeded DEF Supported
<1>3. Heeds(r.bit0, t.bit[1]) /\ Heeds(r.bit1, t.bit[2]) /\ r.bit0 # r.bit1
  BY <1>1, BitHeeded DEF Supported
<1>4. r.bit_count = f.bit_count
  BY <1>1, BytesRead DEF Supported, HE853_DATA_BITS
<1>5. ASSUME NEW n \in 1 .. f.bit_count PROVE BitRead(Report(f), n) = f.bits[n]
  BY BitsReadBack DEF Supported
<1> QED
  BY <1>1, <1>2, <1>3, <1>4, <1>5 DEF Understands, r

\* The registers are read as the reports of the frame all of them hold.
LEMMA HoldsIsUnderstood ==
  ASSUME NEW f \in Acceptable, NEW snapshot, Holds(snapshot, f)
  PROVE  Understands(Written(snapshot), Content[f])
<1>1. Understands(Report(Content[f]), Content[f])
  BY ReportsUnderstood, ContentAssumption
<1> DEFINE w == Written(snapshot)
           p == Report(Content[f])
<1>2. w.TIMING1 = p.TIMING1 /\ w.TIMING2 = p.TIMING2 /\ w.DATA1 = p.DATA1 /\ w.DATA2 = p.DATA2
  <2>1. ASSUME NEW r \in Registers PROVE w[r] = p[r]
    BY DEF Written, Holds
  <2> HIDE DEF w, p
  <2> QED
    BY <2>1 DEF Registers
<1> HIDE DEF w, p
<1>3. Reading(w) = Reading(p)
  BY <1>2 DEF Reading
<1>4. \A n : BitRead(w, n) = BitRead(p, n)
  BY <1>2 DEF BitRead
<1> QED
  BY <1>1, <1>3, <1>4 DEF Understands, w, p

-----------------------------------------------------------------------------
(***************************************************************************)
(* The registers of the dongle and what it transmitted are frames; the     *)
(* attempts and the reports stay within the bounds of                      *)
(* he853_send_hid_report(), for any number of attempts.                    *)
(***************************************************************************)
THEOREM TypeCorrectness == Spec => []TypeOK
<1>1. IInv => TypeOK
  BY ReportsInOrder DEF IInv, Rest, Types, Flags, TypeOK, Contents
<1> QED
  BY <1>1, Inductive, PTL

(***************************************************************************)
(* However often reports fail, are lost or are delivered twice, and        *)
(* wherever the dongle is pulled out: a command none of whose              *)
(* configuration reports was given up is transmitted as asked.             *)
(***************************************************************************)
THEOREM CommandsTransmitted == Spec => []TransmitsFrame
<1>1. IInv => TransmitsFrame
  BY DEF IInv, Rest
<1> QED
  BY <1>1, Inductive, PTL

(***************************************************************************)
(* send_cmd() reports success only of a command that was transmitted.      *)
(***************************************************************************)
THEOREM SuccessIsTrue == Spec => []SuccessMeansTransmitted
<1>1. IInv => SuccessMeansTransmitted
  BY DEF IInv, Rest
<1> QED
  BY <1>1, Inductive, PTL

(***************************************************************************)
(* A command is transmitted at most once per attempt to send its EXECUTE.  *)
(***************************************************************************)
THEOREM RepeatsBounded == Spec => []BoundedRepeats
<1>1. IInv => BoundedRepeats
  BY ReportsInOrder, He853Assumption DEF IInv, Rest, Types, Transmissions, BoundedRepeats
<1> QED
  BY <1>1, Inductive, PTL

(***************************************************************************)
(* For any frames whose durations the tables have: when the dongle is told *)
(* to transmit, the bytes it got, split over four reports and with codes   *)
(* cut to a byte or two, mean the timings, bits and counts of the frame    *)
(* asked for, whichever reports were repeated, lost or came twice.         *)
(***************************************************************************)
THEOREM BytesUnderstood == Spec => []DongleUnderstands
<1>1. ASSUME IInv, UnderWay PROVE DongleUnderstands
  <2> SUFFICES ASSUME ~ gaveUp, NEW n \in 1 .. Len(executed)
               PROVE  Understands(Written(executed[n]), Content[frame])
    BY DEF DongleUnderstands
  <2>1. Holds(executed[n], frame)
    BY <1>1 DEF IInv, Rest, TransmitsFrame
  <2>2. executed # << >>
    BY NothingYet
  <2>3. frame \in Acceptable
    BY <1>1, <2>2 DEF UnderWay
  <2> QED
    BY <2>1, <2>3, HoldsIsUnderstood
<1>2. IInv /\ UnderWay => DongleUnderstands
  BY <1>1
<1> QED
  BY <1>2, Inductive, AlwaysUnderWay, PTL
=============================================================================
