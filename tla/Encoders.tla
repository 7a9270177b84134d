------------------------------ MODULE Encoders ------------------------------
(***************************************************************************)
(* format_cmd() of the nine protocols: how a remote code, a device code    *)
(* and a command are packed into the bytes of a frame.  Bytes are computed *)
(* as in the code, a shift being a division and a mask a remainder; a      *)
(* frame is the bits of the bytes written, from the high end of each byte, *)
(* and the number of them that count.  Codes are any numbers: nobody looks *)
(* at their size, and each encoder takes the low bits it has room for.     *)
(* The rolling code of somfy and blyss is an argument here; RollingCode    *)
(* says where it comes from.                                               *)
(***************************************************************************)
EXTENDS Integers, Sequences, SequencesExt, FiniteSetsExt, Ook

Bit(x, i)            == (x \div 2^i) % 2
Field(x, low, width) == (x \div 2^low) % 2^width
SumOf(Term(_), n)    == MapThenSumSet(Term, 0 .. n - 1)

ByteBits(b)   == [n \in 1 .. 8 |-> Bit(b, 8 - n)]
BitsOf(bytes) == FlattenSeq([n \in 1 .. Len(bytes) |-> ByteBits(bytes[n])])

Frame(bits, bit_count) == [bits |-> bits, bit_count |-> bit_count]
Refused == Frame(<< >>, -1)     \* format_cmd() returned -1

\* The command field; a command without one is not supported.
RawCmd(protocol) ==
    CASE protocol = "otax"    -> [OFF |-> 1, ON |-> 4]
      [] protocol = "dio"     -> [OFF |-> 0, ON |-> 1, GOFF |-> 2, GON |-> 3]
      [] protocol = "he"      -> [OFF |-> 0, ON |-> 16]
      [] protocol = "idk"     -> [ON |-> 0]
      [] protocol = "sumtech" -> [OFF |-> 0, ON |-> 1]
      [] protocol = "auchan"  -> [OFF |-> 1, ON |-> 0]
      [] protocol = "auchan2" -> [OFF |-> 0, ON |-> 1, GOFF |-> 2, GON |-> 3]
      [] protocol = "somfy"   -> [OFF |-> 4, ON |-> 2, PROG |-> 8, F1 |-> 1]
      [] protocol = "blyss"   -> [OFF |-> 1, ON |-> 0, GOFF |-> 1, GON |-> 0]

\* Two bits for each of the low width bits of a code.
Spread(code, width, zero, one) ==
    SumOf(LAMBDA i : (IF Bit(code, i) = 1 THEN one ELSE zero) * 4^i, width)

Otax(remote, device, raw_cmd) ==
    LET raw_remote == Spread(remote, 5, 1, 3)
        raw_device == Spread(device, 5, 1, 0)
    IN  Frame(BitsOf(<<Field(raw_remote, 2, 8),
                       Field(raw_remote, 0, 2) * 64 + Field(raw_device, 4, 6),
                       Field(raw_device, 0, 4) * 16 + raw_cmd, 0>>), 25)

Dio(remote, device, raw_cmd) ==
    LET buf == <<Field(remote, 18, 8), Field(remote, 10, 8), Field(remote, 2, 8),
                 Field(remote, 0, 2) * 64 + raw_cmd * 16 + Field(device, 0, 4)>>
        Manchester(b) == <<Spread(b \div 16, 4, 1, 2), Spread(b % 16, 4, 1, 2)>>
    IN  Frame(BitsOf(FlattenSeq([n \in 1 .. 4 |-> Manchester(buf[n])])), 64)

\* Five-bit words for nibbles; t64 has one bit more than eight words of seven.
tb_fx == <<7, 11, 13, 14, 19, 21, 22, 25, 26, 28, 3, 5, 6, 9, 10, 12>>

HomeEasy(device, raw_cmd) ==
    LET buf     == <<0, Field(device, 8, 8), Field(device, 0, 8), raw_cmd>>
        gbuf(n) == IF n % 2 = 0 THEN buf[n \div 2 + 1] \div 16 ELSE buf[n \div 2 + 1] % 16
        kbuf(n) == Tail(ByteBits(tb_fx[gbuf(n) + 1] + 64))
    IN  Frame(<<1>> \o FlattenSeq([n \in 1 .. 8 |-> kbuf(n - 1)]) \o [n \in 1 .. 7 |-> 0], 57)

\* raw_device_code is a uint8_t: only four of the eight bits looked at stay.
Idk(device) == Frame(BitsOf(<<Spread(device, 8, 1, 3) % 256, 85, 85, 85>>), 25)

Sumtech(remote, device, raw_cmd) ==
    Frame(BitsOf(<<Field(remote, 16, 8), Field(remote, 8, 8), Field(remote, 0, 8),
                   raw_cmd * 128 + Field(device, 0, 7)>>), 32)

Auchan(remote, device, raw_cmd) ==
    Frame(BitsOf(<<Field(remote, 12, 8), Field(remote, 4, 8),
                   Field(remote, 0, 4) * 16 + Field(device, 0, 3) * 2 + raw_cmd, 0>>), 25)

\* The parities of the even and the odd bits of the first 19.
Auchan2(remote, device, raw_cmd) ==
    LET data == <<Field(remote, 5, 8),
                  Field(remote, 0, 5) * 8 + Bit(device, 0) * 4 + Bit(device, 1) * 2 + raw_cmd \div 2,
                  (raw_cmd % 2) * 128>>
        crc(k) == SumOf(LAMBDA i : IF i % 2 = k THEN BitsOf(data)[i + 1] ELSE 0, 19) % 2
    IN  Frame(BitsOf([data EXCEPT ![3] = @ + (crc(0) + 2 * crc(1)) * 8]), 21)

-----------------------------------------------------------------------------
(***************************************************************************)
(* Somfy makes a RAW frame itself: ten frames of seven bytes, each byte    *)
(* mixed with the one before, one bit being two periods of 625 us.         *)
(***************************************************************************)
Xor(a, b) == SumOf(LAMBDA i : ((Bit(a, i) + Bit(b, i)) % 2) * 2^i, 8)

Checksum(data) == FoldLeft(LAMBDA sum, b : Xor(Xor(sum, b), b \div 16), 0, data) % 16

MixedPlain(data) ==     \* mutant: with the byte before as it was
    [n \in 1 .. Len(data) |-> IF n = 1 THEN data[1] ELSE Xor(data[n], data[n - 1])]
Mixed(data) ==
    LET mixed[n \in 1 .. Len(data)] == IF n = 1 THEN data[1] ELSE Xor(data[n], mixed[n - 1])
    IN  mixed

SomfyData(rolling_code, key, address, command) ==
    LET data == <<Field(key, 0, 8), command * 16, Field(rolling_code, 8, 8), Field(rolling_code, 0, 8),
                  Field(address, 0, 8), Field(address, 8, 8), Field(address, 16, 8)>>
    IN  BitsOf(Mixed([data EXCEPT ![2] = @ + Checksum(data)]))

High(n) == Segment(1, n)
Low(n)  == Segment(0, n)

WritePulses(pulses) == Repeat(<<High(4), Low(4)>>, pulses) \o <<High(8), Low(1)>>
WriteData(bits) ==
    FlattenSeq([n \in 1 .. Len(bits) |->
        IF bits[n] = 1 THEN <<High(1), Low(1)>> ELSE <<Low(1), High(1)>>])

SOMFY_FRAME_COUNT == 10

Somfy(remote, device, raw_cmd, rolling_code) ==
    LET data     == Signal(WriteData(SomfyData(rolling_code, remote, device, raw_cmd)))
        start(i) == IF i = 1 THEN <<High(16), Low(12)>> \o WritePulses(2) ELSE WritePulses(7)
    IN  Frame(FlattenSeq([i \in 1 .. SOMFY_FRAME_COUNT |->
                             Signal(start(i)) \o data \o Signal(<<Low(48)>>)]),
              213 + (SOMFY_FRAME_COUNT - 1) * 225)

\* A group command is one to device 0; the first bits of the remote code are a channel.
rolling_code_table == <<152, 218, 30, 230, 103>>

Blyss(remote, device, raw_cmd, rolling_code_idx) ==
    LET code      == rolling_code_table[rolling_code_idx + 1]
        timestamp == 255 - code
    IN  Frame(BitsOf(<<254,
                       Field(remote, 16, 4) * 16 + Field(remote, 12, 4),
                       Field(remote, 4, 8),
                       Field(remote, 0, 4) * 16 + Field(device, 0, 4),
                       raw_cmd * 16 + code \div 16,
                       (code % 16) * 16 + timestamp \div 16,
                       (timestamp % 16) * 16>>), 52)

BlyssDevice(device, command) == IF command \in {"GOFF", "GON"} THEN 0 ELSE device

(***************************************************************************)
(* format_cmd() of a protocol for cmd = [protocol, remote, device,         *)
(* command, rolling_code].                                                 *)
(***************************************************************************)
FormatCmd(cmd) ==
    LET p == cmd.protocol  r == cmd.remote  d == cmd.device
        raw_cmd == RawCmd(p)[cmd.command]
    IN  IF cmd.command \notin DOMAIN RawCmd(p)
          THEN Refused
          ELSE CASE p = "otax"    -> Otax(r, d, raw_cmd)
                 [] p = "dio"     -> Dio(r, d, raw_cmd)
                 [] p = "he"      -> HomeEasy(d, raw_cmd)
                 [] p = "idk"     -> Idk(d)
                 [] p = "sumtech" -> Sumtech(r, d, raw_cmd)
                 [] p = "auchan"  -> Auchan(r, d, raw_cmd)
                 [] p = "auchan2" -> Auchan2(r, d, raw_cmd)
                 [] p = "somfy"   -> Somfy(r, d, raw_cmd, cmd.rolling_code)
                 [] p = "blyss"   -> Blyss(r, BlyssDevice(d, cmd.command), raw_cmd, cmd.rolling_code)
=============================================================================
