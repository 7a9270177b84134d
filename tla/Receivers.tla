----------------------------- MODULE Receivers -----------------------------
(***************************************************************************)
(* The receivers, as the comments of the encoders describe what they       *)
(* expect: each takes a frame apart into the codes and the command it      *)
(* carries, checking everything in it that is fixed or redundant.  The     *)
(* encoders are compared with this; nothing here models code of rf-ctrl.   *)
(***************************************************************************)
EXTENDS Encoders

Number(s)    == FoldLeft(LAMBDA n, b : 2 * n + b, 0, s)
Value(b, from, to) == Number(SubSeq(b, from, to))
Firsts(s)    == [n \in 1 .. Len(s) \div 2 |-> s[2 * n - 1]]
Seconds(s)   == [n \in 1 .. Len(s) \div 2 |-> s[2 * n]]
All(s, b)    == \A n \in 1 .. Len(s) : s[n] = b
Parity(s)    == FoldLeft(LAMBDA n, b : (n + b) % 2, 0, s)

\* Group commands of blyss are told by the device code, not by the command.
CommandOf(protocol, raw) ==
    LET table == RawCmd(protocol)
    IN  CHOOSE c \in DOMAIN table :
            table[c] = raw /\ (protocol = "blyss" => c \in {"ON", "OFF"})

Content(protocol, remote, device, raw, rolling_code) ==
    [remote |-> remote, device |-> device, command |-> CommandOf(protocol, raw),
     rolling_code |-> rolling_code]

\* "0 -> 01, 1 -> 11" for the remote code, "0 -> 01, 1 -> 00" for the device code
OtaxHeard(b) ==
    [valid |-> /\ All(Seconds(SubSeq(b, 1, 10)), 1) /\ All(Firsts(SubSeq(b, 11, 20)), 0)
               /\ b[25] = 0,
     content |-> Content("otax", Number(Firsts(SubSeq(b, 1, 10))),
                         31 - Number(Seconds(SubSeq(b, 11, 20))), Value(b, 21, 24), 0)]

\* Manchester: each bit is followed by its complement.
DioHeard(b) ==
    LET s == Firsts(b)
    IN  [valid |-> \A n \in 1 .. 32 : b[2 * n - 1] # b[2 * n],
         content |-> Content("dio", Value(s, 1, 26), Value(s, 29, 32), Value(s, 27, 28), 0)]

HomeEasyHeard(b) ==
    LET word(n)   == SubSeq(b, 7 * n + 2, 7 * n + 8)
        nibble(n) == (CHOOSE i \in 1 .. 16 : tb_fx[i] = Value(word(n), 3, 7)) - 1
    IN  [valid |-> /\ b[1] = 1 /\ \A n \in 0 .. 7 : Value(word(n), 1, 2) = 2
                   /\ \A n \in {0, 1, 7} : nibble(n) = 0,
         content |-> Content("he", 0,
                         nibble(2) * 4096 + nibble(3) * 256 + nibble(4) * 16 + nibble(5),
                         nibble(6) * 16, 0)]

IdkHeard(b) ==
    [valid |-> All(Seconds(SubSeq(b, 1, 24)), 1) /\ All(Firsts(SubSeq(b, 9, 24)), 0) /\ b[25] = 0,
     content |-> Content("idk", 0, Number(Firsts(SubSeq(b, 1, 8))), 0, 0)]

SumtechHeard(b) ==
    [valid |-> TRUE,
     content |-> Content("sumtech", Value(b, 1, 24), Value(b, 26, 32), b[25], 0)]

AuchanHeard(b) ==
    [valid |-> b[25] = 0,
     content |-> Content("auchan", Value(b, 1, 20), Value(b, 21, 23), b[24], 0)]

\* "2 bits XOR of the frame by 2-bits steps (the first bit of the frame will be alone)"
Auchan2Heard(b) ==
    [valid |-> Parity(Firsts(SubSeq(b, 1, 20)) \o <<b[21]>>) = 0 /\ Parity(Seconds(SubSeq(b, 1, 20))) = 0,
     content |-> Content("auchan2", Value(b, 1, 13), b[15] * 2 + b[14], Value(b, 16, 17), 0)]

BlyssHeard(b) ==
    [valid |-> /\ Value(b, 1, 8) = 254 /\ Value(b, 45, 52) = 255 - Value(b, 37, 44)
               /\ \E i \in 1 .. 5 : rolling_code_table[i] = Value(b, 37, 44),
     content |-> Content("blyss", Value(b, 9, 28), Value(b, 29, 32), Value(b, 33, 36),
                         (CHOOSE i \in 1 .. 5 : rolling_code_table[i] = Value(b, 37, 44)) - 1)]

(***************************************************************************)
(* Somfy: a big pulse and two small ones, then seven for each repetition;  *)
(* the sync pulse ends in the only low of one period before the data.  All *)
(* ten frames have to say the same.                                        *)
(***************************************************************************)
SomfyFrom(i)      == IF i = 1 THEN 54 ELSE 213 + (i - 2) * 225 + 66
SomfyPairs(b, i)  == SubSeq(b, SomfyFrom(i), SomfyFrom(i) + 111)
SomfyBytes(pairs) == [n \in 1 .. 7 |-> Value(Firsts(pairs), 8 * n - 7, 8 * n)]

SomfyAgree(b, mixed) ==
    \A i \in 1 .. 10 : /\ SomfyBytes(SomfyPairs(b, i)) = mixed
                       /\ \A n \in 1 .. 56 : SomfyPairs(b, i)[2 * n - 1] # SomfyPairs(b, i)[2 * n]
                       /\ Value(b, SomfyFrom(i) - 9, SomfyFrom(i) - 1) = 510

Unmixed(mixed)  == [n \in 1 .. 7 |-> IF n = 1 THEN mixed[1] ELSE Xor(mixed[n], mixed[n - 1])]
NibbleSum(data) == FoldLeft(LAMBDA sum, byte : Xor(sum, Xor(byte \div 16, byte % 16)), 0, data)

SomfyHeard(b) ==
    LET mixed == SomfyBytes(SomfyPairs(b, 1))
        data  == Unmixed(mixed)
    IN  [valid |-> SomfyAgree(b, mixed) /\ NibbleSum(data) = 0,
         content |-> Content("somfy", data[1], data[5] + 256 * data[6] + 65536 * data[7],
                             data[2] \div 16, data[3] * 256 + data[4])]

Heard(protocol, b) ==
    CASE protocol = "otax"    -> OtaxHeard(b)    [] protocol = "dio"     -> DioHeard(b)
      [] protocol = "he"      -> HomeEasyHeard(b) [] protocol = "idk"    -> IdkHeard(b)
      [] protocol = "sumtech" -> SumtechHeard(b) [] protocol = "auchan"  -> AuchanHeard(b)
      [] protocol = "auchan2" -> Auchan2Heard(b) [] protocol = "somfy"   -> SomfyHeard(b)
      [] protocol = "blyss"   -> BlyssHeard(b)

\* How many bits of the remote and of the device code a format has room for.
CodeBits == [otax |-> <<5, 5>>, dio |-> <<26, 4>>, he |-> <<0, 16>>, idk |-> <<0, 4>>,
             sumtech |-> <<24, 7>>, auchan |-> <<20, 3>>, auchan2 |-> <<13, 2>>,
             somfy |-> <<8, 24>>, blyss |-> <<20, 4>>]

\* The command as far as its format has room for it.
Carried(cmd) ==
    LET bits == CodeBits[cmd.protocol]
    IN  [cmd EXCEPT !.remote = @ % 2^bits[1], !.device = @ % 2^bits[2]]

\* What a command says; a group has no device.
Meant(cmd) ==
    LET group == cmd.protocol = "blyss" /\ cmd.command \in {"GOFF", "GON"}
    IN  [remote  |-> cmd.remote,
         device  |-> IF group THEN 0 ELSE cmd.device,
         command |-> IF ~ group THEN cmd.command ELSE IF cmd.command = "GON" THEN "ON" ELSE "OFF",
         rolling_code |-> IF cmd.protocol \in {"somfy", "blyss"} THEN cmd.rolling_code ELSE 0]

(***************************************************************************)
(* The frame says what was meant: a receiver recovers the command and of   *)
(* the codes every bit there is room for, from exactly the bits that       *)
(* count, and it hears nothing else of the codes: what does not fit is     *)
(* dropped, and does not get into other fields.                            *)
(***************************************************************************)
Carries(frame, cmd) ==
    /\ frame.bit_count <= Len(frame.bits)
    /\ LET heard == Heard(cmd.protocol, SubSeq(frame.bits, 1, frame.bit_count))
       IN  heard.valid /\ heard.content = Meant(Carried(cmd))
=============================================================================
