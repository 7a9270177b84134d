---------------------------- MODULE OokGpioText ----------------------------
(***************************************************************************)
(* The text a frame is handed to the ook-gpio kernel module in: its length *)
(* in bits and its bytes in decimal, separated by commas, put together in  *)
(* a string whose size ook_gpio_send_frame() computes beforehand.          *)
(***************************************************************************)
EXTENDS Integers, Sequences, SequencesExt, FiniteSets, FiniteSetsExt

ByteCount(bit_count) == (bit_count + 7) \div 8

\* The nth byte; bits never written have the value of padding.
ByteOf(bits, n, padding) ==
    LET bit(k) == IF 8 * (n - 1) + k <= Len(bits) THEN bits[8 * (n - 1) + k] ELSE padding
    IN  128 * bit(1) + 64 * bit(2) + 32 * bit(3) + 16 * bit(4)
          + 8 * bit(5) + 4 * bit(6) + 2 * bit(7) + bit(8)

Digits(n) == Cardinality({d \in {0, 10, 100, 1000, 10000} : d <= n})

StrSizeNoCount(bit_count) == 4 * ByteCount(bit_count)   \* mutant: the length is forgotten
StrSize(bit_count) == 4 * (ByteCount(bit_count) + 1)

\* Characters of "count,byte,byte..." and the final zero.
TextSize(bits, bit_count, padding) ==
    LET bytes   == 1 .. ByteCount(bit_count)
        digit   == {0, 10, 100}     \* a byte has one for each it reaches
        printed == {c \in bytes \X digit : ByteOf(bits, c[1], padding) >= c[2]}
    IN  Digits(bit_count) + Cardinality(bytes) + Cardinality(printed) + 1

TextFits(bits, bit_count) ==
    \A padding \in {0, 1} : TextSize(bits, bit_count, padding) <= StrSize(bit_count)
=============================================================================
