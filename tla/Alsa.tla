-------------------------------- MODULE Alsa --------------------------------
(***************************************************************************)
(* The ALSA driver (alsa.c), which plays RAW frames on the right channel   *)
(* of a sound card, after the conversion of RawFrame: a frame becomes an   *)
(* array of samples at the sample rate the driver believes in, and only    *)
(* then is the card configured, which may settle on another rate for the   *)
(* commands to come.  A scan sends its commands on one open device, all    *)
(* with the timings of one protocol; here they have the same frame too.    *)
(* The sound library is modelled from this use of it.  Rates are in        *)
(* hundreds of Hz, which keeps products below 2^31.                        *)
(***************************************************************************)
EXTENDS RawFrame

CONSTANTS
    Rates,          \* what cards may make of a request for 48000 Hz
    MaxCommands     \* commands of a scan

ASSUME AlsaAssumption == Rates \subseteq 1 .. 1920 /\ MaxCommands \in Nat

VARIABLES
    samplerate,     \* what the driver believes in; kept between commands
    card,           \* what the card does; 0 before it was asked
    audio,          \* the array: samples per bit and in all
    sound,          \* "idle", "converted", "configured", "played", "failed"
    commands        \* commands played

alsa     == <<samplerate, card, audio, sound, commands>>
alsaVars == <<vars, alsa>>

DefaultRate == 480
CHANNELS    == 2
MIN_SAMPLES == 16000

AlsaInit ==
    /\ Init
    /\ samplerate = DefaultRate /\ card = 0
    /\ audio = [samples_per_bit |-> 0, sample_count |-> 0]
    /\ sound = "idle" /\ commands = 0

-----------------------------------------------------------------------------
\* round(base_time * samplerate / 1000000).  The product is of 32 bits; with the
\* rate in hundreds of Hz it is a multiple of four, and counted in fours here.
Product(rate) == (25 * (base_time * rate)) % 1073741824      \* 2^32 \div 4

SamplesPerBitTruncated(rate) == Product(rate) \div 250000     \* mutant: not rounded
SamplesPerBit(rate) == (Product(rate) + 125000) \div 250000

SamplesPerFrame(per_bit) == count * per_bit * CHANNELS

SampleCountOfFrame(per_bit) ==      \* mutant: of one repetition
    Max({SamplesPerFrame(per_bit), MIN_SAMPLES})
SampleCount(per_bit) ==
    Max({SamplesPerFrame(per_bit) * config.frame_count, MIN_SAMPLES})

(***************************************************************************)
(* alsa_convert_frame_to_audio(): sample j of bit i of repetition k.  A    *)
(* conversion that failed is not followed here: its length of 65535 makes  *)
(* the loop read past the end of the frame.                                *)
(***************************************************************************)
SampleIndex(k, i, j) ==
    k * SamplesPerFrame(audio.samples_per_bit) + 2 * (i * audio.samples_per_bit + j) + 1

Convert ==
    /\ stage \in {"done", "handed"} /\ count <= BufferBits /\ sound = "idle"
    /\ stage' = "handed"
    /\ \/ LET per_bit == SamplesPerBit(samplerate)
          IN  /\ audio' = [samples_per_bit |-> per_bit, sample_count |-> SampleCount(per_bit)]
              /\ sound' = "converted"
       \/ sound' = "failed" /\ UNCHANGED audio      \* no memory
    /\ UNCHANGED <<args, base_time, len, estimate, frame, count, samplerate, card, commands>>

(***************************************************************************)
(* alsa_configure_device(): the rate is written back by the library, and   *)
(* stays even if a later step fails; any step may.                         *)
(***************************************************************************)
RateUnchanged(rate) == samplerate     \* mutant: the library is given a copy
RateWrittenBack(rate) == rate

Configure ==
    /\ sound = "converted"
    /\ \/ /\ card' \in IF card = 0 THEN Rates ELSE {card}
          /\ samplerate' = RateWrittenBack(card')
          /\ sound' \in {"configured", "failed"}
       \/ sound' = "failed" /\ UNCHANGED <<card, samplerate>>
    /\ UNCHANGED <<vars, audio, commands>>

\* alsa_write_audio() says 0 whether or not all was written.
Play ==
    /\ sound = "configured"
    /\ sound' = "played" /\ commands' = commands + 1
    /\ UNCHANGED <<vars, samplerate, card, audio>>

\* A scan goes on, whatever became of this command.
NextCommand ==
    /\ sound \in {"played", "failed"} /\ commands < MaxCommands
    /\ sound' = "idle"
    /\ UNCHANGED <<vars, samplerate, card, audio, commands>>

AlsaNext ==
    \/ Next /\ UNCHANGED alsa
    \/ Convert \/ Configure \/ Play \/ NextCommand

AlsaSpec == AlsaInit /\ [][AlsaNext]_alsaVars

-----------------------------------------------------------------------------
(***************************************************************************)
(* The samples of every bit of every repetition are within the array, and  *)
(* the repetitions do not run into each other (alsa.c:205-236).            *)
(***************************************************************************)
SamplesInBounds ==
    sound = "converted" =>
        LET last == audio.samples_per_bit - 1
        IN  \A k \in 0 .. config.frame_count - 1 :
               /\ SampleIndex(k, count - 1, last) < audio.sample_count
               /\ SampleIndex(k, count - 1, last) < SampleIndex(k + 1, 0, 0)

(***************************************************************************)
(* Once the card has told its rate, or if it plays at the 48000 Hz assumed *)
(* before, what is played is what was meant: each bit lasts its base time  *)
(* to within half a sample.  On other cards the first command, the only    *)
(* one outside of a scan, is played too slow or too fast; and at base      *)
(* times so long that the product of alsa.c:209 does not fit its 32 bits   *)
(* every command is too short.                                             *)
(***************************************************************************)
ProductFits(rate) == base_time * rate <= 42949672       \* 2^32 \div 100

PlayedOnTime ==
    sound = "played" /\ (commands > 1 \/ card = DefaultRate) /\ ProductFits(card) =>
        LET played == audio.samples_per_bit * 10000      \* 10000 to a sample
            meant  == base_time * card
        IN  played <= meant + 5000 /\ meant <= played + 5000
=============================================================================
