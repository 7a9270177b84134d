------------------------------ MODULE Options ------------------------------
(***************************************************************************)
(* How rf-ctrl turns its configuration file and its command line into the  *)
(* settings of one invocation: parse_config_file(), the getopt_long() loop *)
(* of main() and the missing-argument check that ends it (rf-ctrl.c).      *)
(*                                                                         *)
(* Lines of the file and options of the command line may come in any       *)
(* number and any order, so each handler is an action and an argument is   *)
(* the integer its conversion (strtoul(), or the look-up of a name, -1     *)
(* when there is no such name) delivers.  -v only changes what is printed  *)
(* and is left out.                                                        *)
(***************************************************************************)
EXTENDS Integers, FiniteSets

CONSTANTS
    NumProtos,      \* ARRAY_SIZE(protocol_drivers)
    NumHw,          \* ARRAY_SIZE(hardware_drivers)
    RF_CMD_MAX,     \* number of commands
    U32,            \* number of values of a uint32_t
    NeededParams,   \* protocol -> the parameters its driver declares needed
    HwArgs,         \* arguments of HARDWARE and -H, converted to int
    ProtoArgs,      \* arguments of -p, converted to int
    CommandArgs,    \* arguments of -c, converted to int
    CodeArgs,       \* arguments of -r and -d, as strtoul() returns them
    NframeArgs,     \* arguments of -n, converted to int
    AccuracyArgs,   \* arguments of RAW_ACCURACY and -a, as strtoul() returns them
    GpioArgs        \* arguments of GPIO and -g, as strtoul() returns them

Protocols == 0 .. NumProtos - 1
Drivers   == 0 .. NumHw - 1
Commands  == 0 .. RF_CMD_MAX - 1
Codes     == 0 .. U32 - 1
Byte      == 0 .. 255

CodeParams == {"protocol", "remote", "device", "command"}
Params     == CodeParams \cup {"hardware", "scan", "nframe", "accuracy", "raw", "gpio"}

ASSUME ProtocolAssumption ==
    /\ NumProtos \in Nat \ {0}
    /\ NeededParams \in [Protocols -> SUBSET {"remote", "device", "command"}]
    /\ \A p \in Protocols : "command" \in NeededParams[p]
ASSUME TableAssumption == NumHw \in Nat \ {0} /\ RF_CMD_MAX \in Nat \ {0}
ASSUME WidthAssumption == U32 \in Nat \ {0}
ASSUME ArgsAssumption ==
    /\ HwArgs \cup ProtoArgs \cup CommandArgs \cup NframeArgs \subseteq Int
    /\ CodeArgs \cup AccuracyArgs \cup GpioArgs \subseteq Nat

VARIABLES
    phase,   \* "config", "options", "select", then the phases of RfCtrl, "exited"
    ret,     \* the exit status, 0 or -1
    opt,     \* the locals of main(), raw_fallback_accuracy and hw_params.gpio
    asked    \* history: the protocols given with -p

optVars == <<phase, ret, opt, asked>>

DEFAULT_RAW_FALLBACK_ACCURACY == 90
Undefined == -1     \* hw_params.gpio before anything is stored in it

OptInit ==
    /\ phase = "config"
    /\ ret = 0
    /\ opt = [hw |-> -1, protocol |-> -1, command |-> -1, nframe |-> -1,
              remote_id |-> 0, device_id |-> 0, gpio |-> Undefined,
              accuracy |-> DEFAULT_RAW_FALLBACK_ACCURACY,
              provided |-> {}, needed |-> CodeParams]
    /\ asked = {}

(***************************************************************************)
(* The uint8_t a number is stored in, and the exits of main().             *)
(***************************************************************************)
ToByte(n) == n % 256

Exit(status) ==
    /\ phase' = "exited"
    /\ ret' = status
    /\ UNCHANGED <<opt, asked>>

Stay == UNCHANGED <<phase, ret>>

(***************************************************************************)
(* parse_config_file(): one action per recognised field.  A driver outside *)
(* the table is reported but stays in hw; only FORCE_RAW = TRUE has an     *)
(* effect; an accuracy over 100 is reported but stays stored.              *)
(***************************************************************************)
ConfigHardware(h) ==
    /\ phase = "config"
    /\ opt' = [opt EXCEPT !.hw = h,
                          !.provided = IF h \in Drivers THEN @ \cup {"hardware"} ELSE @]
    /\ Stay /\ UNCHANGED asked

ConfigGpio(g) ==
    /\ phase = "config"
    /\ opt' = [opt EXCEPT !.gpio = ToByte(g), !.provided = @ \cup {"gpio"}]
    /\ Stay /\ UNCHANGED asked

ConfigRaw ==
    /\ phase = "config"
    /\ opt' = [opt EXCEPT !.provided = @ \cup {"raw"}]
    /\ Stay /\ UNCHANGED asked

ConfigAccuracy(a) ==
    /\ phase = "config"
    /\ opt' = [opt EXCEPT !.accuracy = ToByte(a),
                          !.provided = IF ToByte(a) <= 100 THEN @ \cup {"accuracy"} ELSE @]
    /\ Stay /\ UNCHANGED asked

EndConfig ==
    /\ phase = "config"
    /\ phase' = "options"
    /\ UNCHANGED <<ret, opt, asked>>

(***************************************************************************)
(* The options.  An argument outside its table ends the program with -1.   *)
(***************************************************************************)
OptHardware(h) ==
    /\ phase = "options"
    /\ \/ /\ h \in Drivers
          /\ opt' = [opt EXCEPT !.hw = h, !.provided = @ \cup {"hardware"}]
          /\ Stay /\ UNCHANGED asked
       \/ h \notin Drivers /\ Exit(-1)

\* What a protocol leaves needed of what was needed before.
NarrowNeeded(needed, p) == needed \cap ({"protocol"} \cup NeededParams[p])

OptProtocol(p) ==
    /\ phase = "options"
    /\ \/ /\ p \in Protocols
          /\ opt' = [opt EXCEPT !.protocol = p,
                                !.needed = NarrowNeeded(@, p),
                                !.provided = @ \cup {"protocol"}]
          /\ asked' = asked \cup {p}
          /\ Stay
       \/ p \notin Protocols /\ Exit(-1)

OptRemote(c) ==
    /\ phase = "options"
    /\ opt' = [opt EXCEPT !.remote_id = c % U32, !.provided = @ \cup {"remote"}]
    /\ Stay /\ UNCHANGED asked

OptDevice(c) ==
    /\ phase = "options"
    /\ opt' = [opt EXCEPT !.device_id = c % U32, !.provided = @ \cup {"device"}]
    /\ Stay /\ UNCHANGED asked

ValidCommandMax(c) == c \in 0 .. RF_CMD_MAX     \* mutant: > for >=
ValidCommand(c) == c \in Commands

OptCommand(c) ==
    /\ phase = "options"
    /\ \/ /\ ValidCommand(c)
          /\ opt' = [opt EXCEPT !.command = c, !.provided = @ \cup {"command"}]
          /\ Stay /\ UNCHANGED asked
       \/ ~ ValidCommand(c) /\ Exit(-1)

\* What -s leaves needed.
ScanNeeded(needed) == needed \ {"protocol", "remote", "device"}

OptScan ==
    /\ phase = "options"
    /\ opt' = [opt EXCEPT !.provided = @ \cup {"scan"}, !.needed = ScanNeeded(@)]
    /\ Stay /\ UNCHANGED asked

OptNframe(n) ==
    /\ phase = "options"
    /\ opt' = [opt EXCEPT !.nframe = n, !.provided = @ \cup {"nframe"}]
    /\ Stay /\ UNCHANGED asked

OptAccuracy(a) ==
    /\ phase = "options"
    /\ \/ /\ ToByte(a) <= 100
          /\ opt' = [opt EXCEPT !.accuracy = ToByte(a), !.provided = @ \cup {"accuracy"}]
          /\ Stay /\ UNCHANGED asked
       \/ ToByte(a) > 100 /\ Exit(-1)

OptRaw ==
    /\ phase = "options"
    /\ opt' = [opt EXCEPT !.provided = @ \cup {"raw"}]
    /\ Stay /\ UNCHANGED asked

OptGpio(g) ==
    /\ phase = "options"
    /\ opt' = [opt EXCEPT !.gpio = ToByte(g), !.provided = @ \cup {"gpio"}]
    /\ Stay /\ UNCHANGED asked

OptHelp == phase = "options" /\ Exit(0)         \* -h
OptBad  == phase = "options" /\ Exit(-1)        \* an option getopt_long() rejects

\* The command line is exhausted: are the parameters still needed all there?
MissingButRemote == opt.needed \ (opt.provided \cup {"remote"})   \* mutant
Missing == opt.needed \ opt.provided

EndOptions ==
    /\ phase = "options"
    /\ \/ Missing = {} /\ phase' = "select" /\ UNCHANGED <<ret, opt, asked>>
       \/ Missing # {} /\ Exit(-1)

OptNext ==
    \/ \E h \in HwArgs : ConfigHardware(h) \/ OptHardware(h)
    \/ \E g \in GpioArgs : ConfigGpio(g) \/ OptGpio(g)
    \/ \E a \in AccuracyArgs : ConfigAccuracy(a) \/ OptAccuracy(a)
    \/ \E p \in ProtoArgs : OptProtocol(p)
    \/ \E c \in CodeArgs : OptRemote(c) \/ OptDevice(c)
    \/ \E c \in CommandArgs : OptCommand(c)
    \/ \E n \in NframeArgs : OptNframe(n)
    \/ ConfigRaw \/ EndConfig
    \/ OptScan \/ OptRaw \/ OptHelp \/ OptBad \/ EndOptions

OptSpec == OptInit /\ [][OptNext]_optVars

-----------------------------------------------------------------------------
OptTypeOK ==
    /\ ret \in {0, -1}
    /\ opt \in [hw : Int, protocol : Protocols \cup {-1}, command : Commands \cup {-1},
                nframe : Int, remote_id : Codes, device_id : Codes,
                gpio : Byte \cup {Undefined}, accuracy : Byte,
                provided : SUBSET Params, needed : SUBSET CodeParams]
    /\ asked \subseteq Protocols

Parsed == phase \notin {"config", "options", "exited"}

(***************************************************************************)
(* When parsing succeeds every value main() goes on to use has been set:   *)
(* the command is one of rf_command_t (it indexes rf_command_str and is    *)
(* never missing, with or without -s and in whatever order the options     *)
(* came), the protocol is in the table unless the scan chooses it, and a   *)
(* GPIO number exists when one is announced to the driver.                 *)
(***************************************************************************)
DefinedArgs ==
    Parsed => /\ opt.command \in Commands
              /\ "scan" \notin opt.provided => opt.protocol \in Protocols
              /\ "gpio" \in opt.provided => opt.gpio # Undefined

(***************************************************************************)
(* A single-command invocation whose -p options all name one protocol has  *)
(* been given everything that protocol declares needed.  (A repeated -p    *)
(* may leave out what only the last of its protocols needs.)               *)
(***************************************************************************)
NeededWereProvided ==
    Parsed /\ "scan" \notin opt.provided /\ Cardinality(asked) = 1
        => NeededParams[opt.protocol] \subseteq opt.provided
=============================================================================
