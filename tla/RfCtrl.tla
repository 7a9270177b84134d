------------------------------- MODULE RfCtrl -------------------------------
(***************************************************************************)
(* One invocation of rf-ctrl: main() of rf-ctrl.c from the missing-        *)
(* argument check on, with send_cmd() and the drivers' entry points as     *)
(* main() sees them.  The parsing of the arguments is module Options.      *)
(*                                                                         *)
(* A driver's probe(), init() and send_cmd() may succeed or fail, and so   *)
(* may the format_cmd() of a protocol that keeps a rolling code in a file, *)
(* and the conversion of a frame to RAW.  What a driver reports is not     *)
(* what it did: one that fails may have transmitted, and one that succeeds *)
(* may have lost a frame or a part of it (modules Alsa, OokGpio, SysfsGpio *)
(* and He853 say how).                                                     *)
(***************************************************************************)
EXTENDS Options

CONSTANTS
    RemoteMax,      \* protocol -> remote_code_max
    DeviceMax,      \* protocol -> device_code_max
    BitFmt,         \* protocol -> timings->bit_fmt
    DefaultFrames,  \* protocol -> timings->frame_count as compiled
    Formattable,    \* protocol -> the commands its format_cmd() knows
    SupportedFmts,  \* driver -> supported_bit_fmts
    NeededHwParams, \* driver -> needed_hw_params
    Probeable,      \* the drivers whose probe() may find a device
    ChecksFmt,      \* the drivers whose send_cmd() refuses formats they do not support
    MayLose         \* the drivers whose send_cmd() may succeed and transmit nothing

Formats == {"HL", "LH", "RAW"}

ASSUME ProtocolTableAssumption ==
    /\ RemoteMax \in [Protocols -> Codes]
    /\ DeviceMax \in [Protocols -> Codes]
    /\ BitFmt \in [Protocols -> Formats]
    /\ DefaultFrames \in [Protocols -> Byte]
    /\ Formattable \in [Protocols -> SUBSET Commands]

ASSUME DriverTableAssumption ==
    /\ SupportedFmts \in [Drivers -> SUBSET Formats]
    /\ NeededHwParams \in [Drivers -> SUBSET Params]
    /\ Probeable \subseteq Drivers
    /\ MayLose \subseteq Drivers
    /\ \A d \in Drivers : "RAW" \in SupportedFmts[d] \/ d \in ChecksFmt

\* The loops of main() count protocols and codes in a uint32_t.
ASSUME ScanAssumption == NumProtos < U32

VARIABLES
    drv,         \* current_hw_driver
    handle,      \* what the driver's init() acquired: "none", "held"
    force_raw,
    i, j, k,     \* the scan's protocol, remote code and device code
    remote_last, device_last,
    frames,      \* protocol -> timings->frame_count
    handed,      \* what the last send_cmd() handed to the driver, if it got there
    air,         \* what the driver then transmitted
    tried        \* history: the <<protocol, remote, device>> handed to send_cmd()

scanVars == <<i, j, k, remote_last, device_last>>
runVars  == <<drv, handle, force_raw, scanVars, frames, handed, air, tried>>
vars     == <<optVars, runVars>>

NoDriver == -1
Silence  == [fmt |-> "none"]

Init ==
    /\ OptInit
    /\ drv = NoDriver /\ handle = "none" /\ force_raw = FALSE
    /\ i = 0 /\ j = 0 /\ k = 0 /\ remote_last = 0 /\ device_last = 0
    /\ frames = DefaultFrames
    /\ handed = Silence /\ air = Silence
    /\ tried = {}

Parse == OptNext /\ UNCHANGED runVars

Given(param) == param \in opt.provided

-----------------------------------------------------------------------------
(***************************************************************************)
(* Selecting the driver, and checking the parameters it needs.             *)
(***************************************************************************)
Fail == phase' = "exited" /\ ret' = -1

HwParamsGiven(d) == NeededHwParams[d] \subseteq opt.provided

UseDriver(d) ==
    /\ drv' = d
    /\ \/ HwParamsGiven(d) /\ phase' = "init" /\ UNCHANGED ret
       \/ ~ HwParamsGiven(d) /\ Fail

SelectDriver ==
    /\ phase = "select"
    /\ \/ opt.hw < 0 /\ \E d \in Probeable : UseDriver(d)
       \/ opt.hw \in Drivers /\ UseDriver(opt.hw)
       \/ (opt.hw < 0 \/ opt.hw >= NumHw) /\ Fail /\ UNCHANGED drv
    /\ UNCHANGED <<opt, asked, handle, force_raw, scanVars, frames, handed, air, tried>>

(***************************************************************************)
(* init(): a failure may leave part of what it acquired behind (an         *)
(* exported GPIO); main() then goes to its exit label, with the driver's   *)
(* result as exit status.  The bounds of the scan are set on the way into  *)
(* its loops.                                                              *)
(***************************************************************************)
CanRaw(d) == "RAW" \in SupportedFmts[d]

FirstProtocol == IF Given("protocol") THEN opt.protocol ELSE 0
LastProtocol  == IF Given("protocol") THEN opt.protocol ELSE NumProtos - 1
FirstRemote   == IF Given("remote") THEN opt.remote_id ELSE 0
FirstDevice   == IF Given("device") THEN opt.device_id ELSE 0

AfterInitFailureReturn == "exited"     \* mutant: return for goto exit
AfterInitFailure == "exit"

InitDriver ==
    /\ phase = "init"
    /\ \/ /\ handle' \in {"none", "held"}
          /\ phase' = AfterInitFailure
          /\ ret' = -1
          /\ UNCHANGED <<force_raw, scanVars>>
       \/ /\ handle' = "held"
          /\ force_raw' = (Given("raw") /\ CanRaw(drv))
          /\ UNCHANGED <<ret, j, k>>
          /\ IF Given("scan")
               THEN /\ phase' = "protocol"
                    /\ i' = FirstProtocol
                    /\ remote_last' = FirstRemote
                    /\ device_last' = FirstDevice
               ELSE phase' = "single" /\ UNCHANGED <<i, remote_last, device_last>>
    /\ UNCHANGED <<opt, asked, drv, frames, handed, air, tried>>

-----------------------------------------------------------------------------
(***************************************************************************)
(* send_cmd(): what goes to the driver, and what comes back.  A frame that *)
(* is RAW already is handed over as it is; an HL or LH frame is converted  *)
(* when the driver does not know its format, or by -R.  A conversion that  *)
(* fails is not noticed: its -1 is handed over as the length of the frame. *)
(***************************************************************************)
MustConvertUnsupported(p) == BitFmt[p] # "RAW" /\ BitFmt[p] \notin SupportedFmts[drv]  \* mutant: -R forgotten
MustConvert(p) == BitFmt[p] # "RAW" /\ (BitFmt[p] \notin SupportedFmts[drv] \/ force_raw)

FormatSent(p) == IF ~ MustConvert(p) THEN BitFmt[p]
                 ELSE IF CanRaw(drv) THEN "RAW" ELSE "none"

DriverRefuses(fmt) == drv \in ChecksFmt /\ fmt \notin SupportedFmts[drv]

MayFormat(p) == opt.command \in Formattable[p]

Frame(p, r, d, count, whole) ==
    [fmt |-> FormatSent(p), protocol |-> p, remote |-> r, device |-> d, frames |-> count,
     whole |-> whole]

\* The storage or the format failed.
NotHandedOver(result) == handed' = Silence /\ air' = Silence /\ result = -1

\* The driver's send_cmd(), which may transmit something else than it was handed.
HandOver(frame, result) ==
    /\ handed' = frame
    /\ \/ air' = Silence /\ (result = -1 \/ (drv \in MayLose /\ ~ DriverRefuses(frame.fmt)))
       \/ /\ ~ DriverRefuses(frame.fmt)
          /\ \E whole \in BOOLEAN : air' = [frame EXCEPT !.whole = @ /\ whole]

SendCmd(p, r, d, count, result) ==
    /\ tried' = tried \cup {<<p, r, d>>}
    /\ \/ NotHandedOver(result)
       \/ /\ MayFormat(p) /\ FormatSent(p) # "none"
          /\ \E whole \in IF MustConvert(p) THEN BOOLEAN ELSE {TRUE} :
                HandOver(Frame(p, r, d, count, whole), result)

\* timings->frame_count is a uint8_t and -n 0, like no -n, leaves it alone.
FrameCountUnstored(p) == IF opt.nframe > 0 THEN opt.nframe ELSE frames[p]   \* mutant: an int
FrameCountFirst(p) == IF opt.nframe > 0 /\ p = FirstProtocol THEN ToByte(opt.nframe)
                      ELSE frames[p]   \* mutant: only where the loop starts
FrameCount(p) == IF opt.nframe > 0 THEN ToByte(opt.nframe) ELSE frames[p]
ForceFrames(p) == frames' = [frames EXCEPT ![p] = FrameCount(p)]

ExitStatusInit(result) == ret       \* mutant: what init() returned
ExitStatus(result) == result

SendSingle ==
    /\ phase = "single"
    /\ ForceFrames(opt.protocol)
    /\ \E result \in {0, -1} :
          /\ SendCmd(opt.protocol, opt.remote_id, opt.device_id, FrameCount(opt.protocol), result)
          /\ ret' = ExitStatus(result)
    /\ phase' = "exit"
    /\ UNCHANGED <<opt, asked, drv, handle, force_raw, scanVars>>

(***************************************************************************)
(* The scan: the three nested loops of main().  Entering a protocol sets   *)
(* the last code of the loops only for the codes that protocol needs, so   *)
(* what an earlier protocol left is used for the others.                   *)
(***************************************************************************)
Needs(p, param) == param \in NeededParams[p]

LastCodeUnforced(param, last, max) == IF Needs(i, param) THEN max ELSE last   \* mutant
LastCode(param, last, max) == IF ~ Given(param) /\ Needs(i, param) THEN max ELSE last

EnterProtocol ==
    /\ phase = "protocol"
    /\ i <= LastProtocol
    /\ ForceFrames(i)
    /\ remote_last' = LastCode("remote", remote_last, RemoteMax[i])
    /\ device_last' = LastCode("device", device_last, DeviceMax[i])
    /\ j' = FirstRemote
    /\ k' = FirstDevice
    /\ phase' = "codes"
    /\ UNCHANGED <<ret, opt, asked, drv, handle, force_raw, i, handed, air, tried>>

\* The successor of a uint32_t, and the loop test.
NextCodeByte(c) == (c + 1) % (U32 \div 2)     \* mutant: a narrower loop variable
NextCode(c) == IF c + 1 = U32 THEN 0 ELSE c + 1
InLoopBelow(c, last) == c < last        \* mutant: < for <=
InLoop(c, last) == c <= last

ScanSend ==
    /\ phase = "codes"
    /\ \E result \in {0, -1} : SendCmd(i, j, k, frames[i], result)    \* not looked at
    /\ \/ /\ InLoop(NextCode(k), device_last)
          /\ k' = NextCode(k) /\ UNCHANGED <<phase, i, j>>
       \/ /\ ~ InLoop(NextCode(k), device_last) /\ InLoop(NextCode(j), remote_last)
          /\ k' = FirstDevice /\ j' = NextCode(j) /\ UNCHANGED <<phase, i>>
       \/ /\ ~ InLoop(NextCode(k), device_last) /\ ~ InLoop(NextCode(j), remote_last)
          /\ i' = i + 1 /\ phase' = "protocol" /\ UNCHANGED <<j, k>>
    /\ UNCHANGED <<ret, opt, asked, drv, handle, force_raw, remote_last, device_last, frames>>

LeaveScan ==
    /\ phase = "protocol"
    /\ i > LastProtocol
    /\ phase' = "exit"
    /\ UNCHANGED <<ret, opt, asked, runVars>>

\* The exit label: close() gives back whatever init() holds.
CloseDriver ==
    /\ phase = "exit"
    /\ handle' = "none"
    /\ phase' = "exited"
    /\ UNCHANGED <<ret, opt, asked, drv, force_raw, scanVars, frames, handed, air, tried>>

Run == SelectDriver \/ InitDriver \/ SendSingle \/ EnterProtocol \/ ScanSend
         \/ LeaveScan \/ CloseDriver

Next == Parse \/ Run

Spec == Init /\ [][Next]_vars

\* Once its arguments are parsed the program runs by itself, and the drivers return.
FairSpec == Spec /\ WF_vars(Run)

-----------------------------------------------------------------------------
Sent == [fmt : Formats, protocol : Protocols, remote : Codes, device : Codes, frames : Byte,
         whole : BOOLEAN]

TypeOK ==
    /\ OptTypeOK
    /\ phase \in {"config", "options", "select", "init", "single", "protocol", "codes",
                  "exit", "exited"}
    /\ drv \in Drivers \cup {NoDriver}
    /\ phase \in {"init", "single", "protocol", "codes", "exit"} => drv \in Drivers
    /\ handle \in {"none", "held"}
    /\ force_raw \in BOOLEAN
    /\ i \in 0 .. NumProtos
    /\ {j, k, remote_last, device_last} \subseteq Codes
    /\ frames \in [Protocols -> Byte]
    /\ {handed, air} \subseteq Sent \cup {Silence}
    /\ tried \subseteq Protocols \X Codes \X Codes

(***************************************************************************)
(* What init() reads of hw_params has been stored in it: a driver that     *)
(* needs a GPIO is only started with the number of one.                    *)
(***************************************************************************)
DriverParamsDefined ==
    phase = "init" /\ "gpio" \in NeededHwParams[drv] => opt.gpio # Undefined

(***************************************************************************)
(* A format reaches the air only through a driver that supports it, native *)
(* RAW protocols included (send_cmd() hands those over without looking),   *)
(* and -R is obeyed by every driver that can send RAW.                     *)
(***************************************************************************)
OnAirFormat ==
    air # Silence => /\ air.fmt \in SupportedFmts[drv]
                     /\ Given("raw") /\ CanRaw(drv) => air.fmt = "RAW"

(***************************************************************************)
(* -n above 0 fixes the number of frames of every command, of all the      *)
(* protocols a scan goes through, to its low byte, so that 256 asks for    *)
(* none; without -n a protocol keeps its own.  -n 0 counts as no -n,       *)
(* although the usage text has 0 among the numbers it offers: "<0-255>     *)
(* Number of frames to send (override per protocol default value)"         *)
(* (rf-ctrl.c:557).                                                        *)
(***************************************************************************)
FramesForced ==
    handed # Silence =>
        handed.frames = IF opt.nframe > 0 THEN ToByte(opt.nframe) ELSE DefaultFrames[handed.protocol]

(***************************************************************************)
(* The brute-force scan is complete: when the loops are left, every        *)
(* protocol allowed has been tried with every code allowed, where allowed  *)
(* means forced by an option or up to the protocol's declared maximum.     *)
(***************************************************************************)
Allowed(param, forced, max, p) ==
    IF Given(param) THEN {forced} ELSE IF Needs(p, param) THEN 0 .. max[p] ELSE {0}

ScanDone == phase = "exit" /\ i > LastProtocol

ScanCovers ==
    ScanDone /\ Given("scan") /\ handle = "held" /\ ret = 0 =>
        \A p \in FirstProtocol .. LastProtocol :
            \A r \in Allowed("remote", opt.remote_id, RemoteMax, p),
               d \in Allowed("device", opt.device_id, DeviceMax, p) :
                   <<p, r, d>> \in tried

(***************************************************************************)
(* "-p, -r and -d can be used to force specific values" (rf-ctrl.c:556),   *)
(* and a code a protocol does use never passes that protocol's maximum,    *)
(* however far an earlier protocol's loop went.  Codes forced to the last  *)
(* uint32_t make the loop wrap.                                            *)
(***************************************************************************)
ForcedToMax == (Given("remote") /\ opt.remote_id = U32 - 1)
                 \/ (Given("device") /\ opt.device_id = U32 - 1)

ForcedValues ==
    ~ ForcedToMax =>
        \A t \in tried :
            /\ Given("protocol") => t[1] = opt.protocol
            /\ Given("remote") => t[2] = opt.remote_id
            /\ Given("device") => t[3] = opt.device_id
            /\ ~ Given("remote") /\ Needs(t[1], "remote") /\ Given("scan") => t[2] <= RemoteMax[t[1]]
            /\ ~ Given("device") /\ Needs(t[1], "device") /\ Given("scan") => t[3] <= DeviceMax[t[1]]

(***************************************************************************)
(* Whatever failed, what init() acquired is given back before the program  *)
(* ends.                                                                   *)
(***************************************************************************)
ClosedAtExit == phase = "exited" => handle = "none"

(***************************************************************************)
(* Exit status 0 of a single command means that the driver was handed the  *)
(* command, for the protocol and with the codes asked for, in one piece    *)
(* unless it had to be converted, and that a driver that notices a lost    *)
(* frame has transmitted it.  More does not follow: alsa, ook-gpio and     *)
(* sysfs-gpio do not look at all their writes (alsa.c:195).                *)
(***************************************************************************)
SuccessMeansSent ==
    phase = "exited" /\ drv # NoDriver /\ ~ Given("scan") /\ ret = 0 =>
        /\ handed # Silence
        /\ handed.protocol = opt.protocol
        /\ handed.remote = opt.remote_id /\ handed.device = opt.device_id
        /\ handed.whole \/ MustConvert(opt.protocol)
        /\ air \in {handed, [handed EXCEPT !.whole = FALSE]} \/ drv \in MayLose

(***************************************************************************)
(* Once parsed, an invocation ends: the scan's three loops all terminate,  *)
(* unless a code is forced to the last value of a uint32_t, which no loop  *)
(* variable can pass.                                                      *)
(***************************************************************************)
Terminates == (phase = "select" /\ ~ ForcedToMax) ~> (phase = "exited")

(***************************************************************************)
(* The maxima the drivers declare (.remote_code_max = 0x00 for a protocol  *)
(* without remote code, home-easy.c:110) bound the codes of a scan.  Does  *)
(* not hold after a protocol that has remote codes: remote_last is stale.  *)
(***************************************************************************)
ScanWithinMaxima ==
    Given("scan") /\ ~ Given("remote") => \A t \in tried : t[2] <= RemoteMax[t[1]]
=============================================================================
