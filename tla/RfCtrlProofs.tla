---------------------------- MODULE RfCtrlProofs ----------------------------
(***************************************************************************)
(* Proofs about Options and RfCtrl, for every table of protocols and       *)
(* drivers, every width of the codes, every set of arguments and every     *)
(* order of lines and options: first the settings, then the invocation.    *)
(***************************************************************************)
EXTENDS RfCtrl, FiniteSetTheorems, TLAPS

(***************************************************************************)
(* The inductive invariant.  What is flagged as provided has been stored   *)
(* (the tests at the end look at the flags only), and what is needed is    *)
(* exactly what all the protocols given with -p have in common, or, after  *)
(* -s, the command alone.                                                  *)
(***************************************************************************)
ProvidedStored ==
    /\ "protocol" \in opt.provided => opt.protocol \in asked
    /\ "command" \in opt.provided => opt.command \in Commands
    /\ "gpio" \in opt.provided => opt.gpio # Undefined

NeededByAll(protocols) ==
    {param \in CodeParams : \A p \in protocols : param \in {"protocol"} \cup NeededParams[p]}

NeededExact ==
    /\ "scan" \in opt.provided => opt.needed = {"command"}
    /\ "scan" \notin opt.provided => opt.needed = NeededByAll(asked)

NoneMissing == Parsed => opt.needed \subseteq opt.provided

OptInv == OptTypeOK /\ ProvidedStored /\ NeededExact /\ NoneMissing

-----------------------------------------------------------------------------
(***************************************************************************)
(* The uint8_t and the uint32_t arguments are stored in.                   *)
(***************************************************************************)
LEMMA ToByteIsByte == \A n \in Nat : ToByte(n) \in Byte
  BY DEF ToByte, Byte

LEMMA ModuloIsCode == \A c \in Nat : c % U32 \in Codes
  BY WidthAssumption DEF Codes

(***************************************************************************)
(* A protocol given with -p leaves needed what it shares with those given  *)
(* before it, and -s the command alone, because every protocol needs one.  *)
(***************************************************************************)
LEMMA NarrowedByOne ==
  ASSUME NEW protocols \in SUBSET Protocols, NEW p \in Protocols
  PROVE  NarrowNeeded(NeededByAll(protocols), p) = NeededByAll(protocols \cup {p})
  BY DEF NarrowNeeded, NeededByAll

LEMMA CommandAlwaysNeeded ==
  ASSUME NEW protocols \in SUBSET Protocols
  PROVE  /\ ScanNeeded(NeededByAll(protocols)) = {"command"}
         /\ "protocol" \in NeededByAll(protocols)
  BY ProtocolAssumption DEF ScanNeeded, NeededByAll, CodeParams

LEMMA ScanKeepsCommand ==
  ASSUME NEW p \in Protocols
  PROVE  NarrowNeeded({"command"}, p) = {"command"} /\ ScanNeeded({"command"}) = {"command"}
  BY ProtocolAssumption DEF NarrowNeeded, ScanNeeded

LEMMA OptInitInv == OptInit => OptInv
<1> SUFFICES ASSUME OptInit PROVE OptInv
  OBVIOUS
<1>1. OptTypeOK
  BY WidthAssumption
  DEF OptInit, OptTypeOK, Codes, Byte, Commands, Protocols, Undefined,
      DEFAULT_RAW_FALLBACK_ACCURACY, Params, CodeParams
<1>2. ProvidedStored /\ NoneMissing
  BY DEF OptInit, ProvidedStored, NoneMissing, Parsed
<1>3. NeededExact
  BY DEF OptInit, NeededExact, NeededByAll
<1> QED
  BY <1>1, <1>2, <1>3 DEF OptInv

(***************************************************************************)
(* An option that stores its argument in a field of its own and flags it   *)
(* as provided; an option that ends the program.                           *)
(***************************************************************************)
LEMMA ExitInv ==
  ASSUME OptInv, NEW status \in {0, -1}, Exit(status)
  PROVE  OptInv'
  BY DEF OptInv, OptTypeOK, ProvidedStored, NeededExact, NeededByAll, NoneMissing, Parsed, Exit

LEMMA StoreInv ==
  ASSUME OptInv, phase \in {"config", "options"}, Stay, UNCHANGED asked,
         opt' \in [hw : Int, protocol : Protocols \cup {-1}, command : Commands \cup {-1},
                   nframe : Int, remote_id : Codes, device_id : Codes,
                   gpio : Byte \cup {Undefined}, accuracy : Byte,
                   provided : SUBSET Params, needed : SUBSET CodeParams],
         opt'.protocol = opt.protocol, opt'.needed = opt.needed,
         "protocol" \in opt'.provided => "protocol" \in opt.provided,
         "scan" \in opt'.provided <=> "scan" \in opt.provided,
         "command" \in opt'.provided => opt'.command \in Commands,
         "gpio" \in opt'.provided => opt'.gpio # Undefined
  PROVE  OptInv'
<1>1. OptTypeOK'
  BY DEF OptInv, OptTypeOK, Stay
<1>2. ProvidedStored' /\ NeededExact'
  BY DEF OptInv, ProvidedStored, NeededExact, NeededByAll
<1>3. NoneMissing'
  BY DEF NoneMissing, Parsed, Stay
<1> QED
  BY <1>1, <1>2, <1>3 DEF OptInv

THEOREM OptNextInv == OptInv /\ OptNext => OptInv'
<1> SUFFICES ASSUME OptInv, OptNext PROVE OptInv'
  OBVIOUS
<1> USE DEF OptInv
<1>0. /\ opt \in [hw : Int, protocol : Protocols \cup {-1}, command : Commands \cup {-1},
                   nframe : Int, remote_id : Codes, device_id : Codes,
                   gpio : Byte \cup {Undefined}, accuracy : Byte,
                   provided : SUBSET Params, needed : SUBSET CodeParams]
      /\ asked \subseteq Protocols
      /\ ret \in {0, -1}
  BY DEF OptTypeOK
<1>1. ASSUME NEW h \in HwArgs, ConfigHardware(h) PROVE OptInv'
  <2>1. h \in Int
    BY ArgsAssumption
  <2> QED
    BY <1>0, <1>1, <2>1, StoreInv DEF ConfigHardware, ProvidedStored, Params
<1>2. ASSUME NEW h \in HwArgs, OptHardware(h) PROVE OptInv'
  <2>1. h \in Int
    BY ArgsAssumption
  <2>2. CASE h \in Drivers
    <3>1. /\ opt' = [opt EXCEPT !.hw = h, !.provided = opt.provided \cup {"hardware"}]
          /\ phase = "options" /\ Stay /\ UNCHANGED asked
      BY <1>2, <2>2 DEF OptHardware
    <3> QED
      BY <1>0, <2>1, <3>1, StoreInv DEF ProvidedStored, Params
  <2>3. CASE h \notin Drivers
    BY <1>2, <2>3, ExitInv DEF OptHardware
  <2> QED
    BY <2>2, <2>3
<1>3. ASSUME NEW g \in GpioArgs, ConfigGpio(g) \/ OptGpio(g) PROVE OptInv'
  <2>1. ToByte(g) \in Byte /\ ToByte(g) # Undefined
    BY ArgsAssumption, ToByteIsByte DEF Byte, Undefined
  <2>2. /\ opt' = [opt EXCEPT !.gpio = ToByte(g), !.provided = opt.provided \cup {"gpio"}]
        /\ phase \in {"config", "options"} /\ Stay /\ UNCHANGED asked
    BY <1>3 DEF ConfigGpio, OptGpio
  <2> QED
    BY <1>0, <2>1, <2>2, StoreInv DEF ProvidedStored, Params
<1>4. ASSUME NEW a \in AccuracyArgs, ConfigAccuracy(a) PROVE OptInv'
  <2>1. ToByte(a) \in Byte
    BY ArgsAssumption, ToByteIsByte
  <2> QED
    BY <1>0, <1>4, <2>1, StoreInv DEF ConfigAccuracy, ProvidedStored, Params
<1>5. ASSUME NEW a \in AccuracyArgs, OptAccuracy(a) PROVE OptInv'
  <2>1. ToByte(a) \in Byte
    BY ArgsAssumption, ToByteIsByte
  <2>2. CASE ToByte(a) <= 100
    <3>1. /\ opt' = [opt EXCEPT !.accuracy = ToByte(a),
                                !.provided = opt.provided \cup {"accuracy"}]
          /\ phase = "options" /\ Stay /\ UNCHANGED asked
      BY <1>5, <2>1, <2>2 DEF OptAccuracy, Byte
    <3> QED
      BY <1>0, <2>1, <3>1, StoreInv DEF ProvidedStored, Params
  <2>3. CASE ToByte(a) > 100
    BY <1>5, <2>1, <2>3, ExitInv DEF OptAccuracy, Byte
  <2> QED
    BY <2>1, <2>2, <2>3 DEF Byte
<1>6. ASSUME NEW p \in ProtoArgs, OptProtocol(p) PROVE OptInv'
  <2>1. CASE p \in Protocols
    <3>1. /\ opt' = [opt EXCEPT !.protocol = p,
                                !.needed = NarrowNeeded(opt.needed, p),
                                !.provided = opt.provided \cup {"protocol"}]
          /\ asked' = asked \cup {p}
          /\ Stay /\ phase = "options"
      BY <1>6, <2>1 DEF OptProtocol, Protocols
    <3>2. OptTypeOK'
      BY <1>0, <2>1, <3>1 DEF OptTypeOK, Stay, NarrowNeeded, Params, CodeParams
    <3>3. ProvidedStored'
      BY <1>0, <3>1 DEF ProvidedStored
    <3>4. NeededExact'
      BY <1>0, <2>1, <3>1, NarrowedByOne, ScanKeepsCommand DEF NeededExact
    <3>5. NoneMissing'
      BY <3>1 DEF NoneMissing, Parsed, Stay
    <3> QED
      BY <3>2, <3>3, <3>4, <3>5
  <2>2. CASE p \notin Protocols
    BY <1>6, <2>2, ExitInv DEF OptProtocol
  <2> QED
    BY <2>1, <2>2
<1>7. ASSUME NEW c \in CodeArgs, OptRemote(c) \/ OptDevice(c) PROVE OptInv'
  <2>1. c % U32 \in Codes
    BY ArgsAssumption, ModuloIsCode
  <2>2. CASE OptRemote(c)
    BY <1>0, <2>1, <2>2, StoreInv DEF OptRemote, ProvidedStored, Params, CodeParams
  <2>3. CASE OptDevice(c)
    BY <1>0, <2>1, <2>3, StoreInv DEF OptDevice, ProvidedStored, Params, CodeParams
  <2> QED
    BY <1>7, <2>2, <2>3
<1>8. ASSUME NEW c \in CommandArgs, OptCommand(c) PROVE OptInv'
  <2>1. CASE ValidCommand(c)
    <3>1. /\ opt' = [opt EXCEPT !.command = c, !.provided = opt.provided \cup {"command"}]
          /\ phase = "options" /\ Stay /\ UNCHANGED asked
      BY <1>8, <2>1 DEF OptCommand
    <3>2. c \in Commands
      BY <2>1 DEF ValidCommand
    <3> QED
      BY <1>0, <3>1, <3>2, StoreInv DEF ProvidedStored, Params, CodeParams
  <2>2. CASE ~ ValidCommand(c)
    BY <1>8, <2>2, ExitInv DEF OptCommand
  <2> QED
    BY <2>1, <2>2
<1>9. ASSUME NEW n \in NframeArgs, OptNframe(n) PROVE OptInv'
  <2>1. n \in Int
    BY ArgsAssumption
  <2> QED
    BY <1>0, <1>9, <2>1, StoreInv DEF OptNframe, ProvidedStored, Params
<1>10. CASE ConfigRaw \/ OptRaw
  BY <1>0, <1>10, StoreInv DEF ConfigRaw, OptRaw, ProvidedStored, Params
<1>11. CASE EndConfig
  BY <1>11
  DEF EndConfig, OptTypeOK, ProvidedStored, NeededExact, NeededByAll, NoneMissing, Parsed
<1>12. CASE OptScan
  <2>1. /\ opt' = [opt EXCEPT !.provided = opt.provided \cup {"scan"},
                              !.needed = ScanNeeded(opt.needed)]
        /\ Stay /\ UNCHANGED asked /\ phase = "options"
    BY <1>12 DEF OptScan
  <2>2. OptTypeOK'
    BY <1>0, <2>1 DEF OptTypeOK, Stay, ScanNeeded, Params
  <2>3. NeededExact'
    BY <1>0, <2>1, CommandAlwaysNeeded, ScanKeepsCommand, ProtocolAssumption DEF NeededExact, ScanNeeded
  <2>4. ProvidedStored' /\ NoneMissing'
    BY <1>0, <2>1 DEF ProvidedStored, NoneMissing, Parsed, Stay
  <2> QED
    BY <2>2, <2>3, <2>4
<1>13. CASE OptHelp \/ OptBad
  BY <1>13, ExitInv DEF OptHelp, OptBad
<1>14. CASE EndOptions
  <2>1. CASE Missing = {} /\ phase' = "select" /\ UNCHANGED <<ret, opt, asked>>
    BY <2>1
    DEF OptTypeOK, ProvidedStored, NeededExact, NeededByAll, NoneMissing, Parsed, Missing
  <2>2. CASE Exit(-1)
    BY <2>2, ExitInv
  <2> QED
    BY <1>14, <2>1, <2>2 DEF EndOptions
<1> QED
  BY <1>1, <1>2, <1>3, <1>4, <1>5, <1>6, <1>7, <1>8, <1>9, <1>10, <1>11, <1>12, <1>13, <1>14
  DEF OptNext

-----------------------------------------------------------------------------
(***************************************************************************)
(* What the invariant is for: the settings main() goes on with.            *)
(***************************************************************************)
LEMMA OptInvDefinedArgs == OptInv => DefinedArgs
<1> SUFFICES ASSUME OptInv, Parsed PROVE DefinedArgs
  BY DEF DefinedArgs
<1>1. opt.needed \subseteq opt.provided /\ asked \subseteq Protocols
  BY DEF OptInv, NoneMissing, OptTypeOK
<1>2. "command" \in opt.needed
  BY <1>1, ProtocolAssumption DEF OptInv, NeededExact, NeededByAll, CodeParams
<1>3. "scan" \notin opt.provided => "protocol" \in opt.needed
  BY <1>1, CommandAlwaysNeeded DEF OptInv, NeededExact
<1> QED
  BY <1>1, <1>2, <1>3 DEF OptInv, ProvidedStored, DefinedArgs

LEMMA OptInvNeeded == OptInv => NeededWereProvided
<1> SUFFICES ASSUME OptInv, Parsed, "scan" \notin opt.provided, Cardinality(asked) = 1
             PROVE  NeededParams[opt.protocol] \subseteq opt.provided
  BY DEF NeededWereProvided
<1>1. /\ opt.needed = NeededByAll(asked)
      /\ opt.needed \subseteq opt.provided
      /\ asked \subseteq Protocols
      /\ "protocol" \in opt.provided => opt.protocol \in asked
  BY DEF OptInv, NeededExact, NoneMissing, OptTypeOK, ProvidedStored
<1>2. opt.protocol \in asked
  BY <1>1, CommandAlwaysNeeded
<1>3. IsFiniteSet(asked)
  <2>1. IsFiniteSet(Protocols)
    BY FS_Interval, ProtocolAssumption DEF Protocols
  <2> QED
    BY <1>1, <2>1, FS_Subset
<1>4. PICK p : asked = {p}
  BY <1>3, FS_Singleton
<1>5. NeededParams[opt.protocol] \subseteq NeededByAll(asked)
  BY <1>1, <1>2, <1>4, ProtocolAssumption DEF NeededByAll, CodeParams
<1> QED
  BY <1>1, <1>5

(***************************************************************************)
(* Whatever the configuration file and the command line, the parsing keeps *)
(* the invariant, and with it the two properties.                          *)
(***************************************************************************)
THEOREM OptionsSafe == OptSpec => [](OptTypeOK /\ DefinedArgs /\ NeededWereProvided)
<1>1. OptInv /\ UNCHANGED optVars => OptInv'
  BY DEF OptInv, OptTypeOK, ProvidedStored, NeededExact, NeededByAll, NoneMissing, Parsed, optVars
<1>2. OptInv => OptTypeOK /\ DefinedArgs /\ NeededWereProvided
  BY OptInvDefinedArgs, OptInvNeeded DEF OptInv
<1> QED
  BY OptInitInv, OptNextInv, <1>1, <1>2, PTL DEF OptSpec

-----------------------------------------------------------------------------
(***************************************************************************)
(* The inductive invariant, in parts.  First, what each phase may rely on. *)
(***************************************************************************)
Early == {"config", "options", "select"}

PhaseInv ==
    /\ phase \in Early => drv = NoDriver
    /\ phase \in Early \cup {"init", "exited"} => handle = "none"
    /\ phase \in Early \cup {"init"} => handed = Silence /\ air = Silence /\ tried = {} /\ frames = DefaultFrames
    /\ phase = "init" => HwParamsGiven(drv)
    /\ phase = "single" => ~ Given("scan")
    /\ phase \in {"protocol", "codes"} => Given("scan")
    /\ phase = "codes" => i \in Protocols
    /\ phase \in {"single", "protocol", "codes"} => force_raw = (Given("raw") /\ CanRaw(drv))

BaseInv == TypeOK /\ OptInv /\ PhaseInv

(***************************************************************************)
(* The loops of the scan: i is within its bounds; the codes sent so far    *)
(* for protocol i are all those of the remote codes before j, and of j the *)
(* device codes before k.  (Of codes forced to the last uint32_t the loop  *)
(* wraps to 0, and both statements become empty.)                          *)
(***************************************************************************)
LastCodes ==
    /\ Given("remote") => remote_last = opt.remote_id
    /\ Given("device") => device_last = opt.device_id
    /\ phase = "codes" =>
         /\ ~ Given("remote") /\ Needs(i, "remote") => remote_last = RemoteMax[i]
         /\ ~ Given("device") /\ Needs(i, "device") => device_last = DeviceMax[i]

ProtocolsDone ==
    \A p \in FirstProtocol .. (i - 1) :
        \A r \in Allowed("remote", opt.remote_id, RemoteMax, p),
           d \in Allowed("device", opt.device_id, DeviceMax, p) : <<p, r, d>> \in tried

RemotesDone ==
    \A r \in Codes, d \in Codes :
        FirstRemote <= r /\ r < j /\ FirstDevice <= d /\ d <= device_last => <<i, r, d>> \in tried

DevicesDone ==
    \A d \in Codes : FirstDevice <= d /\ d < k => <<i, j, d>> \in tried

ScanInv ==
    /\ phase \in {"protocol", "codes"} => LastCodes /\ FirstProtocol <= i
    /\ phase = "codes" => i <= LastProtocol /\ RemotesDone /\ DevicesDone
    /\ phase \in {"protocol", "codes"} \/ (phase = "exit" /\ ret = 0 /\ Given("scan"))
         => ProtocolsDone

(***************************************************************************)
(* What was handed over last, with how many frames, what became of it, and *)
(* what the exit status says of it.                                        *)
(***************************************************************************)
FramesInv ==
    /\ opt.nframe <= 0 => frames = DefaultFrames
    /\ phase = "codes" /\ opt.nframe > 0 => frames[i] = ToByte(opt.nframe)

SentInv ==
    phase \in {"exit", "exited"} /\ drv # NoDriver /\ ~ Given("scan") /\ ret = 0 =>
        /\ handed # Silence
        /\ handed.protocol = opt.protocol
        /\ handed.remote = opt.remote_id /\ handed.device = opt.device_id
        /\ handed.whole \/ MustConvert(opt.protocol)
        /\ air \in {handed, [handed EXCEPT !.whole = FALSE]} \/ drv \in MayLose

AirInv == OnAirFormat /\ FramesForced /\ FramesInv /\ SentInv

(***************************************************************************)
(* The codes of the loops, when none is forced to the last uint32_t.       *)
(***************************************************************************)
CodeInv ==
    phase = "codes" =>
        /\ Given("protocol") => i = opt.protocol
        /\ Given("remote") => j = opt.remote_id
        /\ Given("device") => k = opt.device_id
        /\ ~ Given("remote") /\ Needs(i, "remote") => j <= RemoteMax[i]
        /\ ~ Given("device") /\ Needs(i, "device") => k <= DeviceMax[i]

ForcedInv == ForcedValues /\ (~ ForcedToMax => CodeInv)

-----------------------------------------------------------------------------
(***************************************************************************)
(* The parsing stays in its phases; the rest leaves the settings alone.    *)
(***************************************************************************)
LEMMA ParsePhases ==
  OptNext => phase \in {"config", "options"} /\ phase' \in {"config", "options", "select", "exited"}
  BY DEF OptNext, ConfigHardware, OptHardware, ConfigGpio, OptGpio, ConfigAccuracy, OptAccuracy,
         OptProtocol, OptRemote, OptDevice, OptCommand, OptNframe, ConfigRaw, EndConfig, OptScan,
         OptRaw, OptHelp, OptBad, EndOptions, Stay, Exit

LEMMA RunOptInv ==
  ASSUME OptInv, Parsed, UNCHANGED <<opt, asked>>, ret' \in {0, -1}
  PROVE  OptInv'
  BY DEF OptInv, OptTypeOK, ProvidedStored, NeededExact, NeededByAll, NoneMissing, Parsed

LEMMA ForcedFramesType ==
  ASSUME BaseInv, NEW p \in Protocols
  PROVE  FrameCount(p) \in Byte
<1>1. opt.nframe \in Int /\ frames \in [Protocols -> Byte]
  BY DEF BaseInv, TypeOK, OptTypeOK
<1>2. CASE opt.nframe > 0
  BY <1>1, <1>2, ToByteIsByte DEF FrameCount
<1>3. CASE ~ (opt.nframe > 0)
  BY <1>1, <1>3 DEF FrameCount
<1> QED
  BY <1>2, <1>3

(***************************************************************************)
(* The protocols and codes the loops start from and go to are in range.    *)
(***************************************************************************)
LEMMA ProtocolBounds ==
  ASSUME BaseInv, Parsed
  PROVE  /\ FirstProtocol \in Protocols /\ LastProtocol \in Protocols
         /\ FirstProtocol <= LastProtocol
         /\ ~ Given("scan") => opt.protocol \in Protocols
<1>1. Given("protocol") => opt.protocol \in Protocols
  BY DEF BaseInv, OptInv, ProvidedStored, OptTypeOK, Given
<1>2. ~ Given("scan") => opt.protocol \in Protocols
  BY OptInvDefinedArgs DEF BaseInv, DefinedArgs, Given
<1>3. NumProtos \in Nat \ {0}
  BY ProtocolAssumption
<1> QED
  BY <1>1, <1>2, <1>3 DEF FirstProtocol, LastProtocol, Protocols

LEMMA CodeBounds ==
  ASSUME BaseInv
  PROVE  FirstRemote \in Codes /\ FirstDevice \in Codes
<1>1. opt.remote_id \in Codes /\ opt.device_id \in Codes /\ 0 \in Codes
  BY WidthAssumption DEF BaseInv, TypeOK, OptTypeOK, Codes
<1> QED
  BY <1>1 DEF FirstRemote, FirstDevice

LEMMA NextCodeIsCode == \A c \in Codes : NextCode(c) \in Codes
  BY WidthAssumption DEF NextCode, Codes

-----------------------------------------------------------------------------
\* What send_cmd() hands over and what the driver makes of it are frames, if anything.
LEMMA SendCmdType ==
  ASSUME NEW p \in Protocols, NEW r \in Codes, NEW d \in Codes, NEW count \in Byte, NEW result,
         SendCmd(p, r, d, count, result)
  PROVE  {handed', air'} \subseteq Sent \cup {Silence}
<1>1. FormatSent(p) # "none" => FormatSent(p) \in Formats
  BY ProtocolTableAssumption DEF FormatSent, Formats
<1>2. ASSUME FormatSent(p) # "none", NEW whole \in BOOLEAN
      PROVE  Frame(p, r, d, count, whole) \in Sent
  BY <1>1, <1>2 DEF Frame, Sent
<1>3. ASSUME NEW frame \in Sent, HandOver(frame, result)
      PROVE  {handed', air'} \subseteq Sent \cup {Silence}
  <2>1. \A kept \in BOOLEAN : [frame EXCEPT !.whole = @ /\ kept] \in Sent
    BY DEF Sent
  <2> QED
    BY <1>3, <2>1 DEF HandOver
<1>4. CASE NotHandedOver(result)
  BY <1>4 DEF NotHandedOver
<1>5. CASE FormatSent(p) # "none" /\ \E whole \in IF MustConvert(p) THEN BOOLEAN ELSE {TRUE} :
               HandOver(Frame(p, r, d, count, whole), result)
  <2>1. PICK whole \in BOOLEAN : HandOver(Frame(p, r, d, count, whole), result)
    BY <1>5
  <2> QED
    BY <1>2, <1>3, <1>5, <2>1
<1> QED
  BY <1>4, <1>5 DEF SendCmd

LEMMA BaseInit == Init => BaseInv
<1> SUFFICES ASSUME Init PROVE BaseInv
  OBVIOUS
<1>1. OptInv
  BY OptInitInv DEF Init
<1>2. TypeOK
  <2>1. 0 \in Codes /\ 0 \in 0 .. NumProtos
    BY WidthAssumption, ProtocolAssumption DEF Codes
  <2> QED
    BY <1>1, <2>1, ProtocolTableAssumption DEF Init, OptInit, TypeOK, OptInv, NoDriver
<1>3. PhaseInv
  BY DEF Init, OptInit, PhaseInv, Early
<1> QED
  BY <1>1, <1>2, <1>3 DEF BaseInv

LEMMA BaseStep == BaseInv /\ Next => BaseInv'
<1> SUFFICES ASSUME BaseInv, Next PROVE BaseInv'
  OBVIOUS
<1>0. TypeOK /\ OptTypeOK /\ OptInv /\ PhaseInv
  BY DEF BaseInv, TypeOK
<1>1. CASE Parse
  <2>1. OptInv'
    BY <1>0, <1>1, OptNextInv DEF Parse
  <2>2. TypeOK'
    BY <1>0, <1>1, <2>1, ParsePhases DEF Parse, TypeOK, OptInv, runVars, scanVars
  <2>3. PhaseInv'
    BY <1>0, <1>1, ParsePhases DEF Parse, PhaseInv, runVars, scanVars, Early
  <2> QED
    BY <2>1, <2>2, <2>3 DEF BaseInv
<1>2. CASE SelectDriver
  <2>1. /\ phase = "select" /\ UNCHANGED <<opt, asked, handle, force_raw, scanVars, frames, handed, air, tried>>
        /\ \/ phase' = "init" /\ ret' = ret /\ drv' \in Drivers /\ HwParamsGiven(drv')
           \/ phase' = "exited" /\ ret' = -1 /\ drv' \in Drivers \cup {NoDriver}
    BY <1>0, <1>2, DriverTableAssumption DEF SelectDriver, UseDriver, Fail, TypeOK
  <2>2. OptInv'
    BY <1>0, <2>1, RunOptInv DEF Parsed, OptTypeOK
  <2>3. TypeOK'
    BY <1>0, <2>1, <2>2 DEF TypeOK, OptInv, scanVars
  <2>4. PhaseInv'
    BY <1>0, <2>1 DEF PhaseInv, Early, HwParamsGiven
  <2> QED
    BY <2>2, <2>3, <2>4 DEF BaseInv
<1>3. CASE InitDriver
  <2>1. /\ phase = "init" /\ UNCHANGED <<opt, asked, drv, j, k, frames, handed, air, tried>>
        /\ ret' \in {0, -1} /\ phase' \in {"exit", "protocol", "single"}
        /\ handle' \in {"none", "held"} /\ force_raw' \in BOOLEAN
    BY <1>0, <1>3 DEF InitDriver, AfterInitFailure, OptTypeOK, scanVars, TypeOK
  <2>2. OptInv'
    BY <1>0, <2>1, RunOptInv DEF Parsed
  <2>3. i' \in 0 .. NumProtos /\ remote_last' \in Codes /\ device_last' \in Codes
    <3>1. FirstProtocol \in Protocols /\ FirstRemote \in Codes /\ FirstDevice \in Codes
      BY <2>1, ProtocolBounds, CodeBounds DEF Parsed
    <3>2. FirstProtocol \in 0 .. NumProtos
      BY <3>1, ProtocolAssumption DEF Protocols
    <3> QED
      BY <1>0, <1>3, <3>1, <3>2 DEF InitDriver, TypeOK, scanVars
  <2>4. TypeOK'
    BY <1>0, <2>1, <2>2, <2>3 DEF TypeOK, OptInv
  <2>5. PhaseInv'
    BY <1>0, <1>3 DEF InitDriver, AfterInitFailure, PhaseInv, Early, Given, CanRaw
  <2> QED
    BY <2>2, <2>4, <2>5 DEF BaseInv
<1>4. CASE SendSingle
  <2>1. opt.protocol \in Protocols
    BY <1>0, <1>4, ProtocolBounds DEF SendSingle, Parsed, PhaseInv
  <2>2. /\ phase = "single" /\ phase' = "exit" /\ ret' \in {0, -1}
        /\ UNCHANGED <<opt, asked, drv, handle, force_raw, scanVars>>
        /\ frames' \in [Protocols -> Byte]
        /\ tried' = tried \cup {<<opt.protocol, opt.remote_id, opt.device_id>>}
        /\ {handed', air'} \subseteq Sent \cup {Silence}
    <3>1. PICK result \in {0, -1} :
              /\ SendCmd(opt.protocol, opt.remote_id, opt.device_id, FrameCount(opt.protocol), result)
              /\ ret' = result
      BY <1>4 DEF SendSingle, ExitStatus
    <3>2. FrameCount(opt.protocol) \in Byte
      BY <2>1, ForcedFramesType
    <3>3. frames' \in [Protocols -> Byte]
      BY <1>0, <1>4, <2>1, <3>2 DEF SendSingle, ForceFrames, TypeOK
    <3>4. {handed', air'} \subseteq Sent \cup {Silence}
      BY <1>0, <2>1, <3>1, <3>2, SendCmdType DEF OptTypeOK
    <3> QED
      BY <1>4, <3>1, <3>3, <3>4 DEF SendSingle, SendCmd
  <2>3. OptInv'
    BY <1>0, <2>2, RunOptInv DEF Parsed
  <2>4. TypeOK'
    BY <1>0, <2>1, <2>2, <2>3 DEF TypeOK, OptTypeOK, OptInv, scanVars
  <2>5. PhaseInv'
    BY <1>0, <2>2 DEF PhaseInv, Early
  <2> QED
    BY <2>3, <2>4, <2>5 DEF BaseInv
<1>5. CASE EnterProtocol
  <2>1. i \in Protocols
    <3>1. LastProtocol \in Protocols /\ i <= LastProtocol /\ i \in 0 .. NumProtos
      BY <1>0, <1>5, ProtocolBounds DEF EnterProtocol, Parsed, TypeOK
    <3> QED
      BY <3>1, ProtocolAssumption DEF Protocols
  <2>2. /\ phase = "protocol" /\ phase' = "codes"
        /\ UNCHANGED <<ret, opt, asked, drv, handle, force_raw, i, handed, air, tried>>
        /\ frames' \in [Protocols -> Byte]
    BY <1>0, <1>5, <2>1, ForcedFramesType DEF EnterProtocol, ForceFrames, TypeOK
  <2>3. OptInv'
    BY <1>0, <2>2, RunOptInv DEF Parsed, OptTypeOK
  <2>4. {j', k', remote_last', device_last'} \subseteq Codes
    BY <1>0, <1>5, <2>1, CodeBounds, ProtocolTableAssumption DEF EnterProtocol, LastCode, TypeOK
  <2>5. TypeOK'
    BY <1>0, <2>2, <2>3, <2>4 DEF TypeOK, OptInv
  <2>6. PhaseInv'
    BY <1>0, <2>1, <2>2 DEF PhaseInv, Early, Given, CanRaw
  <2> QED
    BY <2>3, <2>5, <2>6 DEF BaseInv
<1>6. CASE ScanSend
  <2>1. /\ phase = "codes" /\ phase' \in {"codes", "protocol"}
        /\ UNCHANGED <<ret, opt, asked, drv, handle, force_raw, remote_last, device_last, frames>>
        /\ tried' = tried \cup {<<i, j, k>>}
        /\ {handed', air'} \subseteq Sent \cup {Silence}
    <3>1. PICK result \in {0, -1} : SendCmd(i, j, k, frames[i], result)
      BY <1>6 DEF ScanSend
    <3>2. i \in Protocols /\ j \in Codes /\ k \in Codes /\ frames[i] \in Byte
      BY <1>0, <1>6 DEF ScanSend, PhaseInv, TypeOK
    <3>3. {handed', air'} \subseteq Sent \cup {Silence}
      BY <3>1, <3>2, SendCmdType
    <3> QED
      BY <1>6, <3>1, <3>3 DEF ScanSend, SendCmd
  <2>2. OptInv'
    BY <1>0, <2>1, RunOptInv DEF Parsed, OptTypeOK
  <2>3. j' \in Codes /\ k' \in Codes
    BY <1>0, <1>6, CodeBounds, NextCodeIsCode DEF ScanSend, TypeOK
  <2>4. i \in Protocols /\ i' \in 0 .. NumProtos /\ (phase' = "codes" => i' = i)
    <3>1. i \in Protocols
      BY <1>0, <2>1 DEF PhaseInv
    <3>2. i' \in {i, i + 1} /\ (phase' = "codes" => i' = i)
      BY <1>6 DEF ScanSend
    <3> QED
      BY <3>1, <3>2, ProtocolAssumption DEF Protocols
  <2>5. TypeOK'
    BY <1>0, <2>1, <2>2, <2>3, <2>4 DEF TypeOK, OptInv
  <2>6. PhaseInv'
    BY <1>0, <2>1, <2>4 DEF PhaseInv, Early, Given, CanRaw
  <2> QED
    BY <2>2, <2>5, <2>6 DEF BaseInv
<1>7. CASE LeaveScan
  <2>1. /\ phase = "protocol" /\ phase' = "exit" /\ UNCHANGED <<ret, opt, asked, runVars>>
    BY <1>7 DEF LeaveScan
  <2>2. OptInv'
    BY <1>0, <2>1, RunOptInv DEF Parsed, OptTypeOK
  <2>3. TypeOK' /\ PhaseInv'
    BY <1>0, <2>1, <2>2 DEF TypeOK, OptInv, PhaseInv, Early, runVars, scanVars
  <2> QED
    BY <2>2, <2>3 DEF BaseInv
<1>8. CASE CloseDriver
  <2>1. /\ phase = "exit" /\ phase' = "exited" /\ handle' = "none"
        /\ UNCHANGED <<ret, opt, asked, drv, force_raw, scanVars, frames, handed, air, tried>>
    BY <1>8 DEF CloseDriver
  <2>2. OptInv'
    BY <1>0, <2>1, RunOptInv DEF Parsed, OptTypeOK
  <2>3. TypeOK' /\ PhaseInv'
    BY <1>0, <2>1, <2>2 DEF TypeOK, OptInv, PhaseInv, Early, scanVars
  <2> QED
    BY <2>2, <2>3 DEF BaseInv
<1> QED
  BY <1>1, <1>2, <1>3, <1>4, <1>5, <1>6, <1>7, <1>8 DEF Next, Run

-----------------------------------------------------------------------------
(***************************************************************************)
(* The completeness of the scan.  Until it starts, and in every phase but  *)
(* those of the loops, ScanInv says nothing.                               *)
(***************************************************************************)
LEMMA ScanStep == BaseInv /\ BaseInv' /\ ScanInv /\ Next => ScanInv'
<1> SUFFICES ASSUME BaseInv, BaseInv', ScanInv, Next PROVE ScanInv'
  OBVIOUS
<1>0. TypeOK /\ TypeOK' /\ PhaseInv
  BY DEF BaseInv
<1>1. CASE Parse
  BY <1>1, ParsePhases DEF Parse, ScanInv
<1>2. CASE SelectDriver
  BY <1>2 DEF SelectDriver, UseDriver, Fail, ScanInv
<1>3. CASE InitDriver
  <2>1. CASE phase' = "protocol"
    <3>1. /\ i' = FirstProtocol /\ remote_last' = FirstRemote /\ device_last' = FirstDevice
          /\ UNCHANGED <<opt, tried>> /\ phase = "init"
      BY <1>3, <2>1 DEF InitDriver, AfterInitFailure
    <3>2. FirstProtocol \in Int
      BY <1>0, <3>1, ProtocolBounds DEF Parsed, Protocols
    <3>3. ProtocolsDone'
      BY <3>1, <3>2 DEF ProtocolsDone, FirstProtocol, Given
    <3>4. LastCodes' /\ (FirstProtocol <= i)'
      BY <2>1, <3>1, <3>2 DEF LastCodes, FirstRemote, FirstDevice, FirstProtocol, Given
    <3> QED
      BY <2>1, <3>3, <3>4 DEF ScanInv
  <2>2. CASE phase' # "protocol"
    BY <1>3, <2>2 DEF InitDriver, AfterInitFailure, ScanInv, Given
  <2> QED
    BY <2>1, <2>2
<1>4. CASE SendSingle
  BY <1>0, <1>4 DEF SendSingle, ScanInv, PhaseInv, Given
<1>5. CASE EnterProtocol
  <2>1. /\ phase = "protocol" /\ phase' = "codes" /\ i <= LastProtocol
        /\ UNCHANGED <<opt, i, tried>>
        /\ remote_last' = LastCode("remote", remote_last, RemoteMax[i])
        /\ device_last' = LastCode("device", device_last, DeviceMax[i])
        /\ j' = FirstRemote /\ k' = FirstDevice
    BY <1>5 DEF EnterProtocol
  <2>2. LastCodes'
    BY <2>1 DEF ScanInv, LastCodes, LastCode, Given, Needs
  <2>3. RemotesDone'
    <3>1. FirstRemote \in Codes
      BY CodeBounds
    <3> QED
      BY <2>1, <3>1 DEF RemotesDone, FirstRemote, Given, Codes
  <2>4. DevicesDone'
    <3>1. FirstDevice \in Codes
      BY CodeBounds
    <3> QED
      BY <2>1, <3>1 DEF DevicesDone, FirstDevice, Given, Codes
  <2>5. ProtocolsDone' /\ (FirstProtocol <= i)' /\ (i <= LastProtocol)'
    BY <2>1 DEF ScanInv, ProtocolsDone, FirstProtocol, LastProtocol, Allowed, Given, Needs
  <2> QED
    BY <2>1, <2>2, <2>3, <2>4, <2>5 DEF ScanInv
<1>6. CASE ScanSend
  <2>1. /\ phase = "codes" /\ UNCHANGED <<opt, remote_last, device_last>>
        /\ tried' = tried \cup {<<i, j, k>>}
    BY <1>6 DEF ScanSend, SendCmd
  <2>2. LastCodes /\ FirstProtocol <= i /\ i <= LastProtocol /\ RemotesDone /\ DevicesDone
        /\ ProtocolsDone
    BY <2>1 DEF ScanInv
  <2>3. /\ j \in Codes /\ k \in Codes /\ remote_last \in Codes /\ device_last \in Codes
        /\ i \in Protocols /\ FirstProtocol \in Protocols
        /\ FirstRemote \in Codes /\ FirstDevice \in Codes
    BY <1>0, <2>1, CodeBounds, ProtocolBounds DEF TypeOK, PhaseInv, Parsed
  <2>4. /\ FirstProtocol' = FirstProtocol /\ LastProtocol' = LastProtocol
        /\ FirstRemote' = FirstRemote /\ FirstDevice' = FirstDevice
    BY <2>1 DEF FirstProtocol, LastProtocol, FirstRemote, FirstDevice, Given
  <2>5. CASE InLoop(NextCode(k), device_last)
    <3>1. /\ phase' = "codes" /\ i' = i /\ j' = j /\ k' = NextCode(k)
      BY <1>6, <2>1, <2>5 DEF ScanSend
    <3>2. DevicesDone'
      BY <2>1, <2>2, <2>3, <2>4, <3>1 DEF DevicesDone, NextCode, Codes
    <3>3. RemotesDone' /\ ProtocolsDone' /\ LastCodes'
      BY <2>1, <2>2, <2>4, <3>1
      DEF RemotesDone, ProtocolsDone, LastCodes, Allowed, Given, Needs
    <3> QED
      BY <2>2, <2>4, <3>1, <3>2, <3>3 DEF ScanInv
  <2>6. ASSUME ~ InLoop(NextCode(k), device_last)
        PROVE  \A d \in Codes : FirstDevice <= d /\ d <= device_last => <<i, j, d>> \in tried'
    <3>1. device_last <= k
      BY <2>3, <2>6, WidthAssumption DEF InLoop, NextCode, Codes
    <3> QED
      BY <2>1, <2>2, <2>3, <3>1 DEF DevicesDone, Codes
  <2>7. CASE ~ InLoop(NextCode(k), device_last) /\ InLoop(NextCode(j), remote_last)
    <3>1. /\ phase' = "codes" /\ i' = i /\ j' = NextCode(j) /\ k' = FirstDevice
      BY <1>6, <2>1, <2>7 DEF ScanSend
    <3>2. RemotesDone'
      BY <2>1, <2>2, <2>3, <2>4, <2>6, <2>7, <3>1 DEF RemotesDone, NextCode, Codes
    <3>3. DevicesDone'
      BY <2>3, <2>4, <3>1 DEF DevicesDone, Codes
    <3>4. ProtocolsDone' /\ LastCodes'
      BY <2>1, <2>2, <2>4, <3>1 DEF ProtocolsDone, LastCodes, Allowed, Given, Needs
    <3> QED
      BY <2>2, <2>4, <3>1, <3>2, <3>3, <3>4 DEF ScanInv
  <2>8. CASE ~ InLoop(NextCode(k), device_last) /\ ~ InLoop(NextCode(j), remote_last)
    <3>1. /\ phase' = "protocol" /\ i' = i + 1
      BY <1>6, <2>1, <2>8 DEF ScanSend
    <3>2. remote_last <= j
      BY <2>3, <2>8, WidthAssumption DEF InLoop, NextCode, Codes
    <3>3. \A r \in Codes, d \in Codes :
              FirstRemote <= r /\ r <= remote_last /\ FirstDevice <= d /\ d <= device_last
                  => <<i, r, d>> \in tried'
      BY <2>1, <2>2, <2>3, <2>6, <2>8, <3>2 DEF RemotesDone, Codes
    <3>4. \A r \in Allowed("remote", opt.remote_id, RemoteMax, i) :
              r \in Codes /\ FirstRemote <= r /\ r <= remote_last
      <4>1. RemoteMax[i] \in Codes /\ 0 \in Codes
        BY <2>3, ProtocolTableAssumption, WidthAssumption DEF Codes
      <4>2. CASE Given("remote")
        BY <2>2, <2>3, <4>2 DEF LastCodes, Allowed, FirstRemote, Codes
      <4>3. CASE ~ Given("remote") /\ Needs(i, "remote")
        <5>1. remote_last = RemoteMax[i] /\ FirstRemote = 0
          BY <2>1, <2>2, <4>3 DEF LastCodes, FirstRemote
        <5> QED
          BY <4>1, <4>3, <5>1, WidthAssumption DEF Allowed, Codes
      <4>4. CASE ~ Given("remote") /\ ~ Needs(i, "remote")
        BY <2>3, <4>1, <4>4 DEF Allowed, FirstRemote, Codes
      <4> QED
        BY <4>2, <4>3, <4>4
    <3>5. \A d \in Allowed("device", opt.device_id, DeviceMax, i) :
              d \in Codes /\ FirstDevice <= d /\ d <= device_last
      <4>1. DeviceMax[i] \in Codes /\ 0 \in Codes
        BY <2>3, ProtocolTableAssumption, WidthAssumption DEF Codes
      <4>2. CASE Given("device")
        BY <2>2, <2>3, <4>2 DEF LastCodes, Allowed, FirstDevice, Codes
      <4>3. CASE ~ Given("device") /\ Needs(i, "device")
        <5>1. device_last = DeviceMax[i] /\ FirstDevice = 0
          BY <2>1, <2>2, <4>3 DEF LastCodes, FirstDevice
        <5> QED
          BY <4>1, <4>3, <5>1, WidthAssumption DEF Allowed, Codes
      <4>4. CASE ~ Given("device") /\ ~ Needs(i, "device")
        BY <2>3, <4>1, <4>4 DEF Allowed, FirstDevice, Codes
      <4> QED
        BY <4>2, <4>3, <4>4
    <3>6. \A p \in FirstProtocol .. (i' - 1) : p \in FirstProtocol .. (i - 1) \/ p = i
      BY <2>3, <3>1 DEF Protocols
    <3>7. ProtocolsDone'
      BY <2>1, <2>2, <2>4, <3>3, <3>4, <3>5, <3>6 DEF ProtocolsDone, Allowed, Given, Needs
    <3>8. LastCodes' /\ (FirstProtocol <= i)'
      BY <2>1, <2>2, <2>3, <2>4, <3>1 DEF LastCodes, Given, Protocols
    <3> QED
      BY <3>1, <3>7, <3>8 DEF ScanInv
  <2> QED
    BY <2>5, <2>7, <2>8
<1>7. CASE LeaveScan
  BY <1>7
  DEF LeaveScan, ScanInv, ProtocolsDone, FirstProtocol, Allowed, Given, Needs, runVars, scanVars
<1>8. CASE CloseDriver
  BY <1>8 DEF CloseDriver, ScanInv
<1> QED
  BY <1>1, <1>2, <1>3, <1>4, <1>5, <1>6, <1>7, <1>8 DEF Next, Run

LEMMA ScanInvCovers == BaseInv /\ ScanInv => ScanCovers
<1> SUFFICES ASSUME BaseInv, ScanInv, ScanDone, Given("scan"), ret = 0
             PROVE  \A p \in FirstProtocol .. LastProtocol :
                        \A r \in Allowed("remote", opt.remote_id, RemoteMax, p),
                           d \in Allowed("device", opt.device_id, DeviceMax, p) :
                               <<p, r, d>> \in tried
  BY DEF ScanCovers
<1>1. phase = "exit" /\ i > LastProtocol /\ ProtocolsDone
  BY DEF ScanDone, ScanInv
<1>2. i \in Int /\ FirstProtocol \in Int /\ LastProtocol \in Int
  BY <1>1, ProtocolBounds DEF BaseInv, TypeOK, Protocols, Parsed
<1>3. \A p \in FirstProtocol .. LastProtocol : p \in FirstProtocol .. (i - 1)
  BY <1>1, <1>2
<1> QED
  BY <1>1, <1>3 DEF ProtocolsDone

-----------------------------------------------------------------------------
(***************************************************************************)
(* send_cmd() only lets a driver transmit in a format it supports.         *)
(***************************************************************************)
LEMMA SentFormat ==
  ASSUME drv \in Drivers, force_raw = (Given("raw") /\ CanRaw(drv)), NEW p \in Protocols,
         FormatSent(p) # "none"
  PROVE  /\ ~ DriverRefuses(FormatSent(p)) => FormatSent(p) \in SupportedFmts[drv]
         /\ Given("raw") /\ CanRaw(drv) => FormatSent(p) = "RAW"
<1>1. BitFmt[p] \in Formats
  BY ProtocolTableAssumption
<1> QED
  BY <1>1, DriverTableAssumption DEF DriverRefuses, FormatSent, MustConvert, CanRaw, Formats

\* After SendCmd nothing was handed over, and it failed, or it was this command.
LEMMA SendCmdAir ==
  ASSUME BaseInv, phase \in {"single", "codes"}, NEW p \in Protocols, NEW r, NEW d, NEW count,
         NEW result \in {0, -1}, SendCmd(p, r, d, count, result)
  PROVE  \/ handed' = Silence /\ air' = Silence /\ result = -1
         \/ /\ handed' # Silence
            /\ handed'.protocol = p /\ handed'.remote = r /\ handed'.device = d
            /\ handed'.frames = count
            /\ handed'.whole \/ MustConvert(p)
            /\ \/ air' = Silence /\ (result = -1 \/ drv \in MayLose)
               \/ /\ air' \in {handed', [handed' EXCEPT !.whole = FALSE]}
                  /\ air'.fmt \in SupportedFmts[drv]
                  /\ Given("raw") /\ CanRaw(drv) => air'.fmt = "RAW"
<1>1. drv \in Drivers /\ force_raw = (Given("raw") /\ CanRaw(drv))
  BY DEF BaseInv, TypeOK, PhaseInv
<1>2. ASSUME FormatSent(p) # "none", NEW whole \in IF MustConvert(p) THEN BOOLEAN ELSE {TRUE},
             HandOver(Frame(p, r, d, count, whole), result)
      PROVE  /\ handed' # Silence
             /\ handed'.protocol = p /\ handed'.remote = r /\ handed'.device = d
             /\ handed'.frames = count
             /\ handed'.whole \/ MustConvert(p)
             /\ \/ air' = Silence /\ (result = -1 \/ drv \in MayLose)
                \/ /\ air' \in {handed', [handed' EXCEPT !.whole = FALSE]}
                   /\ air'.fmt \in SupportedFmts[drv]
                   /\ Given("raw") /\ CanRaw(drv) => air'.fmt = "RAW"
  <2> DEFINE frame == Frame(p, r, d, count, whole)
  <2>1. /\ frame.fmt = FormatSent(p) /\ frame.protocol = p /\ frame.remote = r
        /\ frame.device = d /\ frame.frames = count /\ frame.whole = whole
        /\ [frame EXCEPT !.whole = FALSE].fmt = FormatSent(p)
    BY DEF Frame
  <2>2. handed' = frame /\ frame # Silence
    BY <1>2, <2>1 DEF HandOver, Silence
  <2>3. whole \/ MustConvert(p)
    BY <1>2
  <2>4. CASE air' = Silence /\ (result = -1 \/ drv \in MayLose)
    BY <2>1, <2>2, <2>3, <2>4
  <2>5. ASSUME ~ DriverRefuses(frame.fmt), NEW kept \in BOOLEAN,
               air' = [frame EXCEPT !.whole = @ /\ kept]
        PROVE  /\ air' \in {frame, [frame EXCEPT !.whole = FALSE]}
               /\ air'.fmt \in SupportedFmts[drv]
               /\ Given("raw") /\ CanRaw(drv) => air'.fmt = "RAW"
    <3>1. air' \in {frame, [frame EXCEPT !.whole = FALSE]}
      <4>1. whole \in BOOLEAN
        BY <1>2
      <4>2. CASE kept /\ whole
        BY <2>5, <4>2 DEF Frame
      <4>3. CASE ~ (kept /\ whole)
        BY <2>5, <4>1, <4>3 DEF Frame
      <4> QED
        BY <4>2, <4>3
    <3>2. air'.fmt = FormatSent(p)
      BY <2>1, <3>1
    <3> QED
      BY <1>1, <1>2, <2>1, <2>5, <3>1, <3>2, SentFormat
  <2>6. \/ air' = Silence /\ (result = -1 \/ drv \in MayLose)
        \/ /\ ~ DriverRefuses(frame.fmt)
           /\ \E kept \in BOOLEAN : air' = [frame EXCEPT !.whole = @ /\ kept]
    BY <1>2 DEF HandOver
  <2> HIDE DEF frame
  <2> QED
    BY <2>1, <2>2, <2>3, <2>4, <2>5, <2>6
<1> QED
  BY <1>2 DEF SendCmd, NotHandedOver

LEMMA AirStep == BaseInv /\ AirInv /\ Next => AirInv'
<1> SUFFICES ASSUME BaseInv, AirInv, Next PROVE AirInv'
  OBVIOUS
<1> USE DEF AirInv
<1>0. /\ TypeOK /\ PhaseInv /\ opt.nframe \in Int
      /\ frames \in [Protocols -> Byte] /\ DefaultFrames \in [Protocols -> Byte]
  BY ProtocolTableAssumption DEF BaseInv, TypeOK, OptTypeOK
<1>1. ASSUME UNCHANGED <<opt, drv, i, force_raw, frames, handed, air>>, phase' = "codes" => phase = "codes",
             phase' \in {"exit", "exited"} => ret' = -1 \/ Given("scan")
                                             \/ (phase = "exit" /\ ret' = ret)
      PROVE  AirInv'
  BY <1>1 DEF OnAirFormat, FramesForced, FramesInv, SentInv, Given, CanRaw, MustConvert
<1>2. CASE Parse
  <2>1. /\ air = Silence /\ air' = Silence /\ handed' = Silence /\ drv' = NoDriver /\ phase' # "codes"
        /\ frames' = DefaultFrames
    BY <1>0, <1>2, ParsePhases DEF Parse, PhaseInv, Early, runVars, scanVars
  <2> QED
    BY <2>1 DEF OnAirFormat, FramesForced, FramesInv, SentInv
<1>3. CASE SelectDriver
  <2>1. /\ air' = Silence /\ handed' = Silence /\ phase' \in {"init", "exited"} /\ frames' = frames /\ opt' = opt
        /\ phase' = "exited" => ret' = -1
    BY <1>0, <1>3 DEF SelectDriver, UseDriver, Fail, PhaseInv, Early
  <2> QED
    BY <2>1 DEF OnAirFormat, FramesForced, FramesInv, SentInv
<1>4. CASE InitDriver
  <2>1. /\ air' = Silence /\ handed' = Silence /\ phase' \in {"exit", "protocol", "single"} /\ frames' = frames
        /\ opt' = opt /\ (phase' = "exit" => ret' = -1)
    BY <1>0, <1>4 DEF InitDriver, AfterInitFailure, PhaseInv
  <2> QED
    BY <2>1 DEF OnAirFormat, FramesForced, FramesInv, SentInv
<1>5. CASE SendSingle
  <2>1. opt.protocol \in Protocols
    BY <1>0, <1>5, ProtocolBounds DEF SendSingle, Parsed, PhaseInv
  <2>2. /\ phase = "single" /\ phase' = "exit" /\ UNCHANGED <<opt, drv, i, force_raw>>
        /\ frames' = [frames EXCEPT ![opt.protocol] = FrameCount(opt.protocol)]
    BY <1>5 DEF SendSingle, ForceFrames, scanVars
  <2>3. PICK result \in {0, -1} :
            /\ SendCmd(opt.protocol, opt.remote_id, opt.device_id, FrameCount(opt.protocol), result)
            /\ ret' = result
    BY <1>5 DEF SendSingle, ExitStatus
  <2>4. \/ handed' = Silence /\ air' = Silence /\ result = -1
        \/ /\ handed' # Silence
           /\ handed'.protocol = opt.protocol /\ handed'.remote = opt.remote_id
           /\ handed'.device = opt.device_id /\ handed'.frames = FrameCount(opt.protocol)
           /\ handed'.whole \/ MustConvert(opt.protocol)
           /\ \/ air' = Silence /\ (result = -1 \/ drv \in MayLose)
              \/ /\ air' \in {handed', [handed' EXCEPT !.whole = FALSE]}
                 /\ air'.fmt \in SupportedFmts[drv]
                 /\ Given("raw") /\ CanRaw(drv) => air'.fmt = "RAW"
    BY <2>1, <2>2, <2>3, SendCmdAir
  <2>5. OnAirFormat'
    BY <2>2, <2>4 DEF OnAirFormat, Given, CanRaw
  <2>6. SentInv'
    BY <2>2, <2>3, <2>4 DEF SentInv, Given, MustConvert
  <2>7. FramesForced'
    BY <1>0, <2>1, <2>2, <2>4 DEF FramesForced, FramesInv, FrameCount
  <2>8. FramesInv'
    BY <1>0, <2>1, <2>2 DEF FramesInv, FrameCount
  <2> QED
    BY <2>5, <2>6, <2>7, <2>8
<1>6. CASE EnterProtocol
  <2>1. /\ i' = i /\ phase' = "codes" /\ UNCHANGED <<opt, drv, handed, air>>
        /\ frames' = [frames EXCEPT ![i] = FrameCount(i)]
    BY <1>6 DEF EnterProtocol, ForceFrames
  <2>2. i \in Protocols
    <3>1. LastProtocol \in Protocols /\ i <= LastProtocol /\ i \in 0 .. NumProtos
      BY <1>0, <1>6, ProtocolBounds DEF EnterProtocol, Parsed, TypeOK
    <3> QED
      BY <3>1, ProtocolAssumption DEF Protocols
  <2>3. FramesInv'
    BY <1>0, <2>1, <2>2 DEF FramesInv, FrameCount
  <2>4. OnAirFormat' /\ FramesForced' /\ SentInv'
    BY <2>1 DEF OnAirFormat, FramesForced, SentInv, Given, CanRaw
  <2> QED
    BY <2>3, <2>4
<1>7. CASE ScanSend
  <2>1. /\ phase = "codes" /\ phase' \in {"codes", "protocol"} /\ UNCHANGED <<opt, drv, frames>>
        /\ (phase' = "codes" => i' = i)
    BY <1>7 DEF ScanSend
  <2>2. i \in Protocols
    BY <1>0, <2>1 DEF PhaseInv
  <2>3. PICK result \in {0, -1} : SendCmd(i, j, k, frames[i], result)
    BY <1>7 DEF ScanSend
  <2>4. \/ handed' = Silence /\ air' = Silence
        \/ /\ handed'.protocol = i /\ handed'.frames = frames[i]
           /\ \/ air' = Silence
              \/ /\ air'.fmt \in SupportedFmts[drv]
                 /\ Given("raw") /\ CanRaw(drv) => air'.fmt = "RAW"
    BY <2>1, <2>2, <2>3, SendCmdAir
  <2>5. OnAirFormat' /\ SentInv' /\ FramesInv'
    BY <2>1, <2>4 DEF OnAirFormat, SentInv, FramesInv, Given, CanRaw
  <2>6. FramesForced'
    BY <1>0, <2>1, <2>2, <2>4 DEF FramesForced, FramesInv
  <2> QED
    BY <2>5, <2>6
<1>8. CASE LeaveScan
  BY <1>0, <1>1, <1>8 DEF LeaveScan, PhaseInv, runVars, scanVars
<1>9. CASE CloseDriver
  BY <1>1, <1>9 DEF CloseDriver, scanVars
<1> QED
  BY <1>2, <1>3, <1>4, <1>5, <1>6, <1>7, <1>8, <1>9 DEF Next, Run

-----------------------------------------------------------------------------
(***************************************************************************)
(* The codes a scan tries are the forced ones, or within the maxima of the *)
(* protocols that use them.                                                *)
(***************************************************************************)
LEMMA ForcedStep == BaseInv /\ BaseInv' /\ ScanInv /\ ForcedInv /\ Next => ForcedInv'
<1> SUFFICES ASSUME BaseInv, BaseInv', ScanInv, ForcedInv, Next PROVE ForcedInv'
  OBVIOUS
<1>0. TypeOK /\ PhaseInv
  BY DEF BaseInv
<1>1. ASSUME UNCHANGED <<opt, tried>>, phase' # "codes" PROVE ForcedInv'
  BY <1>1 DEF ForcedInv, ForcedValues, ForcedToMax, CodeInv, Given, Needs
<1>2. CASE Parse
  <2>1. tried' = {} /\ phase' # "codes"
    BY <1>0, <1>2, ParsePhases DEF Parse, PhaseInv, Early, runVars, scanVars
  <2> QED
    BY <2>1 DEF ForcedInv, ForcedValues, CodeInv
<1>3. CASE SelectDriver
  BY <1>1, <1>3 DEF SelectDriver, UseDriver, Fail
<1>4. CASE InitDriver
  BY <1>1, <1>4 DEF InitDriver, AfterInitFailure
<1>5. CASE SendSingle
  <2>1. /\ phase = "single" /\ phase' = "exit" /\ opt' = opt
        /\ tried' = tried \cup {<<opt.protocol, opt.remote_id, opt.device_id>>}
        /\ ~ Given("scan")
    BY <1>0, <1>5 DEF SendSingle, SendCmd, PhaseInv
  <2> QED
    BY <2>1 DEF ForcedInv, ForcedValues, ForcedToMax, CodeInv, Given, Needs
<1>6. CASE EnterProtocol
  <2>1. /\ phase = "protocol" /\ phase' = "codes" /\ UNCHANGED <<opt, tried, i>>
        /\ i <= LastProtocol /\ j' = FirstRemote /\ k' = FirstDevice
    BY <1>6 DEF EnterProtocol
  <2>2. i \in Protocols
    BY <2>1 DEF BaseInv, PhaseInv
  <2>3. Given("protocol") => i = opt.protocol
    <3>1. FirstProtocol <= i /\ FirstProtocol \in Protocols /\ LastProtocol \in Protocols
      BY <2>1, ProtocolBounds DEF ScanInv, Parsed
    <3> QED
      BY <2>1, <2>2, <3>1 DEF FirstProtocol, LastProtocol, Protocols
  <2>4. 0 <= RemoteMax[i] /\ 0 <= DeviceMax[i]
    BY <2>2, ProtocolTableAssumption DEF Codes
  <2>5. CodeInv'
    BY <2>1, <2>3, <2>4 DEF CodeInv, FirstRemote, FirstDevice, Given, Needs
  <2>6. ForcedValues' /\ (ForcedToMax' <=> ForcedToMax)
    BY <2>1 DEF ForcedInv, ForcedValues, ForcedToMax, Given, Needs
  <2> QED
    BY <2>5, <2>6 DEF ForcedInv
<1>7. CASE ScanSend
  <2>1. /\ phase = "codes" /\ UNCHANGED <<opt, remote_last, device_last>>
        /\ tried' = tried \cup {<<i, j, k>>}
    BY <1>7 DEF ScanSend, SendCmd
  <2>2. ForcedToMax' <=> ForcedToMax
    BY <2>1 DEF ForcedToMax, Given
  <2>3. SUFFICES ASSUME ~ ForcedToMax PROVE ForcedValues' /\ CodeInv'
    BY <2>2 DEF ForcedInv, ForcedValues
  <2>4. CodeInv /\ ForcedValues
    BY <2>3 DEF ForcedInv
  <2>5. ForcedValues'
    BY <2>1, <2>4 DEF ForcedValues, CodeInv, ForcedToMax, Given, Needs
  <2>6. /\ j \in Codes /\ k \in Codes /\ LastCodes /\ FirstDevice \in Codes
        /\ opt.remote_id \in Codes /\ opt.device_id \in Codes
        /\ remote_last \in Codes /\ device_last \in Codes
    BY <1>0, <2>1, CodeBounds DEF TypeOK, OptTypeOK, ScanInv
  \* A forced code is not the last uint32_t, so that its successor leaves the loop.
  <2>7. ASSUME Given("remote") PROVE ~ InLoop(NextCode(j), remote_last)
    BY <2>1, <2>3, <2>4, <2>6, <2>7, WidthAssumption
    DEF CodeInv, LastCodes, InLoop, NextCode, ForcedToMax, Codes
  <2>8. ASSUME Given("device") PROVE ~ InLoop(NextCode(k), device_last)
    BY <2>1, <2>3, <2>4, <2>6, <2>8, WidthAssumption
    DEF CodeInv, LastCodes, InLoop, NextCode, ForcedToMax, Codes
  <2>9. CASE InLoop(NextCode(k), device_last)
    <3>1. phase' = "codes" /\ i' = i /\ j' = j /\ k' = NextCode(k) /\ ~ Given("device")
      BY <1>7, <2>1, <2>8, <2>9 DEF ScanSend
    <3>2. CodeInv'
      BY <2>1, <2>4, <2>6, <2>9, <3>1 DEF CodeInv, LastCodes, InLoop, Given, Needs
    <3> QED
      BY <2>5, <3>2
  <2>10. CASE ~ InLoop(NextCode(k), device_last) /\ InLoop(NextCode(j), remote_last)
    <3>1. phase' = "codes" /\ i' = i /\ j' = NextCode(j) /\ k' = FirstDevice /\ ~ Given("remote")
      BY <1>7, <2>1, <2>7, <2>10 DEF ScanSend
    <3>2. DeviceMax[i] \in Codes
      BY <2>1, ProtocolTableAssumption DEF BaseInv, PhaseInv
    <3>3. CodeInv'
      BY <2>1, <2>4, <2>6, <2>10, <3>1, <3>2
      DEF CodeInv, LastCodes, InLoop, FirstDevice, Given, Needs, Codes
    <3> QED
      BY <2>5, <3>3
  <2>11. CASE ~ InLoop(NextCode(k), device_last) /\ ~ InLoop(NextCode(j), remote_last)
    BY <1>7, <2>5, <2>11 DEF ScanSend, CodeInv
  <2> QED
    BY <2>9, <2>10, <2>11
<1>8. CASE LeaveScan
  BY <1>1, <1>8 DEF LeaveScan, runVars, scanVars
<1>9. CASE CloseDriver
  BY <1>1, <1>9 DEF CloseDriver
<1> QED
  BY <1>2, <1>3, <1>4, <1>5, <1>6, <1>7, <1>8, <1>9 DEF Next, Run

-----------------------------------------------------------------------------
(***************************************************************************)
(* The theorems, of every behaviour of the program.                        *)
(***************************************************************************)
Inv == BaseInv /\ ScanInv /\ AirInv /\ ForcedInv

THEOREM Invariance == Spec => []Inv
<1>1. Init => Inv
  <2> SUFFICES ASSUME Init PROVE Inv
    OBVIOUS
  <2>1. BaseInv
    BY BaseInit
  <2>2. phase = "config" /\ tried = {} /\ handed = Silence /\ air = Silence /\ frames = DefaultFrames
    BY DEF Init, OptInit
  <2>3. ScanInv /\ AirInv /\ ForcedInv
    BY <2>2 DEF ScanInv, AirInv, OnAirFormat, FramesForced, FramesInv, SentInv, ForcedInv,
                ForcedValues, CodeInv
  <2> QED
    BY <2>1, <2>3 DEF Inv
<1>2. Inv /\ Next => Inv'
  BY BaseStep, ScanStep, AirStep, ForcedStep DEF Inv
<1>3. Inv /\ UNCHANGED vars => Inv'
  <2> SUFFICES ASSUME Inv, UNCHANGED vars PROVE Inv'
    OBVIOUS
  <2> USE DEF vars, optVars, runVars, scanVars
  <2>1. BaseInv'
    BY DEF Inv, BaseInv, TypeOK, OptTypeOK, OptInv, ProvidedStored, NeededExact, NeededByAll,
           NoneMissing, Parsed, PhaseInv, HwParamsGiven, Given, CanRaw
  <2>2. ScanInv'
    BY DEF Inv, ScanInv, LastCodes, ProtocolsDone, RemotesDone, DevicesDone, FirstProtocol,
           LastProtocol, FirstRemote, FirstDevice, Allowed, Given, Needs
  <2>3. AirInv'
    BY DEF Inv, AirInv, OnAirFormat, FramesForced, FramesInv, SentInv, Given, CanRaw, MustConvert
  <2>4. ForcedInv'
    BY DEF Inv, ForcedInv, ForcedValues, ForcedToMax, CodeInv, Given, Needs
  <2> QED
    BY <2>1, <2>2, <2>3, <2>4 DEF Inv
<1> QED
  BY <1>1, <1>2, <1>3, PTL DEF Spec

\* Every value keeps its type: codes and frame counts their width, indices their table.
THEOREM TypeCorrectness == Spec => []TypeOK
  BY Invariance, PTL DEF Inv, BaseInv

(***************************************************************************)
(* main() goes on only with a command of the table, a protocol unless it   *)
(* scans, and a GPIO number where one is announced.                        *)
(***************************************************************************)
THEOREM ArgumentsSafe == Spec => []DefinedArgs
<1>1. Inv => DefinedArgs
  BY OptInvDefinedArgs DEF Inv, BaseInv
<1> QED
  BY <1>1, Invariance, PTL

\* A protocol named once, and used without a scan, has been given all it declares needed.
THEOREM ParametersGiven == Spec => []NeededWereProvided
<1>1. Inv => NeededWereProvided
  BY OptInvNeeded DEF Inv, BaseInv
<1> QED
  BY <1>1, Invariance, PTL

\* A driver that needs a GPIO is initialised with the number of one.
THEOREM DriverStartedWithParams == Spec => []DriverParamsDefined
<1>1. Inv => DriverParamsDefined
  BY DEF Inv, BaseInv, PhaseInv, OptInv, ProvidedStored, HwParamsGiven, DriverParamsDefined
<1> QED
  BY <1>1, Invariance, PTL

\* No format reaches the air through a driver that does not support it; -R is obeyed.
THEOREM FormatSupported == Spec => []OnAirFormat
  BY Invariance, PTL DEF Inv, AirInv

\* -n above 0 fixes, to its low byte, the number of frames of every command of an invocation.
THEOREM FrameCountForced == Spec => []FramesForced
  BY Invariance, PTL DEF Inv, AirInv

\* A scan that is left has tried every code of every protocol allowed.
THEOREM ScanComplete == Spec => []ScanCovers
<1>1. Inv => ScanCovers
  BY ScanInvCovers DEF Inv
<1> QED
  BY <1>1, Invariance, PTL

\* A scan tries the forced values, and no code above the maximum of a protocol that uses it.
THEOREM ScanWithinForced == Spec => []ForcedValues
  BY Invariance, PTL DEF Inv, ForcedInv

\* What init() acquired is given back before the program ends.
THEOREM NothingHeldAtExit == Spec => []ClosedAtExit
<1>1. Inv => ClosedAtExit
  BY DEF Inv, BaseInv, PhaseInv, ClosedAtExit
<1> QED
  BY <1>1, Invariance, PTL

\* Exit status 0 of a single command means that the command asked for was handed to the driver,
\* and transmitted by one that notices a lost frame.
THEOREM ExitStatusTrue == Spec => []SuccessMeansSent
<1>1. Inv => SuccessMeansSent
  BY DEF Inv, AirInv, SentInv, SuccessMeansSent
<1> QED
  BY <1>1, Invariance, PTL
=============================================================================
