----------------------------- MODULE MCOokGpio -----------------------------
(***************************************************************************)
(* One invocation is given, for every protocol, every command (a command   *)
(* it does not know included) with the codes that have no bit, all bits,   *)
(* one bit or all but one, and with codes the format has no room for:      *)
(* whatever bit an encoder loses, two of these become the same, and        *)
(* whatever it keeps too much of, a field gets disturbed.  The other       *)
(* invocation is refused its command; with two other commands of it, one   *)
(* command of each protocol overlaps.                                      *)
(***************************************************************************)
EXTENDS OokGpio

CONSTANTS p1, p2

Walking(width) ==
    {0, 2^width - 1} \cup UNION {{2^i, 2^width - 1 - 2^i} : i \in 0 .. width - 1}

\* Above the maximum of a format: the next two bits, the two together with a low one, all.
TooWide(width) == {2^width, 2^(width + 1), 3 * 2^width + 1, (2^30 - 1) + 2^30}

RollingCodes == [protocol \in DOMAIN CodeBits |->
    CASE protocol = "somfy" -> {0, 255, 65535} [] protocol = "blyss" -> 0 .. 4 [] OTHER -> {0}]

Cmd(protocol, remote, device, command, rolling_code) ==
    [protocol |-> protocol, remote |-> remote, device |-> device, command |-> command,
     rolling_code |-> rolling_code]

\* One code walks while the other is 1, one rolling code for each command.
CommandsOf(protocol) ==
    LET remotes  == Walking(CodeBits[protocol][1]) \cup TooWide(CodeBits[protocol][1])
        devices  == Walking(CodeBits[protocol][2]) \cup TooWide(CodeBits[protocol][2])
        commands == DOMAIN RawCmd(protocol) \cup {"F2"}
        rolling  == CHOOSE r \in RollingCodes[protocol] : TRUE
    IN  {Cmd(protocol, r, 1, c, rolling) : r \in remotes, c \in commands}
          \cup {Cmd(protocol, 1, d, c, rolling) : d \in devices, c \in commands}
          \cup {Cmd(protocol, 1, 1, c, r) : c \in commands, r \in RollingCodes[protocol]}

Pairing(a, b) == (p1 :> a) @@ (p2 :> b)

MCCommands ==
    {Pairing(c, Cmd("idk", 0, 1, "OFF", 0)) :
        c \in UNION {CommandsOf(protocol) : protocol \in DOMAIN CodeBits}}
      \cup {Pairing(Cmd(protocol, 0, 3, "ON", 0), other) : protocol \in DOMAIN CodeBits,
            other \in {Cmd("auchan", 5, 3, "ON", 0), Cmd("blyss", 5, 3, "GOFF", 2)}}
=============================================================================
