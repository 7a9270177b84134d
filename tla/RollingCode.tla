---------------------------- MODULE RollingCode ----------------------------
(***************************************************************************)
(* The rolling codes of somfy_format_cmd() and blyss_format_cmd(): one     *)
(* file per remote and device, whose content is read, incremented modulo M *)
(* (0x10000 for Somfy, the 5 entries of rolling_code_table for Blyss) and  *)
(* written back before the frame that carries the old value is handed to   *)
(* the transmitter.  No lock is taken: invocations of rf-ctrl may overlap, *)
(* and each may be killed anywhere.  Both functions have the same steps.   *)
(* The history variable disturbed remembers the files for which the order  *)
(* of things was lost that way: two invocations worked on one at once, or  *)
(* a write to it failed.                                                   *)
(***************************************************************************)
EXTENDS Integers

CONSTANTS
    Procs,          \* invocations that may run at the same time
    Keys,           \* the <<remote, device>> codes, in full: they name the file
    Receivers,      \* the receivers, told apart by what the frame carries
    ReceiverOf,     \* key -> the receiver that hears its frames
    M,              \* modulus of the rolling code
    Readable,       \* number of values fscanf() can deliver, at least M
    WriteMayFail,   \* whether the flush in fclose(), never checked, may fail
    MaxLost         \* bound: codes lost since a receiver was last served

ASSUME RollingAssumption ==
    /\ M \in Nat \ {0} /\ Readable \in Nat /\ M <= Readable
    /\ ReceiverOf \in [Keys -> Receivers]
    /\ WriteMayFail \in BOOLEAN
    /\ MaxLost \in Nat

Absent == -2      \* no such file
Empty  == -1       \* created or truncated by fopen(, "w+")
Idle   == "idle"

VARIABLES
    folder,    \* whether the directory of the files exists
    file,      \* key -> Absent, Empty or the number stored
    pc,        \* process -> where it stands in format_cmd()
    key,       \* process -> the file it works on
    code,      \* process -> rolling_code
    last,      \* receiver -> {} or {code}, the code it was sent last
    lost,      \* history: receiver -> codes taken and stored since, but not sent
    disturbed  \* history: the files two invocations met at, or lost a write of

store == <<folder, file>>
sent  == <<last, lost>>
vars  == <<store, pc, key, code, sent, disturbed>>

Steps == {Idle, "path", "open", "create", "read", "write", "send"}

Init ==
    /\ folder = FALSE
    /\ file = [k \in Keys |-> Absent]
    /\ pc = [p \in Procs |-> Idle]
    /\ key \in {[p \in Procs |-> k] : k \in Keys}
    /\ code = [p \in Procs |-> 0]
    /\ last = [r \in Receivers |-> {}]
    /\ lost = [r \in Receivers |-> 0]
    /\ disturbed = {}

Active(p) == pc[p] # Idle
Goto(p, step) == pc' = [pc EXCEPT ![p] = step]

\* A supported command for that remote and device: rolling_code starts at 0.
Start(p, k) ==
    /\ ~ Active(p)
    /\ lost[ReceiverOf[k]] < MaxLost
    /\ key' = [key EXCEPT ![p] = k]
    /\ code' = [code EXCEPT ![p] = 0]
    /\ disturbed' = IF \E q \in Procs \ {p} : Active(q) /\ key[q] = k
                      THEN disturbed \cup {k} ELSE disturbed
    /\ Goto(p, "path")
    /\ UNCHANGED <<store, sent>>

\* get_storage_path(): mkdir_p() makes a missing directory, or silently does not.
StoragePath(p) ==
    /\ pc[p] = "path"
    /\ folder' \in {folder, TRUE}
    /\ Goto(p, "open")
    /\ UNCHANGED <<file, key, code, sent, disturbed>>

\* fopen(, "r+") finds the file or not.
Open(p) ==
    /\ pc[p] = "open"
    /\ Goto(p, IF file[key[p]] = Absent THEN "create" ELSE "read")
    /\ UNCHANGED <<store, key, code, sent, disturbed>>

\* fopen(, "w+") creates the file, or truncates one that appeared meanwhile.
Create(p) ==
    /\ pc[p] = "create" /\ folder
    /\ file' = [file EXCEPT ![key[p]] = Empty]
    /\ Goto(p, "read")
    /\ UNCHANGED <<folder, key, code, sent, disturbed>>

\* Neither fopen() succeeds: "Cannot open", format_cmd() returns -1.
CannotOpen(p) ==
    /\ pc[p] \in {"open", "create"}
    /\ Goto(p, Idle)
    /\ UNCHANGED <<store, key, code, sent, disturbed>>

\* fscanf(): a file without a number leaves rolling_code at 0.
Value(content) == IF content \in {Absent, Empty} THEN 0 ELSE content

Read(p) ==
    /\ pc[p] = "read"
    /\ code' = [code EXCEPT ![p] = Value(file[key[p]])]
    /\ Goto(p, "write")
    /\ UNCHANGED <<store, key, sent, disturbed>>

\* fseek() and fprintf() only fill a buffer that fclose() writes out.
NextCodeUnreduced(c) == IF c = M THEN 0 ELSE c + 1     \* mutant: modulo M + 1
NextCodeWide(c) == c + 1                               \* mutant: no modulus
NextCodeSame(c) == c                                   \* mutant: never advanced
NextCode(c) == (c + 1) % M

Write(p) ==
    /\ pc[p] = "write"
    /\ file' = [file EXCEPT ![key[p]] = NextCode(code[p])]
    /\ lost' = [lost EXCEPT ![ReceiverOf[key[p]]] = @ + 1]
    /\ Goto(p, "send")
    /\ UNCHANGED <<folder, key, code, last, disturbed>>

WriteLost(p) ==
    /\ WriteMayFail
    /\ pc[p] = "write"
    /\ disturbed' = disturbed \cup {key[p]}
    /\ Goto(p, "send")
    /\ UNCHANGED <<store, key, code, sent>>

\* The rest of send_cmd(): the frame with rolling_code reaches the receiver.
Send(p) ==
    LET r == ReceiverOf[key[p]] IN
    /\ pc[p] = "send"
    /\ last' = [last EXCEPT ![r] = {code[p]}]
    /\ lost' = [lost EXCEPT ![r] = 0]
    /\ Goto(p, Idle)
    /\ UNCHANGED <<store, key, code, disturbed>>

SendFails(p) ==
    /\ pc[p] = "send"
    /\ Goto(p, Idle)
    /\ UNCHANGED <<store, key, code, sent, disturbed>>

\* The process is killed; what its stdio buffer held is lost.
Kill(p) ==
    /\ Active(p)
    /\ Goto(p, Idle)
    /\ UNCHANGED <<store, key, code, sent, disturbed>>

Next ==
    \E p \in Procs :
        \/ \E k \in Keys : Start(p, k)
        \/ StoragePath(p) \/ Open(p) \/ Create(p) \/ CannotOpen(p) \/ Read(p)
        \/ Write(p) \/ WriteLost(p) \/ Send(p) \/ SendFails(p) \/ Kill(p)

Spec == Init /\ [][Next]_vars

-----------------------------------------------------------------------------
TypeOK ==
    /\ folder \in BOOLEAN /\ disturbed \subseteq Keys
    /\ file \in [Keys -> {Absent, Empty} \cup 0 .. Readable - 1]
    /\ pc \in [Procs -> Steps]
    /\ key \in [Procs -> Keys]
    /\ code \in [Procs -> 0 .. Readable - 1]
    /\ last \in [Receivers -> SUBSET (0 .. Readable - 1)]
    /\ lost \in [Receivers -> Nat]

(***************************************************************************)
(* rolling_code_table[rolling_code_idx] (blyss.c:104) and the 16 bits of   *)
(* Somfy's code: what is read back from a file that was created, truncated *)
(* or half handled by overlapping and killed invocations is always an      *)
(* index below M, although the conversion would accept more.               *)
(***************************************************************************)
IndexInBounds == \A p \in Procs : pc[p] \in {"write", "send"} => code[p] < M

(***************************************************************************)
(* A receiver whose file is undisturbed is sent codes in order: each is    *)
(* the successor of the one it was sent last, but for the codes that were  *)
(* stored and then not transmitted (the process was killed or the driver   *)
(* failed).  It never hears an old one, whatever other invocations do with *)
(* other files at the same time.                                           *)
(***************************************************************************)
SendsSuccessor ==
    [][\A k \in Keys \ disturbed' : LET r == ReceiverOf[k] IN
           \A c \in last[r], d \in last'[r] :
               lost[r] > 0 /\ lost'[r] = 0 => d = (c + lost[r]) % M]_vars

(***************************************************************************)
(* As long as nothing is disturbed the files implement the abstract        *)
(* counter: the many steps that read a code and store its successor act as *)
(* one, taken when the successor is written.                               *)
(***************************************************************************)
Counter == INSTANCE RollingCounter WITH
    counter <- [k \in Keys |-> Value(file[k])],
    held    <- [p \in Procs |-> IF pc[p] = "send" THEN {<<key[p], code[p]>>} ELSE {}],
    last    <- [k \in Keys |-> last[ReceiverOf[k]]]

ImplementsCounter ==
    Counter!Init /\ [][Counter!Next \/ disturbed' # {}]_(Counter!counterVars)

(***************************************************************************)
(* "Get the current rolling code for that device and remote"               *)
(* (somfy.c:133): two processes never hold the same current code for one   *)
(* receiver.  Does not hold: nothing keeps two invocations from reading    *)
(* the file before either has written it.                                  *)
(***************************************************************************)
CurrentCodeIsOwn ==
    \A p, q \in Procs :
        p # q /\ pc[p] = "send" /\ pc[q] = "send" /\ key[p] = key[q] => code[p] # code[q]
=============================================================================
