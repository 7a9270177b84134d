------------------------- MODULE RollingCodeProofs -------------------------
(***************************************************************************)
(* Proofs about RollingCode: for any number of overlapping invocations,    *)
(* files, receivers and any modulus, the code read back is an index of the *)
(* table; and where each file has a receiver of its own, undisturbed files *)
(* implement the abstract counter and send their codes in order.           *)
(***************************************************************************)
EXTENDS RollingCode, TLAPS

(***************************************************************************)
(* The inductive invariant: every number stored, and every number read, is *)
(* below M.  It says of the files what IndexInBounds says of the codes.    *)
(***************************************************************************)
Contents == {Absent, Empty} \cup 0 .. M - 1

IInv ==
    /\ folder \in BOOLEAN /\ disturbed \subseteq Keys
    /\ file \in [Keys -> Contents]
    /\ pc \in [Procs -> Steps]
    /\ key \in [Procs -> Keys]
    /\ code \in [Procs -> 0 .. M - 1]
    /\ last \in [Receivers -> SUBSET (0 .. M - 1)]
    /\ lost \in [Receivers -> Nat]

LEMMA SpecialValues == Absent = -2 /\ Empty = -1 /\ Idle = "idle"
  BY DEF Absent, Empty, Idle

\* The successor of a code is a code.
LEMMA NextCodeIsCode == ASSUME NEW c \in 0 .. M - 1 PROVE NextCode(c) \in 0 .. M - 1
<1>1. M \in Nat \ {0} /\ c + 1 \in Nat
  BY RollingAssumption
<1>2. (c + 1) % M \in 0 .. M - 1
  BY <1>1
<1> QED
  BY <1>2 DEF NextCode

\* What fscanf() makes of a file is a code.
LEMMA ValueIsCode == ASSUME NEW v \in Contents PROVE Value(v) \in 0 .. M - 1
  BY RollingAssumption DEF Value, Contents, Absent, Empty

LEMMA InitIInv == Init => IInv
<1> SUFFICES ASSUME Init PROVE IInv
  OBVIOUS
<1>1. 0 \in 0 .. M - 1 /\ Absent \in Contents
  BY RollingAssumption DEF Contents
<1>2. key \in [Procs -> Keys]
  BY DEF Init
<1> QED
  BY <1>1, <1>2 DEF Init, IInv, Steps

LEMMA NextIInv == IInv /\ [Next]_vars => IInv'
<1> SUFFICES ASSUME IInv, [Next]_vars PROVE IInv'
  OBVIOUS
<1> USE RollingAssumption DEF IInv, Steps, store, sent
<1>1. ASSUME NEW p \in Procs, NEW k \in Keys, Start(p, k) PROVE IInv'
  <2>1. 0 \in 0 .. M - 1
    OBVIOUS
  <2>2. disturbed' \subseteq Keys
    BY <1>1 DEF Start
  <2> QED
    BY <1>1, <2>1, <2>2 DEF Start, Goto
<1>2. ASSUME NEW p \in Procs, StoragePath(p) \/ Open(p) PROVE IInv'
  <2>1. folder' \in BOOLEAN
    BY <1>2 DEF StoragePath, Open
  <2>2. pc' \in [Procs -> Steps]
    BY <1>2 DEF StoragePath, Open, Goto
  <2> QED
    BY <1>2, <2>1, <2>2 DEF StoragePath, Open
<1>3. ASSUME NEW p \in Procs, Create(p) PROVE IInv'
  BY <1>3 DEF Create, Goto, Contents
<1>4. ASSUME NEW p \in Procs, CannotOpen(p) PROVE IInv'
  BY <1>4 DEF CannotOpen, Goto
<1>5. ASSUME NEW p \in Procs, Read(p) PROVE IInv'
  <2>1. Value(file[key[p]]) \in 0 .. M - 1
    BY ValueIsCode
  <2> QED
    BY <1>5, <2>1 DEF Read, Goto
<1>6. ASSUME NEW p \in Procs, Write(p) PROVE IInv'
  <2>1. NextCode(code[p]) \in Contents
    BY NextCodeIsCode DEF Contents
  <2>2. file' \in [Keys -> Contents] /\ pc' \in [Procs -> Steps]
    BY <1>6, <2>1 DEF Write, Goto
  <2>3. lost' \in [Receivers -> Nat]
    BY <1>6 DEF Write
  <2> QED
    BY <1>6, <2>2, <2>3 DEF Write
<1>7. ASSUME NEW p \in Procs, WriteLost(p) PROVE IInv'
  <2>1. disturbed' \subseteq Keys
    BY <1>7 DEF WriteLost
  <2> QED
    BY <1>7, <2>1 DEF WriteLost, Goto
<1>8. ASSUME NEW p \in Procs, Send(p) PROVE IInv'
  <2>1. {code[p]} \in SUBSET (0 .. M - 1)
    OBVIOUS
  <2>2. last' \in [Receivers -> SUBSET (0 .. M - 1)] /\ lost' \in [Receivers -> Nat]
    BY <1>8, <2>1 DEF Send
  <2> QED
    BY <1>8, <2>2 DEF Send, Goto
<1>9. ASSUME NEW p \in Procs, SendFails(p) \/ Kill(p) PROVE IInv'
  BY <1>9 DEF SendFails, Kill, Goto
<1>10. CASE UNCHANGED vars
  BY <1>10 DEF vars
<1> QED
  BY <1>1, <1>2, <1>3, <1>4, <1>5, <1>6, <1>7, <1>8, <1>9, <1>10 DEF Next

LEMMA IInvAlways == Spec => []IInv
  BY InitIInv, NextIInv, PTL DEF Spec

(***************************************************************************)
(* Files, codes and the history keep their types, for any modulus: what a  *)
(* file holds can always be read back by fscanf().                         *)
(***************************************************************************)
THEOREM TypeCorrectness == Spec => []TypeOK
<1>1. IInv => TypeOK
  <2> SUFFICES ASSUME IInv PROVE TypeOK
    OBVIOUS
  <2>1. 0 .. M - 1 \subseteq 0 .. Readable - 1
    BY RollingAssumption
  <2>2. Contents \subseteq {Absent, Empty} \cup 0 .. Readable - 1
    BY <2>1 DEF Contents
  <2> QED
    BY <2>1, <2>2 DEF IInv, TypeOK
<1> QED
  BY IInvAlways, <1>1, PTL

(***************************************************************************)
(* However many invocations overlap, are killed or lose their writes, the  *)
(* index into rolling_code_table, and Somfy's 16 bits, are never exceeded. *)
(***************************************************************************)
THEOREM IndicesSafe == Spec => []IndexInBounds
<1>1. IInv => IndexInBounds
  BY RollingAssumption DEF IInv, IndexInBounds
<1> QED
  BY IInvAlways, <1>1, PTL

-----------------------------------------------------------------------------
(***************************************************************************)
(* Arithmetic modulo M, for a modulus that is not a number.                *)
(***************************************************************************)
LEMMA AtLeastOnce == ASSUME NEW m \in Nat \ {0}, NEW d \in Nat \ {0} PROVE m * d >= m
<1>1. PICK e \in Nat : d = e + 1
  <2>1. d - 1 \in Nat /\ d = (d - 1) + 1
    OBVIOUS
  <2> QED
    BY <2>1
<1>2. m * d = m * e + m
  BY <1>1
<1>3. m * e >= 0
  OBVIOUS
<1> QED
  BY <1>2, <1>3

LEMMA Remainder ==
  ASSUME NEW m \in Nat \ {0}, NEW q \in Int, NEW r \in 0 .. m - 1
  PROVE  (m * q + r) % m = r
<1> DEFINE b == m * q + r
          s == b % m
          p == b \div m
<1>1. s \in 0 .. m - 1 /\ p \in Int /\ b = m * p + s
  OBVIOUS
<1>2. m * (q - p) = s - r /\ m * (p - q) = r - s
  BY <1>1
<1>3. m * p + s = m * q + r
  BY <1>1
<1> HIDE DEF s, p
<1>4. ~ (q - p \in Nat \ {0})
  <2> SUFFICES ASSUME q - p \in Nat \ {0} PROVE FALSE
    OBVIOUS
  <2>1. m * (q - p) >= m
    BY AtLeastOnce
  <2> QED
    BY <1>1, <1>2, <2>1
<1>5. ~ (p - q \in Nat \ {0})
  <2> SUFFICES ASSUME p - q \in Nat \ {0} PROVE FALSE
    OBVIOUS
  <2>1. m * (p - q) >= m
    BY AtLeastOnce
  <2> QED
    BY <1>1, <1>2, <2>1
<1>6. p = q
  BY <1>1, <1>4, <1>5
<1>7. s = r
  BY <1>1, <1>3, <1>6
<1> QED
  BY <1>7 DEF s

\* One more, modulo m, whether reduced before or not.
LEMMA SuccessorMod ==
  ASSUME NEW m \in Nat \ {0}, NEW a \in Nat
  PROVE  ((a % m) + 1) % m = (a + 1) % m
<1> DEFINE r == a % m
          q == a \div m
<1>1. r \in 0 .. m - 1 /\ q \in Int /\ a = m * q + r
  OBVIOUS
<1> HIDE DEF r, q
<1>2. CASE r + 1 < m
  <2>1. r + 1 \in 0 .. m - 1 /\ a + 1 = m * q + (r + 1) /\ r + 1 = m * 0 + (r + 1)
    BY <1>1, <1>2
  <2>2. (m * q + (r + 1)) % m = r + 1
    BY <1>1, <2>1, Remainder
  <2>3. (m * 0 + (r + 1)) % m = r + 1
    BY <2>1, Remainder
  <2> QED
    BY ONLY <2>1, <2>2, <2>3 DEF r
<1>3. CASE r + 1 = m
  <2>1. a + 1 = m * (q + 1) + 0 /\ r + 1 = m * 1 + 0 /\ q + 1 \in Int /\ 0 \in 0 .. m - 1
    BY <1>1, <1>3
  <2>2. (m * (q + 1) + 0) % m = 0
    BY <2>1, Remainder
  <2>3. (m * 1 + 0) % m = 0
    BY <2>1, Remainder
  <2> QED
    BY ONLY <2>1, <2>2, <2>3 DEF r
<1> QED
  BY <1>1, <1>2, <1>3

\* Different codes have different successors.
LEMMA NextCodeInjective ==
  ASSUME NEW c \in 0 .. M - 1, NEW d \in 0 .. M - 1, NextCode(c) = NextCode(d)
  PROVE  c = d
<1>1. ASSUME NEW e \in 0 .. M - 1 PROVE NextCode(e) = IF e = M - 1 THEN 0 ELSE e + 1
  <2>1. M \in Nat \ {0} /\ e \in Nat
    BY RollingAssumption
  <2>2. CASE e = M - 1
    <3>1. e + 1 = M * 1 + 0 /\ 0 \in 0 .. M - 1
      BY <2>1, <2>2
    <3>2. (M * 1 + 0) % M = 0
      BY <2>1, <3>1, Remainder
    <3> QED
      BY ONLY <2>2, <3>1, <3>2 DEF NextCode
  <2>3. CASE e # M - 1
    <3>1. e + 1 = M * 0 + (e + 1) /\ e + 1 \in 0 .. M - 1
      BY <2>1, <2>3
    <3>2. (M * 0 + (e + 1)) % M = e + 1
      BY <2>1, <3>1, Remainder
    <3> QED
      BY ONLY <2>3, <3>1, <3>2 DEF NextCode
  <2> QED
    BY <2>2, <2>3
<1>2. NextCode(c) = IF c = M - 1 THEN 0 ELSE c + 1
  BY <1>1
<1>3. NextCode(d) = IF d = M - 1 THEN 0 ELSE d + 1
  BY <1>1
<1>4. M \in Nat \ {0} /\ (IF c = M - 1 THEN 0 ELSE c + 1) = (IF d = M - 1 THEN 0 ELSE d + 1)
  BY <1>2, <1>3, RollingAssumption
<1> QED
  BY ONLY <1>4, c \in 0 .. M - 1, d \in 0 .. M - 1

-----------------------------------------------------------------------------
(***************************************************************************)
(* What holds of undisturbed files.  Alone: only one invocation works on   *)
(* such a file, so what it found on its way still holds when it acts on    *)
(* it.  InOrder: the file is ahead of the code its receiver was sent last  *)
(* by one and by the codes lost since.                                     *)
(***************************************************************************)
OnlyOne ==
    \A p, q \in Procs :
        p # q /\ Active(p) /\ Active(q) /\ key[p] = key[q] => key[p] \in disturbed

UpToDate ==
    \A p \in Procs : key[p] \notin disturbed =>
        /\ pc[p] = "create" => Value(file[key[p]]) = 0
        /\ pc[p] = "write"  => code[p] = Value(file[key[p]])
        /\ pc[p] = "send"   => Value(file[key[p]]) = NextCode(code[p])

Alone == OnlyOne /\ UpToDate

InOrder ==
    \A k \in Keys \ disturbed : \A c \in last[ReceiverOf[k]] :
        Value(file[k]) = (c + lost[ReceiverOf[k]] + 1) % M

OwnReceivers == \A k, l \in Keys : ReceiverOf[k] = ReceiverOf[l] => k = l

\* What is stored is read back.
LEMMA ValueOfNext == ASSUME NEW c \in 0 .. M - 1 PROVE Value(NextCode(c)) = NextCode(c)
<1>1. NextCode(c) \in 0 .. M - 1
  BY NextCodeIsCode
<1>2. NextCode(c) # -1 /\ NextCode(c) # -2
  BY <1>1, RollingAssumption
<1> QED
  BY <1>2 DEF Value, Absent, Empty

LEMMA OnlyOneStep == IInv /\ OnlyOne /\ [Next]_vars => OnlyOne'
<1> SUFFICES ASSUME IInv, OnlyOne, [Next]_vars, NEW p \in Procs, NEW q \in Procs,
                    p # q, Active(p)', Active(q)', key'[p] = key'[q]
             PROVE  key'[p] \in disturbed'
  BY DEF OnlyOne
<1> USE DEF IInv, OnlyOne, Active, store, sent
<1>1. ASSUME NEW r \in Procs, NEW k \in Keys, Start(r, k) PROVE key'[p] \in disturbed'
  <2>1. CASE p = r
    BY <1>1, <2>1 DEF Start, Goto
  <2>2. CASE q = r
    BY <1>1, <2>2 DEF Start, Goto
  <2>3. CASE p # r /\ q # r
    BY <1>1, <2>3 DEF Start, Goto
  <2> QED
    BY <2>1, <2>2, <2>3
<1>2. ASSUME NEW r \in Procs,
             StoragePath(r) \/ Open(r) \/ Create(r) \/ CannotOpen(r) \/ Read(r)
      PROVE  key'[p] \in disturbed'
  BY <1>2, SpecialValues DEF StoragePath, Open, Create, CannotOpen, Read, Goto
<1>3. ASSUME NEW r \in Procs,
             Write(r) \/ WriteLost(r) \/ Send(r) \/ SendFails(r) \/ Kill(r)
      PROVE  key'[p] \in disturbed'
  BY <1>3, SpecialValues DEF Write, WriteLost, Send, SendFails, Kill, Goto
<1>4. CASE UNCHANGED vars
  BY <1>4 DEF vars
<1> QED
  BY <1>1, <1>2, <1>3, <1>4 DEF Next

LEMMA UpToDateStep == IInv /\ Alone /\ [Next]_vars => UpToDate'
<1> SUFFICES ASSUME IInv, Alone, [Next]_vars, NEW q \in Procs, key'[q] \notin disturbed'
             PROVE  /\ pc'[q] = "create" => Value(file'[key'[q]]) = 0
                    /\ pc'[q] = "write"  => code'[q] = Value(file'[key'[q]])
                    /\ pc'[q] = "send"   => Value(file'[key'[q]]) = NextCode(code'[q])
  BY DEF UpToDate
<1> DEFINE Holds == /\ pc'[q] = "create" => Value(file'[key'[q]]) = 0
                    /\ pc'[q] = "write"  => code'[q] = Value(file'[key'[q]])
                    /\ pc'[q] = "send"   => Value(file'[key'[q]]) = NextCode(code'[q])
<1> USE SpecialValues DEF IInv, Alone, UpToDate, Goto, store, sent
<1>1. ASSUME NEW p \in Procs, NEW k \in Keys, Start(p, k) PROVE Holds
  <2>1. CASE q = p
    BY <1>1, <2>1 DEF Start
  <2>2. CASE q # p
    <3>1. disturbed \subseteq disturbed'
      BY <1>1 DEF Start
    <3>2. key'[q] = key[q] /\ pc'[q] = pc[q] /\ code'[q] = code[q] /\ file' = file
      BY <1>1, <2>2 DEF Start
    <3> QED
      BY <3>1, <3>2
  <2> QED
    BY <2>1, <2>2
<1>2. ASSUME NEW p \in Procs, StoragePath(p) \/ CannotOpen(p) \/ SendFails(p) \/ Kill(p) PROVE Holds
  BY <1>2 DEF StoragePath, CannotOpen, SendFails, Kill
<1>3. ASSUME NEW p \in Procs, Open(p) PROVE Holds
  BY <1>3 DEF Open, Value
<1>4. ASSUME NEW p \in Procs, Create(p) PROVE Holds
  <2>1. CASE key[q] = key[p] /\ q # p /\ Active(q)
    BY <1>4, <2>1 DEF Create, OnlyOne, Active
  <2>2. CASE key[q] # key[p] \/ q = p \/ ~ Active(q)
    BY <1>4, <2>2 DEF Create, Active
  <2> QED
    BY <2>1, <2>2
<1>5. ASSUME NEW p \in Procs, Read(p) PROVE Holds
  BY <1>5 DEF Read
<1>6. ASSUME NEW p \in Procs, Write(p) PROVE Holds
  <2>1. file'[key[p]] = NextCode(code[p]) /\ Value(NextCode(code[p])) = NextCode(code[p])
    BY <1>6, ValueOfNext DEF Write
  <2>2. CASE q = p
    BY <1>6, <2>1, <2>2 DEF Write
  <2>3. CASE q # p /\ Active(q) /\ key[q] = key[p]
    BY <1>6, <2>3 DEF Write, OnlyOne, Active
  <2>4. CASE q # p /\ ~ (Active(q) /\ key[q] = key[p])
    BY <1>6, <2>4 DEF Write, Active
  <2> QED
    BY <2>2, <2>3, <2>4
<1>7. ASSUME NEW p \in Procs, WriteLost(p) PROVE Holds
  BY <1>7 DEF WriteLost
<1>8. ASSUME NEW p \in Procs, Send(p) PROVE Holds
  BY <1>8 DEF Send
<1>9. CASE UNCHANGED vars
  BY <1>9 DEF vars
<1> QED
  BY <1>1, <1>2, <1>3, <1>4, <1>5, <1>6, <1>7, <1>8, <1>9 DEF Next

LEMMA AloneStep == IInv /\ Alone /\ [Next]_vars => Alone'
  BY OnlyOneStep, UpToDateStep DEF Alone

LEMMA AloneAlways == Spec => [](IInv /\ Alone)
<1>1. Init => Alone
  BY SpecialValues DEF Init, Alone, OnlyOne, UpToDate, Active
<1> QED
  BY InitIInv, NextIInv, <1>1, AloneStep, PTL DEF Spec

-----------------------------------------------------------------------------
LEMMA InOrderStep == OwnReceivers /\ IInv /\ Alone /\ InOrder /\ [Next]_vars => InOrder'
<1> SUFFICES ASSUME OwnReceivers, IInv, Alone, InOrder, [Next]_vars,
                    NEW k \in Keys, k \notin disturbed', NEW c \in last'[ReceiverOf[k]]
             PROVE  Value(file'[k]) = (c + lost'[ReceiverOf[k]] + 1) % M
  BY DEF InOrder
<1> DEFINE Ordered == Value(file'[k]) = (c + lost'[ReceiverOf[k]] + 1) % M
<1> USE SpecialValues, RollingAssumption DEF IInv, InOrder, Goto, store, sent
<1>0. ReceiverOf[k] \in Receivers
  OBVIOUS
<1>1. ASSUME NEW p \in Procs, NEW l \in Keys, Start(p, l) PROVE Ordered
  BY <1>1 DEF Start
<1>2. ASSUME NEW p \in Procs,
             StoragePath(p) \/ Open(p) \/ CannotOpen(p) \/ Read(p) \/ SendFails(p) \/ Kill(p)
      PROVE  Ordered
  BY <1>2 DEF StoragePath, Open, CannotOpen, Read, SendFails, Kill
<1>3. ASSUME NEW p \in Procs, Create(p) PROVE Ordered
  <2>1. CASE key[p] = k
    <3>1. Value(file[k]) = 0 /\ Value(file'[k]) = 0
      BY <1>3, <2>1 DEF Create, Alone, UpToDate, Value
    <3> QED
      BY <1>3, <3>1 DEF Create
  <2>2. CASE key[p] # k
    BY <1>3, <2>2 DEF Create
  <2> QED
    BY <2>1, <2>2
<1>4. ASSUME NEW p \in Procs, Write(p) PROVE Ordered
  <2>1. CASE key[p] = k
    <3> DEFINE n == c + lost[ReceiverOf[k]] + 1
    <3>1. c \in last[ReceiverOf[k]] /\ c \in Nat /\ lost[ReceiverOf[k]] \in Nat
      BY <1>0, <1>4 DEF Write
    <3>2. code[p] = Value(file[k]) /\ Value(file[k]) = n % M
      BY <1>4, <2>1, <3>1 DEF Write, Alone, UpToDate
    <3>3. Value(file'[k]) = NextCode(code[p])
      BY <1>4, <2>1, ValueOfNext DEF Write
    <3>4. lost'[ReceiverOf[k]] = lost[ReceiverOf[k]] + 1
      BY <1>0, <1>4, <2>1 DEF Write
    <3>5. n \in Nat /\ ((n % M) + 1) % M = (n + 1) % M
      BY <3>1, SuccessorMod
    <3>6. n + 1 = c + lost'[ReceiverOf[k]] + 1
      BY <3>1, <3>4
    <3> HIDE DEF n
    <3>7. NextCode(code[p]) = (n + 1) % M
      BY ONLY <3>2, <3>5 DEF NextCode
    <3> QED
      BY ONLY <3>3, <3>6, <3>7
  <2>2. CASE key[p] # k
    <3>1. ReceiverOf[key[p]] # ReceiverOf[k]
      BY <2>2 DEF OwnReceivers
    <3> QED
      BY <1>4, <2>2, <3>1 DEF Write
  <2> QED
    BY <2>1, <2>2
<1>5. ASSUME NEW p \in Procs, WriteLost(p) PROVE Ordered
  BY <1>5 DEF WriteLost
<1>6. ASSUME NEW p \in Procs, Send(p) PROVE Ordered
  <2>1. CASE key[p] = k
    <3>1. c = code[p] /\ lost'[ReceiverOf[k]] = 0 /\ c \in Nat
      BY <1>0, <1>6, <2>1 DEF Send
    <3>2. Value(file'[k]) = NextCode(code[p])
      BY <1>6, <2>1 DEF Send, Alone, UpToDate
    <3> QED
      BY <3>1, <3>2 DEF NextCode
  <2>2. CASE key[p] # k
    <3>1. ReceiverOf[key[p]] # ReceiverOf[k]
      BY <2>2 DEF OwnReceivers
    <3> QED
      BY <1>6, <2>2, <3>1 DEF Send
  <2> QED
    BY <2>1, <2>2
<1>7. CASE UNCHANGED vars
  BY <1>7 DEF vars
<1> QED
  BY <1>1, <1>2, <1>3, <1>4, <1>5, <1>6, <1>7 DEF Next

\* Only a transmission makes up for lost codes.
LEMMA ServedBySend ==
  ASSUME IInv, Next, NEW k \in Keys, lost[ReceiverOf[k]] > 0, lost'[ReceiverOf[k]] = 0
  PROVE  \E p \in Procs : Send(p) /\ ReceiverOf[key[p]] = ReceiverOf[k]
<1> USE RollingAssumption DEF IInv, sent
<1>1. lost[ReceiverOf[k]] \in Nat
  OBVIOUS
<1>2. PICK p \in Procs :
         \/ \E l \in Keys : Start(p, l)
         \/ StoragePath(p) \/ Open(p) \/ Create(p) \/ CannotOpen(p) \/ Read(p)
         \/ Write(p) \/ WriteLost(p) \/ Send(p) \/ SendFails(p) \/ Kill(p)
  BY DEF Next
<1>3. CASE lost' = lost
  BY <1>1, <1>3
<1>4. CASE Write(p)
  BY <1>1, <1>4 DEF Write
<1>5. CASE Send(p)
  <2>1. lost' = [lost EXCEPT ![ReceiverOf[key[p]]] = 0]
    BY <1>5 DEF Send
  <2>2. ReceiverOf[key[p]] = ReceiverOf[k]
    BY <1>1, <2>1
  <2> QED
    BY <1>5, <2>2
<1> QED
  BY <1>2, <1>3, <1>4, <1>5
  DEF Start, StoragePath, Open, Create, CannotOpen, Read, WriteLost, SendFails, Kill

LEMMA SuccessorStep ==
  ASSUME OwnReceivers, IInv, Alone, InOrder, [Next]_vars,
         NEW k \in Keys, k \notin disturbed',
         NEW c \in last[ReceiverOf[k]], NEW d \in last'[ReceiverOf[k]],
         lost[ReceiverOf[k]] > 0, lost'[ReceiverOf[k]] = 0
  PROVE  d = (c + lost[ReceiverOf[k]]) % M
<1> USE RollingAssumption DEF IInv
<1>1. Next
  BY DEF vars, sent
<1>2. PICK p \in Procs : Send(p) /\ ReceiverOf[key[p]] = ReceiverOf[k]
  BY <1>1, ServedBySend
<1>3. key[p] = k /\ k \notin disturbed /\ pc[p] = "send"
  BY <1>2 DEF OwnReceivers, Send
<1>4. d = code[p] /\ d \in 0 .. M - 1
  BY <1>2, <1>3 DEF Send
<1>5. Value(file[k]) = NextCode(d)
  BY <1>3, <1>4 DEF Alone, UpToDate
<1> DEFINE n == c + lost[ReceiverOf[k]]
<1>6. n \in Nat /\ n % M \in 0 .. M - 1 /\ Value(file[k]) = (n + 1) % M
  BY <1>3 DEF InOrder
<1>7. ((n % M) + 1) % M = (n + 1) % M
  BY <1>6, SuccessorMod
<1> HIDE DEF n
<1>8. NextCode(n % M) = NextCode(d)
  BY <1>5, <1>6, <1>7 DEF NextCode
<1>9. d = n % M
  BY <1>4, <1>6, <1>8, NextCodeInjective
<1> QED
  BY <1>9 DEF n

(***************************************************************************)
(* Where each file has a receiver of its own, undisturbed files send their *)
(* codes in order, whatever the modulus, the number of codes lost and the  *)
(* invocations that work on other files or are killed.                     *)
(***************************************************************************)
THEOREM CodesInOrder == ASSUME OwnReceivers PROVE Spec => SendsSuccessor
<1>1. Init => InOrder
  BY RollingAssumption DEF Init, InOrder
<1>2. IInv /\ Alone /\ InOrder /\ [Next]_vars => InOrder'
  BY OwnReceivers, InOrderStep
<1>3. IInv /\ Alone /\ InOrder /\ [Next]_vars =>
        [\A k \in Keys \ disturbed' : LET r == ReceiverOf[k] IN
           \A c \in last[r], d \in last'[r] :
               lost[r] > 0 /\ lost'[r] = 0 => d = (c + lost[r]) % M]_vars
  BY OwnReceivers, SuccessorStep
<1> QED
  BY AloneAlways, <1>1, <1>2, <1>3, PTL DEF Spec, SendsSuccessor

-----------------------------------------------------------------------------
\* The state of the abstract counter.
counterBar == [k \in Keys |-> Value(file[k])]
heldBar    == [p \in Procs |-> IF pc[p] = "send" THEN {<<key[p], code[p]>>} ELSE {}]
lastBar    == [k \in Keys |-> last[ReceiverOf[k]]]

LEMMA CounterInit == Init => Counter!Init
  BY RollingAssumption DEF Init, Counter!Init, Value, Idle

LEMMA CounterStep ==
  OwnReceivers /\ IInv /\ Alone /\ [Next]_vars
    => [Counter!Next \/ disturbed' # {}]_(Counter!counterVars)
<1> SUFFICES ASSUME OwnReceivers, IInv, Alone, [Next]_vars, disturbed' = {}
             PROVE  Counter!Next \/ UNCHANGED <<counterBar, heldBar, lastBar>>
  BY DEF Counter!counterVars, counterBar, heldBar, lastBar
<1> USE SpecialValues DEF IInv, Goto, store, sent
<1>1. ASSUME NEW p \in Procs, NEW k \in Keys, Start(p, k)
      PROVE  UNCHANGED <<counterBar, heldBar, lastBar>>
  <2>1. heldBar' = heldBar
    BY <1>1 DEF Start, Active, heldBar
  <2> QED
    BY <1>1, <2>1 DEF Start, counterBar, lastBar
<1>2. ASSUME NEW p \in Procs, StoragePath(p) \/ Open(p) \/ CannotOpen(p) \/ Read(p)
      PROVE  UNCHANGED <<counterBar, heldBar, lastBar>>
  <2>1. heldBar' = heldBar
    BY <1>2 DEF StoragePath, Open, CannotOpen, Read, heldBar
  <2> QED
    BY <1>2, <2>1 DEF StoragePath, Open, CannotOpen, Read, counterBar, lastBar
<1>3. ASSUME NEW p \in Procs, Create(p) PROVE UNCHANGED <<counterBar, heldBar, lastBar>>
  <2>1. counterBar' = counterBar
    BY <1>3 DEF Create, counterBar, Value, Alone, UpToDate
  <2>2. UNCHANGED <<heldBar, lastBar>>
    BY <1>3 DEF Create, heldBar, lastBar
  <2> QED
    BY <2>1, <2>2
<1>4. ASSUME NEW p \in Procs, Write(p) PROVE Counter!Take(p, key[p])
  <2>1. code[p] = counterBar[key[p]] /\ NextCode(code[p]) = (counterBar[key[p]] + 1) % M
    BY <1>4 DEF Write, Alone, UpToDate, counterBar, NextCode
  <2>2. Value(NextCode(code[p])) = NextCode(code[p])
    BY ValueOfNext
  <2>3. counterBar' = [counterBar EXCEPT ![key[p]] = NextCode(code[p])]
    <3>1. file' = [file EXCEPT ![key[p]] = NextCode(code[p])]
      BY <1>4 DEF Write
    <3>2. ASSUME NEW k \in Keys
          PROVE  Value(file'[k]) = [counterBar EXCEPT ![key[p]] = NextCode(code[p])][k]
      BY <2>2, <3>1 DEF counterBar
    <3> QED
      BY <3>2 DEF counterBar
  <2>4. heldBar[p] = {} /\ heldBar' = [heldBar EXCEPT ![p] = {<<key[p], code[p]>>}]
    BY <1>4 DEF Write, heldBar
  <2>5. lastBar' = lastBar
    BY <1>4 DEF Write, lastBar
  <2> QED
    BY <2>1, <2>3, <2>4, <2>5 DEF Counter!Take, counterBar, heldBar, lastBar
<1>5. ASSUME NEW p \in Procs, Send(p) PROVE Counter!Transmit(p)
  <2>1. heldBar[p] = {<<key[p], code[p]>>} /\ heldBar' = [heldBar EXCEPT ![p] = {}]
    BY <1>5 DEF Send, heldBar
  <2>2. lastBar' = [lastBar EXCEPT ![key[p]] = {code[p]}]
    BY <1>5, RollingAssumption DEF Send, OwnReceivers, lastBar
  <2>3. counterBar' = counterBar
    BY <1>5 DEF Send, counterBar
  <2> QED
    BY <2>1, <2>2, <2>3 DEF Counter!Transmit, counterBar, heldBar, lastBar
<1>6. ASSUME NEW p \in Procs, SendFails(p) \/ Kill(p)
      PROVE  Counter!Lose(p) \/ UNCHANGED <<counterBar, heldBar, lastBar>>
  <2>1. UNCHANGED <<counterBar, lastBar>>
    BY <1>6 DEF SendFails, Kill, counterBar, lastBar
  <2>2. CASE pc[p] = "send"
    <3>1. heldBar[p] # {} /\ heldBar' = [heldBar EXCEPT ![p] = {}]
      BY <1>6, <2>2 DEF SendFails, Kill, heldBar
    <3> QED
      BY <2>1, <3>1 DEF Counter!Lose, counterBar, heldBar, lastBar
  <2>3. CASE pc[p] # "send"
    BY <1>6, <2>1, <2>3 DEF SendFails, Kill, heldBar
  <2> QED
    BY <2>2, <2>3
<1>7. ASSUME NEW p \in Procs, WriteLost(p) PROVE FALSE
  BY <1>7 DEF WriteLost
<1>8. CASE UNCHANGED vars
  BY <1>8 DEF vars, counterBar, heldBar, lastBar
<1>9. ASSUME NEW p \in Procs, Counter!Take(p, key[p]) \/ Counter!Transmit(p) \/ Counter!Lose(p)
      PROVE  Counter!Next
  <2>1. key[p] \in Keys
    OBVIOUS
  <2>2. CASE Counter!Take(p, key[p])
    <3>1. \E k \in Keys : Counter!Take(p, k)
      BY <2>1, <2>2 DEF Counter!Take
    <3> QED
      BY <3>1 DEF Counter!Next
  <2>3. CASE Counter!Transmit(p) \/ Counter!Lose(p)
    BY <2>3 DEF Counter!Next
  <2> QED
    BY <1>9, <2>2, <2>3
<1>10. CASE Next
  <2>1. PICK p \in Procs :
            \/ \E k \in Keys : Start(p, k)
            \/ StoragePath(p) \/ Open(p) \/ Create(p) \/ CannotOpen(p) \/ Read(p)
            \/ Write(p) \/ WriteLost(p) \/ Send(p) \/ SendFails(p) \/ Kill(p)
    BY <1>10 DEF Next
  <2> QED
    BY <2>1, <1>1, <1>2, <1>3, <1>4, <1>5, <1>6, <1>7, <1>9
<1> QED
  BY <1>8, <1>10

(***************************************************************************)
(* Where each file has a receiver of its own, the files implement the      *)
(* counter as long as no two invocations meet at a file and no write is    *)
(* lost, whatever the modulus and wherever invocations are killed.  Two at *)
(* one file break it (MCRollingCode_overlap.cfg).                          *)
(***************************************************************************)
THEOREM FilesImplementCounter == ASSUME OwnReceivers PROVE Spec => ImplementsCounter
<1>1. IInv /\ Alone /\ [Next]_vars => [Counter!Next \/ disturbed' # {}]_(Counter!counterVars)
  BY OwnReceivers, CounterStep
<1> QED
  BY AloneAlways, CounterInit, <1>1, PTL DEF Spec, ImplementsCounter
=============================================================================
