--------------------------- MODULE RollingCounter ---------------------------
(***************************************************************************)
(* What the storage files of the rolling-code protocols (somfy.c, blyss.c) *)
(* are for: per file, a counter modulo M from which each invocation takes  *)
(* the next code at once, to transmit it afterwards or to lose it.         *)
(***************************************************************************)
EXTENDS Naturals

CONSTANTS Procs, Keys, M

VARIABLES
    counter,   \* key -> the code the next invocation takes
    held,      \* process -> {} or {<<key, code>>}, the code it has taken
    last       \* key -> {} or {code}, the code transmitted last

counterVars == <<counter, held, last>>

Init ==
    /\ counter = [k \in Keys |-> 0]
    /\ held = [p \in Procs |-> {}]
    /\ last = [k \in Keys |-> {}]

Take(p, k) ==
    /\ held[p] = {}
    /\ held' = [held EXCEPT ![p] = {<<k, counter[k]>>}]
    /\ counter' = [counter EXCEPT ![k] = (@ + 1) % M]
    /\ UNCHANGED last

Transmit(p) ==
    \E h \in held[p] :
        /\ last' = [last EXCEPT ![h[1]] = {h[2]}]
        /\ held' = [held EXCEPT ![p] = {}]
        /\ UNCHANGED counter

Lose(p) ==
    /\ held[p] # {}
    /\ held' = [held EXCEPT ![p] = {}]
    /\ UNCHANGED <<counter, last>>

Next == \E p \in Procs : Transmit(p) \/ Lose(p) \/ \E k \in Keys : Take(p, k)

Spec == Init /\ [][Next]_counterVars
=============================================================================
