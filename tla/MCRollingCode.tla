--------------------------- MODULE MCRollingCode ---------------------------
(***************************************************************************)
(* The modulus is Blyss's, 5, or smaller; fscanf() reads up to two values  *)
(* more.  Codes are within the declared maxima: every file has a receiver  *)
(* of its own.                                                             *)
(***************************************************************************)
EXTENDS RollingCode
MCOwnReceiver == [x \in Keys |-> x]
=============================================================================
