--------------------------- MODULE AbstractContract ---------------------------
(***************************************************************************)
(* What the generated code promises about a contract that has a            *)
(* constructor and a standard replay protection, seen from outside:        *)
(* transactions are atomic, an external message is applied at most once    *)
(* and only forwards in time, and nothing changes before the constructor   *)
(* has run.                                                                *)
(***************************************************************************)
EXTENDS Naturals

CONSTANT ExtMessages        \* records with a field time

VARIABLES
    time,           \* the time of the last external message applied
    constructed,    \* 1 when the constructor has been applied
    state,          \* the values of the state variables
    applied         \* the external messages applied so far

avars == <<time, constructed, state, applied>>

AInit == time = 0 /\ constructed = 0 /\ state = 0 /\ applied = {}

(* Either the constructor has run or this is the constructor. *)
Construct == constructed' = 1

ApplyExternal(m) ==
    /\ m \notin applied
    /\ time < m.time
    /\ time' = m.time
    /\ applied' = applied \cup {m}
    /\ Construct

ApplyInternal == Construct /\ UNCHANGED <<time, applied>>

ANext == ApplyInternal \/ \E m \in ExtMessages : ApplyExternal(m)

ASpec == AInit /\ [][ANext]_avars
=============================================================================
