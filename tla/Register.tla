------------------------------ MODULE Register ------------------------------
(***************************************************************************)
(* What replacing a control file promises: the file has one value, a write *)
(* changes it at one moment, a write that reports success has changed it,  *)
(* one that reports an error has not, and one that is cut short has or has *)
(* not.                                                                    *)
(***************************************************************************)
CONSTANTS Value, None

VARIABLES
    value,   \* the value a reader finds
    phase,   \* of the write: "idle", "before" or "after" its moment
    target,  \* the value being written
    report   \* what the last write told its caller

vars == <<value, phase, target, report>>

Init == value = None /\ phase = "idle" /\ target = None /\ report = "none"

Start ==
    /\ phase = "idle"
    /\ phase' = "before"
    /\ target' \in Value
    /\ report' = "none"
    /\ UNCHANGED value

Take ==
    /\ phase = "before"
    /\ value' = target
    /\ phase' = "after"
    /\ UNCHANGED <<target, report>>

\* The write returns Ok after its moment, an error before it, or is cut short.
End ==
    /\ phase # "idle"
    /\ phase' = "idle"
    /\ target' = None
    /\ report' \in {"none", IF phase = "after" THEN "ok" ELSE "error"}
    /\ UNCHANGED value

Next == Start \/ Take \/ End

Spec == Init /\ [][Next]_vars
=============================================================================
