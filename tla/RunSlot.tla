------------------------------- MODULE RunSlot -------------------------------
(***************************************************************************)
(* What a node promises about puppet runs, without saying how: there is    *)
(* one slot, a request either takes it or goes without, a run that took it *)
(* gives it back exactly once, and no request ever runs twice.             *)
(*                                                                         *)
(* PuppetRun is shown to implement this specification.                     *)
(***************************************************************************)
CONSTANTS Requests,   \* run requests a node may receive
          None        \* not a request

VARIABLES slot,       \* the request whose run occupies the node, or None
          ended       \* requests whose run is over

slotVars == <<slot, ended>>

Init ==
    /\ slot = None
    /\ ended = {}

\* A request that has not run yet takes the free slot.
Accept(r) ==
    /\ slot = None
    /\ r \notin ended
    /\ slot' = r
    /\ UNCHANGED ended

\* The run in the slot is over, whatever its outcome.
End(r) ==
    /\ slot = r
    /\ slot' = None
    /\ ended' = ended \cup {r}

Next == \E r \in Requests : Accept(r) \/ End(r)

Spec == Init /\ [][Next]_slotVars
==============================================================================
