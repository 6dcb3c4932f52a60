----------------------------- MODULE ServiceView -----------------------------
(***************************************************************************)
(* What a change tracker promises to a proxier, without its bookkeeping:   *)
(* events make the reported state of a key anything at all, and an update  *)
(* makes the proxier's view equal to what has been reported, for all keys  *)
(* at once.  Nothing else ever changes the view.                           *)
(***************************************************************************)
CONSTANTS
    Keys,       \* the Services
    Contents    \* what can be reported of one

VARIABLES
    reported,   \* key -> what its latest event says
    view        \* key -> what the proxier works with

Init == reported = view

Report(k) ==
    /\ \E c \in Contents : reported' = [reported EXCEPT ![k] = c]
    /\ UNCHANGED view

Refresh ==
    /\ view' = reported
    /\ UNCHANGED reported

Next == Refresh \/ \E k \in Keys : Report(k)

Spec == Init /\ [][Next]_<<reported, view>>
=============================================================================
