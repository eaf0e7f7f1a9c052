---------------------------- MODULE ConfigTrial ----------------------------
(***************************************************************************)
(* What a confirmed commit promises, without candidate, locks, sessions or *)
(* failures: running shows what is kept for good and at most one edit on   *)
(* trial, which is then kept or undone as a whole.                         *)
(***************************************************************************)
CONSTANTS Calls, None

VARIABLES
    kept,   \* edits that stay
    trial,  \* the call whose edit is on trial, or None
    shown   \* edits that running shows

trialVars == <<kept, trial, shown>>

Init == kept = {} /\ trial = None /\ shown = {}

Try(c) ==
    /\ trial = None
    /\ trial' = c
    /\ shown' = kept \cup {c}
    /\ UNCHANGED kept

Keep ==
    /\ trial # None
    /\ kept' = kept \cup {trial}
    /\ trial' = None
    /\ UNCHANGED shown

Undo ==
    /\ trial # None
    /\ trial' = None
    /\ shown' = kept
    /\ UNCHANGED kept

Next == Keep \/ Undo \/ \E c \in Calls : Try(c)

Spec == Init /\ [][Next]_trialVars

============================================================================
