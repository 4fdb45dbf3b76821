--------------------------- MODULE VideoEaPromise ---------------------------
(***************************************************************************)
(* What the virtual-trigger runtime promises to whoever acts on its        *)
(* answers, without prices, plans or snapshots.  In each cycle a growing   *)
(* list of triggers is reported, each of them once, until the cycle is     *)
(* over.  An answer also shows which triggers have fired and which cycles  *)
(* are over; what it shows stands, unless it was not durable: then it may  *)
(* be taken back, but for what has been reported or declared over.         *)
(* VideoEaCycle implements it.                                             *)
(***************************************************************************)
EXTENDS SequencesExt

CONSTANT Cycles

VARIABLES
    reported,  \* per cycle, the sets of triggers reported, in order
    ended,     \* the cycles declared over, for good
    shown,     \* per cycle, the triggers shown to have fired
    closed,    \* the cycles shown to be over
    durable    \* is what the next answer would show here to stay

vars == <<reported, ended, shown, closed, durable>>

Init ==
    /\ reported = [c \in Cycles |-> <<>>]
    /\ ended = {}
    /\ shown = [c \in Cycles |-> {}]
    /\ closed = {}
    /\ durable = TRUE

\* An answer takes nothing back.
MoreShown ==
    /\ \A c \in Cycles : shown[c] \subseteq shown'[c]
    /\ closed \subseteq closed'
    /\ ended \subseteq ended'

\* Triggers not yet shown in a cycle not shown to be over are reported.
Report(c) ==
    /\ c \notin closed
    /\ Len(reported'[c]) = Len(reported[c]) + 1
    /\ LET batch == Last(reported'[c])
       IN  /\ reported' = [reported EXCEPT ![c] = Append(@, batch)]
           /\ \A earlier \in Range(reported[c]) : batch \cap earlier = {}
           /\ batch \cap shown[c] = {}
           /\ batch \subseteq shown'[c]
    /\ MoreShown

\* An answer without a report.
Show == MoreShown /\ UNCHANGED reported

\* What was not durable is taken back.
Withdraw ==
    /\ ~durable
    /\ \A c \in Cycles :
          /\ shown'[c] \subseteq shown[c]
          /\ \A batch \in Range(reported[c]) : batch \subseteq shown'[c]
    /\ ended \subseteq closed' /\ closed' \subseteq closed
    /\ UNCHANGED <<reported, ended>>

Next == (\E c \in Cycles : Report(c)) \/ Show \/ Withdraw

Spec == Init /\ [][Next]_vars
=============================================================================
