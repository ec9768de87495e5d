----------------------------- MODULE CashDrawers -----------------------------
(***************************************************************************)
(* What the cash sessions of a branch promise of its drawers: a drawer is  *)
(* in the hands of one session at a time, a session that lets it go leaves *)
(* it to be counted, and what was in it is counted once.  How sessions are *)
(* locked, swept and reviewed to keep that is in CashSession, which        *)
(* implements this specification.                                          *)
(***************************************************************************)
EXTENDS Integers

CONSTANTS Sessions, Boxes, Null

VARIABLES
    phase,      \* session -> what became of its drawer
    box,        \* session -> the drawer it was opened on
    count       \* session -> what was counted in it

drawerVars == <<phase, box, count>>

Phases == {"UNUSED", "HELD", "COUNTING", "UNCOUNTED", "COUNTED"}

DrawerInit ==
    /\ phase = [s \in Sessions |-> "UNUSED"]
    /\ box = [s \in Sessions |-> Null]
    /\ count = [s \in Sessions |-> Null]

\* Some sessions let go of their drawers without a count.
Leaving == {s \in Sessions: phase[s] \in {"HELD", "COUNTING"}}

After(gone) == [s \in Sessions |-> IF s \in gone THEN "UNCOUNTED" ELSE phase[s]]

LetGo(gone) ==
    /\ phase' = After(gone)
    /\ UNCHANGED <<box, count>>

\* A session takes a drawer that no other holds, once those gone have let go.
Take(s, b, gone) ==
    /\ phase[s] = "UNUSED"
    /\ \A t \in Sessions: After(gone)[t] = "HELD" => box[t] # b
    /\ phase' = [After(gone) EXCEPT ![s] = "HELD"]
    /\ box' = [box EXCEPT ![s] = b]
    /\ UNCHANGED count

BeginCount(s) ==
    /\ phase[s] = "HELD"
    /\ phase' = [phase EXCEPT ![s] = "COUNTING"]
    /\ UNCHANGED <<box, count>>

Count(s) ==
    /\ phase[s] \in {"COUNTING", "UNCOUNTED"}
    /\ phase' = [phase EXCEPT ![s] = "COUNTED"]
    /\ count'[s] \in Int
    /\ count' = [count EXCEPT ![s] = count'[s]]
    /\ UNCHANGED box

DrawerNext ==
    \/ \E gone \in SUBSET Leaving:
           LetGo(gone) \/ \E s \in Sessions, b \in Boxes: Take(s, b, gone)
    \/ \E s \in Sessions: BeginCount(s) \/ Count(s)

DrawerSpec == DrawerInit /\ [][DrawerNext]_drawerVars
=============================================================================
