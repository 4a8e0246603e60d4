------------------------------ MODULE TimerSet ------------------------------
(***************************************************************************)
(* What the timer wheel promises: a set of armed nodes, of which a tick    *)
(* fires those whose `expire' is reached and no other.                     *)
(***************************************************************************)
EXTENDS Integers

CONSTANTS Nodes,
          Range      \* the counters are taken modulo Range

VARIABLES jiffies, armed, expire

\* How far e lies in the future, negative if it is past: the code's int32_t.
Ahead(e, j) == LET d == (e - j) % Range IN IF d < Range \div 2 THEN d ELSE d - Range

Init == jiffies \in 0 .. Range - 1 /\ armed = {} /\ expire = [n \in Nodes |-> 0]

\* A node is armed for any time.
Add(n) ==
    /\ n \notin armed
    /\ armed' = armed \cup {n}
    /\ expire'[n] \in 0 .. Range - 1
    /\ expire' = [expire EXCEPT ![n] = expire'[n]]
    /\ UNCHANGED jiffies

Cancel(n) ==
    /\ n \in armed
    /\ armed' = armed \ {n}
    /\ expire' = [expire EXCEPT ![n] = 0]
    /\ UNCHANGED jiffies

Tick ==
    LET fired == {n \in armed : Ahead(expire[n], jiffies) <= 1} IN
    /\ jiffies' = (jiffies + 1) % Range
    /\ armed' = armed \ fired
    /\ expire' = [n \in Nodes |-> IF n \in fired THEN 0 ELSE expire[n]]

Next == Tick \/ \E n \in Nodes : Add(n) \/ Cancel(n)

Spec == Init /\ [][Next]_<<jiffies, armed, expire>>
=============================================================================
