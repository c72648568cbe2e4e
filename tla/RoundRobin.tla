----------------------------- MODULE RoundRobin -----------------------------
(***************************************************************************)
(* What the turn loop promises the table, without rows, pointers or        *)
(* handlers: rounds follow each other; in a round every seat has at most   *)
(* one turn or skip; nobody is seated while somebody else still holds the  *)
(* floor.                                                                  *)
(***************************************************************************)
EXTENDS Integers

CONSTANTS
    Seats,     \* who takes turns
    Nobody     \* not one of them

VARIABLES
    rnd,     \* the round being played
    had,     \* seats that had their turn or skip in it
    floor,   \* the seat whose turn it is, or Nobody
    late     \* the turn being played is left over from an earlier round

rrVars == <<rnd, had, floor, late>>

RRInit == rnd = 1 /\ had = {} /\ floor = Nobody /\ ~late

Give(c) ==
    /\ floor = Nobody
    /\ c \notin had
    /\ floor' = c
    /\ had' = had \cup {c}
    /\ UNCHANGED <<rnd, late>>

Pass(c) ==
    /\ floor = Nobody
    /\ c \notin had
    /\ had' = had \cup {c}
    /\ UNCHANGED <<rnd, floor, late>>

\* The turn on the floor ends, is ended for its holder, or is given up because
\* the call that announces it stops half-way.
Finish == floor # Nobody /\ floor' = Nobody /\ ~late' /\ UNCHANGED <<rnd, had>>

\* The DM corrects the seat: c takes the floor in place of the displaced d.
Correct(c, d) ==
    /\ ~late
    /\ d \in had /\ c \notin had
    /\ floor \in {d, Nobody}
    /\ floor' = c
    /\ had' = (had \ {d}) \cup {c}
    /\ UNCHANGED <<rnd, late>>

\* The DM hands a turn left over from an earlier round to c.
CorrectLate(c) ==
    /\ floor = Nobody \/ late
    /\ floor' = c
    /\ late'
    /\ UNCHANGED <<rnd, had>>

NewRound ==
    /\ floor = Nobody
    /\ rnd' = rnd + 1
    /\ had' = {}
    /\ UNCHANGED <<floor, late>>

RRNext ==
    \/ \E c \in Seats : Give(c) \/ Pass(c) \/ CorrectLate(c)
    \/ \E c, d \in Seats : Correct(c, d)
    \/ Finish
    \/ NewRound

RRSpec == RRInit /\ [][RRNext]_rrVars
=============================================================================
