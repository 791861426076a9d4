------------------------------ MODULE GroupKey ------------------------------
(***************************************************************************)
(* What the room promises about group keys, without saying how: the group  *)
(* changes only together with a new key generation, a generation is given  *)
(* to exactly the group of its time, nobody who left comes back, and a     *)
(* generation becomes active only once the whole group confirmed it.       *)
(***************************************************************************)
EXTENDS Naturals, Sequences

CONSTANT Owner

VARIABLES
    group,       \* who may read the room
    generation,  \* the newest key
    given,       \* given[g] = who received the key of generation g
    confirmed,   \* who confirmed the newest key
    active,      \* the generation in use, 0 before the first
    closed

gkVars == <<group, generation, given, confirmed, active, closed>>

GKInit ==
    /\ group = {Owner}
    /\ generation = 1
    /\ given = <<{Owner}>>
    /\ confirmed = {}
    /\ active = 0
    /\ closed = FALSE

Left == (UNION {given[g] : g \in 1..generation}) \ group

\* The next group is anybody's choice, but for the owner and those who left.
Rekey ==
    /\ ~ closed
    /\ Owner \in group'
    /\ group' \cap Left = {}
    /\ generation' = generation + 1
    /\ given' = Append(given, group')
    /\ confirmed' = {}
    /\ UNCHANGED <<active, closed>>

\* The last confirmation activates the key.
Confirm(p) ==
    /\ ~ closed
    /\ p \in group \ confirmed
    /\ confirmed' = confirmed \cup {p}
    /\ active' = IF confirmed' = group THEN generation ELSE active
    /\ UNCHANGED <<group, generation, given, closed>>

Close ==
    /\ ~ closed
    /\ closed' = TRUE
    /\ confirmed' = {}
    /\ UNCHANGED <<group, generation, given, active>>

GKNext ==
    \/ Rekey
    \/ \E p \in group : Confirm(p)
    \/ Close

GKSpec == GKInit /\ [][GKNext]_gkVars
=============================================================================
