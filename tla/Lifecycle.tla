----------------------------- MODULE Lifecycle -----------------------------
(***************************************************************************)
(* The life of a part of the system that manages resources, as its callers *)
(* drive it: from phase to phase, each entry along any path that the       *)
(* pointers and flags it meets allow.                                      *)
(***************************************************************************)
EXTENDS Paths, FiniteSets

CONSTANTS
    Units,      \* the parts
    EntriesOf,  \* what each entry of a part does
    LivesOf     \* for each part its transitions: from a phase, by an entry, to
                \* a phase on success and one on failure

VARIABLES unit, phase, mem

lifeVars == <<unit, phase, mem>>

LifeInit ==
    /\ unit \in Units
    /\ phase = "new"
    /\ mem = Nothing

\* What a part may be after an entry. A lock still taken when the entry returns is
\* never given back.
Enter(life) ==
    {[mem |-> [o.mem EXCEPT !.stuck = @ \cup o.mem.locked, !.locked = {}],
      phase |-> IF o.mem.dead THEN "undefined" ELSE IF o.ok THEN life[3] ELSE life[4]] :
     o \in EntriesOf[unit][life[2]][[mem EXCEPT !.flaws = {}]]}

LifeNext ==
    /\ \E next \in UNION {Enter(life) : life \in {l \in LivesOf[unit] : l[1] = phase}} :
        /\ mem' = next.mem
        /\ phase' = next.phase
    /\ UNCHANGED unit

LifeSpec == LifeInit /\ [][LifeNext]_lifeVars

------------------------------------------------------------------------------
OfUnit(flaws) == {<<unit, f[1], f[2]>> : f \in flaws}

\* Resources overwritten or cleared while they were held and, once the part is
\* gone, the ones still held.
Lost ==
    OfUnit({f \in mem.flaws : f[1] = "lost"}
           \cup IF phase = "gone" THEN {"lost"} \X mem.held ELSE {})

\* What was used, released or freed without being owned.
Misused == OfUnit(IF mem.dead THEN mem.flaws ELSE {})

\* Locks taken twice or when they are not there, given back untaken, or left taken by
\* an entry.
Mislocked ==
    OfUnit({f \in mem.flaws : f[1] \in {"locked twice", "locked destroyed", "unlocked free"}}
           \cup ({"left locked"} \X mem.stuck))
=============================================================================
