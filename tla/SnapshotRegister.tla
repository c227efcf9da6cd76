-------------------------- MODULE SnapshotRegister --------------------------
(***************************************************************************)
(* What the trusted store promises its consumers: a register that names    *)
(* one complete generation at a time.  A generation is published once and  *)
(* never changes; a reader pins one and gets exactly its rows, or nothing. *)
(* A restart may bring back an earlier complete generation.                *)
(***************************************************************************)
CONSTANTS Generations, Readers, None

VARIABLES
    current,     \* the generation the register names, or None
    contents,    \* generation published so far -> its rows
    pinned,      \* the generation each reader has pinned
    answer       \* what each reader was given: rows, or None

vars == <<current, contents, pinned, answer>>

Init ==
    /\ current = None
    /\ contents = <<>>
    /\ pinned = [r \in Readers |-> None]
    /\ answer = [r \in Readers |-> None]

\* Whatever its rows are, they are given once and leave the others alone.
Publish(g) ==
    /\ g \notin DOMAIN contents
    /\ DOMAIN contents' = DOMAIN contents \cup {g}
    /\ \A h \in DOMAIN contents : contents'[h] = contents[h]
    /\ current' = g
    /\ UNCHANGED <<pinned, answer>>

\* A restart: an earlier generation is current again, and readers are gone.
Restart(g) ==
    /\ g = None \/ g \in DOMAIN contents
    /\ current' = g
    /\ pinned' = [r \in Readers |-> None]
    /\ answer' = [r \in Readers |-> None]
    /\ UNCHANGED contents

Pin(r) ==
    /\ current # None
    /\ pinned' = [pinned EXCEPT ![r] = current]
    /\ answer' = [answer EXCEPT ![r] = None]
    /\ UNCHANGED <<current, contents>>

Answer(r) ==
    /\ pinned[r] # None
    /\ answer' = [answer EXCEPT ![r] = contents[pinned[r]]]
    /\ UNCHANGED <<current, contents, pinned>>

Refuse(r) ==
    /\ pinned' = [pinned EXCEPT ![r] = None]
    /\ answer' = [answer EXCEPT ![r] = None]
    /\ UNCHANGED <<current, contents>>

Next ==
    \/ \E g \in Generations : Publish(g)
    \/ \E g \in Generations \cup {None} : Restart(g)
    \/ \E r \in Readers : Pin(r) \/ Answer(r) \/ Refuse(r)

Spec == Init /\ [][Next]_vars
=============================================================================
