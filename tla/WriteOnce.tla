----------------------------- MODULE WriteOnce -----------------------------
(***************************************************************************)
(* What the publication of strategy artifacts promises: a path is bound to *)
(* one content, once and for good.  A publisher that reports success finds *)
(* its own content bound, a reader gets the bound content or nothing.      *)
(***************************************************************************)
CONSTANTS Publishers, Readers, None

VARIABLES
    bound,       \* the content the path is bound to, or None
    acked,       \* the content each publisher reported as published
    answer       \* the content each reader was given

vars == <<bound, acked, answer>>

Init ==
    /\ acked = [p \in Publishers |-> None]
    /\ answer = [r \in Readers |-> None]

\* Once only; nobody can have been told of it before.
Bind ==
    /\ bound = None /\ bound' # None
    /\ UNCHANGED <<acked, answer>>

\* Binding and success may be one step.
Ack(p) ==
    /\ bound' # None
    /\ bound # None => bound' = bound
    /\ acked' = [acked EXCEPT ![p] = bound']
    /\ UNCHANGED answer

Answer(r) ==
    /\ bound # None
    /\ answer' = [answer EXCEPT ![r] = bound]
    /\ UNCHANGED <<bound, acked>>

\* Readers drop their answers.
Forget ==
    /\ DOMAIN answer' = Readers
    /\ \A r \in Readers : answer'[r] \in {None, answer[r]}
    /\ UNCHANGED <<bound, acked>>

Next ==
    \/ Bind \/ Forget
    \/ \E p \in Publishers : Ack(p)
    \/ \E r \in Readers : Answer(r)

Spec == Init /\ [][Next]_vars
=============================================================================
