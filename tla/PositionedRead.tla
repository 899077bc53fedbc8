---------------------------- MODULE PositionedRead ----------------------------
(***************************************************************************)
(* What FileSystem::read_at promises N workers that share one mounted      *)
(* archive: each call is answered at one instant, on its own, with the     *)
(* slice of the node's content it asked for, or with an error.  The lock,  *)
(* the cache and the shared cursor of ZipVfs do not appear.                *)
(***************************************************************************)
EXTENDS Naturals, Sequences

CONSTANTS
    Workers,
    Calls,       \* what a worker may ask
    Failed,      \* the answer that is an error
    None,        \* no call, no answer
    Expected(_)  \* the bytes a call is to be answered with, Failed if there are none

VARIABLES
    asking,      \* per worker: its pending call, or None
    answer       \* per worker: the answer it was given, or None

Init ==
    /\ asking = [w \in Workers |-> None]
    /\ answer = [w \in Workers |-> None]

Ask(w, c) ==
    /\ asking[w] = None
    /\ asking' = [asking EXCEPT ![w] = c]
    /\ UNCHANGED answer

\* The answer is the one content there is, or a failure: never other bytes.
Answer(w) ==
    /\ asking[w] # None
    /\ answer[w] = None
    /\ \E a \in {Expected(asking[w]), Failed} : answer' = [answer EXCEPT ![w] = a]
    /\ UNCHANGED asking

Return(w) ==
    /\ answer[w] # None
    /\ asking' = [asking EXCEPT ![w] = None]
    /\ answer' = [answer EXCEPT ![w] = None]

Next ==
    \E w \in Workers :
        \/ \E c \in Calls : Ask(w, c)
        \/ Answer(w)
        \/ Return(w)

Spec == Init /\ [][Next]_<<asking, answer>>
===============================================================================
