----------------------------- MODULE ResultStream -----------------------------
(***************************************************************************)
(* What the output promises to whoever reads the results: they are seen in *)
(* the order in which the output took them, each once and unchanged.       *)
(* While the output is open at most one of them is not yet promised, the   *)
(* one it is working on.  Once sealed, what comes after the promised ones  *)
(* may be missing or damaged.                                              *)
(***************************************************************************)
EXTENDS Integers, Sequences

VARIABLES
    taken,      \* results the output took
    promised,   \* how many of them will be seen unless the process dies
    sealed,     \* the output is being closed
    seen        \* what the reader got

streamVars == <<taken, promised, sealed, seen>>

StreamInit ==
    /\ taken = << >>
    /\ promised = 0
    /\ sealed = FALSE
    /\ seen = << >>

Extends(new, old) == Len(old) < Len(new) /\ SubSeq(new, 1, Len(old)) = old

Take ==
    /\ sealed \/ promised = Len(taken)
    /\ Len(taken') = Len(taken) + 1 /\ Extends(taken', taken)
    /\ UNCHANGED <<promised, sealed, seen>>

Promise ==
    /\ ~sealed
    /\ promised' = Len(taken)
    /\ UNCHANGED <<taken, sealed, seen>>

Seal ==
    /\ sealed' = TRUE
    /\ UNCHANGED <<taken, promised, seen>>

(* The next results, as many as there are: none of the promised ones is    *)
(* damaged, and nothing is before the output is sealed.                    *)
See ==
    /\ Extends(seen', seen)
    /\ \A i \in Len(seen) + 1 .. Len(seen') :
           (~sealed \/ i <= promised) => i <= Len(taken) /\ seen'[i] = taken[i]
    /\ UNCHANGED <<taken, promised, sealed>>

StreamNext == Take \/ Promise \/ Seal \/ See
StreamSpec == StreamInit /\ [][StreamNext]_streamVars
=============================================================================
