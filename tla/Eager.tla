------------------------------- MODULE Eager -------------------------------
(***************************************************************************)
(* Operators that have TLC evaluate a value once: an argument of an        *)
(* operator or a definition of a LET may be evaluated at every use.        *)
(***************************************************************************)
EXTENDS SequencesExt

\* Op of the value v.
With(v, Op(_)) == CHOOSE r \in {Op(x) : x \in {v}} : TRUE

\* Op applied to the value s and each element of seq in turn.
Each(Op(_, _), s, seq) == FoldLeft(LAMBDA t, k : With(t, LAMBDA x : Op(x, k)), s, seq)
=============================================================================
