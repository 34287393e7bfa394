------------------------------- MODULE Lists --------------------------------
(***************************************************************************)
(* What the code does with a list besides going through it: it keeps what  *)
(* passes a test, drops what came before, and sorts numbers.               *)
(***************************************************************************)
EXTENDS Integers, FiniteSets, Sequences, SequencesExt

(* A list, of whatever it holds.                                           *)
IsList(seq) == seq \in Seq(ToSet(seq))

(* The numbers of a finite set, the smallest first.                        *)
Ascending(S) ==
    [k \in 1 .. Cardinality(S) |-> CHOOSE i \in S : Cardinality({j \in S : j < i}) = k - 1]

(* The elements of a list at some of its positions, in their order.        *)
Picked(seq, S) == LET at == Ascending(S) IN [k \in DOMAIN at |-> seq[at[k]]]

(* The first of them: one element, or none.                                *)
FirstAt(seq, S) == {seq[i] : i \in {k \in S : \A j \in S : k <= j}}
=============================================================================
