-------------------------------- MODULE MCVm --------------------------------
(* Instances of Vm for TLC. *)
EXTENDS Vm, TLC

CONSTANTS p1, p2, code, stack, stack2, v0, v1

MCOne == {p1}
MCTwo == {p1, p2}
MCFile == {code}
MCStack == {stack}
MCStacks == {stack, stack2}
MCVal == {v0, v1}
MCVal1 == {v0}
MCSymmetry == Permutations({p1, p2})
=============================================================================
