----------------------------- MODULE MCOpenFile -----------------------------
(* Three processes, two descriptors each, two files, one with a seek position; *)
(* the processes that are born later are interchangeable.                      *)
EXTENDS OpenFile, TLC

CONSTANTS p1, p2, p3, disk, console

MCProcs == {p1, p2, p3}
MCFiles == {disk, console}
MCSeekable == {disk}
MCSymmetry == Permutations({p2, p3})

=============================================================================
