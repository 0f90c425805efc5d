----------------------------- MODULE MCShellCmd -----------------------------
(* ShellCmd with interchangeable worker threads.                           *)
EXTENDS ShellCmd, TLC

Symmetry == Permutations(Bufs)
=============================================================================
