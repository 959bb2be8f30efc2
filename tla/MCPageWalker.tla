---------------------------- MODULE MCPageWalker ----------------------------
(* A small instance of PageWalker: a shared and a private VMA.             *)
EXTENDS PageWalker

MCStart == << 0, 1 >>
MCEnd == << 1, 3 >>

=============================================================================
