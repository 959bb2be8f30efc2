------------------------------ MODULE MCMapper ------------------------------
(* The instances of Mapper that MCMapper.cfg gives the constants of.       *)
EXTENDS Mapper

=============================================================================
