------------------------- MODULE MCModuleLifecycle -------------------------
(* ModuleLifecycle has no constants: this instance is all of it.           *)
EXTENDS ModuleLifecycle

=============================================================================
