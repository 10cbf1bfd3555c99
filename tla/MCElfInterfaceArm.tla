--------------------------- MODULE MCElfInterfaceArm ---------------------------
(* Model-checking instance of ElfInterfaceArm.                             *)
EXTENDS ElfInterfaceArm, TLC

(* Three exidx entries; the middle one resolves to address 0, the cache's  *)
(* sentinel.                                                                *)
MCPrel31 == (0 :> 16) @@ (1 :> 0) @@ (2 :> 40)

=============================================================================
