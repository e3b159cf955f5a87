--------------------------- MODULE MCModuleLoader ---------------------------
(* Configurations for TLC: every combination of the switches a rule reads, with  *)
(* the two permission lists, wasm and the two schemes independent of each other. *)
EXTENDS ModuleLoader

MCConfigs ==
    {c \in [policy : Policies,
            wasm : BOOLEAN, node : BOOLEAN, jsr : BOOLEAN, http : BOOLEAN,
            https : BOOLEAN, outside : BOOLEAN, interop : BOOLEAN,
            importGrant : BOOLEAN, netGrant : BOOLEAN] :
        /\ c.jsr = c.node
        /\ c.interop = c.outside}
=============================================================================
