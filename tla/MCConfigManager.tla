--------------------------- MODULE MCConfigManager ---------------------------
(* ConfigManager for TLC: two documents that agree on no key. *)
EXTENDS ConfigManager

CONSTANTS k1, k2

MCDocuments == {[k \in Keys |-> IF k = k1 THEN 1 ELSE None],
                [k \in Keys |-> IF k = k1 THEN 2 ELSE 1]}

=============================================================================
