------------------------------ MODULE MCNode ------------------------------
EXTENDS NodeConfig

Profile(n, phc2sys, ha, by, up) ==
  [name |-> n, phc2sys |-> phc2sys, ha |-> ha, controlledBy |-> by, up |-> up, ok |-> TRUE]

(* One profile; a controlling profile and the one it controls in an order  *)
(* the sort changes; an HA profile whose member is missing.                *)
MCContents == {
  <<Profile(1, FALSE, {}, 0, None)>>,
  <<Profile(1, TRUE, {}, 0, "u0"), Profile(2, FALSE, {}, 1, None)>>,
  <<Profile(3, TRUE, {1, 2}, 0, None), Profile(2, FALSE, {}, 0, None)>>}
MCStart == {<<Profile(1, FALSE, {}, 0, None)>>}
MCHwSpecs == {[profile |-> 1, up |-> "u1"], [profile |-> 1, up |-> "u2"]}
(* One that counts, one that is renamed, one with a hidden name, and one in *)
(* the volume of a Secret, as the operator mounts it.                      *)
Change(below, hidden, op) == [below |-> below, hidden |-> hidden, op |-> op]
MCSecretChanges == {Change(FALSE, FALSE, "remove"), Change(FALSE, FALSE, "rename"),
                    Change(FALSE, TRUE, "create"), Change(TRUE, FALSE, "create")}
MCMounted == {Change(TRUE, FALSE, "create")}
=============================================================================
