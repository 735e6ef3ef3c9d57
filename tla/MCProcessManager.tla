-------------------------- MODULE MCProcessManager --------------------------
(***************************************************************************)
(* Process sets of real profiles for TLC: ptp4l with its dependent pmc,    *)
(* phc2sys of a grandmaster with the ntpfailover plugin.                   *)
(***************************************************************************)
EXTENDS ProcessManager

CONSTANTS ptp4l, pmc, phc2sys, ptp4lB, pmcB

MCOrder == SelectSeq(<<pmc, ptp4l, pmcB, ptp4lB, phc2sys>>, LAMBDA n : n \in Names)
MCParent == [n \in Names |-> IF n = pmc THEN ptp4l ELSE IF n = pmcB THEN ptp4lB ELSE n]
MCStartOn == [n \in Names |-> IF n = pmc THEN ptp4l ELSE IF n = pmcB THEN ptp4lB
                              ELSE IF n = phc2sys THEN "go" ELSE "immediate"]

Budget(a, d, data) == [applies |-> a, deaths |-> d, data |-> data]

(* One apply after which processes die and conditions are met; two applies *)
(* in quick succession.                                                    *)
MCBudgets == {Budget(1, 2, {"go", "halt"}), Budget(2, 0, {})}

(* For the instances of the README that exhibit a disagreement. *)
MCConditions   == {Budget(1, 0, {"go", "halt"})}
MCReapply      == {Budget(2, 0, {})}
MCReapplyDeath == {Budget(2, 1, {})}
=============================================================================
