-------------------------- MODULE MCDeployLifecycle --------------------------
(* Small instances of DeployLifecycle. *)
EXTENDS DeployLifecycle, TLC

CONSTANTS a, b, flow1

Ask(dag, retire, purge, run) ==
    [flow |-> flow1, dag |-> dag, run |-> run, retire |-> retire, purge |-> purge]

Mine == [by |-> Earlier, flow |-> flow1]

MCFileA == [g \in Dags |-> IF g = a THEN Mine ELSE NoFile]

MCRowsA == {[g \in Dags |-> IF g = a THEN "live" ELSE "none"]}

\* The history of b was kept when b was retired once before.
MCRowsKept == {[g \in Dags |-> IF g = a THEN "live" ELSE "paused"]}

\* A rename a -> b that purges, and a first deploy of b that is not to be run.
MCRename == {Ask(b, {a}, {a}, TRUE), Ask(b, {}, {}, FALSE)}

\* A rename that is not to be run.
MCRunOff == {Ask(b, {a}, {}, FALSE)}

\* A rename, and the rename back.
MCBack == {Ask(b, {a}, {}, TRUE), Ask(a, {b}, {}, TRUE)}

Symmetry == Permutations(Deploys)
=============================================================================
