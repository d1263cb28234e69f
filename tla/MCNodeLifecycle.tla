--------------------------- MODULE MCNodeLifecycle ---------------------------
(***************************************************************************)
(* Small instances of NodeLifecycle for TLC.                               *)
(***************************************************************************)
EXTENDS NodeLifecycle

MCServices == {"bitcoind", "web", "insight-api"}

MCDependencies == [s \in MCServices |-> IF s = "insight-api" THEN <<"bitcoind", "web">> ELSE <<>>]

Configured(names) == [services |-> names, dependencies |-> MCDependencies]

\* The configuration of the scaffold with the API added.
ScaffoldConfigs == {Configured(<<"bitcoind", "web", "insight-api">>)}

\* A service is named before one it depends on, and bitcoind is stopped between
\* the other two.
MCConfigs == {Configured(<<"web", "insight-api", "bitcoind">>)}
=============================================================================
