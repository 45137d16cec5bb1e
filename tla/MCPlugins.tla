------------------------------- MODULE MCPlugins ------------------------------
(* Instance of StellarClientPlugins for TLC: plugin p2 requires p1, and the  *)
(* application adds a middleware of its own between or before theirs.        *)
EXTENDS StellarClientPlugins, TLC

CONSTANTS p1, p2, own, c1, c2

MCRequires == (p1 :> {}) @@ (p2 :> {p1})
MCSuggests == (p1 :> {}) @@ (p2 :> {})
\* Everything by hand, and everything at once.  The options by default, which
\* install by hand and enable at once, are met in the latter where onRegister
\* has thrown and the plugin is installed by a call.
MCConfig(install, enable) == [autoInstall |-> install, autoEnable |-> enable]
MCConfigs == {MCConfig(FALSE, FALSE), MCConfig(TRUE, TRUE)}
Symmetry == Permutations(Callers)
MCOrder == (p1 :> 1) @@ (p2 :> 1) @@ (own :> 0)
===============================================================================
