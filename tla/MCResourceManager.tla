------------------------- MODULE MCResourceManager -------------------------
(***************************************************************************)
(* ResourceManager with one simple name that is local, behind a remote,    *)
(* and behind a remote of a remote; the way refresh() spells a remote      *)
(* resource, with the remote inside the name, under a second API; the      *)
(* empty name; and a name that starts with a colon.                        *)
(***************************************************************************)
EXTENDS ResourceStrings, TLC

MCParts == {"", "a", "r1", "r2"}

N(api, remote, name) == [api |-> api, remote |-> remote, name |-> name]

MCNames == {N("arm", << >>, <<"a">>), N("arm", << >>, <<"">>),
            N("arm", <<"r1">>, <<"a">>), N("base", << >>, <<"r1", "a">>),
            N("arm", <<"r2", "r1">>, <<"a">>), N("arm", << >>, <<"", "a">>)}

MCValidApis == {"arm", "base"}

\* None of these parts has a slash.
MCBeforeSlash == [p \in MCParts |-> p]

\* Nothing tells the resources apart.
Symmetry == Permutations(Resources)
=============================================================================
