----------------------- MODULE MCResourceManagerSteps -----------------------
(***************************************************************************)
(* Two threads and four Names: two with one key under two APIs, the same   *)
(* simple name behind two remotes.                                         *)
(***************************************************************************)
EXTENDS ResourceManagerSteps, TLC

MCParts == {"", "a", "r1", "r2"}

N(api, remote, name) == [api |-> api, remote |-> remote, name |-> name]

MCNames == {N("arm", << >>, <<"a">>), N("base", << >>, <<"a">>),
            N("arm", << >>, <<"r1", "a">>), N("arm", << >>, <<"r2", "a">>)}

\* Nothing tells the threads, or the resources, apart.
Symmetry == Permutations(Threads) \cup Permutations(Resources)
=============================================================================
