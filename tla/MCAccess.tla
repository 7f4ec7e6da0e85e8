------------------------------- MODULE MCAccess --------------------------------
(* Small instances of Access for TLC: a founder and a user, two tenants and *)
(* three teams.                                                             *)
EXTENDS Access, TLC

CONSTANTS root, ann, org1, team1, org2, t1, t2

MCTenantOf == (org1 :> t1) @@ (team1 :> t1) @@ (org2 :> t2)
MCGiven ==
  {<<team1, root, "owner">>, <<team1, ann, "viewer">>,
   <<team1, ann, "owner">>, <<org2, ann, "owner">>}
MCIssued == {<<"tenant", org2>>, <<"team", team1>>, <<"agent", team1>>}
Symmetry == Permutations(Requests) \cup Permutations(KeyIds \ {FirstKey})
OwnAddress == [u \in Users |-> u]
===============================================================================
