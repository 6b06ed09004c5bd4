----------------------------- MODULE MCSession -----------------------------
(* Two tenants with the default among them or not, each with its projects. *)
EXTENDS TopPanel
MCTenantLists == {<<"t", "490">>, <<"t">>}
MCProjectLists == [t \in {"t", "490"} |->
                     IF t = "490" THEN {<<"p", "645-Uniswap">>} ELSE {<<"p">>, <<"q", "p">>}]
=============================================================================
