---------------------------- MODULE MCDelegation ----------------------------
(***************************************************************************)
(* An instance of Delegation for TLC.  Agents are interchangeable.          *)
(***************************************************************************)
EXTENDS Delegation

MCCommands == {<<"github">>, <<"github", "issue">>}

MCScopes == {<<"acme">>, <<"acme", "web">>}

MCResources == {<<"acme", "web">>, <<"acme", "app">>}

Symmetry == Permutations(Agents)

=============================================================================
