--------------------------- MODULE MCGrantBundle ---------------------------
(***************************************************************************)
(* An instance of GrantBundle for TLC: two agents, so that a rule for one    *)
(* can reach the other; one policy row; texts that permit or forbid for      *)
(* everyone mapped.                                                          *)
(***************************************************************************)
EXTENDS GrantBundle, TLC

MCRule(effect, who) == [effect |-> effect, who |-> who, what |-> Anything,
                        cosigned |-> FALSE]

MCTexts == {{MCRule("permit", Anyone)}, {MCRule("forbid", Anyone)}}

MCSymmetry == Permutations(Sessions) \cup Permutations(GrantAgents)

=============================================================================
