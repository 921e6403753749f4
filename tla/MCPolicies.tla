----------------------------- MODULE MCPolicies -----------------------------
(* A small instance of Policies for TLC. *)
EXTENDS Policies

CONSTANTS ann, bob, n1, n2, x, y, g, s1, s2, r1, r2

Full == [nodes |-> {n1, n2}, provs |-> {x}, refs |-> {<<g, x>>, <<x, x>>}, modes |-> {g}]
Bare == [nodes |-> {n2}, provs |-> {}, refs |-> {}, modes |-> {x}]

\* The policy pages of a user, whole and without groups; a settings page that
\* was loaded long ago; a list of nodes without one, a list of groups that was
\* loaded before the provider, and one without the other group; and the
\* providers.
Pages == {[op |-> "policy", user |-> ann, want |-> Bare, given |-> {"nodes"}],
          [op |-> "page", want |-> [u \in Users |-> Full]],
          [op |-> "nodes", want |-> {n1}],
          [op |-> "groups", want |-> [h \in {g} |-> None]],
          [op |-> "groups", want |-> [h \in {x} |-> x]],
          [op |-> "delete", id |-> x], [op |-> "refresh", id |-> x],
          [op |-> "upsert", id |-> x, src |-> s2],
          [op |-> "upsert", id |-> y, src |-> s1]}

OneProvider ==
  [pol |-> [u \in Users |-> IF u = ann THEN Full ELSE Bare], nodes |-> {n1, n2},
   groups |-> [h \in {g, x} |-> IF h = x THEN x ELSE None],
   rows |-> [id \in {x} |-> [src |-> s1, age |-> "never"]], file |-> [id \in {} |-> s1]]
\* What cleanups that were cut off left behind.
Leftovers ==
  [OneProvider EXCEPT !.nodes = {n1}, !.groups = [h \in {} |-> x], !.rows = [id \in {} |-> x],
                      !.file = [id \in {x} |-> s1]]
Installed == {OneProvider, Leftovers}
Few == [asks |-> 2, troubles |-> 1]
=============================================================================
