---------------------------- MODULE MCMainImport ----------------------------
(* Small instances of MainImport for TLC: three inbounds, three users. *)
EXTENDS MainImport, TLC

CONSTANTS a, b, c, x, y, p1, p2

Cl(e, v) == [email |-> e, cred |-> v]

Before == (1 :> {Cl(a, x)}) @@ (2 :> {Cl(b, x)})
\* Inbound 2 is gone, a has a new credential and b moved to its inbound.
After  == (1 :> {Cl(a, y), Cl(b, x)}) @@ (3 :> {Cl(a, y)})

\* What an import of Before left; a has a policy, c is only known locally.
Known ==
  [users  |-> {[uid |-> 1, email |-> a, cred |-> x, pref |-> p1],
               [uid |-> 2, email |-> c, cred |-> x, pref |-> NoPref]},
   rows   |-> {[local |-> 1, id |-> 1, clients |-> {Cl(a, x), Cl(c, x)}],
               [local |-> 2, id |-> 2, clients |-> {}]},
   grants |-> {[uid |-> 1, local |-> 1, email |-> a], [uid |-> 2, local |-> 1, email |-> c]},
   nextUid |-> 3, nextLocal |-> 3]
Empty == [users |-> {}, rows |-> {}, grants |-> {}, nextUid |-> 1, nextLocal |-> 1]

\* Two small panels for overlapping requests: b comes, and a moves to an inbound of its own.
Small == 1 :> {Cl(a, y)}
Other == (1 :> {Cl(b, x)}) @@ (2 :> {Cl(a, x)})

Panels == {Before, After}
SmallPanels == {Small, Other}
OnlyAfter == {After}
Dbs == {Known, Empty}
OnlyKnown == {Known}
Swap == Permutations(Requests)
=============================================================================
