---------------------------- MODULE MCTargetSync ----------------------------
(* Small instances of TargetSync for TLC: four tags on three ports, two users. *)
EXTENDS TargetSync, TLC

CONSTANTS k1, k2, k3, k4, p1, p2, p3, c1, c2, a, b, x, y, o1, o2

In(k, p, c, on) == [key |-> k, port |-> p, conf |-> c, enable |-> on]
Cl(k, e, v, on) == [key |-> k, email |-> e, cred |-> v, enable |-> on, own |-> o1]

\* Each user on an inbound of its own.
Apart == [inbounds |-> {In(k1, p1, c1, TRUE), In(k2, p2, c1, TRUE)},
          clients  |-> {Cl(k1, a, x, TRUE), Cl(k2, b, x, TRUE)}]
\* a moved to k2, b is gone, k1 is reconfigured and switched off.
Moved == [inbounds |-> {In(k1, p1, c2, FALSE), In(k2, p2, c1, TRUE)},
          clients  |-> {Cl(k2, a, y, TRUE)}]
\* k2 was renamed to k3 on the same port; both users are on both inbounds, b is off.
Renamed == [inbounds |-> {In(k1, p1, c1, TRUE), In(k3, p2, c1, TRUE)},
            clients  |-> {Cl(k1, a, x, TRUE), Cl(k3, a, x, TRUE),
                          Cl(k1, b, y, FALSE), Cl(k3, b, y, FALSE)}]

\* One inbound with a; and a moved from it to a second one, with b in its place.
One == [inbounds |-> {In(k1, p1, c1, TRUE)}, clients |-> {Cl(k1, a, x, TRUE)}]
Two == [inbounds |-> {In(k1, p1, c1, TRUE), In(k2, p2, c1, TRUE)},
        clients  |-> {Cl(k1, b, x, TRUE), Cl(k2, a, x, TRUE)}]

At(id, k, p, c, on) == [id |-> id, key |-> k, port |-> p, conf |-> c, enable |-> on]
Has(id, e, v, on)   == [id |-> id, email |-> e, cred |-> v, enable |-> on]
Of(e, v, on)        == [email |-> e, cred |-> v, enable |-> on, own |-> o2]

\* k1, outdated, where b sits switched off, and a's k4 on a port of its own, which
\* no plan wants.
Behind == [inbounds |-> {At(1, k1, p1, c2, FALSE), At(2, k4, p3, c1, TRUE)},
           clients  |-> {Has(1, b, x, FALSE), Has(2, a, x, TRUE)},
           rows     |-> {Of(a, x, TRUE), Of(b, x, FALSE)}, next |-> 3]
\* A stale inbound on a port of the main panel, and a under it.
Stale == [inbounds |-> {At(1, k3, p2, c1, TRUE)},
          clients  |-> {Has(1, a, y, FALSE)},
          rows     |-> {Of(a, y, FALSE)}, next |-> 2]
\* k2 where the main panel has k1.
Crossed == [inbounds |-> {At(1, k2, p1, c1, TRUE)},
            clients  |-> {Has(1, a, x, TRUE)},
            rows     |-> {Of(a, x, TRUE)}, next |-> 2]
\* A panel nobody has configured yet.
Fresh == [inbounds |-> {}, clients |-> {}, rows |-> {}, next |-> 1]

AllPlans   == {Apart, Moved, Renamed}
SetTargets == {Behind, Stale}
OverlapPlans == {One, Two}
OverlapTargets == {Stale}
Requests == Permutations(Syncers)
CrossedPlans == {Apart}
CrossedTargets == {Crossed}
FreshTargets == {Fresh}
=============================================================================
