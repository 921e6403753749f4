------------------------------ MODULE MCAdmin ------------------------------
(* A small instance of Admin for TLC. *)
EXTENDS Admin, TLC

CONSTANTS r1, r2, u1, u2, t1, t2, p1, p2, d1, d2

\* The first and the last run in a transaction, as versions 1 and 12 do.
Kinds == <<"strict", "column", "table", "strict">>

Built(data, version) == [data |-> data, version |-> version, parts |-> 1..version]
\* Nothing yet; an earlier build's; one whose column was there before its version.
Fresh   == [conf |-> Missing, db |-> [data |-> d1, version |-> 0, parts |-> {}]]
Earlier == [conf |-> p1, db |-> Built(d1, 1)]
Lagging == [conf |-> p1, db |-> [data |-> d2, version |-> 1, parts |-> {1, 2}]]
ThreeDisks == {Fresh, Earlier, Lagging}

Zip(entries, safe, broken) == [entries |-> entries, safe |-> safe, broken |-> broken]
Whole   == Zip([conf |-> p2, db |-> Lagging.db], TRUE, {})
Escapes == Zip([conf |-> p1], FALSE, {})
Damaged == Zip([conf |-> Torn, db |-> Earlier.db], TRUE, {"conf"})
Zip3    == {Whole, Escapes, Damaged}

Environments == {[env |-> None, apart |-> FALSE], [env |-> None, apart |-> TRUE],
                 [env |-> p2, apart |-> FALSE]}
Few == [troubles |-> 2, asks |-> 3, writes |-> 1]
=============================================================================
