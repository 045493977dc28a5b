------------------------------- MODULE MCImport --------------------------------
(* Instances of LegacyImport for TLC: two actors, each the migrator of a   *)
(* domain of its own, and two calls of one of them for one record.         *)
EXTENDS ImportProperties, TLC

CONSTANTS a1, a2, d1, d2, r1, c1, c2, c3

Ask(actor, domain, body) ==
    [actor |-> actor, domain |-> domain, record |-> r1, body |-> body]

AllRequests == {Ask(a1, d1, "SOUND"), Ask(a1, d1, "UNFIT"), Ask(a1, d1, "MALFORMED"),
                Ask(a2, d2, "SOUND")}
MCAsks == (c1 :> {Ask(a1, d1, "SOUND"), Ask(a1, d1, "UNFIT")})
       @@ (c2 :> {Ask(a1, d1, "SOUND"), Ask(a1, d1, "MALFORMED")})
       @@ (c3 :> {Ask(a2, d2, "SOUND")})

Open(actor) == [enabled |-> TRUE, migrator |-> actor, published |-> TRUE, owned |-> TRUE]

(* Each row that an import through the first domain depends on, lost alone; *)
(* the second domain's importer keeps them all.                             *)
MCRows == (d1 :> {Open(a1), [Open(a1) EXCEPT !.enabled = FALSE],
                  [Open(a1) EXCEPT !.migrator = NoActor],
                  [Open(a1) EXCEPT !.published = FALSE], [Open(a1) EXCEPT !.owned = FALSE]})
       @@ (d2 :> {Open(a2)})
================================================================================
