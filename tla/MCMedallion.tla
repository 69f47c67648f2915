----------------------------- MODULE MCMedallion -----------------------------
(***************************************************************************)
(* Small instance of Medallion: a run for each of two months and a         *)
(* backfill of the first.  Both uploads of m1 have six rows, a duplicate   *)
(* of t1 among them, and five trips, but not the same ones.  m2 has an     *)
(* unsound trip and three trips that m1 has, too.  Location z3 has no      *)
(* name; the first upload of the zone lookup lacks z2.                     *)
(***************************************************************************)
EXTENDS Medallion

CONSTANTS m1, m2, t1, t2, t3, t4, t5, t6, t7, t8, z1, z2, z3, r1, r2, r3

MCRunMonth == [r \in {r1, r2, r3} |-> IF r = r2 THEN m2 ELSE m1]
MCTripUploads == [m \in {m1, m2} |-> IF m = m1 THEN 2 ELSE 1]

MCRowsOf(m, v) ==
    IF m = m2 THEN {t1, t2, t3, t7, t8}
    ELSE {t1, t2, t3, t4, IF v = 1 THEN t5 ELSE t6}
MCRawTrips ==
    [m \in {m1, m2} |-> [v \in 1 .. 2 |-> [t \in Trips |->
        IF t \notin MCRowsOf(m, v) THEN 0 ELSE IF m = m1 /\ t = t1 THEN 2 ELSE 1]]]
MCRawZones == <<{z1, z3}, {z1, z2, z3}>>
MCDates == 1 .. 6
MCZoneOf == [t \in Trips |-> IF t = t5 THEN z2 ELSE z1]
MCDateOf ==
    [t \in Trips |-> CASE t = t6 -> 1 [] t = t1 -> 2 [] t \in {t2, t3} -> 3
                       [] t \in {t4, t5} -> 4 [] OTHER -> 6]
=============================================================================
