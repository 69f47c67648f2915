--------------------------- MODULE MCSnowflakeLoad ---------------------------
(***************************************************************************)
(* Small instance of SnowflakeLoad: one fact, one dimension, one aggregate,*)
(* two months.  A trip key k1 belongs to both months when CrossMonth is    *)
(* set: silver trip_id does not depend on the source month.                *)
(***************************************************************************)
EXTENDS SnowflakeLoad

CONSTANTS fact, dim, agg, m1, m2, k1, k2, CrossMonth

MCDims == <<dim>>
MCAggs == <<agg>>

(* Phase 6 rebuilds the fact slice of m1 and the dimension.                *)
MCBuilds ==
    [x \in {fact, dim, agg} \X {m1, m2, Null} |->
        IF x \in {<<fact, m1>>, <<dim, Null>>} THEN 2 ELSE 1]

(* A second build adds a key; the aggregate slice of m2 is empty, which    *)
(* notebook 02 refuses.                                                    *)
MCGoldKeys ==
    [x \in {fact, dim, agg} \X {m1, m2, Null} \X (1 .. MaxVersion) |->
        CASE x[1] = fact -> IF x[2] = m1 THEN (IF x[3] = 1 THEN {k1} ELSE {k1, k2})
                            ELSE IF CrossMonth THEN {k1} ELSE {k2}
          [] x[1] = dim  -> IF x[3] = 1 THEN {k1} ELSE {k1, k2}
          [] OTHER       -> IF x[2] = m1 THEN {k1, k2} ELSE {}]
=============================================================================
