--------------------------- MODULE MCSnowflakeJob ---------------------------
(***************************************************************************)
(* Small instance of SnowflakeJob and Marts: two runs for two months over  *)
(* one fact, one dimension and one aggregate.  With CrossMonth the two     *)
(* months share the trip k1: silver trip_id does not depend on the source  *)
(* month.                                                                  *)
(***************************************************************************)
EXTENDS Marts

CONSTANTS fact, dim, agg, m1, m2, k1, k2, r1, r2, CrossMonth

MCDims == <<dim>>
MCAggs == <<agg>>
MCDescribedBy == <<dim>>
MCRunMonth == [r \in RunIds |-> IF r = r1 THEN m1 ELSE m2]

(* Phase 6 may rebuild the aggregate of m1 and the dimension while runs    *)
(* are active.                                                             *)
MCBuilds ==
    [x \in {fact, dim, agg} \X {m1, m2, Null} |->
        IF x \in {<<agg, m1>>, <<dim, Null>>} THEN MaxVersion ELSE 1]

(* The location of k2 comes with the last build of the dimension.          *)
MCGoldKeys ==
    [x \in {fact, dim, agg} \X {m1, m2, Null} \X (1 .. MaxVersion) |->
        CASE x[1] = dim                            -> IF x[3] < MaxVersion THEN {k1} ELSE {k1, k2}
          [] x[2] = m2                             -> IF CrossMonth THEN {k1} ELSE {k2}
          [] x[1] = agg /\ x[3] = 2 /\ ~CrossMonth -> {k2}
          [] OTHER                                 -> {k1}]

MCZoneOf == [k \in {k1, k2} |-> k]

(* The facts of m1 were rebuilt after its aggregate, which counts a trip   *)
(* that is gone.  The second build of the aggregate counts as many trips   *)
(* as there are, at another location.                                      *)
MCTripCount ==
    [x \in {k1, k2} \X {m1, m2} \X (1 .. MaxVersion) |->
        IF x = <<k1, m1, 1>> /\ ~CrossMonth THEN 2 ELSE 1]

(* In this instance no build of the dimension loses a location.            *)
ASSUME MCDimensionsGrow == DimensionsGrow
=============================================================================
