---------------------------- MODULE MCTripRecords ----------------------------
(***************************************************************************)
(* Small instance of TripRecords.  The batches are all rows that differ    *)
(* from a sound one in at most two columns, each alone, and all bags of up *)
(* to five rows that are chosen for how they interact.                     *)
(***************************************************************************)
EXTENDS TripRecords, TLC

CONSTANTS z1, z2, z3, fare, tip, total

(* n hundredths, and n whole.                                              *)
Cents(n) == n * Hundredth
Units(n) == 100 * Cents(n)

Pay(f, t, s) == (fare :> f) @@ (tip :> t) @@ (total :> s)

Sound ==
    [pickup |-> 1, dropoff |-> 3, pickup_location |-> z1, dropoff_location |-> z2,
     passengers |-> Units(1), distance |-> 2, money |-> Pay(Cents(2), Cents(1), Cents(3))]

(* The columns a row may deviate in, money column by column.               *)
Deviations ==
    UNION {
        {[Sound EXCEPT !.pickup = v] : v \in {Null, 3, 5}},
        {[Sound EXCEPT !.dropoff = v] : v \in {Null, 1, 0}},
        {[Sound EXCEPT !.pickup_location = v] : v \in {Null, z2, z3}},
        {[Sound EXCEPT !.dropoff_location = v] : v \in {Null, z1, z3}},
        {[Sound EXCEPT !.passengers = v] : v \in {Null, -1, Units(-1), NaN, NegInf}},
        {[Sound EXCEPT !.distance = v] : v \in {Null, NaN, PosInf, NegInf, -1, 0}}}
    \cup {[Sound EXCEPT !.money = Pay(f, t, s)] :
             f \in {Null, Bad, -1, Cents(-1), 0, Cents(2)}, t \in {Null, Bad, -2, Cents(1)},
             s \in {Null, Bad, -1, Cents(3)}}

Columns == DOMAIN Sound

(* a, where it deviates, and b elsewhere.                                  *)
Merge(a, b) == [c \in Columns |-> IF a[c] # Sound[c] THEN a[c] ELSE b[c]]

SingleRows == {<<Merge(a, b)>> : a, b \in Deviations}

(* A sound trip, an adjustment with unknown passengers, a trip with a      *)
(* missing tip and its twin with a tip that does not fit, a trip of        *)
(* another day and way, one with fractions of a cent and a negative tip    *)
(* that is rounded to nothing, and one that ends where no zone is.         *)
Mixed ==
    <<Sound, [Sound EXCEPT !.money = Pay(Cents(-1), 0, Cents(-1)), !.passengers = Null],
      [Sound EXCEPT !.money = Pay(Cents(2), Null, Cents(2)), !.passengers = Units(2)],
      [Sound EXCEPT !.money = Pay(Cents(2), Bad, Cents(2)), !.passengers = Units(2)],
      [Sound EXCEPT !.pickup = 4, !.dropoff = 7, !.pickup_location = z2,
                    !.passengers = Units(3), !.distance = 5],
      [Sound EXCEPT !.money = Pay(Cents(2) + 1, -1, Cents(3))],
      [Sound EXCEPT !.dropoff_location = z3]>>

Bags(n) == {b \in [1 .. n -> DOMAIN Mixed] : \A i \in 1 .. n - 1 : b[i] <= b[i + 1]}

MCBatches ==
    SingleRows \cup {[i \in DOMAIN b |-> Mixed[b[i]]] : b \in UNION {Bags(n) : n \in 0 .. 5}}

(* The lookup as it is; one with a second, nameless row for z2 and a row   *)
(* without an id; one where z3 is there and z1 twice.                      *)
Zone(id, name) == [id |-> id, borough |-> TRUE, name |-> name]
MCZoneBatches ==
    {<<Zone(z1, TRUE), Zone(z2, TRUE)>>,
     <<Zone(z1, TRUE), Zone(z2, TRUE), Zone(z2, FALSE), Zone(Null, TRUE)>>,
     <<Zone(z1, TRUE), Zone(z1, TRUE), Zone(z2, TRUE), Zone(z3, TRUE)>>}
=============================================================================
