-------------------------- MODULE ExchangeCapacity --------------------------
(* Units of capacity in overlapping hours, as the exchange sums them: of a *)
(* lot among its reservations, and of a resource among its lots. "rows"    *)
(* maps each row that counts to the [start, end, units] it takes.          *)
EXTENDS Integers, FiniteSetsExt

UnitsAt(rows, p) ==
    MapThenSumSet(LAMBDA i : rows[i].units,
                  {i \in DOMAIN rows : rows[i].start <= p /\ p < rows[i].end})

Overlapping(rows, w) == {i \in DOMAIN rows : rows[i].start < w.end /\ rows[i].end > w.start}

(* The sum can only rise at a start. maximumConcurrentRateUnits looks at   *)
(* the starts within the window that is asked for.                         *)
Fits(rows, w, limit) ==
    \A p \in {w.start} \cup {rows[i].start : i \in Overlapping(rows, w)} :
        p >= w.start => UnitsAt(rows, p) + w.units <= limit

(* The statements of D1 look at the starts before the window too, and turn *)
(* away what would fit when the hours before it are fuller.                *)
FitsD1(rows, w, limit) ==
    \A p \in {w.start} \cup {rows[i].start : i \in Overlapping(rows, w)} :
        UnitsAt(rows, p) + w.units <= limit
=============================================================================
