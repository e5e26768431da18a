------------------------- MODULE WriteThroughStore -------------------------
(***************************************************************************)
(* What a store that writes through a cache promises, without saying how:  *)
(* a write takes effect on all its rows at once, a row reaches the stable  *)
(* copy at any later moment, and only as it is in the cache by then, and a *)
(* write is acknowledged when its rows have reached it.                    *)
(* MongoStore implements it, as long as all requests take the lock.        *)
(***************************************************************************)
CONSTANTS
  Keys,
  Values,
  Absent      \* no row

VARIABLES
  row,        \* what requests see
  stable,     \* what survives a restart
  acked       \* acknowledged rows that nothing has touched since

vars == <<row, stable, acked>>

Row     == Values \union {Absent}
NoRow   == [k \in Keys |-> Absent]
\* rows with those of K taken from other.
Over(rows, K, other) == [k \in Keys |-> IF k \in K THEN other[k] ELSE rows[k]]

Init ==
  /\ row \in [Keys -> Row]
  /\ stable = row
  /\ acked = NoRow

\* A request writes v to the rows K, or removes them.
Write(K, v) ==
  /\ row' = Over(row, K, [k \in Keys |-> v])
  /\ acked' = Over(acked, K, NoRow)
  /\ UNCHANGED stable

\* The rows K reach the stable copy.
Store(K) ==
  /\ stable' = Over(stable, K, row)
  /\ UNCHANGED <<row, acked>>

\* Who wrote the rows K is told so.
Acknowledge(K) ==
  /\ \A k \in K : stable[k] = row[k]
  /\ acked' = Over(acked, K, row)
  /\ UNCHANGED <<row, stable>>

\* A restart goes on with what is stable; what was written but not yet
\* stable is lost.
Restart ==
  /\ row' = stable
  /\ UNCHANGED <<stable, acked>>

\* A restart that finds nothing to go on with voids what was promised.
RestartEmpty ==
  /\ row' = NoRow
  /\ acked' = NoRow
  /\ UNCHANGED stable

\* Rows nobody has are put into the stable copy from outside.
Import(K, v) ==
  /\ \A k \in K : row[k] = Absent /\ stable[k] = Absent /\ acked[k] = Absent
  /\ stable' = Over(stable, K, [k \in Keys |-> v])
  /\ UNCHANGED <<row, acked>>

Next ==
  \/ \E K \in SUBSET Keys : \/ Store(K) \/ Acknowledge(K)
                            \/ \E v \in Row : Write(K, v)
                            \/ \E v \in Values : Import(K, v)
  \/ Restart \/ RestartEmpty

Spec == Init /\ [][Next]_vars
=============================================================================
