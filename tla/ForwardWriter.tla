---------------------------- MODULE ForwardWriter ----------------------------
(***************************************************************************)
(* What a planar bitmap decoder promises its caller about the destination *)
(* buffer: it fills the Size cells front to back, a block at a time at    *)
(* its cursor, with pixel values; it never writes behind the cursor or    *)
(* past the end, never rewrites a cell, and it stops once, successfully   *)
(* or not, leaving the buffer as it is.                                    *)
(***************************************************************************)
EXTENDS Integers

CONSTANTS
  Size,    \* cells of the destination
  Pels,    \* the values a cell may be given
  Blank    \* the contents of a cell not written

VARIABLES
  out,     \* the destination
  cur,     \* the first cell not written
  result   \* "running", then "success" or "failure"

vars == <<out, cur, result>>

Cells == 0 .. Size - 1

Init ==
  /\ out = [k \in Cells |-> Blank]
  /\ cur = 0
  /\ result \in {"running", "failure"}

(* The n cells at the cursor get pixel values, the others stay; the       *)
(* decoder may fail after writing them.                                    *)
Write(n) ==
  /\ result = "running"
  /\ cur' = cur + n
  /\ cur' <= Size
  /\ out' \in [Cells -> Pels \cup {Blank}]
  /\ \A k \in Cells : cur <= k /\ k < cur' => out'[k] \in Pels
  /\ \A k \in Cells : ~(cur <= k /\ k < cur') => out'[k] = out[k]
  /\ result' \in {"running", "failure"}

Stop ==
  /\ result = "running"
  /\ result' = "success"
  /\ UNCHANGED <<out, cur>>

Next == (\E n \in 0 .. Size : Write(n)) \/ Stop

Spec == Init /\ [][Next]_vars

=============================================================================
