----------------------------- MODULE FixedWindow -----------------------------
(***************************************************************************)
(* The fixed-window counter the server keeps in several maps: the first    *)
(* request opens a window at its own time, later ones count against it,    *)
(* and the first request a whole window later opens the next one.  A       *)
(* refused request is not counted.                                         *)
(***************************************************************************)
EXTENDS Naturals

CONSTANTS
    Window,    \* seconds a window lasts
    NoBucket   \* no window was opened, or it was deleted

WindowAssumption ==
    /\ Window \in Nat \ {0}
    /\ NoBucket \notin [start : Nat, count : Nat]

Bucket(times, counts) ==
    [start : times, count : counts] \cup {NoBucket}

(* The bucket still counts for a request at this time.  The time may lie   *)
(* before the start of the bucket: the clock was read before an await.     *)
InBucket(bucket, time) ==
    bucket # NoBucket /\ time < bucket.start + Window

Admits(bucket, time, limit) ==
    InBucket(bucket, time) => bucket.count < limit

Counted(bucket, time) ==
    IF InBucket(bucket, time) THEN [bucket EXCEPT !.count = @ + 1]
    ELSE [start |-> time, count |-> 1]
==============================================================================
