----------------------------- MODULE AtomicStore -----------------------------
(***************************************************************************)
(* What mutatePayStoreBlob promises its callers: a mutation takes effect   *)
(* in one step on the value the store has at that step, or not at all.     *)
(* A caller that is told "ok" knows that it did, one told "exhausted" or   *)
(* "threw" knows that it did not, and one told "unavailable" knows         *)
(* nothing.                                                                *)
(***************************************************************************)
CONSTANTS
    Writer,    \* callers of mutatePayStoreBlob
    Blob,      \* values of the store
    Mutation,  \* mutators
    Effect,    \* Effect[m][b]: what mutator m makes of b, or Threw
    Threw,     \* the mutator threw
    Initial    \* the empty store

VARIABLES
    blob,      \* the value under the store's key
    pending,   \* pending[w]: the mutation w waits for, or Threw when idle
    result     \* result[w]: how the last call of w ended

Outcome == {"none", "ok", "threw", "exhausted", "unavailable"}

Init ==
    /\ blob = Initial
    /\ pending = [w \in Writer |-> Threw]
    /\ result = [w \in Writer |-> "none"]

Call(w, m) ==
    /\ pending[w] = Threw
    /\ pending' = [pending EXCEPT ![w] = m]
    /\ result' = [result EXCEPT ![w] = "none"]
    /\ UNCHANGED blob

Return(w, r) ==
    /\ pending' = [pending EXCEPT ![w] = Threw]
    /\ result' = [result EXCEPT ![w] = r]

TakesEffect(w) ==
    /\ pending[w] # Threw
    /\ Effect[pending[w]][blob] # Threw
    /\ blob' = Effect[pending[w]][blob]
    /\ \E r \in {"ok", "unavailable"} : Return(w, r)

Throws(w) ==
    /\ pending[w] # Threw
    /\ Effect[pending[w]][blob] = Threw
    /\ Return(w, "threw")
    /\ UNCHANGED blob

HasNoEffect(w) ==
    /\ pending[w] # Threw
    /\ \E r \in {"exhausted", "unavailable"} : Return(w, r)
    /\ UNCHANGED blob

Next ==
    \E w \in Writer :
        \/ \E m \in Mutation : Call(w, m)
        \/ TakesEffect(w) \/ Throws(w) \/ HasNoEffect(w)

Spec == Init /\ [][Next]_<<blob, pending, result>>

=============================================================================
