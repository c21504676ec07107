----------------------------- MODULE PayStoreCas -----------------------------
(***************************************************************************)
(* The optimistic read/modify/write loop of mutatePayStoreBlob over its    *)
(* two backends (src/src/lib/payStore.ts, payStoreCas.ts).                 *)
(*                                                                         *)
(* Redis compares and sets in one EVAL.  The file backend compares, then   *)
(* renames a new file into place, and keeps other writers of the process   *)
(* out by a chain of promises (fileTails).  The value compared is the      *)
(* whole text of the store: there is no version number, so a store that    *)
(* returned to an earlier value passes the comparison.  The mutator is     *)
(* pure, and is run again on the fresh value after every conflict.         *)
(***************************************************************************)
EXTENDS Integers

CONSTANTS
    Writer, Blob, Mutation, Effect, Threw, Initial,
    MaxAttempts   \* PAY_STORE_CAS_MAX_ATTEMPTS

ASSUME StoreAssumption ==
    /\ Initial \in Blob
    /\ Threw \notin Blob /\ Threw \notin Mutation
    /\ Effect \in [Mutation -> [Blob -> Blob \cup {Threw}]]
    /\ MaxAttempts \in Nat \ {0}

VARIABLES
    backend,   \* "redis" or "file", as the processes were configured
    blob,      \* the value under the store's key, or the file's content
    pc,        \* where each call is
    mutation,  \* the mutator of the call, Threw when idle
    snapshot,  \* the value the mutator last ran on
    attempt,   \* attempts begun by the call
    result,    \* how the last call ended
    tail,      \* file backend: writers between comparing and renaming
    overtaken  \* times the store changed under the last call, counted
               \* up to MaxAttempts (history: the program does not keep it)

storeVars == <<backend, blob, pc, mutation, snapshot, attempt, result, tail, overtaken>>

Outcome == {"none", "ok", "threw", "exhausted", "unavailable"}

StoreInit ==
    /\ backend \in {"redis", "file"}
    /\ blob = Initial
    /\ pc = [w \in Writer |-> "idle"]
    /\ mutation = [w \in Writer |-> Threw]
    /\ snapshot = [w \in Writer |-> Initial]
    /\ attempt = [w \in Writer |-> 0]
    /\ result = [w \in Writer |-> "none"]
    /\ tail = {}
    /\ overtaken = [w \in Writer |-> 0]

Mutate(w, m) ==
    /\ pc[w] = "idle"
    /\ pc' = [pc EXCEPT ![w] = "read"]
    /\ mutation' = [mutation EXCEPT ![w] = m]
    /\ attempt' = [attempt EXCEPT ![w] = 1]
    /\ result' = [result EXCEPT ![w] = "none"]
    /\ overtaken' = [overtaken EXCEPT ![w] = 0]
    /\ UNCHANGED <<blob, snapshot, tail>>

(* The call ends; snapshot and attempt are reset to keep idle states few.  *)
Return(w, r) ==
    /\ pc' = [pc EXCEPT ![w] = "idle"]
    /\ mutation' = [mutation EXCEPT ![w] = Threw]
    /\ snapshot' = [snapshot EXCEPT ![w] = Initial]
    /\ attempt' = [attempt EXCEPT ![w] = 0]
    /\ result' = [result EXCEPT ![w] = r]

(* readRaw, then the mutator on a clone.  A mutation that changes nothing  *)
(* is not written.                                                         *)
Read(w) ==
    LET next == Effect[mutation[w]][blob] IN
    /\ pc[w] = "read"
    /\ \/ next = Threw /\ Return(w, "threw")
       \/ next = blob /\ Return(w, "ok")
       \/ /\ next \notin {Threw, blob}
          /\ pc' = [pc EXCEPT ![w] = "commit"]
          /\ snapshot' = [snapshot EXCEPT ![w] = blob]
          /\ UNCHANGED <<mutation, attempt, result>>
    /\ UNCHANGED <<blob, tail, overtaken>>

Conflict_Unbounded(w) ==
    /\ pc' = [pc EXCEPT ![w] = "read"]
    /\ UNCHANGED <<blob, mutation, snapshot, attempt, result, tail, overtaken>>

(* A comparison that failed starts the next attempt, if there is one.      *)
Conflict(w) ==
    /\ IF attempt[w] < MaxAttempts
       THEN /\ pc' = [pc EXCEPT ![w] = "read"]
            /\ attempt' = [attempt EXCEPT ![w] = @ + 1]
            /\ UNCHANGED <<mutation, snapshot, result>>
       ELSE Return(w, "exhausted")
    /\ UNCHANGED <<blob, tail, overtaken>>

Write(w) ==
    /\ blob' = Effect[mutation[w]][snapshot[w]]
    /\ overtaken' = [v \in Writer |->
                       IF v # w /\ pc[v] # "idle" /\ overtaken[v] < MaxAttempts
                       THEN overtaken[v] + 1 ELSE overtaken[v]]

(* One EVAL.  The answer may be lost after it was carried out.             *)
RedisCas_Blind(w) ==
    /\ backend = "redis"
    /\ pc[w] = "commit"
    /\ Write(w)
    /\ \E r \in {"ok", "unavailable"} : Return(w, r)
    /\ UNCHANGED tail

RedisCas(w) ==
    /\ backend = "redis"
    /\ pc[w] = "commit"
    /\ IF blob = snapshot[w]
       THEN /\ Write(w)
            /\ \E r \in {"ok", "unavailable"} : Return(w, r)
            /\ UNCHANGED tail
       ELSE Conflict(w)

(* casFile: compare when the tail of the process is reached, ...           *)
FileCompare(w) ==
    /\ backend = "file"
    /\ pc[w] = "commit"
    /\ tail = {}
    /\ IF blob = snapshot[w]
       THEN /\ pc' = [pc EXCEPT ![w] = "write"]
            /\ tail' = {w}
            /\ UNCHANGED <<blob, mutation, snapshot, attempt, result, overtaken>>
       ELSE Conflict(w)

(* ... then write the new content and let the next writer in.              *)
FileWrite(w) ==
    /\ pc[w] = "write"
    /\ tail' = tail \ {w}
    /\ Write(w)
    /\ Return(w, "ok")

(* The backend fails before the mutation reaches it, or the file cannot be *)
(* written.                                                                *)
Unavailable(w) ==
    /\ pc[w] # "idle"
    /\ tail' = tail \ {w}
    /\ Return(w, "unavailable")
    /\ UNCHANGED <<blob, overtaken>>

WriterStep(w) == Read(w) \/ RedisCas(w) \/ FileCompare(w) \/ FileWrite(w)

StoreNext ==
    /\ \E w \in Writer :
          \/ \E m \in Mutation : Mutate(w, m)
          \/ WriterStep(w)
          \/ Unavailable(w)
    /\ UNCHANGED backend

StoreSpec == StoreInit /\ [][StoreNext]_storeVars

(* A call is run on by the event loop, and the chain of promises serves    *)
(* the writers of the file in turn.                                        *)
FairStoreSpec ==
    /\ StoreSpec
    /\ \A w \in Writer :
          /\ WF_storeVars(WriterStep(w) /\ UNCHANGED backend)
          /\ SF_storeVars(FileCompare(w) /\ UNCHANGED backend)

-----------------------------------------------------------------------------
(* Every variable keeps its type, and no call makes more attempts than     *)
(* PAY_STORE_CAS_MAX_ATTEMPTS.                                             *)
StoreTypeOK ==
    /\ backend \in {"redis", "file"}
    /\ blob \in Blob
    /\ pc \in [Writer -> {"idle", "read", "commit", "write"}]
    /\ mutation \in [Writer -> Mutation \cup {Threw}]
    /\ snapshot \in [Writer -> Blob]
    /\ attempt \in [Writer -> 0..MaxAttempts]
    /\ result \in [Writer -> Outcome]
    /\ tail \in SUBSET Writer
    /\ overtaken \in [Writer -> 0..MaxAttempts]

(* A mutation takes effect atomically or not at all, and the caller is not *)
(* misled about it: no update is lost between a read and its commit.       *)
Atomic == INSTANCE AtomicStore WITH pending <- mutation

MutationsAreAtomic == Atomic!Spec

(* A call is exhausted only after other writers changed the store under it *)
(* as often as it made attempts: a writer alone never fails for conflicts. *)
ConflictsAreReal ==
    \A w \in Writer : result[w] = "exhausted" => overtaken[w] >= MaxAttempts

(* Every call ends, by success, refusal or exhaustion.                     *)
CallsReturn == \A w \in Writer : pc[w] # "idle" ~> pc[w] = "idle"

=============================================================================
