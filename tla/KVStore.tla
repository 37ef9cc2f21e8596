------------------------------ MODULE KVStore -------------------------------
(***************************************************************************)
(* What WispDB promises its clients: one map from keys to values.  An      *)
(* Insert or Delete call changes it at one instant between its invocation  *)
(* and its return, exactly once, or not at all if the process crashes      *)
(* before that instant.  A call that returns an error has taken effect or  *)
(* it has not; in the second case it may still take effect at the next     *)
(* restart, unless a later call has changed the key by then.  Freezing,    *)
(* flushing, compaction, segment removal and failures of all of these      *)
(* never change the map.                                                   *)
(***************************************************************************)
CONSTANTS Key, Value, Absent, Client

VARIABLES
    store,      \* store[k] is k's value, or Absent
    pending,    \* the writes called and not yet in effect: <<key, value>>,
                \* with Absent for Delete, or << >>
    doubt       \* doubt[k] has the value of a failed write, if it is the last

vars == <<store, pending, doubt>>

Init ==
    /\ store = [k \in Key |-> Absent]
    /\ pending = [c \in Client |-> << >>]
    /\ doubt = [k \in Key |-> {}]

Invoke(c) ==
    /\ pending[c] = << >>
    /\ \E k \in Key, v \in Value \cup {Absent} :
         pending' = [pending EXCEPT ![c] = <<k, v>>]
    /\ UNCHANGED <<store, doubt>>

TakeEffect(c) ==
    /\ pending[c] # << >>
    /\ store' = [store EXCEPT ![pending[c][1]] = pending[c][2]]
    /\ doubt' = [doubt EXCEPT ![pending[c][1]] = {}]
    /\ pending' = [pending EXCEPT ![c] = << >>]

\* The call returns an error, for good ...
Fail(c) ==
    /\ pending' = [pending EXCEPT ![c] = << >>]
    /\ UNCHANGED <<store, doubt>>

\* ... or for now.
InDoubt(c) ==
    /\ pending[c] # << >>
    /\ doubt' = [doubt EXCEPT ![pending[c][1]] = {pending[c][2]}]
    /\ pending' = [pending EXCEPT ![c] = << >>]
    /\ UNCHANGED store

\* A crash or Close ends all calls and settles what is in doubt.
Settle ==
    /\ DOMAIN store' = Key
    /\ \A k \in Key : store'[k] \in {store[k]} \cup doubt[k]
    /\ doubt' = [k \in Key |-> {}]
    /\ pending' = [c \in Client |-> << >>]

Next ==
    \/ \E c \in Client :
         Invoke(c) \/ TakeEffect(c) \/ Fail(c) \/ InDoubt(c)
    \/ Settle

Spec == Init /\ [][Next]_vars

=============================================================================
