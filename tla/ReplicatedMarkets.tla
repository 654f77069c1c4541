-------------------------- MODULE ReplicatedMarkets --------------------------
(***************************************************************************)
(* What replication promises, without streams, snapshots or retries: core  *)
(* commits a numbered sequence of events, and each replica shows the result*)
(* of one of its prefixes.  A replica moves to the same or a longer prefix, *)
(* by one event or by many; a replica that restarts shows nothing until it *)
(* has a prefix again.  This is one life of core (epoch 0).                 *)
(***************************************************************************)
EXTENDS EventLog

CONSTANT Replicas

VARIABLES truth,  \* the committed events
          pos,    \* the length of the prefix a replica is at
          shown   \* the markets a replica shows

rmVars == <<truth, pos, shown>>

EmptyView == [m \in Markets |-> Absent]

Init ==
    /\ truth = {}
    /\ pos = [r \in Replicas |-> 0]
    /\ shown = [r \in Replicas |-> EmptyView]

Commit(m, s) ==
    /\ truth' = truth \cup {[epoch  |-> 0, seq |-> Cardinality(truth) + 1,
                             market |-> m, state |-> s]}
    /\ UNCHANGED <<pos, shown>>

(* Forward to any prefix not shorter than the present one. *)
Show(r) ==
    \E n \in pos[r] .. Cardinality(truth), v \in View :
        /\ Reflects(v, UpTo(truth, n))
        /\ pos' = [pos EXCEPT ![r] = n]
        /\ shown' = [shown EXCEPT ![r] = v]
        /\ UNCHANGED truth

Forget(r) ==
    \E n \in 0 .. pos[r] :
        /\ pos' = [pos EXCEPT ![r] = n]
        /\ shown' = [shown EXCEPT ![r] = EmptyView]
        /\ UNCHANGED truth

Next ==
    \/ \E m \in Markets, s \in States : Commit(m, s)
    \/ \E r \in Replicas : Show(r) \/ Forget(r)

Spec == Init /\ [][Next]_rmVars
=============================================================================
