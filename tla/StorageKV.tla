------------------------------ MODULE StorageKV ------------------------------
(***************************************************************************)
(* What core::storage::StorageManager promises its callers about data,    *)
(* stated without locks, statistics, threads or configuration: a set of   *)
(* named storages, each a map from key to value.  Creating a storage      *)
(* gives it an empty map (replacing any storage of that name), deleting   *)
(* it drops the map, and a read returns the value last written under the  *)
(* key, or an empty vector when the storage or the key is missing.        *)
(***************************************************************************)
CONSTANTS Clients, Names, Keys, Vals, Absent, Missing, Empty, NoRet

VARIABLES kv, ret

Store == [Keys -> Vals \cup {Missing}]
EmptyStore == [k \in Keys |-> Missing]

KVTypeOK ==
    /\ kv \in [Names -> Store \cup {Absent}]
    /\ ret \in [Clients -> Vals \cup {Empty, NoRet}]

KVInit ==
    /\ kv = [n \in Names |-> Absent]
    /\ ret = [t \in Clients |-> NoRet]

Create(n) == kv' = [kv EXCEPT ![n] = EmptyStore] /\ UNCHANGED ret

Drop(n) == kv' = [kv EXCEPT ![n] = Absent] /\ UNCHANGED ret

Put(n, k, v) ==
    /\ kv' = IF kv[n] = Absent THEN kv ELSE [kv EXCEPT ![n][k] = v]
    /\ UNCHANGED ret

Erase(n, k) ==
    /\ kv' = IF kv[n] = Absent THEN kv ELSE [kv EXCEPT ![n][k] = Missing]
    /\ UNCHANGED ret

Get(t, n, k) ==
    /\ ret' = [ret EXCEPT ![t] = IF kv[n] = Absent \/ kv[n][k] = Missing
                                   THEN Empty ELSE kv[n][k]]
    /\ UNCHANGED kv

KVNext ==
    \E n \in Names :
        \/ Create(n) \/ Drop(n)
        \/ \E k \in Keys : \/ \E v \in Vals : Put(n, k, v)
                           \/ Erase(n, k)
                           \/ \E t \in Clients : Get(t, n, k)

KVSpec == KVInit /\ [][KVNext]_<<kv, ret>>

=============================================================================
