------------------------------- MODULE Storage -------------------------------
(***************************************************************************)
(* core::storage::StorageManager (src/src/storage/storage_manager.cpp and  *)
(* src/include/storage/storage_manager.h): the singleton's table of named  *)
(* storages, each with its key/value data, the used_size statistic and the *)
(* read/write counters, its backup and snapshot name lists, and the        *)
(* monitoring thread started and stopped through monitoring_active_ and   *)
(* the std::thread monitoring_thread_.                                     *)
(*                                                                         *)
(* Every public operation on the table runs entirely under                *)
(* storages_mutex_, so each is one atomic step of its client.  The         *)
(* configuration (replication, encryption, compression, keys) is read only *)
(* by apply_storage_changes and the encrypt/compress/replicate helpers,    *)
(* which are empty placeholders, so it is left out, and with it            *)
(* validate_storage_config (always true); timestamps and latencies are     *)
(* left out.  is_active is set to false only right before the erase in the *)
(* same critical section, so no storage is ever inactive while the lock is *)
(* free and cleanup_inactive_storages never erases anything.               *)
(*                                                                         *)
(* stop_storage_monitoring stores false, tests joinable() and joins: two   *)
(* steps of its caller after the store.  A std::thread that is assigned to *)
(* while joinable calls std::terminate, and join() on a thread that is not *)
(* joinable throws; both end the model in `failed`.                        *)
(***************************************************************************)
EXTENDS Integers, Sequences, FiniteSets, FiniteSetsExt, SequencesExt

CONSTANTS
    Clients,         \* threads calling the public operations
    MonitorCallers,  \* the clients that call start/stop_storage_monitoring
    Names, Keys, Vals,
    Size,            \* Size[v]: the byte length of value v (nonzero)
    Backups, Snapshots,
    MaxCalls,        \* bound on the calls of each client
    SizeMod,         \* the modulus of size_t arithmetic in the model
    Absent, Missing, Empty, NoRet, NoThread

ASSUME /\ MonitorCallers \subseteq Clients
       /\ Size \in [Vals -> Nat \ {0}]
       /\ MaxCalls \in Nat /\ SizeMod \in Nat \ {0}

\* Monitoring threads are numbered in the order start_storage_monitoring
\* creates them; each call creates at most one.
Workers == 1 .. MaxCalls * Cardinality(MonitorCallers)

Store == [Keys -> Vals \cup {Missing}]
EmptyStore == [k \in Keys |-> Missing]

VARIABLES
    storages,   \* storages_: name -> Storage, or Absent
    active,     \* monitoring_active_
    thread,     \* the worker monitoring_thread_ holds, or NoThread
    spawned,    \* monitoring threads created so far
    wpc,        \* wpc[w]: where monitoring thread w is
    cpc,        \* cpc[t]: "idle", or where t is inside stop_storage_monitoring
    ret,        \* ret[t]: what t's last read_data returned
    calls,      \* calls made by each client
    failed      \* std::terminate was called, or join() threw

vars == <<storages, active, thread, spawned, wpc, cpc, ret, calls, failed>>

StorageRec == [data : Store, used : 0 .. SizeMod - 1,
               reads : Nat, writes : Nat,
               backups : Seq(Backups), snapshots : Seq(Snapshots)]

TypeOK ==
    /\ storages \in [Names -> StorageRec \cup {Absent}]
    /\ active \in BOOLEAN
    /\ thread \in Workers \cup {NoThread}
    /\ spawned \in 0 .. Cardinality(Workers)
    /\ wpc \in [Workers -> {"unborn", "check", "body", "done"}]
    /\ cpc \in [Clients -> {"idle", "test", "join"}]
    /\ ret \in [Clients -> Vals \cup {Empty, NoRet}]
    /\ calls \in [Clients -> 0 .. MaxCalls]
    /\ failed \in BOOLEAN

Init ==
    /\ storages = [n \in Names |-> Absent]
    /\ active = FALSE
    /\ thread = NoThread
    /\ spawned = 0
    /\ wpc = [w \in Workers |-> "unborn"]
    /\ cpc = [t \in Clients |-> "idle"]
    /\ ret = [t \in Clients |-> NoRet]
    /\ calls = [t \in Clients |-> 0]
    /\ failed = FALSE

Present(n) == storages[n] # Absent

\* A Storage as create_storage builds it: no data, zero statistics.
NewStorage == [data |-> EmptyStore, used |-> 0, reads |-> 0, writes |-> 0,
               backups |-> <<>>, snapshots |-> <<>>]

\* A client starts a public call.
Call(t) ==
    /\ ~failed
    /\ cpc[t] = "idle"
    /\ calls[t] < MaxCalls
    /\ calls' = [calls EXCEPT ![t] = @ + 1]

MonitorVars == <<active, thread, spawned, wpc, cpc, failed>>
-----------------------------------------------------------------------------
(* The storage table.                                                      *)

\* create_storage: storages_[name] = a fresh Storage, replacing any
\* storage of that name with its data.
CreateStorage(t, n) ==
    /\ Call(t)
    /\ storages' = [storages EXCEPT ![n] = NewStorage]
    /\ UNCHANGED <<ret>> /\ UNCHANGED MonitorVars

\* delete_storage: is_active = false and erase, when the name is present.
DeleteStorage(t, n) ==
    /\ Call(t)
    /\ storages' = [storages EXCEPT ![n] = Absent]
    /\ UNCHANGED <<ret>> /\ UNCHANGED MonitorVars

\* A call that, under storages_mutex_, changes only the configuration of
\* the named storage (which is left out), or does nothing at all.
ConfigCall(t) ==
    /\ Call(t)
    /\ UNCHANGED <<storages, ret>> /\ UNCHANGED MonitorVars

\* update_storage: validate (always true), replace the config, then
\* apply_storage_changes, which is empty.
UpdateStorage(t, n) == ConfigCall(t)
\* start_replication and stop_replication (empty bodies) and
\* update_replication_strategy.
UpdateReplication(t, n) == ConfigCall(t)
\* enable/disable_encryption, rotate_encryption_key,
\* enable/disable_compression.
SetProcessing(t, n) == ConfigCall(t)
\* restore_from_backup and restore_from_snapshot find the storage and do
\* nothing: the data is not restored.
RestoreFromBackup(t, n, b) == ConfigCall(t)
RestoreFromSnapshot(t, n, s) == ConfigCall(t)

\* What a std::vector holds after being moved from: valid but unspecified;
\* the standard libraries leave it empty.
MovedFromSize(v) == {0, Size[v]}

\* Mutant: storages_[storage_name] in place of find, which creates a
\* default storage for an unknown name.
WriteDataAutoCreate(t, n, k, v) ==
    /\ Call(t)
    /\ \E moved \in MovedFromSize(v) :
         LET old == IF Present(n) THEN storages[n] ELSE NewStorage IN
         storages' = [storages EXCEPT ![n] = [old EXCEPT !.data[k] = v,
                                                        !.writes = @ + 1,
                                                        !.used = (@ + moved) % SizeMod]]
    /\ UNCHANGED <<ret>> /\ UNCHANGED MonitorVars

\* write_data: data[key] = std::move(processed_data), then used_size +=
\* processed_data.size(), which reads the moved-from vector.
WriteData(t, n, k, v) ==
    /\ Call(t)
    /\ IF Present(n)
         THEN \E moved \in MovedFromSize(v) :
                storages' = [storages EXCEPT ![n].data[k] = v,
                                             ![n].writes = @ + 1,
                                             ![n].used = (@ + moved) % SizeMod]
         ELSE UNCHANGED storages
    /\ UNCHANGED <<ret>> /\ UNCHANGED MonitorVars

\* read_data: the stored vector, or {} when the storage or key is missing;
\* read_operations counts the reads that found their key.
ReadData(t, n, k) ==
    /\ Call(t)
    /\ LET found == Present(n) /\ storages[n].data[k] # Missing IN
       /\ ret' = [ret EXCEPT ![t] = IF found THEN storages[n].data[k] ELSE Empty]
       /\ storages' = IF found THEN [storages EXCEPT ![n].reads = @ + 1] ELSE storages
    /\ UNCHANGED MonitorVars

\* Mutant: used_size taken as a signed count that may go below zero.
DeleteDataSigned(t, n, k) ==
    /\ Call(t)
    /\ IF Present(n) /\ storages[n].data[k] # Missing
         THEN storages' = [storages EXCEPT
                  ![n].used = @ - Size[storages[n].data[k]],
                  ![n].data[k] = Missing]
         ELSE UNCHANGED storages
    /\ UNCHANGED <<ret>> /\ UNCHANGED MonitorVars

\* delete_data: used_size -= the stored vector's size (in size_t), erase.
DeleteData(t, n, k) ==
    /\ Call(t)
    /\ IF Present(n) /\ storages[n].data[k] # Missing
         THEN storages' = [storages EXCEPT
                  ![n].used = (@ - Size[storages[n].data[k]]) % SizeMod,
                  ![n].data[k] = Missing]
         ELSE UNCHANGED storages
    /\ UNCHANGED <<ret>> /\ UNCHANGED MonitorVars

\* create_backup and create_snapshot push the name back.
CreateBackup(t, n, b) ==
    /\ Call(t)
    /\ storages' = IF Present(n) THEN [storages EXCEPT ![n].backups = Append(@, b)]
                   ELSE storages
    /\ UNCHANGED <<ret>> /\ UNCHANGED MonitorVars
CreateSnapshot(t, n, s) ==
    /\ Call(t)
    /\ storages' = IF Present(n) THEN [storages EXCEPT ![n].snapshots = Append(@, s)]
                   ELSE storages
    /\ UNCHANGED <<ret>> /\ UNCHANGED MonitorVars

\* delete_backup and delete_snapshot: erase(remove(...)) drops every
\* occurrence of the name.
DeleteBackup(t, n, b) ==
    /\ Call(t)
    /\ storages' = IF Present(n)
                   THEN [storages EXCEPT ![n].backups = SelectSeq(@, LAMBDA x : x # b)]
                   ELSE storages
    /\ UNCHANGED <<ret>> /\ UNCHANGED MonitorVars
DeleteSnapshot(t, n, s) ==
    /\ Call(t)
    /\ storages' = IF Present(n)
                   THEN [storages EXCEPT ![n].snapshots = SelectSeq(@, LAMBDA x : x # s)]
                   ELSE storages
    /\ UNCHANGED <<ret>> /\ UNCHANGED MonitorVars

-----------------------------------------------------------------------------
(* Monitoring.                                                             *)

\* start_storage_monitoring: if monitoring_active_.exchange(true) was
\* already true, return; else create the thread and move-assign it to
\* monitoring_thread_, which calls std::terminate if monitoring_thread_ is
\* still joinable.
StartMonitoring(t) ==
    /\ Call(t)
    /\ t \in MonitorCallers
    /\ active' = TRUE
    /\ IF active
         THEN UNCHANGED <<thread, spawned, wpc, failed>>
         ELSE /\ spawned' = spawned + 1
              /\ wpc' = [wpc EXCEPT ![spawned + 1] = "check"]
              /\ IF thread # NoThread
                   THEN failed' = TRUE /\ UNCHANGED thread
                   ELSE thread' = spawned + 1 /\ UNCHANGED failed
    /\ UNCHANGED <<storages, ret, cpc>>

\* stop_storage_monitoring, first step: monitoring_active_ = false.
StopMonitoring(t) ==
    /\ Call(t)
    /\ t \in MonitorCallers
    /\ active' = FALSE
    /\ cpc' = [cpc EXCEPT ![t] = "test"]
    /\ UNCHANGED <<storages, ret, thread, spawned, wpc, failed>>

\* if (monitoring_thread_.joinable())
StopTest(t) ==
    /\ ~failed
    /\ cpc[t] = "test"
    /\ cpc' = [cpc EXCEPT ![t] = IF thread = NoThread THEN "idle" ELSE "join"]
    /\ UNCHANGED <<storages, ret, calls, active, thread, spawned, wpc, failed>>

\* monitoring_thread_.join(): throws std::system_error when another caller
\* has joined the thread since the joinable() test; otherwise blocks until
\* the thread has returned and leaves monitoring_thread_ empty.
StopJoin(t) ==
    /\ ~failed
    /\ cpc[t] = "join"
    /\ IF thread = NoThread
         THEN failed' = TRUE /\ UNCHANGED <<thread, cpc>>
         ELSE /\ wpc[thread] = "done"
              /\ thread' = NoThread
              /\ cpc' = [cpc EXCEPT ![t] = "idle"]
              /\ UNCHANGED failed
    /\ UNCHANGED <<storages, ret, calls, active, spawned, wpc>>

\* monitoring_worker: while (monitoring_active_).
WorkerCheck(w) ==
    /\ ~failed
    /\ wpc[w] = "check"
    /\ wpc' = [wpc EXCEPT ![w] = IF active THEN "body" ELSE "done"]
    /\ UNCHANGED <<storages, ret, calls, active, thread, spawned, cpc, failed>>

\* The loop body: update_storage_stats stamps last_updated,
\* check_storage_health does nothing, cleanup_inactive_storages erases the
\* inactive storages, of which there are none; then a sleep.
WorkerBody(w) ==
    /\ ~failed
    /\ wpc[w] = "body"
    /\ wpc' = [wpc EXCEPT ![w] = "check"]
    /\ UNCHANGED <<storages, ret, calls, active, thread, spawned, cpc, failed>>

\* std::terminate has ended the process, or join() has thrown out of a
\* stop_storage_monitoring that nothing in the repository catches.
Terminated == failed /\ UNCHANGED vars

\* Every client has made its calls and returned, and every monitoring
\* thread has ended or loops forever: the program stays where it is.
Finished ==
    /\ \A t \in Clients : calls[t] = MaxCalls /\ cpc[t] = "idle"
    /\ \A w \in Workers : wpc[w] # "check"
    /\ UNCHANGED vars

Next ==
    \/ \E t \in Clients, n \in Names :
          \/ CreateStorage(t, n) \/ DeleteStorage(t, n)
          \/ UpdateStorage(t, n) \/ UpdateReplication(t, n) \/ SetProcessing(t, n)
          \/ \E k \in Keys : \/ \E v \in Vals : WriteData(t, n, k, v)
                             \/ ReadData(t, n, k) \/ DeleteData(t, n, k)
          \/ \E b \in Backups : \/ CreateBackup(t, n, b) \/ DeleteBackup(t, n, b)
                                \/ RestoreFromBackup(t, n, b)
          \/ \E s \in Snapshots : \/ CreateSnapshot(t, n, s) \/ DeleteSnapshot(t, n, s)
                                  \/ RestoreFromSnapshot(t, n, s)
    \/ \E t \in Clients : StartMonitoring(t) \/ StopMonitoring(t)
                          \/ StopTest(t) \/ StopJoin(t)
    \/ \E w \in Workers : WorkerCheck(w) \/ WorkerBody(w)
    \/ Finished \/ Terminated

\* The std::thread runs its worker and a caller inside stop returns once
\* the thread it joins has returned; nothing forces a client to call.
Spec == Init /\ [][Next]_vars
        /\ \A w \in Workers : WF_vars(WorkerCheck(w)) /\ WF_vars(WorkerBody(w))
        /\ \A t \in Clients : WF_vars(StopTest(t)) /\ WF_vars(StopJoin(t))

-----------------------------------------------------------------------------
(* Properties.                                                             *)

\* start_storage_monitoring never move-assigns over a joinable
\* monitoring_thread_ and no stop_storage_monitoring joins a thread another
\* stop has already joined: the process is never ended by std::terminate
\* or an exception from join().
NoTerminate == ~failed

\* Every call of stop_storage_monitoring returns, unless the process has
\* been ended meanwhile: the monitoring thread it joins sees
\* monitoring_active_ false and leaves its loop, even when another caller
\* starts and stops monitoring in between.
StopReturns == \A t \in Clients : cpc[t] # "idle" ~> (cpc[t] = "idle" \/ failed)

\* The bytes of the values stored in storage n.
StoredBytes(n) ==
    MapThenSumSet(LAMBDA k : Size[storages[n].data[k]],
                  {k \in Keys : storages[n].data[k] # Missing})

\* stats.used_size of every storage is the size of the data it holds, as
\* write_data's and delete_data's updates of it intend.
UsedSizeMatches ==
    \A n \in Names : Present(n) => storages[n].used = StoredBytes(n) % SizeMod

\* The manager's storages, read as the abstract key/value store: create,
\* delete, write, delete_data and read behave as StorageKV says.
KV == INSTANCE StorageKV WITH
        kv <- [n \in Names |-> IF Present(n) THEN storages[n].data ELSE Absent]
RefinesKV == KV!KVSpec

=============================================================================
