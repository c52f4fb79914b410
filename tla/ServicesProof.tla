---------------------------- MODULE ServicesProof ---------------------------
(***************************************************************************)
(* The components of Services, each for any threads and any number of      *)
(* calls: the thread of a periodic flusher never outlives its owner;       *)
(* nobody sleeps past a wakeup on the per-thread semaphore; and who is     *)
(* told that it may delete a barrier, blocking_counter or notification is  *)
(* the last to use it.                                                     *)
(***************************************************************************)
EXTENDS Services, Sequences, FiniteSetTheorems, TLAPS

(* The instances count as this module does.                                *)
LEMMA OneCardinality ==
  \A S : Clients!Cardinality(S) = Cardinality(S) /\ Semaphore!Cardinality(S) = Cardinality(S)
BY DEF Cardinality, Clients!Cardinality, Semaphore!Cardinality

-----------------------------------------------------------------------------
(* The thread that runs the static destructors makes no calls of its own   *)
(* here, and None is no thread.                                            *)
Apart == Main \notin RegistryThreads /\ None \notin Registry!Callers

CallLabels == {"idle", "update", "lock_map", "flush", "flush_every", "shutdown", "destroy",
                 "destroy_shutdown", "unlock", "unlock_shutdown", "drop_all", "reset_tp"}
MainLabels == {"idle", "destroy_exit", "gone"}

(* As much of the types as the argument needs.                             *)
RegistryTyped ==
  /\ registry_pc \in [Registry!Callers -> CallLabels \cup MainLabels]
  /\ \A t \in RegistryThreads : registry_pc[t] \in CallLabels
  /\ registry_pc[Main] \in MainLabels
  /\ DOMAIN victim = Registry!Callers
  /\ worker_thread_ \in [Registry!Flushers -> {"none", "wait", "lock_map", "flush", "returned"}]

(* Who destroys a flusher has flusher_mutex_ until after the join.         *)
Holder ==
  \A t \in RegistryThreads :
    registry_pc[t] \in {"destroy", "destroy_shutdown", "unlock", "unlock_shutdown"} =>
      flusher_mutex_ = t

(* Whose thread runs is the registry's flusher, or somebody waits for its  *)
(* thread to end.                                                          *)
Owned ==
  \A w \in Registry!Flushers : Registry!Running(w) =>
    \/ w = periodic_flusher_
    \/ \E t \in Registry!Callers :
         registry_pc[t] \in {"destroy", "destroy_shutdown", "destroy_exit"} /\ victim[t] = w

(* The destructor runs alone, and clears periodic_flusher_ first.          *)
Exiting ==
  /\ registry_pc[Main] # "idle" =>
       periodic_flusher_ = 0 /\ \A t \in RegistryThreads : registry_pc[t] = "idle"
  /\ destroyed => registry_pc[Main] = "gone"

RegistryIInv == RegistryTyped /\ Holder /\ Owned /\ Exiting

(* No flusher has been made at first.                                      *)
LEMMA RegistryInit == ASSUME Apart PROVE Registry!Init => RegistryIInv
BY DEF Apart, Registry!Init, RegistryIInv, RegistryTyped, Holder, Owned, Exiting, Registry!Running,
       CallLabels, MainLabels, Registry!Callers

(* The threads that may be destroying a flusher, and where that leads.     *)
LEMMA DestroyingLabels ==
  /\ DOMAIN Registry!Destroying = {"destroy", "destroy_shutdown", "destroy_exit"}
  /\ Registry!Destroying["destroy"] = "unlock"
  /\ Registry!Destroying["destroy_shutdown"] = "unlock_shutdown"
  /\ Registry!Destroying["destroy_exit"] = "gone"
BY DEF Registry!Destroying

(* A step of a flusher's thread neither starts one that has ended nor      *)
(* concerns the owner.                                                     *)
LEMMA FlusherStepIInv ==
  ASSUME RegistryIInv, NEW w \in Registry!Flushers, Registry!FlusherStep(w)
  PROVE  RegistryIInv'
<1>1. /\ UNCHANGED <<registry_pc, victim, flusher_mutex_, periodic_flusher_, destroyed>>
      /\ Registry!Running(w)
      /\ \A v \in Registry!Flushers \ {w} : worker_thread_'[v] = worker_thread_[v]
      /\ worker_thread_' \in [Registry!Flushers -> {"none", "wait", "lock_map", "flush", "returned"}]
      BY DEF Registry!FlusherStep, Registry!Wake, Registry!Callback, Registry!Running,
             RegistryIInv, RegistryTyped, Registry!worker
<1>2. \A v \in Registry!Flushers : Registry!Running(v)' => Registry!Running(v)
      BY <1>1 DEF Registry!Running
<1>3. Owned'
      BY <1>1, <1>2 DEF RegistryIInv, Owned
<1> QED
    BY <1>1, <1>3 DEF RegistryIInv, RegistryTyped, Holder, Exiting

(* A call's step that has nothing to do with flushers.                     *)
LEMMA CallStepIInv ==
  ASSUME Apart, RegistryIInv, NEW t \in RegistryThreads,
         \/ Registry!Call(t) \/ Registry!UpdateMap(t) \/ Registry!FlushStep(t)
         \/ Registry!UnlockFlusher(t) \/ Registry!ShutdownStep(t)
  PROVE  RegistryIInv'
<1> USE DEF RegistryIInv, RegistryTyped, Registry!Goto
<1>1. /\ UNCHANGED <<victim, worker_thread_, periodic_flusher_, destroyed>>
      /\ \E label \in CallLabels \ {"destroy", "destroy_shutdown", "unlock", "unlock_shutdown"} :
           registry_pc' = [registry_pc EXCEPT ![t] = label]
      /\ registry_pc[t] \notin {"destroy", "destroy_shutdown"}
      /\ registry_pc[Main] = "idle"
  <2>1. CASE Registry!Call(t) BY <2>1 DEF Registry!Call, Registry!worker, CallLabels
  <2>2. CASE Registry!UpdateMap(t) BY <2>2 DEF Registry!UpdateMap, Registry!worker, CallLabels,
                                               Exiting
  <2>3. CASE Registry!FlushStep(t)
    <3>1. registry_pc[t] \in {"lock_map", "flush"} /\ registry_pc[Main] = "idle"
          BY <2>3 DEF Registry!FlushStep, Exiting
    <3>2. UNCHANGED <<victim, worker_thread_, periodic_flusher_, destroyed>>
          BY <2>3 DEF Registry!FlushStep, Registry!worker
    <3>3. \/ registry_pc' = [registry_pc EXCEPT ![t] = "flush"]
          \/ registry_pc' = [registry_pc EXCEPT ![t] = "idle"]
          BY <2>3 DEF Registry!FlushStep
    <3> QED BY <3>1, <3>2, <3>3 DEF CallLabels
  <2>4. CASE Registry!UnlockFlusher(t) BY <2>4 DEF Registry!UnlockFlusher, Registry!worker,
                                                   CallLabels, Exiting
  <2>5. CASE Registry!ShutdownStep(t) BY <2>5 DEF Registry!ShutdownStep, Registry!worker,
                                                  CallLabels, Exiting
  <2> QED BY <2>1, <2>2, <2>3, <2>4, <2>5
<1>2. flusher_mutex_' = flusher_mutex_ \/ registry_pc[t] \in {"unlock", "unlock_shutdown"}
      BY DEF Registry!Call, Registry!UpdateMap, Registry!FlushStep, Registry!UnlockFlusher,
             Registry!ShutdownStep
<1>3. t # Main /\ t \in Registry!Callers /\ Main \in Registry!Callers
      BY DEF Apart, Registry!Callers
<1>4. Holder'
      BY <1>1, <1>2, <1>3 DEF Holder, Registry!Callers
<1>5. Owned'
  <2>1. \A u \in Registry!Callers :
          registry_pc[u] \in {"destroy", "destroy_shutdown", "destroy_exit"} =>
            registry_pc'[u] = registry_pc[u]
        BY <1>1, <1>3 DEF CallLabels
  <2> QED
      BY <1>1, <2>1 DEF Owned, Registry!Running
<1> QED
    BY <1>1, <1>3, <1>4, <1>5 DEF Exiting, Registry!Callers, CallLabels

(* flush_every and shutdown take flusher_mutex_ when nobody else is        *)
(* destroying a flusher, and put the replaced one in their own hands.      *)
LEMMA ReplaceIInv ==
  ASSUME Apart, RegistryIInv, NEW t \in RegistryThreads, Registry!flush_every(t) \/ Registry!shutdown(t)
  PROVE  RegistryIInv'
<1> USE DEF RegistryIInv, RegistryTyped, Registry!Goto
<1>1. /\ registry_pc[t] \in {"flush_every", "shutdown"}
      /\ flusher_mutex_ = None /\ flusher_mutex_' = t
      /\ victim' = [victim EXCEPT ![t] = periodic_flusher_]
      /\ \E label \in {"destroy", "destroy_shutdown"} : registry_pc' = [registry_pc EXCEPT ![t] = label]
      /\ UNCHANGED destroyed
      BY DEF Registry!flush_every, Registry!shutdown, Registry!LockFlusher, Registry!Reset
<1>2. /\ \A w \in Registry!Flushers :
           Registry!Running(w)' => Registry!Running(w) \/ w = periodic_flusher_'
      /\ worker_thread_' \in [Registry!Flushers -> {"none", "wait", "lock_map", "flush", "returned"}]
  <2>1. CASE Registry!shutdown(t)
        BY <2>1 DEF Registry!shutdown, Registry!Running
  <2>2. CASE Registry!flush_every(t)
    <3>1. PICK positive \in BOOLEAN :
            worker_thread_' = [worker_thread_ EXCEPT ![made'] = IF positive THEN "wait" ELSE "none"]
          BY <2>2 DEF Registry!flush_every
    <3>2. periodic_flusher_' = made'
          BY <2>2 DEF Registry!flush_every, Registry!Reset
    <3>3. \A w \in Registry!Flushers : w # made' => worker_thread_'[w] = worker_thread_[w]
          BY <3>1
    <3> QED
        BY <3>1, <3>2, <3>3 DEF Registry!Running
  <2> QED
      BY <2>1, <2>2
<1>3. t # Main /\ t \in Registry!Callers /\ Main \in Registry!Callers /\ None \notin Registry!Callers
      BY DEF Apart, Registry!Callers
<1>4. \A u \in RegistryThreads :
        registry_pc[u] \notin {"destroy", "destroy_shutdown", "unlock", "unlock_shutdown"}
      BY <1>1, <1>3 DEF Holder, Registry!Callers
<1>5. registry_pc[Main] = "idle" /\ registry_pc'[Main] = "idle"
      BY <1>1, <1>3 DEF Exiting
<1>6. Holder'
      BY <1>1, <1>3, <1>4 DEF Holder, Registry!Callers
<1>7. Owned'
  <2>1. ASSUME NEW w \in Registry!Flushers, Registry!Running(w), w # periodic_flusher_ PROVE FALSE
        BY <1>4, <1>5, <2>1 DEF Owned, Registry!Callers, CallLabels
  <2>2. registry_pc'[t] \in {"destroy", "destroy_shutdown"} /\ victim'[t] = periodic_flusher_
        BY <1>1, <1>3
  <2> QED
      BY <1>2, <1>3, <2>1, <2>2 DEF Owned
<1> QED
    BY <1>1, <1>2, <1>3, <1>5, <1>6, <1>7 DEF Exiting, CallLabels, Registry!Callers

(* A flusher's owner lets go of it only after the join.                    *)
LEMMA DestroyIInv ==
  ASSUME Apart, RegistryIInv, NEW t \in Registry!Callers, Registry!DestroyStep(t)
  PROVE  RegistryIInv'
<1> USE DEF RegistryIInv, RegistryTyped, Registry!Goto
<1>1. /\ registry_pc[t] \in {"destroy", "destroy_shutdown", "destroy_exit"}
      /\ UNCHANGED <<flusher_mutex_, periodic_flusher_, worker_thread_, destroyed>>
      BY DestroyingLabels DEF Registry!DestroyStep
<1>2. CASE UNCHANGED <<victim, registry_pc>>
      BY <1>1, <1>2 DEF Holder, Owned, Exiting, Registry!Running
<1>3. CASE /\ victim[t] # 0 => worker_thread_[victim[t]] \in {"none", "returned"}
           /\ victim' = [victim EXCEPT ![t] = 0]
           /\ registry_pc' = [registry_pc EXCEPT ![t] = Registry!Destroying[registry_pc[t]]]
  <2>1. t = Main <=> registry_pc[t] = "destroy_exit"
        BY <1>1 DEF Registry!Callers, CallLabels, MainLabels, Apart
  <2>2. /\ t = Main => registry_pc'[t] = "gone"
        /\ t # Main => registry_pc'[t] \in {"unlock", "unlock_shutdown"}
        BY <1>1, <1>3, <2>1, DestroyingLabels
  <2>3. RegistryTyped'
        BY <1>1, <1>3, <2>2 DEF CallLabels, MainLabels, Registry!Callers
  <2>4. Holder'
        BY <1>1, <1>3, <2>1, <2>2 DEF Holder, Registry!Callers, Apart
  <2>5. Owned'
    <3>1. \A w \in Registry!Flushers : w # 0
          BY DEF Registry!Flushers
    <3>2. \A w \in Registry!Flushers : Registry!Running(w) => victim[t] # w
          BY <1>3, <3>1 DEF Registry!Running
    <3> QED
        BY <1>1, <1>3, <3>2 DEF Owned, Registry!Running
  <2>6. Exiting'
        BY <1>1, <1>3, <2>1, <2>2 DEF Exiting, Registry!Callers, Apart
  <2> QED
      BY <2>3, <2>4, <2>5, <2>6
<1> QED
    BY <1>2, <1>3 DEF Registry!DestroyStep, Registry!Destroy

(* The destructor takes the registry's flusher when every call is over.    *)
LEMMA ExitIInv ==
  ASSUME Apart, RegistryIInv, Registry!Exit
  PROVE  RegistryIInv'
<1> USE DEF RegistryIInv, RegistryTyped, Registry!Goto
<1>1. /\ registry_pc[Main] = "idle" /\ \A t \in RegistryThreads : registry_pc[t] = "idle"
      /\ periodic_flusher_' = 0 /\ victim' = [victim EXCEPT ![Main] = periodic_flusher_]
      /\ registry_pc' = [registry_pc EXCEPT ![Main] = "destroy_exit"]
      /\ UNCHANGED <<flusher_mutex_, worker_thread_, destroyed>>
      BY DEF Registry!Exit, Registry!Reset
<1>2. Main \in Registry!Callers /\ \A t \in RegistryThreads : t \in Registry!Callers /\ t # Main
      BY DEF Registry!Callers, Apart
<1>3. Owned'
  <2>1. \A w \in Registry!Flushers : Registry!Running(w) => w = periodic_flusher_
        BY <1>1 DEF Owned, Registry!Callers
  <2>2. registry_pc'[Main] = "destroy_exit" /\ victim'[Main] = periodic_flusher_
        BY <1>1, <1>2
  <2> QED
      BY <1>1, <1>2, <2>1, <2>2 DEF Owned, Registry!Running
<1> QED
    BY <1>1, <1>2, <1>3 DEF Holder, Exiting, CallLabels, MainLabels

(* The invariant is inductive.                                             *)
LEMMA RegistryStep ==
  ASSUME Apart
  PROVE  RegistryIInv /\ [Registry!Next]_(Registry!vars) => RegistryIInv'
<1> SUFFICES ASSUME RegistryIInv, [Registry!Next]_(Registry!vars) PROVE RegistryIInv'
    OBVIOUS
<1>1. CASE UNCHANGED Registry!vars \/ Registry!Drain \/ Registry!Done
  <2>1. UNCHANGED <<registry_pc, victim, flusher_mutex_, periodic_flusher_, worker_thread_, destroyed>>
        BY <1>1 DEF Registry!vars, Registry!Drain, Registry!Done, Registry!worker
  <2> QED
      BY <2>1 DEF RegistryIInv, RegistryTyped, Holder, Owned, Registry!Running, Exiting
<1>2. CASE Registry!Gone
  <2>1. /\ registry_pc[Main] = "gone"
        /\ UNCHANGED <<registry_pc, victim, flusher_mutex_, periodic_flusher_, worker_thread_>>
        BY <1>2 DEF Registry!Gone, Registry!worker
  <2> QED
      BY <2>1 DEF RegistryIInv, RegistryTyped, Holder, Owned, Registry!Running, Exiting
<1>3. ASSUME NEW t \in Registry!Callers, Registry!Continue(t) PROVE RegistryIInv'
  <2>1. CASE Registry!DestroyStep(t) BY <2>1, DestroyIInv
  <2>2. CASE ~Registry!DestroyStep(t)
    <3>1. t \in RegistryThreads
      <4>1. registry_pc[t] \notin {"idle", "gone", "destroy_exit"}
        <5>1. registry_pc[t] \notin {"idle", "gone"}
              BY <1>3, DestroyingLabels
                 DEF Registry!Continue, Registry!UpdateMap, Registry!FlushStep,
                     Registry!flush_every, Registry!shutdown, Registry!DestroyStep,
                     Registry!UnlockFlusher,
                     Registry!ShutdownStep
        <5>2. registry_pc[t] # "destroy_exit"
              BY <1>3, <2>2
                 DEF Registry!Continue, Registry!UpdateMap, Registry!FlushStep,
                     Registry!flush_every, Registry!shutdown, Registry!UnlockFlusher,
                     Registry!ShutdownStep
        <5> QED BY <5>1, <5>2
      <4> QED BY <4>1 DEF RegistryIInv, RegistryTyped, MainLabels, Registry!Callers
    <3> QED
        BY <1>3, <2>2, <3>1, CallStepIInv, ReplaceIInv DEF Registry!Continue
  <2> QED BY <2>1, <2>2
<1> QED
    BY <1>1, <1>2, <1>3, CallStepIInv, FlusherStepIInv, ExitIInv DEF Registry!Next

(* flush_every and shutdown return, and the registry's members go, only    *)
(* when the thread of the flusher they replace or own has ended: nobody    *)
(* else's callback runs while flusher_mutex_ is free, and none runs once   *)
(* the registry is destroyed.                                              *)
THEOREM NoFlusherOutlivesItsOwner == Spec => []FlusherIsOwned
<1>1. Apart BY ServicesAssumption DEF Apart, Registry!Callers
<1>2. RegistryIInv => Registry!FlusherIsOwned
  <2> SUFFICES ASSUME RegistryIInv PROVE Registry!FlusherIsOwned
      OBVIOUS
  <2>1. Registry!OnlyCurrentFlusherRuns
    <3> SUFFICES ASSUME flusher_mutex_ = None, NEW w \in Registry!Flushers, Registry!Running(w),
                        w # periodic_flusher_
                 PROVE  w = victim[Main]
        BY DEF Registry!OnlyCurrentFlusherRuns
    <3>1. PICK t \in Registry!Callers :
            registry_pc[t] \in {"destroy", "destroy_shutdown", "destroy_exit"} /\ victim[t] = w
          BY DEF RegistryIInv, Owned
    <3>2. t = Main
          BY <1>1, <3>1 DEF RegistryIInv, Holder, RegistryTyped, CallLabels, Registry!Callers, Apart
    <3> QED
        BY <3>1, <3>2
  <2>2. Registry!CallbackFindsRegistry
    <3> SUFFICES ASSUME destroyed, NEW w \in Registry!Flushers, Registry!Running(w) PROVE FALSE
        BY DEF Registry!CallbackFindsRegistry
    <3>1. /\ registry_pc[Main] = "gone" /\ periodic_flusher_ = 0
          /\ \A t \in RegistryThreads : registry_pc[t] = "idle"
          BY DEF RegistryIInv, Exiting
    <3> QED
        BY <3>1 DEF RegistryIInv, Owned, Registry!Flushers, Registry!Callers
  <2> QED
      BY <2>1, <2>2 DEF Registry!FlusherIsOwned
<1>3. Init => RegistryIInv
      BY <1>1, RegistryInit DEF Init
<1>4. RegistryIInv /\ [Next]_vars => RegistryIInv'
  <2> SUFFICES ASSUME RegistryIInv, [Next]_vars PROVE RegistryIInv'
      OBVIOUS
  <2>1. [Registry!Next]_(Registry!vars)
        BY DEF Next, vars, registry, Registry!vars
  <2> QED
      BY <1>1, <2>1, RegistryStep
<1>5. RegistryIInv => FlusherIsOwned
      BY <1>2 DEF FlusherIsOwned
<1> QED
    BY <1>3, <1>4, <1>5, PTL DEF Spec

-----------------------------------------------------------------------------
(* Finitely many threads use the object, and one of them is the leader.    *)
ClientsSane == IsFiniteSet(Users) /\ Leader \in Users /\ None \notin Users

ClientLabels == {"call", "await", "unlock", "returned", "deleted"}

ClientsTyped ==
  pc \in [Users -> ClientLabels] /\ result \in [Users -> BOOLEAN] /\ notified_yet_ \in BOOLEAN

(* Who has still to let go of the mutex has it.                            *)
Locked == \A t \in Users : pc[t] = "unlock" => lock_ = t

At(labels) == {t \in Users : pc[t] \in labels}

(* The counts are of the threads that have not arrived, and of those that  *)
(* have not gone.                                                          *)
Counted ==
  /\ kind = "barrier" => /\ num_to_block_ = Cardinality(At({"call"}))
                         /\ num_to_exit_ = Cardinality(At({"call", "await"}))
  /\ kind = "blocking_counter" => num_to_block_ = Cardinality(At({"call"}) \ {Leader})

(* Only the leader waits for a counter or a notification.                  *)
Waiting == kind # "barrier" => \A t \in Users : pc[t] = "await" => t = Leader

(* Who is told that it may delete a barrier or a counter is told so when   *)
(* the others have returned; of a notification, when it has been notified. *)
Told ==
  \A t \in Users : result[t] =>
    /\ pc[t] \in {"unlock", "returned", "deleted"}
    /\ kind # "notification" => \A u \in Users \ {t} : pc[u] = "returned" /\ ~result[u]
    /\ kind = "notification" => t = Leader /\ notified_yet_

(* The object is deleted by who was told, with nobody in the mutex.        *)
Deleted ==
  /\ \A t \in Users : pc[t] = "deleted" => result[t]
  /\ deleted => /\ \E t \in Users : pc[t] = "deleted"
                /\ \A t \in Users : pc[t] # "unlock"

ClientsIInv == ClientsTyped /\ Locked /\ Counted /\ Waiting /\ Told /\ Deleted

(* One thread leaving a set of labels makes the count one less; with a     *)
(* count of one it was the last.                                           *)
LEMMA LeavingCounts ==
  ASSUME ClientsSane, NEW S \in SUBSET Users, NEW t \in S
  PROVE  /\ Cardinality(S \ {t}) = Cardinality(S) - 1
         /\ Cardinality(S) - 1 = 0 => S = {t}
<1>1. IsFiniteSet(S) BY FS_Subset DEF ClientsSane
<1>2. Cardinality(S \ {t}) = Cardinality(S) - 1
      BY <1>1, FS_RemoveElement
<1>3. Cardinality(S \ {t}) = 0 => S \ {t} = {}
      BY <1>1, FS_RemoveElement, FS_EmptySet
<1> QED
    BY <1>2, <1>3

(* A count of zero means that there is no such thread.                     *)
LEMMA ZeroIsEmpty ==
  ASSUME ClientsSane, NEW S \in SUBSET Users, Cardinality(S) = 0
  PROVE  S = {}
BY FS_Subset, FS_EmptySet DEF ClientsSane

(* Everybody is about to call at first.                                    *)
LEMMA ClientsInit == ASSUME ClientsSane PROVE Clients!Init => ClientsIInv
<1> SUFFICES ASSUME Clients!Init PROVE ClientsIInv
    OBVIOUS
<1>1. At({"call"}) = Users /\ At({"call", "await"}) = Users
      BY DEF Clients!Init, At
<1>2. Counted
  <2>1. kind = "blocking_counter" => At({"call"}) \ {Leader} = Users \ {Leader}
        BY <1>1
  <2> QED
      BY <1>1, <2>1, OneCardinality DEF Clients!Init, Counted
<1> QED
    BY <1>2 DEF Clients!Init, ClientsIInv, ClientsTyped, ClientLabels, Locked, Waiting, Told, Deleted

(* The steps of a barrier: one that arrives, and one that has been let     *)
(* through, of which the last finds all the others gone.                   *)
LEMMA BarrierIInv ==
  ASSUME ClientsSane, ClientsIInv, NEW t \in Users, Clients!block(t) \/ Clients!BlockRest(t)
  PROVE  ClientsIInv'
<1> USE DEF ClientsIInv, ClientsTyped, Clients!Goto, Clients!Return, Clients!Lock
<1>1. CASE Clients!block(t)
  <2>1. /\ kind = "barrier" /\ pc[t] = "call" /\ pc' = [pc EXCEPT ![t] = "await"]
        /\ num_to_block_' = num_to_block_ - 1
        /\ UNCHANGED <<kind, lock_, num_to_exit_, notified_yet_, result, deleted>>
        BY <1>1 DEF Clients!block
  <2>2. At({"call"})' = At({"call"}) \ {t} /\ At({"call", "await"})' = At({"call", "await"})
        BY <2>1 DEF At
  <2>3. t \in At({"call"}) /\ At({"call"}) \in SUBSET Users
        BY <2>1 DEF At
  <2>4. Counted'
        BY <2>1, <2>2, <2>3, LeavingCounts DEF Counted
  <2> QED
      BY <2>1, <2>4 DEF ClientLabels, Locked, Waiting, Told, Deleted
<1>2. CASE Clients!BlockRest(t)
  <2>1. /\ kind = "barrier" /\ pc[t] = "await" /\ lock_ = None /\ lock_' = t
        /\ num_to_exit_' = num_to_exit_ - 1
        /\ result' = [result EXCEPT ![t] = (num_to_exit_' = 0)]
        /\ pc' = [pc EXCEPT ![t] = "unlock"]
        /\ UNCHANGED <<kind, num_to_block_, notified_yet_, deleted>>
        BY <1>2 DEF Clients!BlockRest
  <2>2. At({"call"})' = At({"call"}) /\ At({"call", "await"})' = At({"call", "await"}) \ {t}
        BY <2>1 DEF At
  <2>3. t \in At({"call", "await"}) /\ At({"call", "await"}) \in SUBSET Users
        BY <2>1 DEF At
  <2>4. Counted'
        BY <2>1, <2>2, <2>3, LeavingCounts DEF Counted
  <2>5. \A u \in Users : pc[u] # "unlock"
        BY <2>1 DEF Locked, ClientsSane
  <2>6. \A u \in Users : ~result[u] /\ pc[u] # "deleted"
        BY <2>1 DEF Told, Deleted
  <2>7. num_to_exit_' = 0 => \A u \in Users \ {t} : pc[u] = "returned"
    <3>1. num_to_exit_' = 0 => At({"call", "await"}) = {t}
          BY <2>1, <2>3, LeavingCounts DEF Counted
    <3> QED
        BY <2>5, <2>6, <3>1 DEF At, ClientLabels
  <2>8. ClientsTyped' /\ Locked' /\ Waiting'
        BY <2>1, <2>5 DEF ClientLabels, Locked, Waiting
  <2>9. Told' /\ Deleted'
        BY <2>1, <2>6, <2>7 DEF Told, Deleted
  <2> QED
      BY <2>4, <2>8, <2>9
<1> QED
    BY <1>1, <1>2

(* The steps of a counter: one that counts down, and the leader's, who is  *)
(* let through when the others have let go of the mutex.                   *)
LEMMA CounterIInv ==
  ASSUME ClientsSane, ClientsIInv, NEW t \in Users,
         Clients!decrement_count(t) \/ Clients!wait(t) \/ Clients!WaitRest(t)
  PROVE  ClientsIInv'
<1> USE DEF ClientsIInv, ClientsTyped, Clients!Goto, Clients!Return, Clients!Lock
<1> DEFINE Coming == At({"call"}) \ {Leader}
<1>1. CASE Clients!decrement_count(t)
  <2>1. /\ kind = "blocking_counter" /\ t # Leader /\ pc[t] = "call" /\ lock_ = None /\ lock_' = t
        /\ num_to_block_' = num_to_block_ - 1 /\ pc' = [pc EXCEPT ![t] = "unlock"]
        /\ UNCHANGED <<kind, notified_yet_, result, deleted>>
        BY <1>1 DEF Clients!decrement_count
  <2>2. Coming' = Coming \ {t} /\ t \in Coming /\ Coming \in SUBSET Users
        BY <2>1 DEF At
  <2>3. Counted'
        BY <2>1, <2>2, LeavingCounts DEF Counted
  <2>4. \A u \in Users : pc[u] # "unlock"
        BY <2>1 DEF Locked, ClientsSane
  <2>5. \A u \in Users : ~result[u] /\ pc[u] # "deleted"
        BY <2>1 DEF Told, Deleted
  <2> QED
      BY <2>1, <2>3, <2>4, <2>5 DEF ClientLabels, Locked, Waiting, Told, Deleted
<1>2. CASE Clients!wait(t)
  <2>1. /\ kind = "blocking_counter" /\ t = Leader /\ pc[t] = "call"
        /\ pc' = [pc EXCEPT ![t] = "await"]
        /\ UNCHANGED <<kind, lock_, num_to_block_, notified_yet_, result, deleted>>
        BY <1>2 DEF Clients!wait
  <2>2. Coming' = Coming
        BY <2>1 DEF At
  <2> QED
      BY <2>1, <2>2 DEF ClientLabels, Locked, Counted, Waiting, Told, Deleted
<1>3. CASE Clients!WaitRest(t)
  <2>1. /\ kind = "blocking_counter" /\ pc[t] = "await" /\ lock_ = None /\ lock_' = t
        /\ num_to_block_ = 0
        /\ result' = [result EXCEPT ![t] = TRUE] /\ pc' = [pc EXCEPT ![t] = "unlock"]
        /\ UNCHANGED <<kind, num_to_block_, notified_yet_, deleted>>
        BY <1>3 DEF Clients!WaitRest
  <2>2. Coming' = Coming /\ Coming \in SUBSET Users
        BY <2>1 DEF At
  <2>3. t = Leader
        BY <2>1 DEF Waiting
  <2>4. Coming = {}
        BY <2>1, <2>2, ZeroIsEmpty DEF Counted
  <2>5. \A u \in Users : pc[u] # "unlock"
        BY <2>1 DEF Locked, ClientsSane
  <2>6. \A u \in Users : ~result[u] /\ pc[u] # "deleted"
        BY <2>1 DEF Told, Deleted
  <2>7. \A u \in Users \ {t} : pc[u] = "returned"
        BY <2>1, <2>3, <2>4, <2>5, <2>6 DEF At, ClientLabels, Waiting
  <2> QED
      BY <2>1, <2>2, <2>3, <2>5, <2>6, <2>7 DEF ClientLabels, Locked, Counted, Waiting, Told,
                                                Deleted
<1> QED
    BY <1>1, <1>2, <1>3

(* The steps of a notification; nobody notifies it once it is deleted,     *)
(* because it has been notified before.                                    *)
LEMMA NotificationIInv ==
  ASSUME ClientsSane, ClientsIInv, NEW t \in Users,
         \/ Clients!Notify(t) \/ Clients!wait_for_notification(t)
         \/ Clients!LockWhen(t) \/ Clients!WaitAgain(t)
  PROVE  ClientsIInv'
<1> USE DEF ClientsIInv, ClientsTyped, Clients!Goto, Clients!Return, Clients!Lock
<1>0. kind = "notification" /\ kind' = kind /\ deleted' = deleted
      BY DEF Clients!Notify, Clients!wait_for_notification, Clients!LockWhen, Clients!WaitAgain
<1>1. deleted => notified_yet_ /\ pc[Leader] = "deleted"
      BY <1>0 DEF Deleted, Told
<1>2. CASE Clients!Notify(t)
  <2>1. /\ t # Leader /\ ~notified_yet_ /\ pc[t] = "call" /\ lock_ = None /\ lock_' = t
        /\ notified_yet_' = TRUE /\ pc' = [pc EXCEPT ![t] = "unlock"] /\ UNCHANGED result
        BY <1>2 DEF Clients!Notify
  <2>2. \A u \in Users : pc[u] # "unlock"
        BY <2>1 DEF Locked, ClientsSane
  <2> QED
      BY <1>0, <1>1, <2>1, <2>2 DEF ClientLabels, Locked, Counted, Waiting, Told, Deleted
<1>3. CASE Clients!wait_for_notification(t)
  <2>1. /\ t = Leader /\ pc[t] = "call" /\ UNCHANGED <<lock_, notified_yet_>>
        /\ \/ /\ notified_yet_ /\ result' = [result EXCEPT ![t] = TRUE]
              /\ pc' = [pc EXCEPT ![t] = "returned"]
           \/ pc' = [pc EXCEPT ![t] = "await"] /\ UNCHANGED result
        BY <1>3 DEF Clients!wait_for_notification
  <2> QED
      BY <1>0, <1>1, <2>1 DEF ClientLabels, Locked, Counted, Waiting, Told, Deleted
<1>4. CASE Clients!LockWhen(t)
  <2>1. /\ pc[t] = "await" /\ lock_ = None /\ lock_' = t /\ UNCHANGED notified_yet_
        /\ result' = [result EXCEPT ![t] = notified_yet_] /\ pc' = [pc EXCEPT ![t] = "unlock"]
        BY <1>4 DEF Clients!LockWhen
  <2>2. \A u \in Users : pc[u] # "unlock"
        BY <2>1 DEF Locked, ClientsSane
  <2>3. t = Leader /\ ~deleted /\ ~result[t]
        BY <1>0, <1>1, <2>1 DEF Waiting, Told
  <2> QED
      BY <1>0, <2>1, <2>2, <2>3 DEF ClientLabels, Locked, Counted, Waiting, Told, Deleted
<1>5. CASE Clients!WaitAgain(t)
  <2>1. /\ t = Leader /\ pc[t] = "returned" /\ ~result[t] /\ pc' = [pc EXCEPT ![t] = "call"]
        /\ UNCHANGED <<lock_, notified_yet_, result>>
        BY <1>5 DEF Clients!WaitAgain
  <2> QED
      BY <1>0, <1>1, <2>1 DEF ClientLabels, Locked, Counted, Waiting, Told, Deleted
<1> QED
    BY <1>2, <1>3, <1>4, <1>5

(* The end of a call, and the deletion by who was told that it may: it and *)
(* the others have let go of the mutex, as ~notification makes sure.       *)
LEMMA ReturnIInv ==
  ASSUME ClientsSane, ClientsIInv, NEW t \in Users, Clients!Unlock(t) \/ Clients!Delete(t)
  PROVE  ClientsIInv'
<1> USE DEF ClientsIInv, ClientsTyped, Clients!Goto
<1>1. /\ UNCHANGED <<kind, num_to_block_, num_to_exit_, notified_yet_, result>>
      /\ At({"call"})' = At({"call"}) /\ At({"call", "await"})' = At({"call", "await"})
      BY DEF Clients!Unlock, Clients!Delete, At
<1>2. Counted'
      BY <1>1 DEF Counted
<1>3. CASE Clients!Unlock(t)
  <2>1. /\ pc[t] = "unlock" /\ lock_' = None /\ deleted' = deleted
        /\ pc' = [pc EXCEPT ![t] = "returned"]
        BY <1>3 DEF Clients!Unlock
  <2>2. \A u \in Users \ {t} : pc[u] # "unlock"
        BY <2>1 DEF Locked
  <2> QED
      BY <1>1, <1>2, <2>1, <2>2 DEF ClientLabels, Locked, Waiting, Told, Deleted
<1>4. CASE Clients!Delete(t)
  <2>1. /\ pc[t] = "returned" /\ result[t] /\ (kind = "notification" => lock_ = None)
        /\ lock_' = lock_ /\ pc' = [pc EXCEPT ![t] = "deleted"]
        BY <1>4 DEF Clients!Delete
  <2>2. \A u \in Users : pc[u] # "unlock"
        BY <2>1 DEF Locked, Told, ClientsSane
  <2>3. kind # "notification" => \A u \in Users \ {t} : ~result[u]
        BY <2>1 DEF Told
  <2> QED
      BY <1>1, <1>2, <2>1, <2>2, <2>3 DEF ClientLabels, Locked, Waiting, Told, Deleted
<1> QED
    BY <1>3, <1>4

(* The invariant is inductive.                                             *)
LEMMA ClientsStep ==
  ASSUME ClientsSane
  PROVE  ClientsIInv /\ [Clients!Next]_(Clients!vars) => ClientsIInv'
<1> SUFFICES ASSUME ClientsIInv, [Clients!Next]_(Clients!vars) PROVE ClientsIInv'
    OBVIOUS
<1>1. CASE UNCHANGED Clients!vars \/ Clients!Done
  <2>1. UNCHANGED Clients!vars
        BY <1>1 DEF Clients!Done
  <2> QED
      BY <2>1 DEF Clients!vars, ClientsIInv, ClientsTyped, Locked, At, Counted, Waiting, Told,
                  Deleted
<1> QED
    BY <1>1, BarrierIInv, CounterIInv, NotificationIInv, ReturnIInv DEF Clients!Next

(* Who is told that it may delete the object is the last to use it: the    *)
(* thread that leaves a barrier last, the one that waits for a counter, or *)
(* the one that has seen the notification, after ~notification has waited  *)
(* for the mutex.                                                          *)
THEOREM WhoDeletesIsLast == Spec => []NoUseAfterDelete
<1>1. ClientsSane BY ServicesAssumption DEF ClientsSane
<1>2. ClientsIInv => Clients!NoUseAfterDelete
  <2> SUFFICES ASSUME ClientsIInv, deleted, NEW t \in Users
               PROVE  /\ pc[t] \notin {"await", "unlock"}
                      /\ pc[t] = "returned" => ~result[t]
                      /\ kind # "notification" => pc[t] # "call"
      BY DEF Clients!NoUseAfterDelete
  <2>1. PICK u \in Users : pc[u] = "deleted" /\ result[u]
        BY DEF ClientsIInv, Deleted
  <2>2. pc[t] # "unlock"
        BY DEF ClientsIInv, Deleted
  <2>3. CASE kind = "notification"
        BY <2>1, <2>2, <2>3 DEF ClientsIInv, Waiting, Told
  <2>4. CASE kind # "notification"
        BY <2>1, <2>4 DEF ClientsIInv, Told
  <2> QED
      BY <2>3, <2>4
<1>3. Init => (which = "clients" => ClientsIInv)
      BY <1>1, ClientsInit DEF Init
<1>4. (which = "clients" => ClientsIInv) /\ [Next]_vars => (which = "clients" => ClientsIInv)'
  <2> SUFFICES ASSUME which = "clients", ClientsIInv, [Next]_vars PROVE ClientsIInv'
      BY DEF Next, vars
  <2>1. [Clients!Next]_(Clients!vars)
        BY DEF Next, vars, clients, Clients!vars
  <2> QED
      BY <1>1, <2>1, ClientsStep
<1>5. (which = "clients" => ClientsIInv) => NoUseAfterDelete
      BY <1>2 DEF NoUseAfterDelete
<1> QED
    BY <1>3, <1>4, <1>5, PTL DEF Spec

-----------------------------------------------------------------------------
(* Finitely many threads, none of which is a poster.                       *)
SemaphoreSane == IsFiniteSet(Sleepers) /\ Sleepers \cap Posters = {}

SleeperLabels == {"ended", "init", "run", "block", "wait", "rewait", "kernel", "asleep",
                 "timedout", "undefined"}
PosterLabels == {"idle", "avail", "post", "poke", "undefined"}

SemaphoreTyped ==
  /\ id \in [Sleepers -> Semaphore!Identities \cup {0}]
  /\ freelist \in Seq(Semaphore!Identities)
  /\ waiters \subseteq Semaphore!Identities
  /\ state \in [Semaphore!Identities -> {"kQueued", "kAvailable"}]
  /\ count \in [Semaphore!Identities -> Nat]
  /\ sem_ \in [Semaphore!Identities -> Nat]
  /\ DOMAIN pc = Sleepers \cup Posters
  /\ \A t \in Sleepers : pc[t] \in SleeperLabels
  /\ \A p \in Posters : pc[p] \in PosterLabels
  /\ target \in [Posters -> Semaphore!Identities \cup {0}]
  /\ \A p \in Posters : pc[p] \in {"avail", "post", "poke"} => target[p] \in Semaphore!Identities

(* The entries of a list, and that none comes twice.                       *)
Entries(s)  == {s[k] : k \in 1..Len(s)}
Distinct(s) == \A k, l \in 1..Len(s) : s[k] = s[l] => k = l

(* A thread that runs has an identity, which nobody else has and which is  *)
(* not on the free list.                                                   *)
OwnIdentities ==
  /\ \A t \in Sleepers : pc[t] = "ended" => id[t] = 0
  /\ \A t \in Sleepers : pc[t] \notin {"ended", "undefined"} => id[t] # 0
  /\ \A t, u \in Sleepers : id[t] = id[u] /\ id[t] # 0 => t = u
  /\ \A t \in Sleepers : id[t] \notin Entries(freelist)
  /\ Distinct(freelist)

(* Who waits for a POSIX semaphore does so in the kernel.                  *)
InKernel == mode = "sem" => \A t \in Sleepers : pc[t] # "asleep"

(* A sleeper with a wakeup in its count has a poster on the way that has   *)
(* still to poke it.                                                       *)
SleepersArePoked ==
  \A t \in Sleepers : Semaphore!Asleep(t) /\ count[id[t]] > 0 =>
    \E p \in Posters : target[p] = id[t] /\ pc[p] = "poke"

(* A thread that has decided to wait when it was queued and has been made  *)
(* available since has its wakeup in the count, or coming.                 *)
WakeupsCome ==
  \A t \in Sleepers :
    pc[t] \in {"wait", "rewait", "kernel", "asleep"} /\ state[id[t]] = "kAvailable" =>
      \/ count[id[t]] > 0
      \/ \E p \in Posters : target[p] = id[t] /\ pc[p] = "post"

SemaphoreIInv == SemaphoreTyped /\ OwnIdentities /\ InKernel /\ SleepersArePoked /\ WakeupsCome

-----------------------------------------------------------------------------
(* No thread has an identity at first.                                     *)
LEMMA SemaphoreInit == ASSUME SemaphoreSane PROVE Semaphore!Init => SemaphoreIInv
<1> SUFFICES ASSUME Semaphore!Init PROVE SemaphoreIInv
    OBVIOUS
<1>1. \A t \in Sleepers : pc[t] = "ended" /\ id[t] = 0
      BY DEF Semaphore!Init
<1>2. \A p \in Posters : pc[p] = "idle"
      BY DEF Semaphore!Init, SemaphoreSane
<1>3. freelist = <<>> /\ Entries(freelist) = {} /\ Distinct(freelist)
      BY DEF Semaphore!Init, Entries, Distinct
<1> QED
    BY <1>1, <1>2, <1>3
       DEF Semaphore!Init, SemaphoreIInv, SemaphoreTyped, SleeperLabels, PosterLabels,
           OwnIdentities, InKernel,
           SleepersArePoked, WakeupsCome, Semaphore!Asleep

(* There are as many identities as threads: a thread that has none finds a *)
(* new one when the free list is empty.                                    *)
LEMMA NewIdentityExists ==
  ASSUME SemaphoreSane, NEW t \in Sleepers, id[t] = 0, freelist = <<>>
  PROVE  \E i \in Semaphore!Identities : i \notin Semaphore!InUse
<1> DEFINE n == Cardinality(Sleepers)
           Others == Sleepers \ {t}
           Taken == {id[u] : u \in Others}
<1>1. /\ n \in Nat /\ IsFiniteSet(Others) /\ Cardinality(Others) = n - 1
      BY FS_CardinalityType, FS_RemoveElement DEF SemaphoreSane
<1>2. IsFiniteSet(Taken) /\ Cardinality(Taken) <= n - 1
  <2>1. [u \in Others |-> id[u]] \in Surjection(Others, Taken)
        BY DEF Surjection
  <2> QED
      BY <1>1, <2>1, FS_Surjection
<1>3. Cardinality(1..n) = n
      BY <1>1, FS_Interval
<1>4. ~(1..n \subseteq Taken)
  <2>1. Cardinality(Taken) \in Nat
        BY <1>2, FS_CardinalityType
  <2>2. 1..n \subseteq Taken => Cardinality(1..n) <= Cardinality(Taken)
        BY <1>2, FS_Subset
  <2> QED
      BY <1>1, <1>2, <1>3, <2>1, <2>2
<1>5. PICK i \in 1..n : i \notin Taken
      BY <1>4
<1>6. i # 0 /\ Semaphore!InUse = Taken \cup {0}
      BY DEF Semaphore!InUse
<1>7. i \in Semaphore!Identities
      BY OneCardinality DEF Semaphore!Identities
<1>8. i \notin Semaphore!InUse
      BY <1>5, <1>6
<1> QED
    BY <1>7, <1>8

(* Taking the head off a list whose entries are distinct ...               *)
LEMMA TailOfDistinct ==
  ASSUME NEW S, NEW s \in Seq(S), s # <<>>, Distinct(s)
  PROVE  /\ Head(s) \in Entries(s) /\ Head(s) \in S
         /\ Tail(s) \in Seq(S) /\ Distinct(Tail(s))
         /\ Entries(Tail(s)) \subseteq Entries(s) \ {Head(s)}
<1>1. /\ Len(s) \in Nat /\ Len(s) > 0 /\ Head(s) = s[1] /\ 1 \in 1..Len(s) /\ Head(s) \in S
      OBVIOUS
<1>2. Tail(s) \in Seq(S) /\ Len(Tail(s)) = Len(s) - 1
      OBVIOUS
<1>3. ASSUME NEW k \in 1..Len(Tail(s))
      PROVE  k \in Nat /\ k + 1 \in 1..Len(s) /\ k + 1 # 1 /\ Tail(s)[k] = s[k + 1]
      BY <1>1, <1>2
<1>4. ASSUME NEW k \in 1..Len(Tail(s)) PROVE Tail(s)[k] \in Entries(s) \ {Head(s)}
      BY <1>1, <1>3 DEF Entries, Distinct
<1>5. ASSUME NEW k \in 1..Len(Tail(s)), NEW l \in 1..Len(Tail(s)), Tail(s)[k] = Tail(s)[l]
      PROVE  k = l
  <2>1. k + 1 = l + 1
        BY <1>3, <1>5 DEF Distinct
  <2> QED
      BY <1>3, <2>1
<1>6. Distinct(Tail(s))
      BY <1>5 DEF Distinct
<1>7. Entries(Tail(s)) \subseteq Entries(s) \ {Head(s)}
      BY <1>4 DEF Entries
<1>8. Head(s) \in Entries(s)
      BY <1>1 DEF Entries
<1> QED
    BY <1>1, <1>2, <1>6, <1>7, <1>8

(* ... and putting a new one at its head leaves them distinct.             *)
LEMMA PushOnDistinct ==
  ASSUME NEW S, NEW s \in Seq(S), NEW i \in S, i \notin Entries(s), Distinct(s)
  PROVE  /\ <<i>> \o s \in Seq(S) /\ Distinct(<<i>> \o s)
         /\ Entries(<<i>> \o s) \subseteq Entries(s) \cup {i}
<1> DEFINE r == <<i>> \o s
<1>1. Len(s) \in Nat /\ r \in Seq(S) /\ Len(r) = Len(s) + 1
      OBVIOUS
<1>2. r[1] = i /\ \A k \in 2..Len(s) + 1 : r[k] = s[k - 1]
      OBVIOUS
<1> HIDE DEF r
<1>3. ASSUME NEW k \in 1..Len(r)
      PROVE  \/ k = 1 /\ r[k] = i
             \/ k \in Nat /\ k - 1 \in 1..Len(s) /\ r[k] = s[k - 1] /\ r[k] \in Entries(s)
  <2>1. CASE k = 1
        BY <1>2, <2>1
  <2>2. CASE k # 1
    <3>1. k \in Nat /\ k - 1 \in 1..Len(s) /\ r[k] = s[k - 1]
          BY <1>1, <1>2, <2>2
    <3> QED
        BY <3>1 DEF Entries
  <2> QED
      BY <2>1, <2>2
<1>4. ASSUME NEW k \in 1..Len(r), NEW l \in 1..Len(r), r[k] = r[l]
      PROVE  k = l
  <2>1. CASE k = 1 \/ l = 1
        BY <1>3, <1>4, <2>1
  <2>2. CASE k # 1 /\ l # 1
    <3>1. k - 1 = l - 1
          BY <1>3, <1>4, <2>2 DEF Distinct
    <3> QED
        BY <1>1, <3>1
  <2> QED
      BY <2>1, <2>2
<1>5. Distinct(r)
      BY <1>4 DEF Distinct
<1>6. Entries(r) \subseteq Entries(s) \cup {i}
  <2>1. \A k \in 1..Len(r) : r[k] \in Entries(s) \cup {i}
        BY <1>3
  <2> QED
      BY <2>1 DEF Entries
<1> QED
    BY <1>1, <1>5, <1>6 DEF r

(* The steps that give a thread an identity and take it back.              *)
LEMMA IdentityIInv ==
  ASSUME SemaphoreSane, SemaphoreIInv, NEW t \in Sleepers,
         Semaphore!NewThreadIdentity(t) \/ Semaphore!InitSem(t) \/ Semaphore!ReclaimThreadIdentity(t)
  PROVE  SemaphoreIInv'
<1> USE DEF SemaphoreIInv, SemaphoreTyped, Semaphore!Goto
<1>0. 0 \notin Semaphore!Identities
      BY DEF Semaphore!Identities
<1>1. CASE Semaphore!NewThreadIdentity(t)
  <2>1. PICK i \in Semaphore!Identities :
          /\ id' = [id EXCEPT ![t] = i]
          /\ \A u \in Sleepers : id[u] # i
          /\ freelist' \in Seq(Semaphore!Identities) /\ Distinct(freelist') /\ i \notin Entries(freelist')
          /\ \A u \in Sleepers : id[u] \notin Entries(freelist')
    <3>1. CASE freelist # <<>>
      <4>1. id' = [id EXCEPT ![t] = Head(freelist)] /\ freelist' = Tail(freelist)
            BY <1>1, <3>1 DEF Semaphore!NewThreadIdentity
      <4>2. /\ Head(freelist) \in Entries(freelist) /\ Head(freelist) \in Semaphore!Identities
            /\ Tail(freelist) \in Seq(Semaphore!Identities) /\ Distinct(Tail(freelist))
            /\ Entries(Tail(freelist)) \subseteq Entries(freelist) \ {Head(freelist)}
            BY <3>1, TailOfDistinct DEF OwnIdentities
      <4>3. \A u \in Sleepers : id[u] \notin Entries(freelist)
            BY DEF OwnIdentities
      <4> QED
          BY <4>1, <4>2, <4>3
    <3>2. CASE freelist = <<>>
      <4> DEFINE i == CHOOSE j \in Semaphore!Identities : j \notin Semaphore!InUse
      <4>1. id' = [id EXCEPT ![t] = i] /\ freelist' = freelist
            BY <1>1, <3>2 DEF Semaphore!NewThreadIdentity
      <4>2. id[t] = 0
            BY <1>1 DEF Semaphore!NewThreadIdentity, OwnIdentities
      <4>3. i \in Semaphore!Identities /\ i \notin Semaphore!InUse
            BY <3>2, <4>2, NewIdentityExists
      <4>4. \A u \in Sleepers : id[u] # i
            BY <4>3 DEF Semaphore!InUse
      <4>5. Entries(freelist) = {} /\ Distinct(freelist)
            BY <3>2 DEF Entries, Distinct
      <4> HIDE DEF i
      <4> QED
          BY <4>1, <4>3, <4>4, <4>5
    <3> QED BY <3>1, <3>2
  <2>2. /\ pc[t] = "ended" /\ pc' = [pc EXCEPT ![t] = "init"]
        /\ state' = [state EXCEPT ![i] = "kAvailable"]
        /\ UNCHANGED <<mode, waiters, count, sem_, target>>
        BY <1>1, <2>1 DEF Semaphore!NewThreadIdentity, Semaphore!bounds
  <2>3. /\ \A p \in Posters : pc'[p] = pc[p]
        /\ \A u \in Sleepers \ {t} : pc'[u] = pc[u] /\ id'[u] = id[u] /\ state'[id[u]] = state[id[u]]
        /\ pc'[t] = "init"
        BY <2>1, <2>2 DEF SemaphoreSane
  <2>4. SemaphoreTyped'
        BY <2>1, <2>2, <2>3 DEF SleeperLabels, PosterLabels
  <2>5. OwnIdentities'
        BY <1>0, <2>1, <2>2, <2>3 DEF OwnIdentities
  <2>6. SleepersArePoked'
        BY <2>2, <2>3 DEF SleepersArePoked, Semaphore!Asleep
  <2>7. InKernel' /\ WakeupsCome'
        BY <2>2, <2>3 DEF InKernel, WakeupsCome
  <2> QED
      BY <2>4, <2>5, <2>6, <2>7
<1>2. CASE Semaphore!InitSem(t)
  <2>1. /\ pc[t] = "init" /\ pc' = [pc EXCEPT ![t] = "run"]
        /\ count' = [count EXCEPT ![id[t]] = 0] /\ sem_' = [sem_ EXCEPT ![id[t]] = 0]
        /\ UNCHANGED <<mode, id, freelist, waiters, state, target>>
        BY <1>2 DEF Semaphore!InitSem, Semaphore!bounds
  <2>2. id[t] \in Semaphore!Identities
        BY <2>1 DEF OwnIdentities
  <2>3. /\ \A p \in Posters : pc'[p] = pc[p]
        /\ \A u \in Sleepers \ {t} :
             /\ pc'[u] = pc[u] /\ count'[id[u]] = count[id[u]] /\ sem_'[id[u]] = sem_[id[u]]
        /\ pc'[t] = "run"
        BY <1>0, <2>1, <2>2 DEF SemaphoreSane, OwnIdentities
  <2>4. SemaphoreTyped'
        BY <2>1, <2>2, <2>3 DEF SleeperLabels, PosterLabels
  <2>5. OwnIdentities'
        BY <2>1, <2>3 DEF OwnIdentities
  <2>6. SleepersArePoked'
        BY <2>1, <2>3 DEF SleepersArePoked, Semaphore!Asleep
  <2>7. InKernel' /\ WakeupsCome'
        BY <2>1, <2>3 DEF InKernel, WakeupsCome
  <2> QED
      BY <2>4, <2>5, <2>6, <2>7
<1>3. CASE Semaphore!ReclaimThreadIdentity(t)
  <2>1. /\ pc[t] = "run" /\ pc' = [pc EXCEPT ![t] = "ended"]
        /\ id' = [id EXCEPT ![t] = 0] /\ freelist' = <<id[t]>> \o freelist
        /\ UNCHANGED <<mode, waiters, state, count, sem_, target>>
        BY <1>3 DEF Semaphore!ReclaimThreadIdentity, Semaphore!bounds
  <2>2. id[t] \in Semaphore!Identities
        BY <2>1 DEF OwnIdentities
  <2>3. /\ \A p \in Posters : pc'[p] = pc[p]
        /\ \A u \in Sleepers \ {t} : pc'[u] = pc[u] /\ id'[u] = id[u]
        /\ pc'[t] = "ended" /\ id'[t] = 0
        BY <2>1 DEF SemaphoreSane
  <2>4. /\ freelist' \in Seq(Semaphore!Identities) /\ Distinct(freelist')
        /\ Entries(freelist') \subseteq Entries(freelist) \cup {id[t]}
        BY <2>1, <2>2, PushOnDistinct DEF OwnIdentities
  <2>5. SemaphoreTyped'
        BY <2>1, <2>3, <2>4 DEF SleeperLabels, PosterLabels
  <2>6. OwnIdentities'
    <3>1. 0 \notin Entries(freelist)
          BY <1>0 DEF Entries
    <3>2. ASSUME NEW u \in Sleepers PROVE id'[u] # id[t] /\ id'[u] \notin Entries(freelist)
      <4>1. CASE u = t
            BY <1>0, <2>2, <2>3, <3>1, <4>1
      <4>2. CASE u # t
            BY <1>0, <2>2, <2>3, <4>2 DEF OwnIdentities
      <4> QED
          BY <4>1, <4>2
    <3>3. \A u \in Sleepers : id'[u] \notin Entries(freelist')
          BY <2>4, <3>2
    <3>4. \A u \in Sleepers : pc'[u] = "ended" => id'[u] = 0
          BY <2>3 DEF OwnIdentities
    <3>5. \A u \in Sleepers : pc'[u] \notin {"ended", "undefined"} => id'[u] # 0
          BY <2>3 DEF OwnIdentities
    <3>6. \A u, v \in Sleepers : id'[u] = id'[v] /\ id'[u] # 0 => u = v
          BY <2>3 DEF OwnIdentities
    <3> QED
        BY <2>4, <3>3, <3>4, <3>5, <3>6 DEF OwnIdentities
  <2>7. SleepersArePoked'
        BY <2>1, <2>3 DEF SleepersArePoked, Semaphore!Asleep
  <2>8. InKernel' /\ WakeupsCome'
        BY <2>1, <2>3, ZenonT(30) DEF InKernel, WakeupsCome
  <2> QED
      BY <2>5, <2>6, <2>7, <2>8
<1> QED
    BY <1>1, <1>2, <1>3

(* The steps of a thread that waits.  It goes to sleep with an empty count *)
(* only, and takes its own wakeups only.                                   *)
LEMMA WaitIInv ==
  ASSUME SemaphoreSane, SemaphoreIInv, NEW t \in Sleepers,
         \/ Semaphore!Enqueue(t) \/ Semaphore!Block(t) \/ Semaphore!wait(t) \/ Semaphore!Kernel(t)
         \/ Semaphore!Timeout(t) \/ Semaphore!Spurious(t) \/ Semaphore!TimedOut(t)
  PROVE  SemaphoreIInv'
<1> USE DEF SemaphoreIInv, SemaphoreTyped, Semaphore!Goto
<1> DEFINE i == id[t]
           Deciding == {"wait", "rewait", "kernel", "asleep"}
(* What all of these steps have in common, in terms of the other threads   *)
(* and of the posters.                                                     *)
<1>0. ASSUME UNCHANGED <<id, freelist, target, mode>>, i \in Semaphore!Identities,
             pc[t] \in SleeperLabels \ {"ended", "undefined"},
             pc'[t] \in SleeperLabels \ {"ended", "undefined"}, pc' = [pc EXCEPT ![t] = pc'[t]],
             waiters' \subseteq Semaphore!Identities,
             state'[i] \in {"kQueued", "kAvailable"}, state' = [state EXCEPT ![i] = state'[i]],
             count'[i] \in Nat, count' = [count EXCEPT ![i] = count'[i]],
             sem_'[i] \in Nat, sem_' = [sem_ EXCEPT ![i] = sem_'[i]],
             Semaphore!Asleep(t)' => count'[i] = 0, pc'[t] = "asleep" => mode # "sem",
             pc'[t] \in Deciding =>
               \/ state'[i] = "kQueued"
               \/ pc[t] \in Deciding /\ state'[i] = state[i] /\ count'[i] = count[i]
      PROVE  SemaphoreIInv'
  <2>1. /\ \A p \in Posters : pc'[p] = pc[p]
        /\ \A u \in Sleepers \ {t} : pc'[u] = pc[u]
        BY <1>0 DEF SemaphoreSane
  <2>2. ASSUME NEW u \in Sleepers \ {t}, pc[u] \in Deciding
        PROVE  /\ state'[id[u]] = state[id[u]] /\ count'[id[u]] = count[id[u]]
               /\ sem_'[id[u]] = sem_[id[u]]
    <3>1. id[u] \in Semaphore!Identities /\ id[u] # i
          BY <1>0, <2>2 DEF OwnIdentities, Semaphore!Identities
    <3> QED
        BY <1>0, <3>1
  <2>3. SemaphoreTyped'
        BY <1>0, <2>1
  <2>4. OwnIdentities'
        BY <1>0, <2>1, ZenonT(30) DEF OwnIdentities
  <2>5. InKernel'
        BY <1>0, <2>1 DEF InKernel
  <2>6. SleepersArePoked'
    <3>1. ASSUME NEW u \in Sleepers, Semaphore!Asleep(u)', count'[id[u]] > 0
          PROVE  \E p \in Posters : target[p] = id[u] /\ pc[p] = "poke"
      <4>1. u # t
            BY <1>0, <3>1
      <4>2. pc[u] \in Deciding
            BY <1>0, <2>1, <3>1, <4>1 DEF Semaphore!Asleep
      <4>3. Semaphore!Asleep(u) /\ count[id[u]] > 0
            BY <1>0, <2>1, <2>2, <3>1, <4>1, <4>2 DEF Semaphore!Asleep
      <4> QED
          BY <4>3 DEF SleepersArePoked
    <3> QED
        BY <1>0, <2>1, <3>1 DEF SleepersArePoked
  <2>7. WakeupsCome'
    <3>1. ASSUME NEW u \in Sleepers, pc'[u] \in Deciding, state'[id[u]] = "kAvailable"
          PROVE  \/ count'[id[u]] > 0
                 \/ \E p \in Posters : target[p] = id[u] /\ pc[p] = "post"
      <4>1. CASE u = t
            BY <1>0, <3>1, <4>1 DEF WakeupsCome
      <4>2. CASE u # t
            BY <2>1, <2>2, <3>1, <4>2 DEF WakeupsCome
      <4> QED
          BY <4>1, <4>2
    <3> QED
        BY <1>0, <2>1, <3>1 DEF WakeupsCome
  <2> QED
      BY <2>3, <2>4, <2>5, <2>6, <2>7
<1>1. pc[t] \in SleeperLabels \ {"ended", "undefined"} /\ i \in Semaphore!Identities
      BY DEF Semaphore!Enqueue, Semaphore!Block, Semaphore!wait, Semaphore!Kernel,
             Semaphore!Timeout, Semaphore!Spurious, Semaphore!TimedOut, Semaphore!Asleep,
             OwnIdentities
<1>2. /\ state = [state EXCEPT ![i] = state[i]] /\ state[i] \in {"kQueued", "kAvailable"}
      /\ count = [count EXCEPT ![i] = count[i]] /\ count[i] \in Nat
      /\ sem_ = [sem_ EXCEPT ![i] = sem_[i]] /\ sem_[i] \in Nat
      BY <1>1
<1> USE DEF SleeperLabels
<1>3. CASE Semaphore!Enqueue(t)
  <2>1. /\ UNCHANGED <<id, freelist, target, mode, count, sem_>>
        /\ pc' = [pc EXCEPT ![t] = "block"] /\ waiters' \subseteq Semaphore!Identities
        /\ state' = [state EXCEPT ![i] = "kQueued"]
        BY <1>1, <1>3 DEF Semaphore!Enqueue
  <2>2. ~Semaphore!Asleep(t)'
        BY <1>1, <2>1 DEF Semaphore!Asleep
  <2> QED
      BY <1>0, <1>1, <1>2, <2>1, <2>2
<1>4. CASE Semaphore!Block(t)
  <2>1. /\ UNCHANGED <<id, freelist, target, mode, waiters, state, count, sem_>>
        /\ pc' = [pc EXCEPT ![t] = IF state[i] = "kQueued" THEN "wait" ELSE "run"]
        BY <1>4 DEF Semaphore!Block, Semaphore!bounds
  <2>2. ~Semaphore!Asleep(t)'
        BY <1>1, <2>1 DEF Semaphore!Asleep
  <2>3. CASE state[i] = "kQueued"
        BY <1>0, <1>1, <1>2, <2>1, <2>2, <2>3
  <2>4. CASE state[i] # "kQueued"
        BY <1>0, <1>1, <1>2, <2>1, <2>2, <2>4
  <2> QED
      BY <2>3, <2>4
<1>5. CASE Semaphore!wait(t)
  <2>1. UNCHANGED <<id, freelist, target, mode, waiters, state, sem_>> /\ pc[t] \in {"wait", "rewait"}
        BY <1>5 DEF Semaphore!wait, Semaphore!bounds
  <2>2. CASE count[i] > 0
    <3>1. /\ pc' = [pc EXCEPT ![t] = "block"] /\ count' = [count EXCEPT ![i] = @ - 1]
          BY <1>5, <2>2 DEF Semaphore!wait
    <3>2. ~Semaphore!Asleep(t)'
          BY <1>1, <2>1, <3>1 DEF Semaphore!Asleep
    <3>3. count[i] - 1 \in Nat
          BY <1>2, <2>2
    <3> QED
        BY <1>0, <1>1, <1>2, <2>1, <3>1, <3>2, <3>3
  <2>3. CASE ~(count[i] > 0)
    <3>1. count[i] = 0 /\ count' = count
          BY <1>2, <1>5, <2>3 DEF Semaphore!wait
    <3>2. \/ pc' = [pc EXCEPT ![t] = "asleep"] /\ mode = "condvar"
          \/ pc' = [pc EXCEPT ![t] = "kernel"]
          BY <1>5, <2>3 DEF Semaphore!wait
    <3> QED
        BY <1>0, <1>1, <1>2, <2>1, <3>1, <3>2
  <2> QED
      BY <2>2, <2>3
<1>6. CASE Semaphore!Kernel(t)
  <2>1. UNCHANGED <<id, freelist, target, mode, waiters, state, count>> /\ pc[t] = "kernel"
        BY <1>6 DEF Semaphore!Kernel, Semaphore!bounds
  <2>2. CASE pc' = [pc EXCEPT ![t] = "asleep"] /\ mode = "futex" /\ count[i] = 0 /\ sem_' = sem_
        BY <1>0, <1>1, <1>2, <2>1, <2>2
  <2>3. CASE /\ pc' = [pc EXCEPT ![t] = "rewait"]
             /\ sem_' = sem_ \/ (sem_[i] > 0 /\ sem_' = [sem_ EXCEPT ![i] = @ - 1])
    <3>1. ~Semaphore!Asleep(t)'
          BY <1>1, <2>1, <2>3 DEF Semaphore!Asleep
    <3>2. PICK m \in Nat : sem_' = [sem_ EXCEPT ![i] = m]
          BY <1>2, <2>3
    <3> QED
        BY <1>0, <1>1, <1>2, <2>1, <2>3, <3>1, <3>2
  <2> QED
      BY <1>6, <2>2, <2>3 DEF Semaphore!Kernel
<1>7. CASE Semaphore!Timeout(t) \/ Semaphore!Spurious(t)
  <2>1. /\ UNCHANGED <<id, freelist, target, mode, waiters, state, count, sem_>>
        /\ pc[t] \in {"asleep", "kernel"}
        /\ \E label \in {"timedout", "rewait"} : pc' = [pc EXCEPT ![t] = label]
        BY <1>7 DEF Semaphore!Timeout, Semaphore!Spurious, Semaphore!Asleep, Semaphore!bounds
  <2>2. ~Semaphore!Asleep(t)'
        BY <1>1, <2>1 DEF Semaphore!Asleep
  <2> QED
      BY <1>0, <1>1, <1>2, <2>1, <2>2
<1>8. CASE Semaphore!TimedOut(t)
  <2>1. /\ UNCHANGED <<id, freelist, target, mode, count, sem_>>
        /\ pc' = [pc EXCEPT ![t] = "block"] /\ waiters' \subseteq Semaphore!Identities
        /\ state' = state \/ state' = [state EXCEPT ![i] = "kAvailable"]
        BY <1>8 DEF Semaphore!TimedOut, Semaphore!bounds
  <2>2. ~Semaphore!Asleep(t)'
        BY <1>1, <2>1 DEF Semaphore!Asleep
  <2> QED
      BY <1>0, <1>1, <1>2, <2>1, <2>2
<1> QED
    BY <1>3, <1>4, <1>5, <1>6, <1>7, <1>8

(* The steps of a poster.  It posts after it has made the thread available *)
(* and before it forgets it; the post that finds an empty count has still  *)
(* to poke the sleeper, and one that finds a count that is not empty finds *)
(* another poster that has.                                                *)
LEMMA PosterIInv ==
  ASSUME SemaphoreSane, SemaphoreIInv, NEW p \in Posters,
         \/ Semaphore!Wakeup(p) \/ Semaphore!MakeAvailable(p) \/ Semaphore!Post(p)
         \/ Semaphore!Poke(p) \/ Semaphore!Undefined(p) \/ Semaphore!Tick(p)
  PROVE  SemaphoreIInv'
<1> USE DEF SemaphoreIInv, SemaphoreTyped, Semaphore!Goto
<1> DEFINE i == target[p]
           Deciding == {"wait", "rewait", "kernel", "asleep"}
<1>0. UNCHANGED <<id, freelist, mode>>
      BY DEF Semaphore!Wakeup, Semaphore!MakeAvailable, Semaphore!Post, Semaphore!Poke,
             Semaphore!Undefined, Semaphore!Tick, Semaphore!bounds
<1>1. \A t \in Sleepers : t # p
      BY DEF SemaphoreSane
<1>2. \A t \in Sleepers : pc[t] \in Deciding => id[t] \in Semaphore!Identities
      BY DEF OwnIdentities
(* The steps that take no thread's wakeup or poke back: p was idle or      *)
(* about to make its thread available.                                     *)
<1>3. ASSUME pc[p] \in {"idle", "avail"}, UNCHANGED <<count, sem_>>,
             NEW label \in {"avail", "post", "poke"}, pc' = [pc EXCEPT ![p] = label],
             NEW j \in Semaphore!Identities, target' = [target EXCEPT ![p] = j],
             waiters' \subseteq Semaphore!Identities,
             \/ state' = state
             \/ state' = [state EXCEPT ![j] = "kAvailable"] /\ label = "post"
      PROVE  SemaphoreIInv'
  <2>1. /\ \A t \in Sleepers : pc'[t] = pc[t]
        /\ \A q \in Posters \ {p} : pc'[q] = pc[q] /\ target'[q] = target[q]
        /\ pc'[p] = label /\ target'[p] = j
        BY <1>1, <1>3
  <2>2. SemaphoreTyped'
        BY <1>0, <1>3, <2>1 DEF PosterLabels
  <2>3. OwnIdentities'
        BY <1>0, <2>1 DEF OwnIdentities
  <2>4. SleepersArePoked'
    <3>1. \A t \in Sleepers : Semaphore!Asleep(t)' => Semaphore!Asleep(t)
          BY <1>0, <1>3, <2>1 DEF Semaphore!Asleep
    <3> QED
        BY <1>0, <1>3, <2>1, <3>1 DEF SleepersArePoked
  <2>5. WakeupsCome'
    <3>1. ASSUME NEW t \in Sleepers, pc[t] \in Deciding, state'[id[t]] = "kAvailable"
          PROVE  \/ count[id[t]] > 0
                 \/ \E q \in Posters : target'[q] = id[t] /\ pc'[q] = "post"
      <4>1. CASE state[id[t]] = "kAvailable"
            BY <1>3, <2>1, <3>1, <4>1 DEF WakeupsCome
      <4>2. CASE state[id[t]] # "kAvailable"
            BY <1>2, <1>3, <2>1, <3>1, <4>2
      <4> QED
          BY <4>1, <4>2
    <3> QED
        BY <1>0, <1>3, <2>1, <3>1 DEF WakeupsCome
  <2>6. InKernel'
        BY <1>0, <2>1 DEF InKernel
  <2> QED
      BY <2>2, <2>3, <2>4, <2>5, <2>6
<1>4. CASE Semaphore!Wakeup(p)
  <2>1. PICK j \in waiters : waiters' = waiters \ {j} /\ target' = [target EXCEPT ![p] = j]
        BY <1>4 DEF Semaphore!Wakeup
  <2>2. /\ pc[p] = "idle" /\ pc' = [pc EXCEPT ![p] = "avail"] /\ UNCHANGED <<state, count, sem_>>
        BY <1>4 DEF Semaphore!Wakeup
  <2> QED
      BY <1>3, <2>1, <2>2
<1>5. CASE Semaphore!MakeAvailable(p)
  <2>1. /\ pc[p] = "avail" /\ pc' = [pc EXCEPT ![p] = "post"]
        /\ state' = [state EXCEPT ![i] = "kAvailable"] /\ UNCHANGED <<count, sem_, waiters, target>>
        BY <1>5 DEF Semaphore!MakeAvailable
  <2>2. i \in Semaphore!Identities /\ target' = [target EXCEPT ![p] = i]
        BY <2>1
  <2> QED
      BY <1>3, <2>1, <2>2
<1>6. CASE Semaphore!Tick(p)
  <2>1. PICK t \in Sleepers :
          pc[t] \in {"wait", "rewait", "kernel", "asleep"} /\ target' = [target EXCEPT ![p] = id[t]]
        BY <1>6 DEF Semaphore!Tick
  <2>2. /\ pc[p] = "idle" /\ pc' = [pc EXCEPT ![p] = "poke"] /\ UNCHANGED <<state, count, sem_, waiters>>
        BY <1>6 DEF Semaphore!Tick
  <2> QED
      BY <1>2, <1>3, <2>1, <2>2
<1>7. CASE Semaphore!Undefined(p)
  <2>1. /\ \A q \in Sleepers \cup Posters : pc'[q] = "undefined"
        /\ DOMAIN pc' = Sleepers \cup Posters
        /\ UNCHANGED <<waiters, state, count, sem_, target>>
        BY <1>7 DEF Semaphore!Undefined, Semaphore!bounds
  <2> QED
      BY <1>0, <2>1 DEF OwnIdentities, InKernel, SleepersArePoked, WakeupsCome, Semaphore!Asleep,
                        SleeperLabels,
                         PosterLabels
(* A thread woken on i goes round its loop again.                          *)
<1>8. ASSUME Semaphore!WakeSleeper(i, p)
      PROVE  /\ DOMAIN pc' = Sleepers \cup Posters
             /\ pc'[p] = "idle" /\ \A q \in Posters \ {p} : pc'[q] = pc[q]
             /\ \A t \in Sleepers :
                  pc'[t] = IF pc[t] = "asleep" /\ id[t] = i THEN "rewait" ELSE pc[t]
      BY <1>1, <1>8 DEF Semaphore!WakeSleeper, SemaphoreSane
<1>9. CASE Semaphore!Post(p)
  <2>1. /\ pc[p] = "post" /\ i \in Semaphore!Identities /\ count' = [count EXCEPT ![i] = @ + 1]
        /\ UNCHANGED <<waiters, state, sem_, target>>
        BY <1>9 DEF Semaphore!Post, Semaphore!bounds
  <2>2. /\ DOMAIN pc' = Sleepers \cup Posters
        /\ \A q \in Posters \ {p} : pc'[q] = pc[q]
        /\ \A t \in Sleepers :
             \/ pc'[t] = pc[t]
             \/ pc[t] = "asleep" /\ pc'[t] = "rewait"
        /\ pc'[p] \in {"poke", "idle"}
    <3>1. CASE mode = "condvar"
          BY <1>8, <1>9, <3>1 DEF Semaphore!Post
    <3>2. CASE mode # "condvar"
          BY <1>1, <1>9, <3>2 DEF Semaphore!Post
    <3> QED
        BY <3>1, <3>2
  <2>3. SemaphoreTyped'
    <3>1. count[i] + 1 \in Nat /\ count' \in [Semaphore!Identities -> Nat]
          BY <2>1
    <3> QED
        BY <1>0, <2>1, <2>2, <3>1 DEF SleeperLabels, PosterLabels
  <2>4. OwnIdentities' /\ InKernel'
        BY <1>0, <2>2 DEF OwnIdentities, InKernel
  <2>5. SleepersArePoked'
    <3>1. ASSUME NEW t \in Sleepers, Semaphore!Asleep(t)', count'[id[t]] > 0
          PROVE  \E q \in Posters : target[q] = id[t] /\ pc'[q] = "poke"
      <4>1. Semaphore!Asleep(t) /\ pc[t] \in Deciding
            BY <1>0, <2>1, <2>2, <3>1 DEF Semaphore!Asleep
      <4>2. CASE count[id[t]] > 0
        <5>1. PICK q \in Posters : target[q] = id[t] /\ pc[q] = "poke"
              BY <4>1, <4>2 DEF SleepersArePoked
        <5> QED
            BY <2>1, <2>2, <5>1
      <4>3. CASE ~(count[id[t]] > 0)
        <5>1. id[t] = i /\ count[i] = 0
              BY <1>2, <2>1, <3>1, <4>1, <4>3
        <5>2. mode # "condvar"
              BY <1>0, <1>8, <1>9, <3>1, <5>1 DEF Semaphore!Post, Semaphore!Asleep
        <5>3. pc'[p] = "poke"
              BY <1>9, <5>1, <5>2 DEF Semaphore!Post
        <5> QED
            BY <5>1, <5>3
      <4> QED
          BY <4>2, <4>3
    <3> QED
        BY <1>0, <2>1, <3>1 DEF SleepersArePoked
  <2>6. WakeupsCome'
    <3>1. ASSUME NEW t \in Sleepers, pc'[t] \in Deciding, state[id[t]] = "kAvailable"
          PROVE  \/ count'[id[t]] > 0
                 \/ \E q \in Posters : target[q] = id[t] /\ pc'[q] = "post"
      <4>1. pc[t] \in Deciding /\ id[t] \in Semaphore!Identities
            BY <1>2, <2>2, <3>1
      <4>2. CASE count[id[t]] > 0
            BY <2>1, <4>1, <4>2
      <4>3. CASE id[t] = i
            BY <2>1, <4>3
      <4>4. CASE ~(count[id[t]] > 0) /\ id[t] # i
            BY <2>2, <3>1, <4>1, <4>4 DEF WakeupsCome
      <4> QED
          BY <4>2, <4>3, <4>4
    <3> QED
        BY <1>0, <2>1, <3>1 DEF WakeupsCome
  <2> QED
      BY <2>3, <2>4, <2>5, <2>6
<1>10. CASE Semaphore!Poke(p)
  <2>1. /\ pc[p] = "poke" /\ i \in Semaphore!Identities /\ UNCHANGED <<waiters, state, count, target>>
        BY <1>10 DEF Semaphore!Poke, Semaphore!bounds
  <2>2. /\ DOMAIN pc' = Sleepers \cup Posters
        /\ pc'[p] = "idle" /\ \A q \in Posters \ {p} : pc'[q] = pc[q]
        /\ \A t \in Sleepers :
             \/ pc'[t] = pc[t]
             \/ pc[t] = "asleep" /\ pc'[t] = "rewait"
    <3>1. CASE mode = "sem"
          BY <1>1, <1>10, <3>1 DEF Semaphore!Poke
    <3>2. CASE mode # "sem"
          BY <1>8, <1>10, <3>2 DEF Semaphore!Poke
    <3> QED
        BY <3>1, <3>2
  <2>3. sem_' = sem_ \/ (sem_' = [sem_ EXCEPT ![i] = @ + 1] /\ sem_[i] + 1 \in Nat)
        BY <1>10, <2>1 DEF Semaphore!Poke
  <2>4. SemaphoreTyped'
        BY <1>0, <2>1, <2>2, <2>3, ZenonT(30) DEF SleeperLabels, PosterLabels
  <2>5. OwnIdentities' /\ InKernel'
        BY <1>0, <2>2 DEF OwnIdentities, InKernel
(* Nobody stays asleep on i.                                               *)
  <2>6. ASSUME NEW t \in Sleepers, Semaphore!Asleep(t)' PROVE Semaphore!Asleep(t) /\ id[t] # i
    <3>1. pc[t] \in Deciding /\ id[t] \in Semaphore!Identities
          BY <1>2, <2>2, <2>6 DEF Semaphore!Asleep
    <3>2. CASE mode = "sem"
      <4>1. sem_' = [sem_ EXCEPT ![i] = @ + 1]
            BY <1>10, <3>2 DEF Semaphore!Poke
      <4>2. pc'[t] = "kernel" /\ pc[t] = "kernel" /\ sem_'[id[t]] = 0
            BY <1>0, <2>2, <2>5, <2>6, <3>2 DEF Semaphore!Asleep, InKernel
      <4> QED
          BY <2>1, <3>1, <3>2, <4>1, <4>2 DEF Semaphore!Asleep
    <3>3. CASE mode # "sem"
      <4>1. pc'[t] = "asleep"
            BY <1>0, <2>6, <3>3 DEF Semaphore!Asleep
      <4>2. Semaphore!WakeSleeper(i, p)
            BY <1>10, <3>3 DEF Semaphore!Poke
      <4> QED
          BY <1>8, <4>1, <4>2 DEF Semaphore!Asleep
    <3> QED
        BY <3>2, <3>3
  <2>7. SleepersArePoked'
    <3>1. ASSUME NEW t \in Sleepers, Semaphore!Asleep(t)', count[id[t]] > 0
          PROVE  \E q \in Posters : target[q] = id[t] /\ pc'[q] = "poke"
      <4>1. PICK q \in Posters : target[q] = id[t] /\ pc[q] = "poke"
            BY <2>6, <3>1 DEF SleepersArePoked
      <4>2. q # p
            BY <2>6, <3>1, <4>1
      <4> QED
          BY <2>2, <4>1, <4>2
    <3> QED
        BY <1>0, <2>1, <3>1 DEF SleepersArePoked
  <2>8. WakeupsCome'
    <3>1. ASSUME NEW t \in Sleepers, pc'[t] \in Deciding, state[id[t]] = "kAvailable"
          PROVE  \/ count[id[t]] > 0
                 \/ \E q \in Posters : target[q] = id[t] /\ pc'[q] = "post"
      <4>1. pc[t] \in Deciding
            BY <2>2, <3>1
      <4> QED
          BY <2>1, <2>2, <3>1, <4>1 DEF WakeupsCome
    <3> QED
        BY <1>0, <2>1, <3>1 DEF WakeupsCome
  <2> QED
      BY <2>4, <2>5, <2>7, <2>8
<1> QED
    BY <1>4, <1>5, <1>6, <1>7, <1>9, <1>10

(* The invariant is inductive.                                             *)
LEMMA SemaphoreStep ==
  ASSUME SemaphoreSane
  PROVE  SemaphoreIInv /\ [Semaphore!Next]_(Semaphore!vars) => SemaphoreIInv'
<1> SUFFICES ASSUME SemaphoreIInv, [Semaphore!Next]_(Semaphore!vars) PROVE SemaphoreIInv'
    OBVIOUS
<1>1. CASE UNCHANGED Semaphore!vars \/ Semaphore!Done
  <2>1. UNCHANGED Semaphore!vars
        BY <1>1 DEF Semaphore!Done
  <2> QED
      BY <2>1 DEF Semaphore!vars, SemaphoreIInv, SemaphoreTyped, OwnIdentities, InKernel,
                  SleepersArePoked, WakeupsCome, Semaphore!Asleep
<1> QED
    BY <1>1, IdentityIInv, WaitIInv, PosterIInv DEF Semaphore!Next

(* Nobody sleeps on the per-thread semaphore past a wakeup, though Post    *)
(* announces only the step of the count away from 0, wakeups are taken and *)
(* given in any order, and a late Post or a Tick may reach the next owner  *)
(* of an identity.                                                         *)
THEOREM NobodySleepsPastWakeup == Spec => []NoSleepPastWakeup
<1>1. SemaphoreSane BY ServicesAssumption DEF SemaphoreSane
<1>2. SemaphoreIInv => Semaphore!NoSleepPastWakeup
  <2> SUFFICES ASSUME SemaphoreIInv, NEW t \in Sleepers, Semaphore!Asleep(t)
               PROVE  /\ count[id[t]] > 0 => \E p \in Posters : target[p] = id[t] /\ pc[p] = "poke"
                      /\ state[id[t]] = "kAvailable" =>
                           \E p \in Posters : target[p] = id[t] /\ pc[p] \in {"post", "poke"}
      BY DEF Semaphore!NoSleepPastWakeup
  <2>1. count[id[t]] > 0 => \E p \in Posters : target[p] = id[t] /\ pc[p] = "poke"
        BY DEF SemaphoreIInv, SleepersArePoked
  <2>2. pc[t] \in {"kernel", "asleep"}
        BY DEF Semaphore!Asleep
  <2> QED
      BY <2>1, <2>2 DEF SemaphoreIInv, WakeupsCome
<1>3. Init => (which = "semaphore" => SemaphoreIInv)
      BY <1>1, SemaphoreInit DEF Init
<1>4. (which = "semaphore" => SemaphoreIInv) /\ [Next]_vars =>
        (which = "semaphore" => SemaphoreIInv)'
  <2> SUFFICES ASSUME which = "semaphore", SemaphoreIInv, [Next]_vars PROVE SemaphoreIInv'
      BY DEF Next, vars
  <2>1. [Semaphore!Next]_(Semaphore!vars)
        BY DEF Next, vars, semaphore, Semaphore!vars
  <2> QED
      BY <1>1, <2>1, SemaphoreStep
<1>5. (which = "semaphore" => SemaphoreIInv) => NoSleepPastWakeup
      BY <1>2 DEF NoSleepPastWakeup
<1> QED
    BY <1>3, <1>4, <1>5, PTL DEF Spec
-----------------------------------------------------------------------------
Lock == INSTANCE SpinLockProof WITH Threads <- Lockers, Races <- TRUE, pc <- spin_pc

(* The lock of SpinLockProof is the one of Services.                       *)
LEMMA SameLock ==
  /\ Static!Init => Lock!Init
  /\ Static!Next => Lock!Next
  /\ Static!kSpinLockCooperative = Lock!kSpinLockCooperative
<1>1. Static!Init => Lock!Init
      BY DEF Static!Init, Static!kSpinLockCooperative, Lock!Init, Lock!kSpinLockCooperative
<1>2. Static!Next => Lock!Next
      BY DEF Static!Next, Static!Step, Static!Finished, Static!Lock, Static!TryLock,
                Static!InitLinkerInitializedAndCooperative, Static!TryLockImpl, Static!SpinLoop,
                Static!Attempt, Static!MarkSleeper, Static!SpinLockDelay, Static!DelayTimeout,
                Static!FetchOrCooperative, Static!UnlockLoad, Static!UnlockExchange,
                Static!SlowUnlock, Static!Done, Static!vars, Static!Begin,
                Static!TryLockInternal, Static!Observe, Static!Goto, Static!kSpinLockSleeper,
                Static!Waited, Static!WaitBits, Static!Held, Static!kSpinLockCooperative,
                Static!Leave, Static!Constructed, Static!kSpinLockHeld, Static!kWaitTimeMask,
                Lock!Next, Lock!Step, Lock!Finished, Lock!Lock, Lock!TryLock,
                Lock!InitLinkerInitializedAndCooperative, Lock!TryLockImpl, Lock!SpinLoop,
                Lock!Attempt, Lock!MarkSleeper, Lock!SpinLockDelay, Lock!DelayTimeout,
                Lock!FetchOrCooperative, Lock!UnlockLoad, Lock!UnlockExchange, Lock!SlowUnlock,
                Lock!Done, Lock!vars, Lock!Begin, Lock!TryLockInternal, Lock!Observe, Lock!Goto,
                Lock!kSpinLockSleeper, Lock!Waited, Lock!WaitBits, Lock!Held,
                Lock!kSpinLockCooperative, Lock!Leave, Lock!Constructed, Lock!kSpinLockHeld,
                Lock!kWaitTimeMask
<1> QED
    BY <1>1, <1>2 DEF Static!kSpinLockCooperative, Lock!kSpinLockCooperative

(* The cooperative bit that the static constructor sets stays, whatever    *)
(* the threads that use the lock at the same time have loaded before.      *)
THEOREM CooperativeBitStays == Spec => CoopIsSticky
<1> USE ServicesAssumption
<1>1. Init => Lock!CoopIInv
      BY SameLock, Lock!InitIInv DEF Init
<1>2. [Next]_vars => [Lock!Next]_(Lock!vars)
      BY SameLock DEF Next, vars, static, Lock!vars
<1>3. Lock!CoopIInv /\ [Next]_vars => Lock!CoopIInv'
      BY <1>2, Lock!StepCoopIInv
<1>4. Lock!CoopIInv /\ [Next]_vars =>
        [(Static!kSpinLockCooperative \in word) => (Static!kSpinLockCooperative \in word')]_vars
      BY <1>2, SameLock, Lock!NextKeepsCooperative DEF vars, static, Lock!vars
<1> QED
    BY <1>1, <1>3, <1>4, PTL DEF Spec, CoopIsSticky
=============================================================================
