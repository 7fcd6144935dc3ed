------------------------ MODULE HwFenceClientsProofs ------------------------
(* Theorems about the client registry and the fence error callbacks, for    *)
(* any threads, client ids, capacity and iteration limit.                   *)
EXTENDS HwFenceClients, TLAPS

\* The doorbell loop takes what it saw, and counts to its limit.
DoorbellInv ==
  /\ dpc = "take" => ctrlq # <<>> /\ iter < MaxIter
  /\ dpc = "lookup" => did \in Ids
  /\ dpc = "lookup" \/ Using => iter > 0
  /\ Using => dobj \in Objects

\* Every object in use has one user: the thread that has its handle, or the
\* thread that sets it up or tears it down.
Has(t, o) == handle[t] = o \/ cur[t] = o

RegistryInv ==
  /\ \A t \in Threads : handle[t] # Null =>
       /\ cur[t] = Null
       /\ obj[handle[t]].alloc /\ obj[handle[t]].ready
       /\ obj[handle[t]].id \in Ids
       /\ clients[obj[handle[t]].id] = handle[t]
  /\ \A t \in Threads : pc[t] = "id" =>
       /\ cur[t] # Null
       /\ obj[cur[t]].alloc /\ obj[cur[t]].id = Null
       /\ cid[t] \in Ids /\ clients[cid[t]] = cur[t]
  /\ \A t \in Threads : pc[t] \in {"init", "clear"} =>
       /\ cur[t] # Null
       /\ obj[cur[t]].alloc /\ obj[cur[t]].id \in Ids
       /\ clients[obj[cur[t]].id] = cur[t]
  /\ \A t \in Threads : pc[t] = "free" =>
       /\ cur[t] # Null
       /\ obj[cur[t]].alloc
       /\ \A id \in Ids : clients[id] # cur[t]
  /\ \A t \in Threads : pc[t] \notin {"id", "init", "clear", "free"} => cur[t] = Null
  /\ \A t \in Threads :
       pc[t] \in {"cb_store", "cb_first", "cb_second", "drop_cb", "drop_data", "unlock"}
         => handle[t] # Null
  /\ \A s, t \in Threads, o \in Objects : Has(s, o) /\ Has(t, o) => s = t
  /\ RegisteredIsAllocated

\* While no doorbell is pending and none is about to ring, the loop has seen
\* all that is queued and will get to it, unless it reaches its limit.
PendingInv ==
  ~flag /\ spc = "idle" =>
    /\ dpc = "idle" => ctrlq = <<>> \/ StoppedShort
    /\ dpc # "idle" => iter + Len(ctrlq) <= Capacity
    /\ dpc = "take" => seen = Len(ctrlq)
    /\ dpc = "loop" /\ iter = 0 => more
    /\ dpc \in {"lookup", "lock", "test", "call", "unlock"} \/ (dpc = "loop" /\ iter > 0)
         => (more <=> Len(ctrlq) > 0)

\* An error under way has a client that is registered and not about to change.
Settled(id) ==
  \E t \in Threads :
    /\ handle[t] # Null /\ obj[handle[t]].id = id
    /\ pc[t] \in {"idle", "drop_cb", "drop_data", "unlock"}

\* A callback is registered with its data, but for the thread that is at it.
Whole(t) ==
  /\ pc[t] \in {"cb_store", "cb_first", "cb_second"} => arg[t] # Null
  /\ pc[t] = "cb_first" => obj[handle[t]].data # Null
  /\ pc[t] \in {"drop_data", "unlock"} => ~obj[handle[t]].cb
  /\ pc[t] \in {"idle", "drop_cb"} => (obj[handle[t]].cb => obj[handle[t]].data # Null)

CallbackInv ==
  /\ \A id \in Ids : ErrorUnderWay(id) => Settled(id)
  /\ Using => did \in Ids /\ dobj = clients[did]
  /\ dpc \in {"test", "call", "unlock"} => obj[dobj].lock = Doorbell
  /\ \A t \in Threads : pc[t] \in {"drop_cb", "drop_data", "unlock"}
       => obj[handle[t]].lock = t
  /\ \A t \in Threads : handle[t] # Null => Whole(t)
  /\ \A t \in Threads : pc[t] \in {"id", "init"} => ~obj[cur[t]].cb
  /\ dpc = "call" => obj[dobj].cb /\ ddata # Null /\ ddata = obj[dobj].data

\* A client structure stays one when a field of it is stored.
LEMMA ClientFields ==
  ASSUME NEW r \in Client
  PROVE  /\ \A x \in BOOLEAN : [r EXCEPT !.cb = x] \in Client
         /\ \A x \in Data \union {Null} : [r EXCEPT !.data = x] \in Client
         /\ \A x \in Threads \union {Doorbell, Null} : [r EXCEPT !.lock = x] \in Client
         /\ \A x \in Ids \union {Null} : [r EXCEPT !.id = x] \in Client
         /\ [r EXCEPT !.ready = TRUE] \in Client
BY DEF Client

LEMMA ClientsTypeInit == Init => TypeOK /\ DoorbellInv /\ RegistryInv
<1> SUFFICES ASSUME Init PROVE TypeOK /\ DoorbellInv /\ RegistryInv
  OBVIOUS
<1>1. Freed \in Client
  BY DEF Freed, Client
<1>2. TypeOK
  <2>1. /\ clients \in [Ids -> Objects \union {Null}]
        /\ obj \in [Objects -> Client]
        /\ handle \in [Threads -> Objects \union {Null}]
        /\ cur \in [Threads -> Objects \union {Null}]
        /\ cid \in [Threads -> Ids \union {Null}]
        /\ arg \in [Threads -> Data \union {Null}]
    BY <1>1 DEF Init
  <2>2. seen \in 0 .. Capacity /\ iter \in 0 .. MaxIter
    BY ClientsAssumption DEF Init
  <2>3. ctrlq \in Seq(Ids \union {BadId}) /\ Len(ctrlq) <= Capacity
    BY ClientsAssumption DEF Init
  <2>. QED
    BY <2>1, <2>2, <2>3 DEF Init, TypeOK
<1>3. DoorbellInv
  BY DEF Init, DoorbellInv, Using
<1>4. RegistryInv
  BY ClientsAssumption DEF Init, RegistryInv, Has, RegisteredIsAllocated
<1>. QED
  BY <1>2, <1>3, <1>4

LEMMA ClientsTypeStep ==
  TypeOK /\ DoorbellInv /\ RegistryInv /\ [Next]_vars => TypeOK' /\ DoorbellInv'
<1> SUFFICES ASSUME TypeOK, DoorbellInv, RegistryInv, [Next]_vars
             PROVE  TypeOK' /\ DoorbellInv'
  OBVIOUS
<1> USE ClientsAssumption DEF TypeOK, DoorbellInv, Goto, svars, dvars, tvars,
   Doorbell, Using
<1>c. \A o \in Objects : obj[o] \in Client
  OBVIOUS
<1>f. Freed \in Client
  BY DEF Freed, Client
<1>d. Fresh \in Client
  BY DEF Fresh, Client
\* Steps of a thread inside a call, which change none but its own variables
\* and the client it works on.
<1>t. ASSUME obj' \in [Objects -> Client], arg' \in [Threads -> Data \union {Null}],
             handle' \in [Threads -> Objects \union {Null}],
             cur' \in [Threads -> Objects \union {Null}],
             cid' \in [Threads -> Ids \union {Null}],
             pc' \in [Threads -> {"idle", "id", "init", "clear", "free", "cb_store",
                         "cb_first", "cb_second", "drop_cb", "drop_data", "unlock"}],
             UNCHANGED <<clients, svars, dvars>>
      PROVE  TypeOK' /\ DoorbellInv'
  BY <1>t
<1>1. ASSUME NEW t \in Threads, ThreadStep(t) PROVE TypeOK' /\ DoorbellInv'
  <2>1. CASE \E id \in Ids, o \in Objects : Claim(t, id, o)
    BY <2>1, <1>d DEF Claim
  <2>2. CASE Deregister(t)
    BY <2>2 DEF Deregister
  <2>3. CASE \E d \in Data : RegisterCb(t, d)
    BY <2>3 DEF RegisterCb
  <2>4. CASE DeregisterCb(t)
    <3>1. handle[t] \in Objects
      BY <2>4 DEF DeregisterCb, RegistryInv
    <3>2. obj' \in [Objects -> Client]
      BY <2>4, <3>1, <1>c, ClientFields DEF DeregisterCb
    <3>. QED
      BY <2>4, <3>2, <1>t DEF DeregisterCb
  <2>5. CASE StartWaiting(t)
    BY <2>5 DEF StartWaiting, RegistryInv
  <2>6. CASE StopWaiting(t)
    BY <2>6 DEF StopWaiting
  <2>7. CASE RegisterDone(t)
    BY <2>7, <1>c, ClientFields DEF RegisterDone, RegistryInv
  <2>8. CASE RegisterFails(t)
    BY <2>8 DEF RegisterFails
  <2>9. CASE CleanupClear(t)
    <3>1. clients' \in [Ids -> Objects \union {Null}]
      BY <2>9 DEF CleanupClear
    <3>2. pc' \in [Threads -> {"idle", "id", "init", "clear", "free", "cb_store",
                       "cb_first", "cb_second", "drop_cb", "drop_data", "unlock"}]
      BY <2>9 DEF CleanupClear
    <3>. QED
      BY <2>9, <3>1, <3>2 DEF CleanupClear
  <2>10. CASE CleanupFree(t)
    BY <2>10, <1>f DEF CleanupFree, RegistryInv
  <2>11. CASE StoreData(t)
    <3>1. handle[t] \in Objects
      BY <2>11 DEF StoreData, RegistryInv
    <3>2. obj' \in [Objects -> Client]
      BY <2>11, <3>1, <1>c, ClientFields DEF StoreData
    <3>3. arg' \in [Threads -> Data \union {Null}]
      BY <2>11 DEF StoreData
    <3>. QED
      BY <2>11, <3>2, <3>3, <1>t DEF StoreData
  <2>12. CASE StoreCb(t)
    <3>1. handle[t] \in Objects
      BY <2>12 DEF StoreCb, RegistryInv
    <3>2. obj' \in [Objects -> Client]
      BY <2>12, <3>1, <1>c, ClientFields DEF StoreCb
    <3>3. arg' \in [Threads -> Data \union {Null}]
      BY <2>12 DEF StoreCb
    <3>. QED
      BY <2>12, <3>2, <3>3, <1>t DEF StoreCb
  <2>13. CASE DropCb(t)
    <3>1. handle[t] \in Objects
      BY <2>13 DEF DropCb, RegistryInv
    <3>2. obj' \in [Objects -> Client]
      BY <2>13, <3>1, <1>c, ClientFields DEF DropCb
    <3>. QED
      BY <2>13, <3>2, <1>t DEF DropCb
  <2>14. CASE DropData(t)
    <3>1. handle[t] \in Objects
      BY <2>14 DEF DropData, RegistryInv
    <3>2. obj' \in [Objects -> Client]
      BY <2>14, <3>1, <1>c, ClientFields DEF DropData
    <3>. QED
      BY <2>14, <3>2, <1>t DEF DropData
  <2>15. CASE DeregisterCbUnlock(t)
    <3>1. handle[t] \in Objects
      BY <2>15 DEF DeregisterCbUnlock, RegistryInv
    <3>2. obj' \in [Objects -> Client]
      BY <2>15, <3>1, <1>c, ClientFields DEF DeregisterCbUnlock
    <3>. QED
      BY <2>15, <3>2, <1>t DEF DeregisterCbUnlock
  <2>16. CASE StoreId(t)
    <3>1. cur[t] \in Objects
      BY <2>16 DEF StoreId, RegistryInv
    <3>2. obj' \in [Objects -> Client]
      BY <2>16, <3>1, <1>c, ClientFields DEF StoreId
    <3>. QED
      BY <2>16, <3>2, <1>t DEF StoreId
  <2>. QED
    BY <1>1, <2>1, <2>2, <2>3, <2>4, <2>5, <2>6, <2>7, <2>8, <2>9, <2>10, <2>11,
       <2>12, <2>13, <2>14, <2>15, <2>16 DEF ThreadStep, InCall
<1>2. CASE SvmStep
  <2>1. CASE SvmRing
    BY <2>1 DEF SvmRing
  <2>2. ASSUME NEW id \in Ids \union {BadId}, SvmSend(id) PROVE TypeOK' /\ DoorbellInv'
    <3>1. /\ ctrlq' \in Seq(Ids \union {BadId}) /\ Len(ctrlq') <= Capacity
          /\ ctrlq' # <<>>
      BY <2>2 DEF SvmSend
    <3>. QED
      BY <2>2, <3>1 DEF SvmSend
  <2>. QED
    BY <1>2, <2>1, <2>2 DEF SvmStep
<1>3. CASE DoorbellStep
  <2>1. CASE DblStart
    <3>1. iter' = 0 /\ more' = TRUE /\ flag' = FALSE
      BY <2>1 DEF DblStart
    <3>2. iter' \in 0 .. MaxIter
      BY <3>1
    <3>. QED
      BY <2>1, <3>1, <3>2 DEF DblStart
  <2>2. CASE DblIndexes
    BY <2>2 DEF DblIndexes
  <2>3. CASE DblTake
    BY <2>3 DEF DblTake, MoreAfter
  <2>4. CASE DblLookup
    BY <2>4 DEF DblLookup
  <2>5. CASE DblLock
    BY <2>5, <1>c, ClientFields DEF DblLock
  <2>6. CASE DblTest
    <3>1. obj[dobj].data \in Data \union {Null} /\ dobj \in Objects
      BY <2>6, <1>c, ClientFields DEF DblTest, Client
    <3>2. ddata' \in Data \union {Null}
      BY <2>6, <3>1 DEF DblTest
    <3>3. dpc' \in {"call", "unlock"}
      BY <2>6 DEF DblTest
    <3>. QED
      BY <2>6, <3>1, <3>2, <3>3 DEF DblTest
  <2>7. CASE DblCall
    BY <2>7 DEF DblCall
  <2>8. CASE DblUnlock
    BY <2>8, <1>c, ClientFields DEF DblUnlock
  <2>9. CASE DblEnd
    BY <2>9 DEF DblEnd
  <2>. QED
    BY <1>3, <2>1, <2>2, <2>3, <2>4, <2>5, <2>6, <2>7, <2>8, <2>9 DEF DoorbellStep
<1>4. CASE UNCHANGED vars
  BY <1>4 DEF vars
<1>. QED
  BY <1>1, <1>2, <1>3, <1>4 DEF Next

LEMMA RegistryStep == TypeOK /\ RegistryInv /\ [Next]_vars => RegistryInv'
<1> SUFFICES ASSUME TypeOK, RegistryInv, [Next]_vars
             PROVE  RegistryInv'
  OBVIOUS
<1> USE ClientsAssumption DEF TypeOK, RegistryInv, RegisteredIsAllocated, Has, Goto,
        svars, dvars, tvars
<1>c. \A o \in Objects : obj[o] \in Client
  OBVIOUS
\* Steps that leave the registry and the identity of objects alone.
<1>s. ASSUME UNCHANGED <<clients, handle, cur, cid>>,
             \A o \in Objects : /\ obj'[o].alloc = obj[o].alloc
                                /\ obj'[o].ready = obj[o].ready
                                /\ obj'[o].id = obj[o].id,
             \A t \in Threads :
               \/ pc'[t] = pc[t]
               \/ /\ pc'[t] \notin {"id", "init", "clear", "free"}
                  /\ pc[t] \notin {"id", "init", "clear", "free"}
                  /\ handle[t] # Null
      PROVE  RegistryInv'
  <2>1. \A t \in Threads : handle[t] # Null => handle[t] \in Objects
    OBVIOUS
  <2>2. \A t \in Threads : cur[t] # Null => cur[t] \in Objects
    OBVIOUS
  <2>3. \A i \in Ids : clients[i] # Null => clients[i] \in Objects
    OBVIOUS
  <2>4. RegisteredIsAllocated'
    BY <1>s, <2>3
  <2>5. \A t \in Threads : handle'[t] # Null =>
         /\ cur'[t] = Null
         /\ obj'[handle'[t]].alloc /\ obj'[handle'[t]].ready
         /\ obj'[handle'[t]].id \in Ids
         /\ clients'[obj'[handle'[t]].id] = handle'[t]
    BY <1>s, <2>1
  <2>6. \A t \in Threads : pc'[t] \in {"init", "clear"} =>
         /\ cur'[t] # Null
         /\ obj'[cur'[t]].alloc /\ obj'[cur'[t]].id \in Ids
         /\ clients'[obj'[cur'[t]].id] = cur'[t]
    BY <1>s, <2>2
  <2>7. \A t \in Threads : pc'[t] = "free" =>
         /\ cur'[t] # Null /\ obj'[cur'[t]].alloc
         /\ \A id \in Ids : clients'[id] # cur'[t]
    BY <1>s, <2>2
  <2>8. \A t \in Threads : pc'[t] = "id" =>
         /\ cur'[t] # Null
         /\ obj'[cur'[t]].alloc /\ obj'[cur'[t]].id = Null
         /\ cid'[t] \in Ids /\ clients'[cid'[t]] = cur'[t]
    BY <1>s, <2>2
  <2>9. /\ \A t \in Threads : pc'[t] \notin {"id", "init", "clear", "free"} => cur'[t] = Null
        /\ \A t \in Threads :
             pc'[t] \in {"cb_store", "cb_first", "cb_second", "drop_cb", "drop_data", "unlock"}
               => handle'[t] # Null
        /\ \A s, t \in Threads, o \in Objects : Has(s, o)' /\ Has(t, o)' => s = t
    BY <1>s, SMTT(30)
  <2>. QED
    BY <2>4, <2>5, <2>6, <2>7, <2>8, <2>9
<1>1. ASSUME NEW t \in Threads, ThreadStep(t) PROVE RegistryInv'
  <2>1. CASE \E id \in Ids, o \in Objects : Claim(t, id, o)
    <3>1. PICK i \in Ids, o \in Objects : Claim(t, i, o)
      BY <2>1
    <3>2. /\ ~obj[o].alloc /\ clients[i] = Null /\ handle[t] = Null /\ o # Null
          /\ pc[t] = "idle" /\ pc'[t] = "id" /\ cur'[t] = o /\ cid'[t] = i
          /\ obj'[o] = Fresh /\ clients'[i] = o /\ handle' = handle
      BY <3>1 DEF Claim
    <3>3. /\ \A s \in Threads : s # t => /\ pc'[s] = pc[s] /\ cur'[s] = cur[s]
                                         /\ cid'[s] = cid[s]
          /\ \A p \in Objects : p # o => obj'[p] = obj[p]
          /\ \A j \in Ids : j # i => clients'[j] = clients[j]
      BY <3>1 DEF Claim
    <3>4. /\ Fresh.alloc /\ Fresh.id = Null
          /\ \A s \in Threads : /\ handle[s] # Null => handle[s] \in Objects \ {o}
                                /\ cur[s] # Null => cur[s] \in Objects \ {o}
          /\ \A j \in Ids : clients[j] # Null => clients[j] \in Objects \ {o}
      BY <3>2 DEF Fresh
    <3> HIDE DEF Fresh
    <3>5. \A s \in Threads : handle'[s] # Null =>
           /\ cur'[s] = Null
           /\ obj'[handle'[s]].alloc /\ obj'[handle'[s]].ready
           /\ obj'[handle'[s]].id \in Ids
           /\ clients'[obj'[handle'[s]].id] = handle'[s]
      BY <3>2, <3>3, <3>4
    <3>6. \A s \in Threads : pc'[s] = "id" =>
           /\ cur'[s] # Null
           /\ obj'[cur'[s]].alloc /\ obj'[cur'[s]].id = Null
           /\ cid'[s] \in Ids /\ clients'[cid'[s]] = cur'[s]
      <4>1. \A s \in Threads : s # t /\ pc[s] = "id" => cid[s] # i
        BY <3>2
      <4>. QED
        BY <3>2, <3>3, <3>4, <4>1
    <3>7. \A s \in Threads : pc'[s] \in {"init", "clear"} =>
           /\ cur'[s] # Null
           /\ obj'[cur'[s]].alloc /\ obj'[cur'[s]].id \in Ids
           /\ clients'[obj'[cur'[s]].id] = cur'[s]
      BY <3>2, <3>3, <3>4
    <3>8. \A s \in Threads : pc'[s] = "free" =>
            /\ cur'[s] # Null /\ obj'[cur'[s]].alloc
            /\ \A id \in Ids : clients'[id] # cur'[s]
      BY <3>2, <3>3, <3>4
    <3>9. /\ \A s \in Threads : pc'[s] \notin {"id", "init", "clear", "free"} => cur'[s] = Null
          /\ \A s \in Threads :
               pc'[s] \in {"cb_store", "cb_first", "cb_second", "drop_cb", "drop_data", "unlock"}
                 => handle'[s] # Null
      BY <3>2, <3>3
    <3>10. \A r, s \in Threads, p \in Objects : Has(r, p)' /\ Has(s, p)' => r = s
      BY <3>2, <3>3, <3>4
    <3>11. RegisteredIsAllocated'
      <4> SUFFICES ASSUME NEW j \in Ids, clients'[j] # Null
                   PROVE  /\ obj'[clients'[j]].alloc
                          /\ \/ obj'[clients'[j]].id = j
                             \/ /\ obj'[clients'[j]].id = Null
                                /\ \E s \in Threads : /\ pc'[s] = "id" /\ cid'[s] = j
                                                      /\ cur'[s] = clients'[j]
        OBVIOUS
      <4>1. CASE j = i
        BY <3>2, <3>4, <4>1
      <4>2. CASE j # i
        BY <3>2, <3>3, <3>4, <4>2
      <4>. QED
        BY <4>1, <4>2
    <3>. QED
      BY <3>5, <3>6, <3>7, <3>8, <3>9, <3>10, <3>11
  <2>2. CASE Deregister(t)
    BY <2>2 DEF Deregister
  <2>3. CASE \E d \in Data : RegisterCb(t, d)
    BY <2>3, <1>s DEF RegisterCb
  <2>4. CASE DeregisterCb(t)
    BY <2>4, <1>c, <1>s DEF DeregisterCb, Client
  <2>5. CASE StartWaiting(t) \/ StopWaiting(t)
    BY <2>5, <1>s DEF StartWaiting, StopWaiting
  <2>7. CASE RegisterDone(t)
    BY <2>7, <1>c DEF RegisterDone, Client
  <2>8. CASE RegisterFails(t)
    BY <2>8 DEF RegisterFails
  <2>9. CASE CleanupClear(t)
    <3> DEFINE i == obj[cur[t]].id
    <3>1. /\ cur[t] \in Objects /\ obj[cur[t]].alloc /\ i \in Ids /\ i # Null
          /\ clients[i] = cur[t] /\ pc[t] = "clear"
      BY <2>9 DEF CleanupClear
    <3>2. /\ pc' = [pc EXCEPT ![t] = "free"] /\ clients' = [clients EXCEPT ![i] = Null]
          /\ UNCHANGED <<obj, handle, cur, cid>>
      BY <2>9 DEF CleanupClear
    <3> HIDE DEF i
    <3>3. /\ \A j \in Ids : j # i => clients'[j] = clients[j]
          /\ clients'[i] = Null /\ pc'[t] = "free"
          /\ \A s \in Threads : s # t => pc'[s] = pc[s]
      BY <3>1, <3>2
    <3>4. \A s \in Threads : s # t => handle[s] # cur[t] /\ cur[s] # cur[t]
      BY <3>1
    <3>5. \A j \in Ids : clients[j] = cur[t] => j = i
      <4> SUFFICES ASSUME NEW j \in Ids, clients[j] = cur[t], j # i PROVE FALSE
        OBVIOUS
      <4>1. clients[j] # Null /\ obj[clients[j]].id = i
        BY <3>1 DEF i
      <4>. QED
        BY <3>1, <4>1
    <3>6. \A s \in Threads : pc'[s] = "free" =>
            /\ cur'[s] # Null /\ obj'[cur'[s]].alloc
            /\ \A id \in Ids : clients'[id] # cur'[s]
      BY <3>1, <3>2, <3>3, <3>4, <3>5
    <3>7. \A s \in Threads : handle'[s] # Null =>
           /\ cur'[s] = Null
           /\ obj'[handle'[s]].alloc /\ obj'[handle'[s]].ready
           /\ obj'[handle'[s]].id \in Ids
           /\ clients'[obj'[handle'[s]].id] = handle'[s]
      BY <3>1, <3>2, <3>3, <3>4
    <3>8. \A s \in Threads : pc'[s] = "id" =>
           /\ cur'[s] # Null
           /\ obj'[cur'[s]].alloc /\ obj'[cur'[s]].id = Null
           /\ cid'[s] \in Ids /\ clients'[cid'[s]] = cur'[s]
      BY <3>1, <3>2, <3>3, <3>4
    <3>9. \A s \in Threads : pc'[s] \in {"init", "clear"} =>
           /\ cur'[s] # Null
           /\ obj'[cur'[s]].alloc /\ obj'[cur'[s]].id \in Ids
           /\ clients'[obj'[cur'[s]].id] = cur'[s]
      BY <3>1, <3>2, <3>3, <3>4
    <3>10. RegisteredIsAllocated'
      <4> SUFFICES ASSUME NEW j \in Ids, clients'[j] # Null
                   PROVE  /\ obj'[clients'[j]].alloc
                          /\ \/ obj'[clients'[j]].id = j
                             \/ /\ obj'[clients'[j]].id = Null
                                /\ \E s \in Threads : /\ pc'[s] = "id" /\ cid'[s] = j
                                                      /\ cur'[s] = clients'[j]
        OBVIOUS
      <4>1. j # i /\ clients'[j] = clients[j]
        BY <3>3
      <4>. QED
        BY <3>1, <3>2, <3>3, <4>1
    <3>. QED
      BY <3>1, <3>2, <3>3, <3>6, <3>7, <3>8, <3>9, <3>10
  <2>10. CASE CleanupFree(t)
    BY <2>10 DEF CleanupFree
  <2>11. CASE StoreData(t)
    BY <2>11, <1>c, <1>s DEF StoreData, Client
  <2>12. CASE StoreCb(t)
    BY <2>12, <1>c, <1>s DEF StoreCb, Client
  <2>13. CASE DropCb(t)
    BY <2>13, <1>c, <1>s DEF DropCb, Client
  <2>14. CASE DropData(t)
    BY <2>14, <1>c, <1>s DEF DropData, Client
  <2>15. CASE DeregisterCbUnlock(t)
    BY <2>15, <1>c, <1>s DEF DeregisterCbUnlock, Client
  <2>16. CASE StoreId(t)
    BY <2>16, <1>c DEF StoreId, Client
  <2>. QED
    BY <1>1, <2>1, <2>2, <2>3, <2>4, <2>5, <2>7, <2>8, <2>9, <2>10, <2>11,
       <2>12, <2>13, <2>14, <2>15, <2>16 DEF ThreadStep, InCall
<1>2. CASE SvmStep
  BY <1>2, <1>s DEF SvmStep, SvmRing, SvmSend
<1>3. CASE DoorbellStep
  <2>1. CASE DblLock
    BY <2>1, <1>c, <1>s DEF DblLock, Client
  <2>2. CASE DblUnlock
    BY <2>2, <1>c, <1>s DEF DblUnlock, Client
  <2>3. CASE DblStart \/ DblIndexes \/ DblTake \/ DblLookup \/ DblTest \/ DblCall \/ DblEnd
    BY <2>3, <1>s DEF DblStart, DblIndexes, DblTake, DblLookup, DblTest, DblCall, DblEnd
  <2>. QED
    BY <1>3, <2>1, <2>2, <2>3 DEF DoorbellStep
<1>4. CASE UNCHANGED vars
  BY <1>4, <1>s DEF vars
<1>. QED
  BY <1>1, <1>2, <1>3, <1>4 DEF Next

\* What holds of the client registry whatever callers do.
ClientsInv == TypeOK /\ DoorbellInv /\ RegistryInv

(* For any threads, ids and objects, the registry keeps one user for every  *)
(* object in use, through all interleavings of register and deregister.     *)
THEOREM ClientsInvariance == Spec => []ClientsInv
<1>1. Init => ClientsInv
  BY ClientsTypeInit DEF ClientsInv
<1>2. ClientsInv /\ [Next]_vars => ClientsInv'
  BY ClientsTypeStep, RegistryStep DEF ClientsInv
<1>. QED
  BY <1>1, <1>2, PTL DEF Spec

(* For any threads, ids and objects the state keeps its type: the doorbell  *)
(* loop stays within its limit and takes only what is there.                *)
THEOREM ClientsTypeCorrect == Spec => []TypeOK
<1>1. ClientsInv => TypeOK
  BY DEF ClientsInv
<1>. QED
  BY <1>1, ClientsInvariance, PTL

(* A handle that msm_hw_fence_register() returned is the registered client  *)
(* of its id until it is given back, however many threads compete.          *)
THEOREM ClientsHandleRegistered == Spec => []HandleRegistered
<1>1. ClientsInv => HandleRegistered
  BY DEF ClientsInv, RegistryInv, HandleRegistered
<1>. QED
  BY <1>1, ClientsInvariance, PTL

(* A pointer in clients[] is to an allocated client, which has that id or   *)
(* whose thread is between publishing it and storing the id.                *)
THEOREM ClientsRegisteredIsAllocated == Spec => []RegisteredIsAllocated
<1>1. ClientsInv => RegisteredIsAllocated
  BY DEF ClientsInv, RegistryInv
<1>. QED
  BY <1>1, ClientsInvariance, PTL

-----------------------------------------------------------------------------

LEMMA PendingStep == ClientsInv /\ PendingInv /\ [Next]_vars => PendingInv'
<1> SUFFICES ASSUME ClientsInv, PendingInv, [Next]_vars
             PROVE  PendingInv'
  OBVIOUS
<1> USE ClientsAssumption DEF PendingInv, StoppedShort, svars, dvars, tvars
<1>t. TypeOK /\ DoorbellInv
  BY DEF ClientsInv
<1>1. ASSUME NEW t \in Threads, ThreadStep(t) PROVE PendingInv'
  BY <1>1 DEF ThreadStep, InCall, Claim, Deregister, RegisterCb, DeregisterCb,
       StartWaiting, StopWaiting, StoreId, RegisterDone, RegisterFails,
       CleanupClear, CleanupFree, StoreData, StoreCb, DropCb, DropData, DeregisterCbUnlock
<1>2. CASE SvmStep
  BY <1>2 DEF SvmStep, SvmRing, SvmSend
<1>3. CASE DoorbellStep
  <2>1. CASE DblStart
    BY <2>1, <1>t DEF DblStart, TypeOK
  <2>2. CASE DblIndexes
    BY <2>2, <1>t DEF DblIndexes, TypeOK
  <2>3. CASE DblTake
    <3>1. Len(ctrlq') = Len(ctrlq) - 1 /\ Len(ctrlq) > 0
      BY <2>3, <1>t DEF DblTake, TypeOK, DoorbellInv
    <3>2. iter' = iter + 1 /\ iter \in Nat
      BY <2>3, <1>t DEF DblTake, TypeOK
    <3>3. more' <=> seen > 1
      BY <2>3, Zenon DEF DblTake, MoreAfter
    <3>4. /\ dpc = "take" /\ dpc' \in {"loop", "lookup"}
          /\ UNCHANGED <<flag, spc>>
      BY <2>3 DEF DblTake
    <3>5. Len(ctrlq') > 0 <=> Len(ctrlq) > 1
      BY <3>1, <1>t DEF TypeOK
    <3>6. iter' > 0 /\ iter' + Len(ctrlq') = iter + Len(ctrlq)
      BY <3>1, <3>2, <1>t DEF TypeOK
    <3>. QED
      BY <3>3, <3>4, <3>5, <3>6
  <2>4. CASE DblLookup \/ DblLock \/ DblTest \/ DblCall \/ DblUnlock
    <3>1. /\ UNCHANGED <<flag, spc, ctrlq, seen, more, iter>>
          /\ dpc \in {"lookup", "lock", "test", "call", "unlock"}
          /\ dpc' \in {"lock", "test", "call", "unlock", "loop"}
      BY <2>4 DEF DblLookup, DblLock, DblTest, DblCall, DblUnlock
    <3>2. dpc = "lookup" \/ Using => iter > 0
      BY <1>t, <3>1 DEF DoorbellInv, Using
    <3>. QED
      BY <3>1, <3>2 DEF Using
  <2>5. CASE DblEnd
    BY <2>5, <1>t DEF DblEnd, TypeOK
  <2>. QED
    BY <1>3, <2>1, <2>2, <2>3, <2>4, <2>5 DEF DoorbellStep
<1>4. CASE UNCHANGED vars
  BY <1>4 DEF vars
<1>. QED
  BY <1>1, <1>2, <1>3, <1>4 DEF Next

(* Whatever the length of the control queue and the limit of iterations, an *)
(* error is left behind without a doorbell only by a drain that stopped at  *)
(* its limit, and never if the queue holds no more than the limit.          *)
THEOREM ClientsDoorbellPending == Spec => []DoorbellPending
<1>1. Init => PendingInv
  BY DEF Init, PendingInv
<1>2. ClientsInv /\ PendingInv => DoorbellPending
  <2> SUFFICES ASSUME ClientsInv, PendingInv, dpc = "idle", ctrlq # <<>>, ~flag
               PROVE  spc = "ring" \/ StoppedShort
    BY DEF DoorbellPending
  <2>. QED
    BY DEF PendingInv, ClientsInv, TypeOK
<1>. QED
  BY <1>1, <1>2, PendingStep, ClientsInvariance, PTL DEF Spec

-----------------------------------------------------------------------------

\* The objects of two threads are different, and an error under way makes the
\* client that the doorbell works on belong to a thread that is settled.
LEMMA DoorbellClient ==
  ASSUME ClientsInv, CallbackInv, Using
  PROVE  \E t \in Threads : /\ handle[t] = dobj /\ obj[dobj].id = did
                            /\ pc[t] \in {"idle", "drop_cb", "drop_data", "unlock"}
<1>1. ErrorUnderWay(did) /\ did \in Ids
  BY DEF CallbackInv, ErrorUnderWay
<1>. QED
  BY <1>1 DEF CallbackInv, Settled, ClientsInv, RegistryInv

\* A thread that sets up or tears down its callback has no error under way.
LEMMA NotSettled ==
  ASSUME ClientsInv, CallbackInv, NEW t \in Threads, handle[t] # Null,
         pc[t] \notin {"idle", "drop_cb", "drop_data", "unlock"}
  PROVE  ~ErrorUnderWay(obj[handle[t]].id) /\ ~(Using /\ dobj = handle[t])
<1>1. ASSUME NEW s \in Threads, handle[s] # Null, obj[handle[s]].id = obj[handle[t]].id
      PROVE  s = t
  BY <1>1 DEF ClientsInv, TypeOK, RegistryInv, Has
<1>2. obj[handle[t]].id \in Ids
  BY DEF ClientsInv, RegistryInv
<1>3. ~ErrorUnderWay(obj[handle[t]].id)
  BY <1>1, <1>2 DEF CallbackInv, Settled
<1>4. ASSUME Using, dobj = handle[t] PROVE FALSE
  BY <1>4, <1>1, DoorbellClient, ClientsAssumption
<1>. QED
  BY <1>3, <1>4

\* A thread stores to its own client: what must hold of that client after it.
LEMMA ObjectStep ==
  ASSUME ClientsInv, CallbackInv, NEW t \in Threads, handle[t] # Null,
         UNCHANGED <<clients, handle, cur, waiting, ctrlq, dpc, did, dobj, ddata>>,
         \A s \in Threads : s # t => pc'[s] = pc[s] /\ arg'[s] = arg[s],
         \A x \in Objects : x # handle[t] => obj'[x] = obj[x],
         obj'[handle[t]].id = obj[handle[t]].id,
         \/ pc'[t] \in {"idle", "drop_cb", "drop_data", "unlock"}
         \/ ~ErrorUnderWay(obj[handle[t]].id),
         pc'[t] \notin {"id", "init"},
         pc'[t] \in {"drop_cb", "drop_data", "unlock"} => obj'[handle[t]].lock = t,
         Whole(t)',
         dobj = handle[t] => dpc \notin {"test", "call", "unlock"}
  PROVE  CallbackInv'
<1>h. /\ \A s \in Threads : handle[s] # Null => handle[s] \in Objects
      /\ \A s \in Threads : handle[s] # Null /\ handle[s] = handle[t] => s = t
      /\ Using => dobj \in Objects
  BY DEF ClientsInv, TypeOK, RegistryInv, Has, DoorbellInv
<1>1. ASSUME NEW id \in Ids, ErrorUnderWay(id)' PROVE Settled(id)'
  <2>1. ErrorUnderWay(id)
    BY <1>1 DEF ErrorUnderWay
  <2>2. PICK s \in Threads : /\ handle[s] # Null /\ obj[handle[s]].id = id
                             /\ pc[s] \in {"idle", "drop_cb", "drop_data", "unlock"}
    BY <2>1 DEF CallbackInv, Settled
  <2>. QED
    BY <2>1, <2>2, <1>h DEF Settled
<1>2. /\ Using' => did' \in Ids /\ dobj' = clients'[did']
      /\ (dpc \in {"test", "call", "unlock"})' => (obj[dobj].lock = Doorbell)'
      /\ (dpc = "call")' => (obj[dobj].cb /\ ddata # Null /\ ddata = obj[dobj].data)'
  BY <1>h DEF CallbackInv, Using
<1>3. \A s \in Threads : pc'[s] \in {"drop_cb", "drop_data", "unlock"}
       => obj'[handle'[s]].lock = s
  BY <1>h DEF CallbackInv, ClientsInv, RegistryInv
<1>4. ASSUME NEW s \in Threads, handle'[s] # Null PROVE Whole(s)'
  BY <1>4, <1>h DEF CallbackInv, Whole
<1>5. ASSUME NEW s \in Threads, pc'[s] \in {"id", "init"} PROVE ~obj'[cur'[s]].cb
  <2>1. s # t /\ pc[s] \in {"id", "init"} /\ cur[s] \in Objects /\ cur[s] # handle[t]
    BY <1>5, <1>h DEF ClientsInv, TypeOK, RegistryInv, Has
  <2>. QED
    BY <2>1 DEF CallbackInv
<1>. QED
  BY <1>1, <1>2, <1>3, <1>4, <1>5 DEF CallbackInv

LEMMA CallbackStep ==
  ASSUME Disciplined
  PROVE  ClientsInv /\ CallbackInv /\ [Next]_vars => CallbackInv'
<1> SUFFICES ASSUME ClientsInv, CallbackInv, [Next]_vars
             PROVE  CallbackInv'
  OBVIOUS
<1> USE ClientsAssumption DEF Goto, svars, dvars, tvars, Doorbell
<1>i. TypeOK /\ DoorbellInv /\ RegistryInv
  BY DEF ClientsInv
<1>c. \A o \in Objects : obj[o] \in Client
  BY <1>i DEF TypeOK
<1>u. Using => \E t \in Threads : /\ handle[t] = dobj /\ obj[dobj].id = did
                            /\ pc[t] \in {"idle", "drop_cb", "drop_data", "unlock"}
  BY DoorbellClient
<1>1. ASSUME NEW t \in Threads, ThreadStep(t) PROVE CallbackInv'
  <2>1. ASSUME NEW id \in Ids, NEW o \in Objects, Claim(t, id, o) PROVE CallbackInv'
    <3> USE <2>1 DEF Claim
    <3>1. \A s \in Threads : handle[s] # o /\ cur[s] # o
      BY <1>i DEF TypeOK, RegistryInv
    <3>2. /\ \A x \in Objects : x # o => obj'[x] = obj[x]
          /\ ~obj'[o].cb /\ cur'[t] = o
          /\ \A s \in Threads : s # t => pc'[s] = pc[s] /\ cur'[s] = cur[s]
          /\ handle[t] = Null /\ pc'[t] = "id"
      BY <1>i DEF TypeOK, Fresh
    <3>3. Using => dobj # o
      BY <1>u, <3>1
    <3>4. Using => did # id
      BY <1>i DEF CallbackInv, DoorbellInv, Using
    <3>5. \A x \in Ids : ErrorUnderWay(x)' => Settled(x)'
      BY <3>1, <3>2, <1>i DEF CallbackInv, ErrorUnderWay, Settled, TypeOK
    <3>6. \A s \in Threads : handle'[s] # Null => Whole(s)'
      BY <3>1, <3>2, <1>i DEF CallbackInv, Whole, TypeOK
    <3>7. \A s \in Threads : pc'[s] \in {"id", "init"} => ~obj'[cur'[s]].cb
      BY <3>1, <3>2, <1>i DEF CallbackInv, TypeOK, RegistryInv
    <3>8. \A s \in Threads : pc'[s] \in {"drop_cb", "drop_data", "unlock"}
           => obj'[handle'[s]].lock = s
      BY <3>1, <3>2, <1>i DEF CallbackInv, TypeOK, RegistryInv
    <3>9. Using => did \in Ids /\ dobj = clients'[did]
      BY <3>4, <1>i DEF CallbackInv, TypeOK
    <3>. QED
      BY <3>2, <3>3, <3>5, <3>6, <3>7, <3>8, <3>9, <1>i DEF CallbackInv, Using,
         DoorbellInv
  <2>2. CASE Deregister(t)
    <3> USE <2>2 DEF Deregister
    <3>1. ~ErrorUnderWay(obj[handle[t]].id)
      BY DEF MayChange
    <3>2. /\ \A s \in Threads : s # t => /\ pc'[s] = pc[s] /\ cur'[s] = cur[s]
                                          /\ handle'[s] = handle[s]
          /\ handle'[t] = Null /\ pc'[t] = "clear"
      BY <1>i DEF TypeOK
    <3>3. \A x \in Ids : ErrorUnderWay(x)' => Settled(x)'
      <4>1. \A x \in Ids : ErrorUnderWay(x)' => ErrorUnderWay(x)
        BY DEF ErrorUnderWay
      <4>. QED
        BY <3>1, <3>2, <4>1 DEF CallbackInv, Settled
    <3>4. \A s \in Threads : handle'[s] # Null => Whole(s)'
      BY <3>2 DEF CallbackInv, Whole
    <3>5. \A s \in Threads : pc'[s] \in {"id", "init"} => ~obj'[cur'[s]].cb
      BY <3>2 DEF CallbackInv
    <3>6. \A s \in Threads : pc'[s] \in {"drop_cb", "drop_data", "unlock"}
           => obj'[handle'[s]].lock = s
      BY <3>2 DEF CallbackInv
    <3>. QED
      BY <3>3, <3>4, <3>5, <3>6 DEF CallbackInv, Using
  <2>3. CASE \E d \in Data : RegisterCb(t, d)
    BY <2>3, <1>i, <1>u DEF RegisterCb, MayChange, CallbackInv, Settled, Whole,
       ErrorUnderWay, Using, TypeOK, RegistryInv, Has
  <2>4. CASE DeregisterCb(t)
    <3> USE <2>4 DEF DeregisterCb
    <3>1. handle[t] # Null /\ handle[t] \in Objects
      BY <1>i DEF TypeOK, RegistryInv
    <3>2. obj[handle[t]] \in Client
      BY <3>1, <1>c
    <3>3. /\ \A s \in Threads : s # t => pc'[s] = pc[s] /\ arg'[s] = arg[s]
          /\ \A x \in Objects : x # handle[t] => obj'[x] = obj[x]
          /\ obj'[handle[t]].id = obj[handle[t]].id /\ pc'[t] \notin {"id", "init"}
      BY <3>1, <3>2, <1>i DEF TypeOK, Client
    <3>4. \/ pc'[t] \in {"idle", "drop_cb", "drop_data", "unlock"}
          \/ ~ErrorUnderWay(obj[handle[t]].id)
      BY <3>1, <1>i, NotSettled DEF TypeOK
    <3>5. pc'[t] \in {"drop_cb", "drop_data", "unlock"} => obj'[handle[t]].lock = t
      BY <3>1, <3>2, <1>i DEF TypeOK, Client, CallbackInv
    <3>6. Whole(t)'
      BY <3>1, <3>2, <1>i DEF TypeOK, Client, CallbackInv, Whole
    <3>7. dobj = handle[t] => dpc \notin {"test", "call", "unlock"}
      BY <3>1, NotSettled DEF CallbackInv, Using
    <3>. QED
      BY <3>1, <3>3, <3>4, <3>5, <3>6, <3>7, ObjectStep
  <2>5. CASE StartWaiting(t) \/ StopWaiting(t)
    BY <2>5, <1>i DEF StartWaiting, StopWaiting, CallbackInv, Settled, Whole,
       ErrorUnderWay, Using, TypeOK
  <2>16. CASE StoreId(t)
    <3> USE <2>16 DEF StoreId
    <3>1. /\ handle[t] = Null /\ cur[t] \in Objects
          /\ \A s \in Threads : handle[s] # cur[t]
      BY <1>i DEF TypeOK, RegistryInv, Has
    <3>2. /\ \A x \in Objects : x # cur[t] => obj'[x] = obj[x]
          /\ ~obj'[cur[t]].cb
      BY <3>1, <1>i, <1>c DEF TypeOK, Client, CallbackInv
    <3>3. Using => dobj # cur[t]
      BY <1>u, <3>1
    <3>4. /\ \A s \in Threads : s # t => pc'[s] = pc[s]
          /\ pc'[t] = "init"
      BY <1>i DEF TypeOK
    <3>5. \A id \in Ids : ErrorUnderWay(id)' => Settled(id)'
      BY <3>1, <3>2, <3>4, <1>i DEF CallbackInv, ErrorUnderWay, Settled, TypeOK
    <3>6. \A s \in Threads : handle'[s] # Null => Whole(s)'
      BY <3>1, <3>2, <3>4, <1>i DEF CallbackInv, Whole, TypeOK
    <3>7. \A s \in Threads : pc'[s] \in {"id", "init"} => ~obj'[cur'[s]].cb
      BY <3>2, <3>4, <1>i DEF CallbackInv, TypeOK, RegistryInv, Has
    <3>8. \A s \in Threads : pc'[s] \in {"drop_cb", "drop_data", "unlock"}
           => obj'[handle'[s]].lock = s
      BY <3>1, <3>2, <3>4, <1>i DEF CallbackInv, TypeOK, RegistryInv
    <3>. QED
      BY <3>2, <3>3, <3>5, <3>6, <3>7, <3>8, <1>i DEF CallbackInv, Using, DoorbellInv
  <2>7. CASE RegisterDone(t)
    <3> USE <2>7 DEF RegisterDone
    <3>1. /\ handle[t] = Null /\ cur[t] \in Objects
          /\ \A s \in Threads : handle[s] # cur[t]
      BY <1>i DEF TypeOK, RegistryInv, Has
    <3>2. /\ \A x \in Objects : x # cur[t] => obj'[x] = obj[x]
          /\ ~obj'[cur[t]].cb
      BY <3>1, <1>i, <1>c DEF TypeOK, Client, CallbackInv
    <3>3. Using => dobj # cur[t]
      BY <1>u, <3>1
    <3>4. /\ \A s \in Threads : s # t => handle'[s] = handle[s] /\ pc'[s] = pc[s]
                                           /\ cur'[s] = cur[s]
          /\ handle'[t] = cur[t] /\ pc'[t] = "idle"
      BY <1>i DEF TypeOK
    <3>5. \A id \in Ids : ErrorUnderWay(id)' => Settled(id)'
      BY <3>1, <3>2, <3>4, <1>i DEF CallbackInv, ErrorUnderWay, Settled, TypeOK
    <3>6. \A s \in Threads : handle'[s] # Null => Whole(s)'
      BY <3>1, <3>2, <3>4, <1>i DEF CallbackInv, Whole, TypeOK
    <3>7. \A s \in Threads : pc'[s] \in {"id", "init"} => ~obj'[cur'[s]].cb
      BY <3>2, <3>4, <1>i DEF CallbackInv, TypeOK, RegistryInv, Has
    <3>8. \A s \in Threads : pc'[s] \in {"drop_cb", "drop_data", "unlock"}
           => obj'[handle'[s]].lock = s
      BY <3>1, <3>2, <3>4, <1>i DEF CallbackInv, TypeOK, RegistryInv
    <3>9. /\ UNCHANGED <<clients, dpc, did, dobj, ddata>>
          /\ Using => obj'[dobj] = obj[dobj]
      BY <3>2, <3>3, <1>i DEF DoorbellInv
    <3> HIDE <2>7 DEF RegisterDone
    <3>. QED
      BY <3>5, <3>6, <3>7, <3>8, <3>9 DEF CallbackInv, Using
  <2>8. CASE RegisterFails(t)
    BY <2>8, <1>i DEF RegisterFails, CallbackInv, Settled, Whole, ErrorUnderWay,
       Using, TypeOK, RegistryInv
  <2>9. CASE CleanupClear(t)
    BY <2>9, <1>i, <1>u DEF CleanupClear, CallbackInv, Settled, Whole, ErrorUnderWay,
       Using, TypeOK, RegistryInv, Has
  <2>10. CASE CleanupFree(t)
    <3> USE <2>10 DEF CleanupFree
    <3>1. /\ handle[t] = Null /\ cur[t] \in Objects
          /\ \A s \in Threads : handle[s] # cur[t]
      BY <1>i DEF TypeOK, RegistryInv, Has
    <3>2. \A x \in Objects : x # cur[t] => obj'[x] = obj[x]
      BY <3>1, <1>i DEF TypeOK
    <3>3. Using => dobj # cur[t]
      BY <1>u, <3>1
    <3>4. /\ \A s \in Threads : s # t => pc'[s] = pc[s] /\ cur'[s] = cur[s]
          /\ pc'[t] = "idle"
      BY <1>i DEF TypeOK
    <3>5. \A id \in Ids : ErrorUnderWay(id)' => Settled(id)'
      BY <3>1, <3>2, <3>4, <1>i DEF CallbackInv, ErrorUnderWay, Settled, TypeOK
    <3>6. \A s \in Threads : handle'[s] # Null => Whole(s)'
      BY <3>1, <3>2, <3>4, <1>i DEF CallbackInv, Whole, TypeOK
    <3>7. \A s \in Threads : pc'[s] \in {"id", "init"} => ~obj'[cur'[s]].cb
      BY <3>2, <3>4, <1>i DEF CallbackInv, TypeOK, RegistryInv, Has
    <3>8. \A s \in Threads : pc'[s] \in {"drop_cb", "drop_data", "unlock"}
           => obj'[handle'[s]].lock = s
      BY <3>1, <3>2, <3>4, <1>i DEF CallbackInv, TypeOK, RegistryInv
    <3>. QED
      BY <3>2, <3>3, <3>5, <3>6, <3>7, <3>8, <1>i DEF CallbackInv, Using, DoorbellInv
  <2>11. CASE StoreData(t)
    <3> USE <2>11 DEF StoreData
    <3>1. handle[t] # Null /\ handle[t] \in Objects
      BY <1>i DEF TypeOK, RegistryInv
    <3>2. obj[handle[t]] \in Client
      BY <3>1, <1>c
    <3>3. /\ \A s \in Threads : s # t => pc'[s] = pc[s] /\ arg'[s] = arg[s]
          /\ \A x \in Objects : x # handle[t] => obj'[x] = obj[x]
          /\ obj'[handle[t]].id = obj[handle[t]].id /\ pc'[t] \notin {"id", "init"}
      BY <3>1, <3>2, <1>i DEF TypeOK, Client
    <3>4. \/ pc'[t] \in {"idle", "drop_cb", "drop_data", "unlock"}
          \/ ~ErrorUnderWay(obj[handle[t]].id)
      BY <3>1, <1>i, NotSettled DEF TypeOK
    <3>5. pc'[t] \in {"drop_cb", "drop_data", "unlock"} => obj'[handle[t]].lock = t
      BY <3>1, <3>2, <1>i DEF TypeOK, Client, CallbackInv
    <3>6. Whole(t)'
      BY <3>1, <3>2, <1>i DEF TypeOK, Client, CallbackInv, Whole
    <3>7. dobj = handle[t] => dpc \notin {"test", "call", "unlock"}
      BY <3>1, NotSettled DEF CallbackInv, Using
    <3>. QED
      BY <3>1, <3>3, <3>4, <3>5, <3>6, <3>7, ObjectStep
  <2>12. CASE StoreCb(t)
    <3> USE <2>12 DEF StoreCb
    <3>1. handle[t] # Null /\ handle[t] \in Objects
      BY <1>i DEF TypeOK, RegistryInv
    <3>2. obj[handle[t]] \in Client
      BY <3>1, <1>c
    <3>3. /\ \A s \in Threads : s # t => pc'[s] = pc[s] /\ arg'[s] = arg[s]
          /\ \A x \in Objects : x # handle[t] => obj'[x] = obj[x]
          /\ obj'[handle[t]].id = obj[handle[t]].id /\ pc'[t] \notin {"id", "init"}
      BY <3>1, <3>2, <1>i DEF TypeOK, Client
    <3>4. \/ pc'[t] \in {"idle", "drop_cb", "drop_data", "unlock"}
          \/ ~ErrorUnderWay(obj[handle[t]].id)
      BY <3>1, <1>i, NotSettled DEF TypeOK
    <3>5. pc'[t] \in {"drop_cb", "drop_data", "unlock"} => obj'[handle[t]].lock = t
      BY <3>1, <3>2, <1>i DEF TypeOK, Client, CallbackInv
    <3>6. Whole(t)'
      BY <3>1, <3>2, <1>i DEF TypeOK, Client, CallbackInv, Whole
    <3>7. dobj = handle[t] => dpc \notin {"test", "call", "unlock"}
      BY <3>1, NotSettled DEF CallbackInv, Using
    <3>. QED
      BY <3>1, <3>3, <3>4, <3>5, <3>6, <3>7, ObjectStep
  <2>13. CASE DropCb(t)
    <3> USE <2>13 DEF DropCb
    <3>1. handle[t] # Null /\ handle[t] \in Objects
      BY <1>i DEF TypeOK, RegistryInv
    <3>2. obj[handle[t]] \in Client
      BY <3>1, <1>c
    <3>3. /\ \A s \in Threads : s # t => pc'[s] = pc[s] /\ arg'[s] = arg[s]
          /\ \A x \in Objects : x # handle[t] => obj'[x] = obj[x]
          /\ obj'[handle[t]].id = obj[handle[t]].id /\ pc'[t] \notin {"id", "init"}
      BY <3>1, <3>2, <1>i DEF TypeOK, Client
    <3>4. \/ pc'[t] \in {"idle", "drop_cb", "drop_data", "unlock"}
          \/ ~ErrorUnderWay(obj[handle[t]].id)
      BY <3>1, <1>i, NotSettled DEF TypeOK
    <3>5. pc'[t] \in {"drop_cb", "drop_data", "unlock"} => obj'[handle[t]].lock = t
      BY <3>1, <3>2, <1>i DEF TypeOK, Client, CallbackInv
    <3>6. Whole(t)'
      BY <3>1, <3>2, <1>i DEF TypeOK, Client, CallbackInv, Whole
    <3>7. dobj = handle[t] => dpc \notin {"test", "call", "unlock"}
      BY <3>1, NotSettled DEF CallbackInv, Using
    <3>. QED
      BY <3>1, <3>3, <3>4, <3>5, <3>6, <3>7, ObjectStep
  <2>14. CASE DropData(t)
    <3> USE <2>14 DEF DropData
    <3>1. handle[t] # Null /\ handle[t] \in Objects
      BY <1>i DEF TypeOK, RegistryInv
    <3>2. obj[handle[t]] \in Client
      BY <3>1, <1>c
    <3>3. /\ \A s \in Threads : s # t => pc'[s] = pc[s] /\ arg'[s] = arg[s]
          /\ \A x \in Objects : x # handle[t] => obj'[x] = obj[x]
          /\ obj'[handle[t]].id = obj[handle[t]].id /\ pc'[t] \notin {"id", "init"}
      BY <3>1, <3>2, <1>i DEF TypeOK, Client
    <3>4. \/ pc'[t] \in {"idle", "drop_cb", "drop_data", "unlock"}
          \/ ~ErrorUnderWay(obj[handle[t]].id)
      BY <3>1, <1>i, NotSettled DEF TypeOK
    <3>5. pc'[t] \in {"drop_cb", "drop_data", "unlock"} => obj'[handle[t]].lock = t
      BY <3>1, <3>2, <1>i DEF TypeOK, Client, CallbackInv
    <3>6. Whole(t)'
      BY <3>1, <3>2, <1>i DEF TypeOK, Client, CallbackInv, Whole
    <3>7. dobj = handle[t] => dpc \notin {"test", "call", "unlock"}
      BY <3>1, NotSettled DEF CallbackInv, Using
    <3>. QED
      BY <3>1, <3>3, <3>4, <3>5, <3>6, <3>7, ObjectStep
  <2>15. CASE DeregisterCbUnlock(t)
    <3> USE <2>15 DEF DeregisterCbUnlock
    <3>1. handle[t] # Null /\ handle[t] \in Objects
      BY <1>i DEF TypeOK, RegistryInv
    <3>2. obj[handle[t]] \in Client
      BY <3>1, <1>c
    <3>3. /\ \A s \in Threads : s # t => pc'[s] = pc[s] /\ arg'[s] = arg[s]
          /\ \A x \in Objects : x # handle[t] => obj'[x] = obj[x]
          /\ obj'[handle[t]].id = obj[handle[t]].id /\ pc'[t] \notin {"id", "init"}
      BY <3>1, <3>2, <1>i DEF TypeOK, Client
    <3>4. \/ pc'[t] \in {"idle", "drop_cb", "drop_data", "unlock"}
          \/ ~ErrorUnderWay(obj[handle[t]].id)
      BY <3>1, <1>i, NotSettled DEF TypeOK
    <3>5. pc'[t] \in {"drop_cb", "drop_data", "unlock"} => obj'[handle[t]].lock = t
      BY <3>1, <3>2, <1>i DEF TypeOK, Client, CallbackInv
    <3>6. Whole(t)'
      BY <3>1, <3>2, <1>i DEF TypeOK, Client, CallbackInv, Whole
    <3>7. dobj = handle[t] => dpc \notin {"test", "call", "unlock"}
      BY <3>1, NotSettled DEF CallbackInv, Using
    <3>. QED
      BY <3>1, <3>3, <3>4, <3>5, <3>6, <3>7, ObjectStep
  <2>. QED
    BY <1>1, <2>1, <2>2, <2>3, <2>4, <2>5, <2>7, <2>8, <2>9, <2>10, <2>11,
       <2>12, <2>13, <2>14, <2>15, <2>16 DEF ThreadStep, InCall
<1>2. CASE SvmStep
  <2>1. ASSUME NEW x \in Ids \union {BadId}, SvmSend(x), NEW id \in Ids, ErrorUnderWay(id)'
        PROVE  ErrorUnderWay(id)
    <3>1. CASE x = id
      BY <2>1, <3>1 DEF SvmSend, ErrorUnderWay
    <3>2. CASE x # id
      <4>1. ASSUME NEW k \in 1 .. Len(ctrlq'), ctrlq'[k] = id
            PROVE  k \in 1 .. Len(ctrlq) /\ ctrlq[k] = id
        BY <2>1, <3>2, <4>1, <1>i DEF SvmSend, TypeOK
      <4>. QED
        BY <2>1, <4>1 DEF SvmSend, ErrorUnderWay
    <3>. QED
      BY <3>1, <3>2
  <2>2. ASSUME NEW id \in Ids, ErrorUnderWay(id)' PROVE ErrorUnderWay(id)
    BY <1>2, <2>1, <2>2 DEF SvmStep, SvmRing, ErrorUnderWay
  <2>3. UNCHANGED <<clients, obj, tvars, dvars>>
    BY <1>2 DEF SvmStep, SvmRing, SvmSend
  <2>. QED
    BY <2>2, <2>3 DEF CallbackInv, Settled, Whole, Using
<1>3. CASE DoorbellStep
  <2>1. CASE DblTake
    <3> USE <2>1 DEF DblTake
    <3>1. \A id \in Ids : ErrorUnderWay(id)' => ErrorUnderWay(id)
      BY <1>i DEF ErrorUnderWay, TypeOK, DoorbellInv
    <3>2. \A id \in Ids : Settled(id) => Settled(id)'
      BY DEF Settled
    <3>3. \A s \in Threads : Whole(s) => Whole(s)'
      BY DEF Whole
    <3>. QED
      BY <3>1, <3>2, <3>3 DEF CallbackInv, Using
  <2>2. CASE DblLookup
    BY <2>2, <1>i DEF DblLookup, CallbackInv, Settled, Whole, ErrorUnderWay, Using,
       TypeOK, DoorbellInv
  <2>3. CASE DblLock
    <3> USE <2>3 DEF DblLock
    <3>1. dobj \in Objects /\ obj[dobj].lock = Null
      BY <1>i DEF DoorbellInv, Using
    <3>2. /\ \A x \in Objects : x # dobj => obj'[x] = obj[x]
          /\ obj'[dobj].id = obj[dobj].id /\ obj'[dobj].cb = obj[dobj].cb
          /\ obj'[dobj].data = obj[dobj].data /\ obj'[dobj].lock = Doorbell
      BY <3>1, <1>i, <1>c DEF TypeOK, Client
    <3>3. \A id \in Ids : ErrorUnderWay(id)' => Settled(id)'
      <4>1. \A id \in Ids : ErrorUnderWay(id)' => ErrorUnderWay(id)
        BY DEF ErrorUnderWay
      <4>2. \A id \in Ids : Settled(id) => Settled(id)'
        BY <3>2, <1>i DEF Settled, TypeOK
      <4>. QED
        BY <4>1, <4>2 DEF CallbackInv
    <3>4. \A s \in Threads : handle'[s] # Null => Whole(s)'
      BY <3>2, <1>i DEF CallbackInv, Whole, TypeOK
    <3>5. \A s \in Threads : pc'[s] \in {"id", "init"} => ~obj'[cur'[s]].cb
      BY <3>2, <1>i DEF CallbackInv, TypeOK, RegistryInv
    <3>6. \A s \in Threads : pc'[s] \in {"drop_cb", "drop_data", "unlock"}
           => obj'[handle'[s]].lock = s
      BY <3>1, <3>2, <1>i DEF CallbackInv, TypeOK, RegistryInv
    <3>. QED
      BY <3>2, <3>3, <3>4, <3>5, <3>6 DEF CallbackInv, Using
  <2>4. CASE DblTest
    BY <2>4, <1>i, <1>c, <1>u DEF DblTest, CallbackInv, Settled, Whole,
       ErrorUnderWay, Using, TypeOK, DoorbellInv, RegistryInv, Has, Client
  <2>5. CASE DblUnlock
    <3> USE <2>5 DEF DblUnlock
    <3>1. dobj \in Objects /\ obj[dobj].lock = Doorbell
      BY <1>i DEF CallbackInv, DoorbellInv, Using
    <3>2. /\ \A x \in Objects : x # dobj => obj'[x] = obj[x]
          /\ obj'[dobj].id = obj[dobj].id /\ obj'[dobj].cb = obj[dobj].cb
          /\ obj'[dobj].data = obj[dobj].data
      BY <3>1, <1>i, <1>c DEF TypeOK, Client
    <3>3. \A id \in Ids : ErrorUnderWay(id)' => Settled(id)'
      <4>1. \A id \in Ids : ErrorUnderWay(id)' => ErrorUnderWay(id)
        BY DEF ErrorUnderWay
      <4>2. \A id \in Ids : Settled(id) => Settled(id)'
        BY <3>2, <1>i DEF Settled, TypeOK
      <4>. QED
        BY <4>1, <4>2 DEF CallbackInv
    <3>4. \A s \in Threads : handle'[s] # Null => Whole(s)'
      BY <3>2, <1>i DEF CallbackInv, Whole, TypeOK
    <3>5. \A s \in Threads : pc'[s] \in {"id", "init"} => ~obj'[cur'[s]].cb
      BY <3>2, <1>i DEF CallbackInv, TypeOK, RegistryInv
    <3>6. \A s \in Threads : pc'[s] \in {"drop_cb", "drop_data", "unlock"}
           => obj'[handle'[s]].lock = s
      BY <3>1, <3>2, <1>i DEF CallbackInv, TypeOK, RegistryInv
    <3>. QED
      BY <3>3, <3>4, <3>5, <3>6 DEF CallbackInv, Using
  <2>6. CASE DblStart \/ DblIndexes \/ DblCall \/ DblEnd
    <3>1. /\ UNCHANGED <<clients, obj, tvars, waiting, did, dobj>>
          /\ ctrlq' = ctrlq /\ dpc' # "test" /\ dpc' # "call" /\ ~(dpc' = "lock")
          /\ dpc' = "unlock" => dpc = "call"
      BY <2>6 DEF DblStart, DblIndexes, DblCall, DblEnd, svars
    <3>2. \A id \in Ids : ErrorUnderWay(id)' => Settled(id)'
      <4>1. \A id \in Ids : ErrorUnderWay(id)' => ErrorUnderWay(id)
        BY <3>1 DEF ErrorUnderWay
      <4>2. \A id \in Ids : Settled(id) => Settled(id)'
        BY <3>1 DEF Settled, tvars
      <4>. QED
        BY <4>1, <4>2 DEF CallbackInv
    <3>3. \A s \in Threads : Whole(s) => Whole(s)'
      BY <3>1 DEF Whole, tvars
    <3>. QED
      BY <3>1, <3>2, <3>3 DEF CallbackInv, Using, tvars
  <2>. QED
    BY <1>3, <2>1, <2>2, <2>3, <2>4, <2>5, <2>6 DEF DoorbellStep
<1>4. CASE UNCHANGED vars
  BY <1>4 DEF vars, CallbackInv, Settled, Whole, ErrorUnderWay, Using
<1>. QED
  BY <1>1, <1>2, <1>3, <1>4 DEF Next

(* If callers keep the rule, no error finds its client freed, set up again  *)
(* or without its callback, however the doorbell interleaves with them.     *)
THEOREM ClientsCallbackSafe ==
  ASSUME Disciplined
  PROVE  Spec => []CallbackSafe
<1>1. Init => CallbackInv
  BY ClientsAssumption DEF Init, CallbackInv, ErrorUnderWay, Using, Whole
<1>2. ClientsInv /\ CallbackInv => CallbackSafe
  <2> SUFFICES ASSUME ClientsInv, CallbackInv PROVE CallbackSafe
    OBVIOUS
  <2>1. ASSUME Using PROVE obj[dobj].alloc /\ obj[dobj].ready /\ obj[dobj].id = did
    <3>1. PICK t \in Threads : handle[t] = dobj /\ obj[dobj].id = did
      BY <2>1, DoorbellClient
    <3>2. dobj \in Objects
      BY <2>1 DEF ClientsInv, DoorbellInv
    <3>. QED
      BY <3>1, <3>2, ClientsAssumption DEF ClientsInv, RegistryInv
  <2>. QED
    BY <2>1 DEF CallbackInv, CallbackSafe
<1>. QED
  BY <1>1, <1>2, CallbackStep, ClientsInvariance, PTL DEF Spec
=============================================================================
