------------------------- MODULE RuntimeHostProofs -------------------------
(***************************************************************************)
(* What the host of the runtime resources promises the requests, for every *)
(* set of requests and ports, every number of generations, and whatever    *)
(* fails or is cancelled.                                                   *)
(*                                                                         *)
(* The inductive invariant HInv has one part per question: who stands in   *)
(* the line and with which snapshot (LineInv), who holds the lock          *)
(* (LockInv), what the phase of its work says of the generations           *)
(* (PhaseInv), which of them are open (OpenInv), and that the count of     *)
(* leases is the number of their holders (CountInv), without which the end *)
(* of a drain would say nothing.                                           *)
(***************************************************************************)
EXTENDS AgentPlatform, FiniteSetTheorems, TLAPS

Full(g)  == res[g] = [state |-> "running", open |-> PortSet]
Starting == {"start", "unwind", "discard"}
Handing  == {"drain", "retire"}

\* Whoever has asked is bound to a published snapshot; a chat request in the
\* line is bound to one as new as everybody's before it and as the active one.
LineInv ==
  /\ \A a \in Actors : pc[a] # "idle" => snap[a] \in 1 .. published
  /\ \A a \in Actors : pc[a] = "bound" => a \in Confirmers
  /\ \A a \in Actors : pc[a] = "leased" => a \in Requests
  /\ \A i \in DOMAIN queue : pc[queue[i]] # "idle"
  /\ \A i, j \in DOMAIN queue :
       i < j /\ queue[j] \in Chats => snap[queue[i]] <= snap[queue[j]]
  /\ \A i \in DOMAIN queue : queue[i] \in Chats => active <= snap[queue[i]]
  /\ active <= published

\* Work in progress belongs to the head of the line and to its snapshot.
LockInv ==
  /\ op.phase = "none" => op = NoOp
  /\ op.phase # "none" => queue # <<>>
  /\ op.phase \in Starting \cup Handing =>
       Head(queue) # Shutdown /\ op.cand = snap[Head(queue)]

PhaseInv ==
  /\ op.phase \in Starting => op.prev = active /\ active < op.cand
  /\ op.phase \in Handing => op.cand = active /\ op.prev \in retired /\ op.prev < op.cand
  /\ op.phase = "start" => res[op.cand].open \cup op.todo = PortSet
  /\ op.phase \in {"quiesce", "shut"} => active = None /\ op.cand = None
  /\ op.phase = "quiesce" /\ op.prev # None => op.prev \in op.rest
  /\ op.phase = "shut" => op.prev \in Gens
  /\ mstate = "created" => active = None
  /\ closed => active = None /\ retired = {} /\ op.phase = "none"

\* The active generation is open, and so is the one it replaces until the last
\* lease on it is back; every lease is on one of the two.
OpenInv ==
  /\ active # None => Full(active)
  /\ op.phase = "drain" \/ (op.phase = "quiesce" /\ op.prev # None) => Full(op.prev)
  /\ \A r \in Requests : pc[r] = "leased" =>
       snap[r] = active \/ (op.phase \in {"drain", "quiesce"} /\ snap[r] = op.prev)
  /\ \A g \in Gens : res[g].open # {} => g \in {active, op.cand, op.prev} \cup retired

Holders(g) == {r \in Requests : pc[r] = "leased" /\ snap[r] = g}
CountInv   == \A g \in Gens : leases[g] = Cardinality(Holders(g))

HInv == HostTypeOK /\ LineInv /\ LockInv /\ PhaseInv /\ OpenInv /\ CountInv

-----------------------------------------------------------------------------
(* Counting leases. *)

\* A new state of a generation leaves every port as it was.
LEMMA StateSet ==
  ASSUME NEW f \in [Gens -> GenRecords], NEW g \in Gens,
         NEW st \in {"created", "starting", "running", "closing", "failed", "closed"}
  PROVE  /\ [f EXCEPT ![g].state = st] \in [Gens -> GenRecords]
         /\ \A h \in Gens : [f EXCEPT ![g].state = st][h].open = f[h].open
         /\ \A h \in Gens \ {g} : [f EXCEPT ![g].state = st][h] = f[h]
BY DEF GenRecords

\* The count holds as long as the holders are the same.
LEMMA CountSame ==
  ASSUME CountInv, UNCHANGED leases,
         \A r \in Requests : /\ (pc'[r] = "leased") <=> (pc[r] = "leased")
                             /\ pc[r] = "leased" => snap'[r] = snap[r]
  PROVE  CountInv'
<1>1. ASSUME NEW g \in Gens PROVE Holders(g)' = Holders(g)
  BY DEF Holders
<1>. QED
  BY <1>1 DEF CountInv

\* There are finitely many requests, so finitely many holders.
LEMMA HoldersFinite == ASSUME NEW g PROVE IsFiniteSet(Holders(g))
  BY HostAssumption, FS_Subset DEF Holders

\* One lease more, one holder more.
LEMMA CountEnter ==
  ASSUME HostTypeOK, CountInv, NEW r \in Requests, NEW g \in Gens,
         pc[r] # "leased", snap[r] = g, snap' = snap,
         pc' = [pc EXCEPT ![r] = "leased"], leases' = [leases EXCEPT ![g] = @ + 1]
  PROVE  CountInv'
<1>0. r \in Actors
  BY DEF Actors
<1>1. Holders(g)' = Holders(g) \cup {r} /\ r \notin Holders(g)
  BY <1>0 DEF Holders, HostTypeOK
<1>2. ASSUME NEW h \in Gens \ {g} PROVE Holders(h)' = Holders(h)
  BY <1>0, <1>2 DEF Holders, HostTypeOK
<1>3. Cardinality(Holders(g)') = Cardinality(Holders(g)) + 1
  BY <1>1, HoldersFinite, FS_AddElement
<1>. QED
  BY <1>2, <1>3 DEF CountInv, HostTypeOK

\* One lease less, one holder less.
LEMMA CountLeave ==
  ASSUME HostTypeOK, CountInv, NEW r \in Requests, pc[r] = "leased", snap[r] \in Gens,
         snap' = snap, pc' = [pc EXCEPT ![r] = "done"],
         leases' = [leases EXCEPT ![snap[r]] = @ - 1]
  PROVE  CountInv' /\ leases' \in [Gens -> Nat]
<1>0. r \in Actors
  BY DEF Actors
<1>1. Holders(snap[r])' = Holders(snap[r]) \ {r} /\ r \in Holders(snap[r])
  BY <1>0 DEF Holders, HostTypeOK
<1>2. ASSUME NEW h \in Gens \ {snap[r]} PROVE Holders(h)' = Holders(h)
  BY <1>0, <1>2 DEF Holders, HostTypeOK
<1>3. /\ Cardinality(Holders(snap[r])') = Cardinality(Holders(snap[r])) - 1
      /\ Cardinality(Holders(snap[r])') \in Nat
  BY <1>1, HoldersFinite, FS_RemoveElement, FS_Subset, FS_CardinalityType
<1>. QED
  BY <1>2, <1>3 DEF CountInv, HostTypeOK

\* A generation whose count is zero has no holder.
LEMMA NoneLeased ==
  ASSUME CountInv, NEW g \in Gens, leases[g] = 0, NEW r \in Requests, pc[r] = "leased"
  PROVE  snap[r] # g
<1>1. Holders(g) = {}
  BY HoldersFinite, FS_EmptySet DEF CountInv
<1>. QED
  BY <1>1 DEF Holders

-----------------------------------------------------------------------------
(* The line for the lock. *)

\* The order of the line does not change when its head leaves.
LEMMA HeadLeaves ==
  ASSUME HostTypeOK, LineInv, queue # <<>>, NEW v \in {"leased", "done"},
         v = "leased" => Head(queue) \in Requests,
         pc' = [pc EXCEPT ![Head(queue)] = v], queue' = Tail(queue),
         UNCHANGED <<snap, published>>,
         active' \in {active, None, snap[Head(queue)]}
  PROVE  LineInv' /\ queue' \in Seq(Actors) /\ pc' \in [Actors -> Places]
<1>1. /\ queue' \in Seq(Actors) /\ Len(queue') = Len(queue) - 1
      /\ \A i \in DOMAIN queue' : i + 1 \in DOMAIN queue /\ queue'[i] = queue[i + 1]
  BY DEF HostTypeOK
<1>2. 1 \in DOMAIN queue /\ Head(queue) = queue[1] /\ Head(queue) \in Actors
  BY DEF HostTypeOK
<1>3. DOMAIN queue' \subseteq Nat /\ \A i \in DOMAIN queue' : queue'[i] \in Actors /\ 1 < i + 1
  BY <1>1
<1>4. pc' \in [Actors -> Places]
  BY DEF HostTypeOK, Places
<1>5. \A a \in Actors : pc'[a] = pc[a] \/ (a = Head(queue) /\ pc'[a] = v)
  BY DEF HostTypeOK
<1>6. \A a \in Actors : pc'[a] # "idle" => snap'[a] \in 1 .. published'
  BY <1>2, <1>5 DEF LineInv
<1>7. \A a \in Actors : /\ pc'[a] = "bound" => a \in Confirmers
                        /\ pc'[a] = "leased" => a \in Requests
  BY <1>5 DEF LineInv
<1>8. \A i \in DOMAIN queue' : pc'[queue'[i]] # "idle"
  BY <1>1, <1>3, <1>5 DEF LineInv
<1>9. \A i, j \in DOMAIN queue' :
       i < j /\ queue'[j] \in Chats => snap'[queue'[i]] <= snap'[queue'[j]]
  <2>1. ASSUME NEW i \in DOMAIN queue', NEW j \in DOMAIN queue', i < j, queue'[j] \in Chats
        PROVE  snap[queue[i+1]] <= snap[queue[j+1]]
    <3>1. i + 1 < j + 1 /\ i+1 \in DOMAIN queue /\ j+1 \in DOMAIN queue /\ queue[j+1] \in Chats
      BY <1>1, <1>3, <2>1
    <3>. QED BY <3>1 DEF LineInv
  <2>. QED BY <2>1, <1>1
<1>10. \A i \in DOMAIN queue' : snap[queue'[i]] \in Nat
  BY <1>1, <1>3 DEF LineInv
<1>11. \A i \in DOMAIN queue' : queue'[i] \in Chats => active' <= snap'[queue'[i]]
  <2>1. ASSUME NEW i \in DOMAIN queue', queue'[i] \in Chats
        PROVE  active <= snap[queue'[i]] /\ snap[Head(queue)] <= snap[queue'[i]]
    BY <2>1, <1>1, <1>2, <1>3 DEF LineInv
  <2>. QED BY <2>1, <1>10 DEF None
<1>12. active' <= published'
  BY <1>2, <1>6 DEF LineInv, None, HostTypeOK, Gens
<1>. QED
  BY <1>1, <1>4, <1>6, <1>7, <1>8, <1>9, <1>11, <1>12 DEF LineInv

\* The line gets longer at its end, by a caller that was not in it.
LEMMA LineGrows ==
  ASSUME HostTypeOK, LineInv, NEW a \in Actors, queue' = Append(queue, a),
         NEW v \in {"idle", "bound"}, pc[a] = v, pc' = [pc EXCEPT ![a] = "waiting"],
         snap' = [snap EXCEPT ![a] = snap'[a]], snap'[a] \in 1 .. published,
         v = "bound" => snap'[a] = snap[a],
         a \in Chats => snap'[a] = published,
         UNCHANGED <<active, published>>
  PROVE  LineInv' /\ queue' \in Seq(Actors)
<1>1. /\ queue' \in Seq(Actors) /\ Len(queue') = Len(queue) + 1 /\ Len(queue) \in Nat
      /\ queue'[Len(queue) + 1] = a
      /\ \A i \in DOMAIN queue : i \in DOMAIN queue' /\ queue'[i] = queue[i]
      /\ \A i \in DOMAIN queue' : i \in DOMAIN queue \/ i = Len(queue) + 1
      /\ DOMAIN queue = 1 .. Len(queue) /\ DOMAIN queue' = 1 .. Len(queue')
  BY DEF HostTypeOK
<1>2. \A i \in DOMAIN queue' : queue'[i] \in Actors
  BY <1>1
<1>3. \A b \in Actors : b # a => pc'[b] = pc[b] /\ snap'[b] = snap[b]
  BY DEF HostTypeOK
<1>4. pc'[a] = "waiting"
  BY DEF HostTypeOK
<1>5. \A i \in DOMAIN queue : pc[queue[i]] # "idle" /\ snap'[queue[i]] = snap[queue[i]]
  BY <1>1, <1>2, <1>3 DEF LineInv
<1>6. \A b \in Actors : pc'[b] # "idle" => snap'[b] \in 1 .. published'
  BY <1>3, <1>4 DEF LineInv
<1>7. \A b \in Actors : /\ pc'[b] = "bound" => b \in Confirmers
                        /\ pc'[b] = "leased" => b \in Requests
  BY <1>3, <1>4 DEF LineInv
<1>8. \A i \in DOMAIN queue' : pc'[queue'[i]] # "idle"
  BY <1>1, <1>2, <1>3, <1>4, <1>5
<1>9. \A i \in DOMAIN queue' : snap'[queue'[i]] \in 1 .. published
  BY <1>2, <1>6, <1>8
<1>10. \A i, j \in DOMAIN queue' :
       i < j /\ queue'[j] \in Chats => snap'[queue'[i]] <= snap'[queue'[j]]
  <2>1. ASSUME NEW i \in DOMAIN queue', NEW j \in DOMAIN queue', i < j, queue'[j] \in Chats
        PROVE  snap'[queue'[i]] <= snap'[queue'[j]]
    <3>0. i \in DOMAIN queue
      BY <1>1, <2>1
    <3>1. CASE j \in DOMAIN queue
      BY <3>0, <3>1, <2>1, <1>1, <1>5 DEF LineInv
    <3>2. CASE j = Len(queue) + 1
      <4>1. snap'[queue'[j]] = published
        BY <3>2, <1>1, <2>1
      <4>2. snap'[queue'[i]] \in 1 .. published
        BY <1>9, <2>1
      <4>. QED BY <4>1, <4>2 DEF HostTypeOK, Gens
    <3>. QED BY <3>1, <3>2, <1>1
  <2>. QED BY <2>1
<1>11. \A i \in DOMAIN queue' : queue'[i] \in Chats => active' <= snap'[queue'[i]]
  <2>1. ASSUME NEW i \in DOMAIN queue', queue'[i] \in Chats
        PROVE  active <= snap'[queue'[i]]
    <3>1. CASE i \in DOMAIN queue
      BY <3>1, <2>1, <1>1, <1>5 DEF LineInv
    <3>2. CASE i = Len(queue) + 1
      BY <3>2, <2>1, <1>1 DEF LineInv
    <3>. QED BY <3>1, <3>2, <1>1, <2>1
  <2>. QED BY <2>1
<1>. QED
  BY <1>1, <1>6, <1>7, <1>8, <1>10, <1>11 DEF LineInv

\* A waiter leaves the line from any place but the first.
LEMMA WaiterLeaves ==
  ASSUME HostTypeOK, LineInv, NEW k \in 2 .. Len(queue), queue' = RemoveAt(queue, k),
         NEW a \in Actors, pc' = [pc EXCEPT ![a] = "done"], pc[a] = "waiting",
         UNCHANGED <<snap, active, published>>
  PROVE  LineInv' /\ queue' \in Seq(Actors) /\ Head(queue') = Head(queue) /\ queue' # <<>>
<1>1. /\ queue' = [i \in 1 .. (Len(queue) - 1) |-> IF i < k THEN queue[i] ELSE queue[i + 1]]
      /\ Len(queue) \in Nat /\ DOMAIN queue = 1 .. Len(queue)
  BY DEF HostTypeOK, RemoveAt
<1>2. \A i \in 1 .. (Len(queue) - 1) : queue'[i] \in Actors
  BY <1>1 DEF HostTypeOK
<1>3. /\ queue' \in Seq(Actors) /\ Len(queue') = Len(queue) - 1
      /\ DOMAIN queue' = 1 .. (Len(queue) - 1)
  BY <1>1, <1>2
<1>4. Head(queue') = Head(queue) /\ queue' # <<>>
  <2>1. Len(queue) >= 2 /\ 1 \in 1 .. (Len(queue) - 1) /\ 1 < k
    BY <1>1
  <2>2. queue'[1] = queue[1] /\ Len(queue') # 0
    BY <1>1, <1>3, <2>1
  <2>. QED BY <1>3, <2>2 DEF HostTypeOK
<1>. DEFINE Was(i) == IF i < k THEN i ELSE i + 1
<1>5. \A i \in DOMAIN queue' : Was(i) \in DOMAIN queue /\ queue'[i] = queue[Was(i)]
  BY <1>1, <1>3
<1>6. \A i, j \in DOMAIN queue' : i < j => Was(i) < Was(j)
  BY <1>3
<1>7. \A b \in Actors : pc'[b] = pc[b] \/ pc'[b] = "done"
  BY DEF HostTypeOK
<1>8. \A b \in Actors : pc'[b] # "idle" => snap'[b] \in 1 .. published'
  BY DEF LineInv, HostTypeOK
<1>9. \A b \in Actors : /\ pc'[b] = "bound" => b \in Confirmers
                        /\ pc'[b] = "leased" => b \in Requests
  BY <1>7 DEF LineInv
<1>10. \A i \in DOMAIN queue' : pc'[queue'[i]] # "idle"
  BY <1>2, <1>3, <1>5, <1>7 DEF LineInv
<1>11. \A i, j \in DOMAIN queue' :
       i < j /\ queue'[j] \in Chats => snap'[queue'[i]] <= snap'[queue'[j]]
  <2>1. ASSUME NEW i \in DOMAIN queue', NEW j \in DOMAIN queue', i < j, queue'[j] \in Chats
        PROVE  snap[queue[Was(i)]] <= snap[queue[Was(j)]]
    <3>1. Was(i) < Was(j) /\ Was(i) \in DOMAIN queue /\ Was(j) \in DOMAIN queue
          /\ queue[Was(j)] \in Chats
      BY <1>5, <1>6, <2>1
    <3>. HIDE DEF Was
    <3>. QED BY <3>1 DEF LineInv
  <2>. QED BY <2>1, <1>5
<1>12. \A i \in DOMAIN queue' : queue'[i] \in Chats => active' <= snap'[queue'[i]]
  <2>. HIDE DEF Was
  <2>. QED BY <1>5 DEF LineInv
<1>. QED
  BY <1>3, <1>4, <1>8, <1>9, <1>10, <1>11, <1>12 DEF LineInv

\* What the callers do before and after they hold the lock leaves the resources alone.
LEMMA ResourcesKept ==
  ASSUME HInv, UNCHANGED <<closed, mstate, active, retired, res, op>>,
         \/ /\ queue' # <<>>
            /\ queue # <<>> => /\ Head(queue') = Head(queue)
                               /\ snap'[Head(queue)] = snap[Head(queue)]
         \/ UNCHANGED <<queue, snap>>,
         \A r \in Requests : pc'[r] = "leased" => pc[r] = "leased" /\ snap'[r] = snap[r]
  PROVE  LockInv' /\ PhaseInv' /\ OpenInv'
<1>1. LockInv'
  BY DEF HInv, LockInv, Starting, Handing, NoOp
<1>2. PhaseInv'
  BY DEF HInv, PhaseInv, Starting, Handing
<1>3. OpenInv'
  BY DEF HInv, OpenInv, Full
<1>. QED BY <1>1, <1>2, <1>3

\* Arrivals: a new snapshot,
LEMMA PublishHolds == HInv /\ Publish => HInv'
<1>. SUFFICES ASSUME HInv, Publish PROVE HInv'
  OBVIOUS
<1>. USE DEF HInv
<1>1. HostTypeOK'
  BY HostAssumption DEF Publish, HostTypeOK, Gens
<1>2. LineInv'
  BY DEF Publish, LineInv, HostTypeOK, Gens
<1>3. LockInv' /\ PhaseInv' /\ OpenInv'
  BY ResourcesKept DEF Publish
<1>4. CountInv'
  BY CountSame DEF Publish
<1>. QED
  BY <1>1, <1>2, <1>3, <1>4

\* a caller that binds it and asks for the lock, or is a confirmation and asks later,
LEMMA BindHolds == ASSUME HInv, NEW a \in Actors, Bind(a) PROVE HInv'
<1>. USE DEF HInv
<1>0. published \in 1 .. published /\ Requests \subseteq Actors
  BY HostAssumption DEF HostTypeOK, Gens, Actors
<1>1. CASE pc' = [pc EXCEPT ![a] = "bound"] /\ UNCHANGED queue /\ a \in Confirmers
  <2>1. HostTypeOK'
    BY <1>1 DEF Bind, HostTypeOK, Places
  <2>2. \A b \in Actors : b # a => pc'[b] = pc[b] /\ snap'[b] = snap[b]
    BY <1>1 DEF Bind, HostTypeOK
  <2>3. \A i \in DOMAIN queue : queue[i] \in Actors /\ queue[i] # a
    BY <1>1 DEF Bind, HostTypeOK, LineInv
  <2>4. LineInv'
    BY <1>0, <1>1, <2>2, <2>3 DEF Bind, LineInv, HostTypeOK
  <2>5. queue # <<>> => Head(queue) = queue[1] /\ 1 \in DOMAIN queue
    BY DEF HostTypeOK
  <2>6. LockInv' /\ PhaseInv' /\ OpenInv'
    <3>1. \A r \in Requests : pc'[r] = "leased" => pc[r] = "leased" /\ snap'[r] = snap[r]
      BY <1>0, <1>1, <2>2 DEF Bind, HostTypeOK
    <3>2. \/ queue' # <<>> /\ Head(queue') = Head(queue) /\ snap'[Head(queue)] = snap[Head(queue)]
          \/ queue = <<>>
      BY <1>1, <2>2, <2>3, <2>5
    <3>3. CASE queue = <<>>
      BY <3>1, <3>3, <1>1 DEF Bind, LockInv, PhaseInv, OpenInv, Starting, Handing, Full, NoOp
    <3>. QED BY <3>1, <3>2, <3>3, ResourcesKept DEF Bind
  <2>7. CountInv'
    BY <1>0, <1>1, <2>2, CountSame DEF Bind, HostTypeOK
  <2>. QED BY <2>1, <2>4, <2>6, <2>7
<1>2. CASE pc' = [pc EXCEPT ![a] = "waiting"] /\ queue' = Append(queue, a) /\ a \notin Confirmers
  <2>1. LineInv' /\ queue' \in Seq(Actors)
    BY <1>0, <1>2, LineGrows DEF Bind, HostTypeOK
  <2>2. HostTypeOK'
    BY <1>2, <2>1 DEF Bind, HostTypeOK, Places
  <2>3. \A b \in Actors : b # a => pc'[b] = pc[b] /\ snap'[b] = snap[b]
    BY <1>2 DEF Bind, HostTypeOK
  <2>4. queue # <<>> => Head(queue) = queue[1] /\ 1 \in DOMAIN queue /\ Head(queue) \in Actors
    BY DEF HostTypeOK
  <2>5. /\ queue' # <<>>
        /\ queue # <<>> => /\ Head(queue') = Head(queue)
                           /\ snap'[Head(queue)] = snap[Head(queue)]
    BY <1>2, <2>3, <2>4 DEF Bind, HostTypeOK, LineInv
  <2>6. \A r \in Requests : pc'[r] = "leased" => pc[r] = "leased" /\ snap'[r] = snap[r]
    BY <1>0, <1>2, <2>3 DEF Bind, HostTypeOK
  <2>7. LockInv' /\ PhaseInv' /\ OpenInv'
    BY <2>5, <2>6, ResourcesKept DEF Bind
  <2>8. CountInv'
    BY <1>0, <1>2, <2>3, CountSame DEF Bind, HostTypeOK
  <2>. QED BY <2>1, <2>2, <2>7, <2>8
<1>. QED BY <1>1, <1>2 DEF Bind

\* a confirmation that asks for the lock,
LEMMA EnqueueHolds == ASSUME HInv, NEW a \in Actors, Enqueue(a) PROVE HInv'
<1>. USE DEF HInv
<1>0. Requests \subseteq Actors /\ a \notin Chats
  BY PlatformAssumption DEF Actors, Enqueue, LineInv
<1>1. LineInv' /\ queue' \in Seq(Actors)
  <2>1. snap' = [snap EXCEPT ![a] = snap'[a]] /\ snap'[a] = snap[a] /\ snap[a] \in 1 .. published
    BY DEF Enqueue, HostTypeOK, LineInv
  <2>. QED BY <1>0, <2>1, LineGrows DEF Enqueue
<1>2. HostTypeOK'
  BY <1>1 DEF Enqueue, HostTypeOK, Places
<1>3. \A b \in Actors : b # a => pc'[b] = pc[b]
  BY DEF Enqueue, HostTypeOK
<1>4. queue' # <<>> /\ (queue # <<>> => Head(queue') = Head(queue))
  BY DEF Enqueue, HostTypeOK
<1>5. \A r \in Requests : pc'[r] = "leased" <=> pc[r] = "leased"
  BY <1>0, <1>3 DEF Enqueue, HostTypeOK
<1>6. LockInv' /\ PhaseInv' /\ OpenInv'
  BY <1>4, <1>5, ResourcesKept DEF Enqueue
<1>7. CountInv'
  BY <1>5, CountSame DEF Enqueue
<1>. QED BY <1>1, <1>2, <1>6, <1>7

\* a waiter that is cancelled,
LEMMA LeaveLineHolds == ASSUME HInv, NEW a \in Actors, LeaveLine(a) PROVE HInv'
<1>. USE DEF HInv
<1>0. Requests \subseteq Actors
  BY DEF Actors
<1>1. PICK k \in 2 .. Len(queue) : queue' = RemoveAt(queue, k)
  BY DEF LeaveLine
<1>2. LineInv' /\ queue' \in Seq(Actors) /\ Head(queue') = Head(queue) /\ queue' # <<>>
  BY <1>1, WaiterLeaves DEF LeaveLine
<1>3. HostTypeOK'
  BY <1>2 DEF LeaveLine, HostTypeOK, Answers, Places
<1>5. \A r \in Requests : pc'[r] = "leased" <=> pc[r] = "leased"
  BY <1>0 DEF LeaveLine, HostTypeOK
<1>6. LockInv' /\ PhaseInv' /\ OpenInv'
  BY <1>2, <1>5, ResourcesKept DEF LeaveLine
<1>7. CountInv'
  BY <1>5, CountSame DEF LeaveLine
<1>. QED BY <1>2, <1>3, <1>6, <1>7

\* and the end of a request.
LEMMA ReleaseHolds == ASSUME HInv, NEW r \in Requests, Release(r) PROVE HInv'
<1>. USE DEF HInv
<1>0. r \in Actors /\ Requests \subseteq Actors
  BY DEF Actors
<1>1. snap[r] \in Gens
  BY <1>0, HostAssumption DEF Release, LineInv, HostTypeOK, Gens
<1>2. CountInv' /\ leases' \in [Gens -> Nat]
  BY <1>1, CountLeave DEF Release
<1>3. HostTypeOK'
  BY <1>0, <1>2 DEF Release, HostTypeOK, Places
<1>4. \A b \in Actors : pc'[b] = pc[b] \/ (b = r /\ pc'[b] = "done")
  BY <1>0 DEF Release, HostTypeOK
<1>5. LineInv'
  <2>1. \A i \in DOMAIN queue : queue[i] \in Actors
    BY DEF HostTypeOK
  <2>. QED BY <1>0, <1>4, <2>1 DEF Release, LineInv
<1>6. LockInv' /\ PhaseInv' /\ OpenInv'
  BY <1>0, <1>4, ResourcesKept DEF Release
<1>. QED BY <1>2, <1>3, <1>5, <1>6

-----------------------------------------------------------------------------
\* The holder of the lock is bound to a snapshot.
LEMMA HolderBound ==
  ASSUME HInv, NEW a, NEW phase, Holds(a, phase)
  PROVE  /\ a \in Actors /\ snap[a] \in Gens /\ a = queue[1] /\ 1 \in DOMAIN queue
         /\ snap[a] \in Nat \ {0} /\ active \in Nat
BY HostAssumption DEF HInv, Holds, HostTypeOK, LineInv, Gens, None

\* A step of the holder that keeps the lock.
LEMMA LockKept ==
  ASSUME HInv, UNCHANGED <<published, queue, active, leases, pc, snap>>
  PROVE  LineInv' /\ CountInv'
BY CountSame DEF HInv, LineInv

\* The holder leaves without a lease.
LEMMA HolderRaises ==
  ASSUME HInv, NEW a \in Actors, NEW phase, Holds(a, phase), NEW why \in Answers,
         Raise(a, why), UNCHANGED <<snap, published, leases>>,
         active' \in {active, None}
  PROVE  /\ LineInv' /\ CountInv'
         /\ queue' \in Seq(Actors) /\ op' = NoOp
         /\ pc' \in [Actors -> Places]
         /\ answer' \in [Actors -> Answers]
         /\ \A r \in Requests : pc'[r] = "leased" => pc[r] = "leased"
<1>0. Requests \subseteq Actors
  BY DEF Actors
<1>1. pc' = [pc EXCEPT ![Head(queue)] = "done"] /\ queue' = Tail(queue) /\ queue # <<>>
  BY DEF Raise, Holds
<1>2. LineInv' /\ queue' \in Seq(Actors)
      /\ pc' \in [Actors -> Places]
  BY <1>1, HeadLeaves DEF HInv
<1>3. \A r \in Requests : pc'[r] = "leased" <=> pc[r] = "leased"
  BY <1>0 DEF Raise, Holds, HInv, HostTypeOK
<1>4. CountInv'
  BY <1>3, CountSame DEF HInv
<1>5. answer' \in [Actors -> Answers] /\ op' = NoOp
  BY DEF Raise, HInv, HostTypeOK
<1>. QED BY <1>2, <1>3, <1>4, <1>5

\* The holder leaves with a lease, or without if it is not to have one.
LEMMA HolderReturns ==
  ASSUME HInv, NEW a \in Actors, NEW phase, Holds(a, phase), a # Shutdown,
         NEW g \in Gens, snap[a] = g,
         Return(a, g), UNCHANGED <<snap, published>>,
         active' \in {active, snap[a]}
  PROVE  /\ LineInv' /\ CountInv'
         /\ queue' \in Seq(Actors) /\ op' = NoOp
         /\ pc' \in [Actors -> Places]
         /\ answer' \in [Actors -> Answers] /\ leases' \in [Gens -> Nat]
         /\ \A r \in Requests : pc'[r] = "leased" => pc[r] = "leased" \/ snap[r] = g
<1>0. Requests \subseteq Actors
  BY DEF Actors
<1>1. queue' = Tail(queue) /\ queue # <<>> /\ a = Head(queue) /\ pc[a] = "waiting" /\ op' = NoOp
  BY DEF Return, Holds
<1>5. answer' \in [Actors -> Answers]
  BY DEF Return, HInv, HostTypeOK, Answers
<1>2. CASE op.cancelled \/ a = Boot
  <2>1. pc' = [pc EXCEPT ![a] = "done"] /\ leases' = leases
    BY <1>2 DEF Return
  <2>2. LineInv' /\ queue' \in Seq(Actors)
        /\ pc' \in [Actors -> Places]
    BY <1>1, <2>1, HeadLeaves DEF HInv
  <2>3. \A r \in Requests : pc'[r] = "leased" <=> pc[r] = "leased"
    BY <1>0, <1>1, <2>1 DEF HInv, HostTypeOK
  <2>4. CountInv'
    BY <2>1, <2>3, CountSame DEF HInv
  <2>. QED BY <1>1, <1>5, <2>1, <2>2, <2>3, <2>4 DEF HInv, HostTypeOK
<1>3. CASE ~(op.cancelled \/ a = Boot)
  <2>1. pc' = [pc EXCEPT ![a] = "leased"] /\ leases' = [leases EXCEPT ![g] = @ + 1]
    BY <1>3 DEF Return
  <2>4. a \in Requests
    BY <1>3 DEF Actors, Holds
  <2>2. LineInv' /\ queue' \in Seq(Actors)
        /\ pc' \in [Actors -> Places]
    BY <1>1, <2>1, <2>4, HeadLeaves DEF HInv
  <2>3. \A r \in Requests : pc'[r] = "leased" => pc[r] = "leased" \/ snap[r] = g
    BY <1>0, <2>1 DEF HInv, HostTypeOK
  <2>5. CountInv'
    BY <1>1, <2>1, <2>4, CountEnter DEF HInv
  <2>6. leases' \in [Gens -> Nat]
    BY <2>1 DEF HInv, HostTypeOK
  <2>. QED BY <1>1, <1>5, <2>2, <2>3, <2>5, <2>6
<1>. QED BY <1>2, <1>3

\* The holder of the lock: served, refused or behind at once,
LEMMA AnswerHolds == ASSUME HInv, NEW a \in Actors, Answer(a) PROVE HInv'
<1>. USE DEF HInv
<1>0. Holds(a, "none") /\ a # Shutdown /\ snap[a] \in Gens /\ op = NoOp
      /\ UNCHANGED <<published, closed, mstate, active, retired, res, snap>>
  BY HolderBound DEF Answer, Holds, LockInv
<1>1. ASSUME NEW why \in {"refused", "behind", "failed"}, Raise(a, why), UNCHANGED leases
      PROVE  HInv'
  <2>1. /\ LineInv' /\ CountInv'
        /\ queue' \in Seq(Actors) /\ op' = NoOp
        /\ pc' \in [Actors -> Places]
        /\ answer' \in [Actors -> Answers]
        /\ \A r \in Requests : pc'[r] = "leased" => pc[r] = "leased"
    <3>1. why \in Answers /\ active' \in {active, None}
      BY <1>0 DEF Answers
    <3>. QED BY <1>0, <1>1, <3>1, HolderRaises
  <2>2. HostTypeOK'
    BY <1>0, <1>1, <2>1 DEF HostTypeOK
  <2>3. LockInv'
    BY <2>1 DEF LockInv, NoOp, Starting, Handing
  <2>4. PhaseInv'
    BY <1>0, <2>1 DEF PhaseInv
  <2>5. OpenInv'
    BY <1>0, <2>1 DEF OpenInv, Full
  <2>. QED BY <2>1, <2>2, <2>3, <2>4, <2>5
<1>2. CASE mstate = "running" /\ snap[a] = active /\ Return(a, active)
  <2>1. /\ LineInv' /\ CountInv'
        /\ queue' \in Seq(Actors) /\ op' = NoOp
        /\ pc' \in [Actors -> Places]
        /\ answer' \in [Actors -> Answers] /\ leases' \in [Gens -> Nat]
        /\ \A r \in Requests : pc'[r] = "leased" => pc[r] = "leased" \/ snap[r] = active
    <3>1. active \in Gens /\ active' \in {active, snap[a]}
      BY <1>0, <1>2
    <3>. QED BY <1>0, <1>2, <3>1, HolderReturns
  <2>2. HostTypeOK'
    BY <1>0, <2>1 DEF HostTypeOK
  <2>3. LockInv'
    BY <2>1 DEF LockInv, NoOp, Starting, Handing
  <2>4. PhaseInv'
    BY <1>0, <2>1 DEF PhaseInv
  <2>5. OpenInv'
    BY <1>0, <2>1 DEF OpenInv, Full
  <2>. QED BY <2>1, <2>2, <2>3, <2>4, <2>5
<1>. QED BY <1>1, <1>2 DEF Answer

\* the start of a candidate,
LEMMA BeginStartHolds == ASSUME HInv, NEW a \in Actors, BeginStart(a) PROVE HInv'
<1>. USE DEF HInv
<1>0. Holds(a, "none") /\ snap[a] \in Gens /\ op = NoOp /\ snap[a] \in Nat \ {0} /\ active \in Nat
  BY HolderBound DEF BeginStart, Holds, LockInv
<1>1. LineInv' /\ CountInv'
  BY LockKept DEF BeginStart
<1>2. op' = [phase |-> "start", cand |-> snap[a], prev |-> active, todo |-> PortSet,
             rest |-> {}, cancelled |-> FALSE]
  BY DEF BeginStart, NoOp
<1>3. HostTypeOK'
  BY <1>0, <1>2 DEF BeginStart, HostTypeOK, Phases, OpRecords, GenRecords
<1>4. LockInv'
  BY <1>0, <1>2 DEF BeginStart, Holds, LockInv
<1>5. active < snap[a] /\ ~closed /\ (mstate = "created" => active = None)
  BY <1>0 DEF BeginStart, PhaseInv, None
<1>6. PhaseInv'
  BY <1>0, <1>2, <1>5 DEF BeginStart, PhaseInv, Starting, Handing, HostTypeOK
<1>7. res' = [res EXCEPT ![snap[a]] = [state |-> "starting", open |-> {}]]
  BY DEF BeginStart
<1>8. res'[snap[a]].open = {} /\ \A g \in Gens \ {snap[a]} : res'[g] = res[g]
  BY <1>0, <1>7 DEF HostTypeOK
<1>9. OpenInv'
  <2>1. (active # None => Full(active))'
    BY <1>0, <1>5, <1>8 DEF BeginStart, OpenInv, Full, HostTypeOK
  <2>2. op'.phase = "start" /\ op'.prev = active
    BY <1>2
  <2>3. (\A r \in Requests : pc[r] = "leased" =>
         snap[r] = active \/ (op.phase \in {"drain", "quiesce"} /\ snap[r] = op.prev))'
    BY <1>0 DEF BeginStart, OpenInv, NoOp
  <2>4. (\A g \in Gens : res[g].open # {} => g \in {active, op.cand, op.prev} \cup retired)'
    BY <1>0, <1>2, <1>8 DEF BeginStart, OpenInv, NoOp, None, Gens
  <2>. QED BY <2>1, <2>2, <2>3, <2>4 DEF OpenInv
<1>. QED BY <1>1, <1>3, <1>4, <1>6, <1>9

\* a port that starts,
LEMMA StartPortHolds == ASSUME HInv, NEW a \in Actors, StartPort(a) PROVE HInv'
<1>. USE DEF HInv
<1>0. /\ Holds(a, "start") /\ op.phase = "start"
      /\ op.cand \in Gens /\ active < op.cand /\ active \in Nat
  BY HolderBound DEF StartPort, Holds, LockInv, PhaseInv, Starting
<1>1. LineInv' /\ CountInv'
  BY LockKept DEF StartPort
<1>2. PICK p \in PortSet :
        /\ p \in op.todo
        /\ res' = [res EXCEPT ![op.cand].open = @ \cup {p}]
        /\ op' = [op EXCEPT !.todo = @ \ {p}]
  BY DEF StartPort, FirstOf
<1>3. HostTypeOK'
  <2>1. op' \in OpRecords /\ res[op.cand].open \cup {p} \in SUBSET PortSet
    BY <1>0, <1>2 DEF HostTypeOK, OpRecords, GenRecords
  <2>2. res' \in [Gens -> GenRecords]
    BY <1>0, <1>2, <2>1 DEF HostTypeOK, GenRecords
  <2>. QED BY <2>1, <2>2 DEF StartPort, HostTypeOK
<1>4. /\ op'.phase = "start" /\ op'.cand = op.cand /\ op'.prev = op.prev /\ op'.todo = op.todo \ {p}
      /\ op'.rest = op.rest
      /\ res'[op.cand].open = res[op.cand].open \cup {p}
      /\ \A g \in Gens \ {op.cand} : res'[g] = res[g]
  BY <1>0, <1>2 DEF HostTypeOK
<1>5. LockInv'
  BY <1>0, <1>4 DEF StartPort, LockInv
<1>6. PhaseInv'
  BY <1>0, <1>2, <1>4 DEF StartPort, PhaseInv, Starting, Handing
<1>7. OpenInv'
  BY <1>0, <1>4 DEF StartPort, OpenInv, Full, HostTypeOK, PhaseInv, Starting
<1>. QED BY <1>1, <1>3, <1>5, <1>6, <1>7

\* a port that does not,
LEMMA StartFailsHolds ==
  ASSUME HInv, NEW a \in Actors, NEW c \in BOOLEAN, StartFails(a, c) PROVE HInv'
<1>. USE DEF HInv
<1>0. /\ Holds(a, "start") /\ op.phase = "start"
      /\ op.cand \in Gens /\ active < op.cand /\ active \in Nat
  BY HolderBound DEF StartFails, Holds, LockInv, PhaseInv, Starting
<1>1. LineInv' /\ CountInv'
  BY LockKept DEF StartFails
<1>2. PICK p \in PortSet :
        /\ res' = [res EXCEPT ![op.cand].open = @ \cup {p}]
        /\ op' = [op EXCEPT !.phase = "unwind", !.cancelled = c,
                            !.todo = res[op.cand].open \cup {p}]
  BY DEF StartFails
<1>3. HostTypeOK'
  <2>1. res[op.cand].open \cup {p} \in SUBSET PortSet
    BY <1>0 DEF HostTypeOK, GenRecords
  <2>2. op' \in OpRecords
    BY <1>2, <2>1 DEF HostTypeOK, Phases, OpRecords
  <2>3. res' \in [Gens -> GenRecords]
    BY <1>0, <1>2, <2>1 DEF HostTypeOK, GenRecords
  <2>. QED BY <2>2, <2>3 DEF StartFails, HostTypeOK
<1>4. /\ op'.phase = "unwind" /\ op'.cand = op.cand /\ op'.prev = op.prev
      /\ \A g \in Gens \ {op.cand} : res'[g] = res[g]
  BY <1>0, <1>2 DEF HostTypeOK
<1>5. LockInv'
  BY <1>0, <1>4 DEF StartFails, LockInv, Starting
<1>6. PhaseInv'
  BY <1>0, <1>4 DEF StartFails, PhaseInv, Starting, Handing
<1>7. OpenInv'
  BY <1>0, <1>4 DEF StartFails, OpenInv, Full, HostTypeOK, PhaseInv, Starting
<1>. QED BY <1>1, <1>3, <1>5, <1>6, <1>7

\* a candidate with all its ports, which is served or hands over,
LEMMA StartedHolds == ASSUME HInv, NEW a \in Actors, Started(a) PROVE HInv'
<1>. USE DEF HInv
<1>0. /\ Holds(a, "start") /\ op.phase = "start" /\ a # Shutdown
      /\ op.cand = snap[a] /\ op.cand \in Gens /\ op.todo = {}
      /\ op.prev = active /\ active < op.cand /\ active \in Nat /\ snap[a] \in Nat
      /\ UNCHANGED <<published, closed, snap>>
  BY HolderBound DEF Started, Holds, LockInv, PhaseInv, Starting
<1>1. /\ res' = [res EXCEPT ![op.cand].state = "running"] /\ active' = op.cand
      /\ res[op.cand].open = PortSet
  BY <1>0 DEF Started, PhaseInv
<1>2. /\ res' \in [Gens -> GenRecords]
      /\ res'[active'] = [state |-> "running", open |-> PortSet]
      /\ \A g \in Gens \ {op.cand} : res'[g] = res[g]
      /\ \A g \in Gens : res'[g].open = res[g].open
  BY <1>0, <1>1 DEF HostTypeOK, GenRecords
<1>3. ASSUME op.prev = None, mstate' = "running", Return(a, op.cand), UNCHANGED retired
      PROVE  HInv'
  <2>1. /\ LineInv' /\ CountInv'
        /\ queue' \in Seq(Actors) /\ op' = NoOp
        /\ pc' \in [Actors -> Places]
        /\ answer' \in [Actors -> Answers] /\ leases' \in [Gens -> Nat]
        /\ \A r \in Requests : pc'[r] = "leased" => pc[r] = "leased" \/ snap[r] = op.cand
    BY <1>0, <1>1, <1>3, HolderReturns
  <2>2. HostTypeOK'
    BY <1>0, <1>1, <1>2, <1>3, <2>1 DEF HostTypeOK, NoOp, Phases, OpRecords
  <2>3. LockInv'
    BY <2>1 DEF LockInv, NoOp, Starting, Handing
  <2>4. PhaseInv'
    BY <1>0, <1>3, <2>1 DEF PhaseInv, NoOp, Starting, Handing
  <2>5. \A r \in Requests : pc[r] # "leased"
    <3>1. \A r \in Requests : r \in Actors
      BY DEF Actors
    <3>2. active = 0 /\ 0 \notin Gens
      BY <1>0, <1>3 DEF None, Gens
    <3>3. \A r \in Requests : pc[r] = "leased" => snap[r] \in Gens
      BY <3>1, HostAssumption DEF LineInv, HostTypeOK, Gens
    <3>. QED BY <3>2, <3>3, <1>0 DEF OpenInv
  <2>6. OpenInv'
    BY <1>0, <1>1, <1>2, <1>3, <2>1, <2>5 DEF OpenInv, Full, NoOp
  <2>. QED BY <2>1, <2>2, <2>3, <2>4, <2>6
<1>4. ASSUME op.prev # None, retired' = retired \cup {op.prev},
             op' = [op EXCEPT !.phase = "drain"],
             UNCHANGED <<mstate, leases, queue, pc, answer>>
      PROVE  HInv'
  <2>1. op' \in OpRecords
        /\ op'.phase = "drain" /\ op'.cand = op.cand /\ op'.prev = op.prev
    BY <1>4 DEF HostTypeOK, Phases, OpRecords
  <2>2. HostTypeOK'
    BY <1>0, <1>1, <1>2, <1>4, <2>1 DEF HostTypeOK
  <2>3. LineInv'
    <3>1. active' \in Nat /\ active' = snap[queue[1]] /\ active' <= published
      BY <1>0, <1>1, HolderBound DEF LineInv
    <3>2. \A i \in DOMAIN queue : queue[i] \in Chats => active' <= snap[queue[i]]
      <4>1. ASSUME NEW i \in DOMAIN queue, queue[i] \in Chats PROVE active' <= snap[queue[i]]
        <5>1. i = 1 \/ 1 < i
          BY DEF HostTypeOK
        <5>2. 1 \in DOMAIN queue
          BY <1>0, HolderBound
        <5>. QED BY <5>1, <5>2, <3>1, <4>1 DEF LineInv
      <4>. QED BY <4>1
    <3>. QED BY <1>0, <1>4, <3>1, <3>2 DEF LineInv
  <2>4. CountInv'
    BY <1>0, <1>4, CountSame
  <2>5. LockInv'
    BY <1>0, <1>4, <2>1 DEF LockInv, Starting, Handing
  <2>6. PhaseInv'
    BY <1>0, <1>1, <1>4, <2>1 DEF PhaseInv, Starting, Handing
  <2>7. OpenInv'
    BY <1>0, <1>1, <1>2, <1>4, <2>1 DEF OpenInv, Full, HostTypeOK
  <2>. QED BY <2>2, <2>3, <2>4, <2>5, <2>6, <2>7
<1>. QED BY <1>3, <1>4 DEF Started

\* a cancellation during the hand-over,
LEMMA CancelHolderHolds == ASSUME HInv, NEW a \in Actors, CancelHolder(a) PROVE HInv'
<1>. USE DEF HInv
<1>0. op.phase \in Handing
  BY DEF CancelHolder, Holds, Handing
<1>1. LineInv' /\ CountInv'
  BY LockKept DEF CancelHolder
<1>2. op' = [op EXCEPT !.cancelled = TRUE]
  BY DEF CancelHolder
<1>3. /\ op' \in OpRecords
      /\ op'.phase = op.phase /\ op'.cand = op.cand /\ op'.prev = op.prev
      /\ op'.todo = op.todo /\ op'.rest = op.rest
  BY <1>2 DEF HostTypeOK, OpRecords
<1>4. HostTypeOK'
  BY <1>3 DEF CancelHolder, HostTypeOK
<1>5. LockInv'
  BY <1>0, <1>3 DEF CancelHolder, LockInv, Handing
<1>6. PhaseInv'
  BY <1>3 DEF CancelHolder, PhaseInv
<1>7. OpenInv'
  BY <1>3 DEF CancelHolder, OpenInv, Full
<1>. QED BY <1>1, <1>4, <1>5, <1>6, <1>7

\* the last lease of the previous generation,
LEMMA DrainedHolds == ASSUME HInv, NEW a \in Actors, Drained(a) PROVE HInv'
<1>. USE DEF HInv
<1>0. /\ op.phase = "drain" /\ leases[op.prev] = 0 /\ op.prev \in Gens /\ op.cand = active
      /\ op.prev < op.cand /\ op.prev \in retired /\ op.prev \in Nat
  BY DEF Drained, Holds, PhaseInv, Handing, HostTypeOK, Gens
<1>1. LineInv' /\ CountInv'
  BY LockKept DEF Drained
<1>2. /\ op' \in OpRecords
      /\ op'.phase = "retire" /\ op'.cand = op.cand /\ op'.prev = op.prev
  BY <1>0 DEF Drained, HostTypeOK, Phases, OpRecords, GenRecords
<1>3. /\ res' \in [Gens -> GenRecords]
      /\ \A g \in Gens \ {op.prev} : res'[g] = res[g]
      /\ \A g \in Gens : res'[g].open = res[g].open
  BY <1>0 DEF Drained, HostTypeOK, GenRecords
<1>4. HostTypeOK'
  BY <1>2, <1>3 DEF Drained, HostTypeOK
<1>5. LockInv'
  BY <1>0, <1>2 DEF Drained, LockInv, Starting, Handing
<1>6. PhaseInv'
  BY <1>0, <1>2 DEF Drained, PhaseInv, Starting, Handing
<1>7. \A r \in Requests : pc[r] = "leased" => snap[r] = active
  BY <1>0, NoneLeased DEF OpenInv
<1>8. active \in Gens /\ active # op.prev
  BY <1>0 DEF HostTypeOK, None, Gens
<1>9. OpenInv'
  BY <1>0, <1>2, <1>3, <1>7, <1>8 DEF Drained, OpenInv, Full
<1>. QED BY <1>1, <1>4, <1>5, <1>6, <1>9

\* a port that closes or does not,
LEMMA ClosePortHolds ==
  ASSUME HInv, NEW a \in Actors, NEW f \in BOOLEAN, ClosePort(a, f) PROVE HInv'
<1>. USE DEF HInv
<1>0. op.phase \in {"unwind", "discard", "retire", "shut"}
  BY DEF ClosePort, Holds
<1>1. LineInv' /\ CountInv'
  BY LockKept DEF ClosePort
<1>2. PICK p \in PortSet :
       /\ res' = IF f THEN res ELSE [res EXCEPT ![Closing].open = @ \ {p}]
       /\ op' = [op EXCEPT !.todo = @ \ {p}]
  BY DEF ClosePort
<1>3. /\ op' \in OpRecords
      /\ op'.phase = op.phase /\ op'.cand = op.cand /\ op'.prev = op.prev /\ op'.rest = op.rest
  BY <1>2 DEF HostTypeOK, OpRecords
<1>4. Closing \in Gens /\ Closing # active
  <2>1. CASE op.phase \in {"unwind", "discard"}
    BY <2>1, HolderBound
       DEF ClosePort, Closing, LockInv, PhaseInv, Starting, Handing, Holds, HostTypeOK
  <2>2. CASE op.phase \in {"retire", "shut"}
    BY <2>2 DEF Closing, PhaseInv, Handing, HostTypeOK, None, Gens
  <2>. QED BY <1>0, <2>1, <2>2
<1>5. /\ res' \in [Gens -> GenRecords]
      /\ \A g \in Gens \ {Closing} : res'[g] = res[g]
      /\ \A g \in Gens : res'[g].open \subseteq res[g].open
  <2>1. CASE f
    BY <1>2, <2>1 DEF HostTypeOK
  <2>2. CASE ~f
    BY <1>2, <1>4, <2>2 DEF HostTypeOK, GenRecords
  <2>. QED BY <2>1, <2>2
<1>6. HostTypeOK'
  BY <1>3, <1>5 DEF ClosePort, HostTypeOK
<1>7. LockInv'
  BY <1>0, <1>3 DEF ClosePort, LockInv, Starting, Handing
<1>8. PhaseInv'
  BY <1>0, <1>3 DEF ClosePort, PhaseInv, Starting, Handing
<1>9. OpenInv'
  BY <1>0, <1>3, <1>4, <1>5 DEF ClosePort, OpenInv, Full, HostTypeOK
<1>. QED BY <1>1, <1>6, <1>7, <1>8, <1>9

\* the roll-back of a candidate, first by itself,
LEMMA UnwoundHolds == ASSUME HInv, NEW a \in Actors, Unwound(a) PROVE HInv'
<1>. USE DEF HInv
<1>0. /\ op.phase = "unwind" /\ op.cand \in Gens
      /\ active < op.cand /\ op.prev = active /\ active \in Nat
  BY HolderBound DEF Unwound, Holds, LockInv, PhaseInv, Starting
<1>1. LineInv' /\ CountInv'
  BY LockKept DEF Unwound
<1>2. /\ op' \in OpRecords
      /\ op'.phase = "discard" /\ op'.cand = op.cand /\ op'.prev = op.prev
  BY <1>0 DEF Unwound, HostTypeOK, Phases, OpRecords, GenRecords
<1>3. /\ res' \in [Gens -> GenRecords]
      /\ \A g \in Gens \ {op.cand} : res'[g] = res[g]
      /\ \A g \in Gens : res'[g].open = res[g].open
  BY <1>0 DEF Unwound, HostTypeOK, GenRecords
<1>4. HostTypeOK'
  BY <1>2, <1>3 DEF Unwound, HostTypeOK
<1>5. LockInv'
  BY <1>0, <1>2 DEF Unwound, LockInv, Starting, Handing
<1>6. PhaseInv'
  BY <1>0, <1>2 DEF Unwound, PhaseInv, Starting, Handing
<1>7. OpenInv'
  BY <1>0, <1>2, <1>3 DEF Unwound, OpenInv, Full, HostTypeOK
<1>. QED BY <1>1, <1>4, <1>5, <1>6, <1>7

\* then by the manager,
LEMMA DiscardedHolds == ASSUME HInv, NEW a \in Actors, Discarded(a) PROVE HInv'
<1>. USE DEF HInv
<1>0. /\ Holds(a, "discard") /\ op.phase = "discard"
      /\ op.cand \in Gens /\ active < op.cand /\ op.prev = active /\ active \in Nat
      /\ UNCHANGED <<published, closed, active, leases, snap>>
  BY HolderBound DEF Discarded, Holds, LockInv, PhaseInv, Starting
<1>1. /\ LineInv' /\ CountInv'
      /\ queue' \in Seq(Actors) /\ op' = NoOp
      /\ pc' \in [Actors -> Places]
      /\ answer' \in [Actors -> Answers]
      /\ \A r \in Requests : pc'[r] = "leased" => pc[r] = "leased"
  <2>1. PICK why \in Answers : Raise(a, why)
    BY DEF Discarded, Answers
  <2>. QED BY <1>0, <2>1, HolderRaises
<1>2. /\ After(op.cand) \in {"closed", "failed"}
      /\ After(op.cand) = "closed" => res[op.cand].open = {}
  BY DEF After
<1>3. /\ res' \in [Gens -> GenRecords]
      /\ \A g \in Gens \ {op.cand} : res'[g] = res[g]
      /\ \A g \in Gens : res'[g].open = res[g].open
  BY <1>0, <1>2 DEF Discarded, HostTypeOK, GenRecords
<1>4. retired' = IF After(op.cand) = "closed" THEN retired ELSE retired \cup {op.cand}
  BY DEF Discarded
<1>5. /\ mstate' \in {"created", "failed", "running"} /\ (mstate' = "created" => active = None)
  BY <1>0, <1>2 DEF Discarded
<1>6. HostTypeOK'
  BY <1>0, <1>1, <1>3, <1>4, <1>5 DEF HostTypeOK, NoOp, Phases, OpRecords
<1>7. LockInv'
  BY <1>1 DEF LockInv, NoOp, Starting, Handing
<1>8. PhaseInv'
  BY <1>0, <1>1, <1>5 DEF PhaseInv, NoOp, Starting, Handing
<1>9. OpenInv'
  BY <1>0, <1>1, <1>2, <1>3, <1>4 DEF OpenInv, Full, HostTypeOK, NoOp
<1>. QED BY <1>1, <1>6, <1>7, <1>8, <1>9

\* and the end of a hand-over.
LEMMA RetiredHolds == ASSUME HInv, NEW a \in Actors, Retired(a) PROVE HInv'
<1>. USE DEF HInv
<1>0. /\ Holds(a, "retire") /\ op.phase = "retire" /\ a # Shutdown
      /\ op.cand = active /\ op.prev < op.cand /\ op.prev \in retired /\ op.prev \in Gens
      /\ op.cand = snap[a] /\ active \in Gens /\ active # op.prev
      /\ UNCHANGED <<published, closed, active, snap>>
  BY HolderBound DEF Retired, Holds, LockInv, PhaseInv, Handing, HostTypeOK
<1>2. /\ After(op.prev) \in {"closed", "failed"}
      /\ After(op.prev) = "closed" => res[op.prev].open = {}
  BY DEF After
<1>3. /\ res' \in [Gens -> GenRecords]
      /\ \A g \in Gens \ {op.prev} : res'[g] = res[g]
      /\ \A g \in Gens : res'[g].open = res[g].open
  BY <1>0, <1>2 DEF Retired, HostTypeOK, GenRecords
<1>4. CASE /\ After(op.prev) = "closed" /\ retired' = retired \ {op.prev} /\ mstate' = "running"
           /\ Return(a, op.cand)
  <2>1. /\ LineInv' /\ CountInv'
        /\ queue' \in Seq(Actors) /\ op' = NoOp
        /\ pc' \in [Actors -> Places]
        /\ answer' \in [Actors -> Answers] /\ leases' \in [Gens -> Nat]
        /\ \A r \in Requests : pc'[r] = "leased" => pc[r] = "leased" \/ snap[r] = active
    BY <1>0, <1>4, HolderReturns
  <2>2. HostTypeOK'
    BY <1>0, <1>3, <1>4, <2>1 DEF HostTypeOK, NoOp, Phases, OpRecords
  <2>3. LockInv'
    BY <2>1 DEF LockInv, NoOp, Starting, Handing
  <2>4. PhaseInv'
    BY <1>0, <1>4, <2>1 DEF PhaseInv, NoOp, Starting, Handing
  <2>5. OpenInv'
    BY <1>0, <1>2, <1>3, <1>4, <2>1 DEF OpenInv, Full, NoOp
  <2>. QED BY <2>1, <2>2, <2>3, <2>4, <2>5
<1>5. CASE /\ After(op.prev) = "failed" /\ mstate' = "failed"
           /\ Raise(a, IF op.cancelled THEN "cancelled" ELSE "failed")
           /\ UNCHANGED <<retired, leases>>
  <2>1. /\ LineInv' /\ CountInv'
        /\ queue' \in Seq(Actors) /\ op' = NoOp
        /\ pc' \in [Actors -> Places]
        /\ answer' \in [Actors -> Answers]
        /\ \A r \in Requests : pc'[r] = "leased" => pc[r] = "leased"
    <3>1. PICK why \in Answers : Raise(a, why)
      BY <1>5 DEF Answers
    <3>. QED BY <1>0, <1>5, <3>1, HolderRaises
  <2>2. HostTypeOK'
    BY <1>0, <1>3, <1>5, <2>1 DEF HostTypeOK, NoOp, Phases, OpRecords
  <2>3. LockInv'
    BY <2>1 DEF LockInv, NoOp, Starting, Handing
  <2>4. PhaseInv'
    BY <1>0, <1>5, <2>1 DEF PhaseInv, NoOp, Starting, Handing
  <2>5. OpenInv'
    BY <1>0, <1>3, <1>5, <2>1 DEF OpenInv, Full, NoOp
  <2>. QED BY <2>1, <2>2, <2>3, <2>4, <2>5
<1>. QED BY <1>4, <1>5 DEF Retired

\* The close of the host: with nothing to close,
LEMMA CloseEmptyHolds == ASSUME HInv, CloseEmpty PROVE HInv'
<1>. USE DEF HInv
<1>0. /\ Holds(Shutdown, "none") /\ op = NoOp /\ Shutdown \in Actors
      /\ active = None /\ retired = {} /\ mstate' = "closed" /\ closed' = TRUE
      /\ UNCHANGED <<published, active, retired, leases, res, snap>>
  BY DEF CloseEmpty, Holds, LockInv, Actors
<1>1. /\ LineInv' /\ CountInv'
      /\ queue' \in Seq(Actors) /\ op' = NoOp
      /\ pc' \in [Actors -> Places]
      /\ answer' \in [Actors -> Answers]
      /\ \A r \in Requests : pc'[r] = "leased" => pc[r] = "leased"
  <2>1. "served" \in Answers /\ Raise(Shutdown, "served")
    BY DEF CloseEmpty, Answers
  <2>. QED BY <1>0, <2>1, HolderRaises
<1>2. HostTypeOK'
  BY <1>0, <1>1 DEF HostTypeOK
<1>3. LockInv'
  BY <1>1 DEF LockInv, NoOp, Starting, Handing
<1>4. PhaseInv'
  BY <1>0, <1>1 DEF PhaseInv, NoOp, Starting, Handing
<1>5. OpenInv'
  BY <1>0, <1>1 DEF OpenInv, Full
<1>. QED BY <1>1, <1>2, <1>3, <1>4, <1>5

\* with no new leases from here on,
LEMMA BeginCloseHolds == ASSUME HInv, BeginClose PROVE HInv'
<1>. USE DEF HInv
<1>0. /\ Holds(Shutdown, "none") /\ op = NoOp
      /\ active # None \/ retired # {}
      /\ mstate' = "closing" /\ active' = None
      /\ UNCHANGED <<published, closed, queue, retired, leases, res, pc, snap, answer>>
  BY DEF BeginClose, Holds, LockInv
<1>1. op' = [phase |-> "quiesce", cand |-> None, prev |-> active, todo |-> {},
             rest |-> retired \cup ({active} \ {None}), cancelled |-> FALSE]
  BY DEF BeginClose, NoOp
<1>2. HostTypeOK'
  BY <1>0, <1>1 DEF HostTypeOK, Phases, OpRecords
<1>3. LineInv'
  <2>1. active' = 0 /\ \A i \in DOMAIN queue : snap[queue[i]] \in Nat
    BY <1>0 DEF LineInv, HostTypeOK, None
  <2>. QED BY <1>0, <2>1, HostAssumption DEF LineInv, HostTypeOK, Gens
<1>4. CountInv'
  BY <1>0, CountSame
<1>5. LockInv'
  BY <1>0, <1>1 DEF LockInv, Holds, Starting, Handing
<1>6. PhaseInv'
  BY <1>0, <1>1 DEF PhaseInv, Starting, Handing
<1>7. OpenInv'
  BY <1>0, <1>1 DEF OpenInv, Full, NoOp
<1>. QED BY <1>2, <1>3, <1>4, <1>5, <1>6, <1>7

\* with the last lease back,
LEMMA QuiescedHolds == ASSUME HInv, Quiesced PROVE HInv'
<1>. USE DEF HInv
<1>0. /\ op.phase = "quiesce" /\ \A g \in op.rest : leases[g] = 0
      /\ active = None /\ op.cand = None
      /\ UNCHANGED <<published, closed, queue, mstate, active, retired, leases, pc, snap, answer>>
  BY DEF Quiesced, Holds, PhaseInv
<1>1. PICK g \in Gens : GoesNext(g) /\ CloseNext(g) /\ res' = [res EXCEPT ![g].state = "closing"]
  BY DEF Quiesced
<1>2. op.prev # None => g = op.prev
  BY <1>0, <1>1 DEF GoesNext
<1>3. /\ op' \in OpRecords
      /\ op'.phase = "shut" /\ op'.cand = None /\ op'.prev = g
  BY <1>0, <1>1 DEF CloseNext, HostTypeOK, Phases, OpRecords, GenRecords
<1>4. /\ res' \in [Gens -> GenRecords]
      /\ \A h \in Gens : res'[h].open = res[h].open
  BY <1>1 DEF HostTypeOK, GenRecords
<1>5. LineInv' /\ CountInv'
  BY <1>0, LockKept
<1>6. HostTypeOK'
  BY <1>0, <1>3, <1>4 DEF HostTypeOK
<1>7. LockInv'
  BY <1>0, <1>3 DEF LockInv, Starting, Handing
<1>8. PhaseInv'
  BY <1>0, <1>3 DEF PhaseInv, Starting, Handing
<1>9. \A r \in Requests : pc[r] # "leased"
  <2>1. ASSUME NEW r \in Requests, pc[r] = "leased" PROVE FALSE
    <3>1. r \in Actors
      BY DEF Actors
    <3>2. snap[r] \in Gens /\ snap[r] # None
      BY <3>1, <2>1, HostAssumption DEF LineInv, HostTypeOK, Gens, None
    <3>3. snap[r] = op.prev
      BY <1>0, <2>1, <3>2 DEF OpenInv
    <3>4. leases[op.prev] = 0
      BY <1>0, <3>2, <3>3 DEF PhaseInv
    <3>. QED BY <2>1, <3>2, <3>3, <3>4, NoneLeased
  <2>. QED BY <2>1
<1>10. OpenInv'
  BY <1>0, <1>2, <1>3, <1>4, <1>9 DEF OpenInv, None, Gens
<1>. QED BY <1>5, <1>6, <1>7, <1>8, <1>10

\* and one generation after the other.
LEMMA ShutOneHolds == ASSUME HInv, ShutOne PROVE HInv'
<1>. USE DEF HInv
<1>0. /\ Holds(Shutdown, "shut") /\ op.phase = "shut" /\ Shutdown \in Actors
      /\ active = None /\ op.cand = None /\ op.prev \in Gens
      /\ retired' = IF After(op.prev) = "closed" THEN retired \ {op.prev}
                                                ELSE retired \cup {op.prev}
      /\ UNCHANGED <<published, active, leases, snap>>
  BY DEF ShutOne, Holds, PhaseInv, Actors
<1>1. /\ After(op.prev) \in {"closed", "failed"}
      /\ After(op.prev) = "closed" => res[op.prev].open = {}
  BY DEF After
<1>2. retired' \subseteq Gens
  BY <1>0 DEF HostTypeOK
<1>3. \A h \in Gens : res[h].open # {} => h \in retired'
  BY <1>0, <1>1 DEF OpenInv, None, Gens
<1>4. ASSUME NEW g \in Gens, GoesNext(g), CloseNext(g),
             res' = [res EXCEPT ![op.prev].state = After(op.prev), ![g].state = "closing"],
             UNCHANGED <<mstate, closed, queue, pc, answer>>
      PROVE  HInv'
  <2>1. /\ op' \in OpRecords
        /\ op'.phase = "shut" /\ op'.cand = None /\ op'.prev = g
    BY <1>0, <1>4 DEF CloseNext, HostTypeOK, Phases, OpRecords, GenRecords
  <2>2. /\ res' \in [Gens -> GenRecords]
        /\ \A h \in Gens : res'[h].open = res[h].open
    <3>. DEFINE mid == [res EXCEPT ![op.prev].state = After(op.prev)]
    <3>1. mid \in [Gens -> GenRecords] /\ \A h \in Gens : mid[h].open = res[h].open
      BY <1>0, <1>1, StateSet DEF HostTypeOK, GenRecords
    <3>2. res' = [mid EXCEPT ![g].state = "closing"]
      BY <1>4
    <3>. HIDE DEF mid
    <3>3. res' \in [Gens -> GenRecords] /\ \A h \in Gens : res'[h].open = mid[h].open
      BY <3>1, <3>2, StateSet
    <3>. QED BY <3>1, <3>3
  <2>3. LineInv' /\ CountInv'
    BY <1>0, <1>4, LockKept
  <2>4. HostTypeOK'
    BY <1>0, <1>2, <1>4, <2>1, <2>2 DEF HostTypeOK
  <2>5. LockInv'
    BY <1>0, <1>4, <2>1 DEF LockInv, Starting, Handing
  <2>6. PhaseInv'
    BY <1>0, <1>4, <2>1 DEF PhaseInv, Starting, Handing
  <2>7. OpenInv'
    BY <1>0, <1>3, <1>4, <2>1, <2>2 DEF OpenInv
  <2>. QED BY <2>3, <2>4, <2>5, <2>6, <2>7
<1>5. ASSUME res' = [res EXCEPT ![op.prev].state = After(op.prev)],
             mstate' = IF retired' = {} THEN "closed" ELSE "failed",
             closed' = (retired' = {}),
             Raise(Shutdown, IF retired' = {} THEN "served" ELSE "failed")
      PROVE  HInv'
  <2>1. /\ LineInv' /\ CountInv'
        /\ queue' \in Seq(Actors) /\ op' = NoOp
        /\ pc' \in [Actors -> Places]
        /\ answer' \in [Actors -> Answers]
        /\ \A r \in Requests : pc'[r] = "leased" => pc[r] = "leased"
    <3>1. PICK why \in Answers : Raise(Shutdown, why)
      BY <1>5 DEF Answers
    <3>. QED BY <1>0, <1>5, <3>1, HolderRaises
  <2>2. /\ res' \in [Gens -> GenRecords]
        /\ \A h \in Gens : res'[h].open = res[h].open
    BY <1>0, <1>1, <1>5 DEF HostTypeOK, GenRecords
  <2>3. mstate' \in {"closed", "failed"} /\ closed' \in BOOLEAN
    BY <1>5
  <2>4. HostTypeOK'
    BY <1>0, <1>2, <2>1, <2>2, <2>3 DEF HostTypeOK, NoOp, Phases, OpRecords
  <2>5. LockInv'
    BY <2>1 DEF LockInv, NoOp, Starting, Handing
  <2>6. PhaseInv'
    BY <1>0, <1>5, <2>1, <2>3 DEF PhaseInv, NoOp, Starting, Handing
  <2>7. OpenInv'
    BY <1>0, <1>3, <2>1, <2>2 DEF OpenInv, NoOp
  <2>. QED BY <2>1, <2>4, <2>5, <2>6, <2>7
<1>. QED BY <1>4, <1>5 DEF ShutOne

-----------------------------------------------------------------------------
\* The invariant holds at the start and is kept by every step.
LEMMA HostInitHolds == Init => HInv
<1>. SUFFICES ASSUME Init PROVE HInv
  OBVIOUS
<1>. USE DEF Init, HostInit
<1>1. HostTypeOK
  <2>1. res \in [Gens -> GenRecords]
    BY DEF GenRecords
  <2>2. op \in OpRecords
    BY DEF NoOp, Phases, OpRecords
  <2>3. /\ pc \in [Actors -> Places]
        /\ snap \in [Actors -> Gens \cup {None}] /\ answer \in [Actors -> Answers]
        /\ leases \in [Gens -> Nat] /\ queue \in Seq(Actors) /\ published \in Gens
    BY HostAssumption DEF Answers, Gens, Places
  <2>. QED BY <2>1, <2>2, <2>3 DEF HostTypeOK
<1>2. LineInv
  BY HostAssumption DEF LineInv, None, Gens
<1>3. LockInv /\ PhaseInv
  BY DEF LockInv, PhaseInv, Starting, Handing, NoOp
<1>4. OpenInv
  BY DEF OpenInv, NoOp, Actors
<1>5. CountInv
  <2>1. ASSUME NEW g \in Gens PROVE Holders(g) = {}
    BY DEF Holders, Actors
  <2>. QED BY <2>1, FS_EmptySet DEF CountInv
<1>. QED BY <1>1, <1>2, <1>3, <1>4, <1>5 DEF HInv

\* Every step keeps it: the steps above are all there are.
LEMMA HostStepHolds == HInv /\ [Next]_vars => HInv'
<1>. SUFFICES ASSUME HInv, [Next]_vars PROVE HInv'
  OBVIOUS
<1>1. CASE UNCHANGED hostVars
  <2>1. HostTypeOK' /\ LineInv'
    BY <1>1 DEF HInv, hostVars, HostTypeOK, LineInv
  <2>2. LockInv' /\ PhaseInv' /\ OpenInv'
    BY <1>1 DEF HInv, hostVars, LockInv, PhaseInv, OpenInv, Full
  <2>3. CountInv'
    BY <1>1, CountSame DEF HInv, hostVars
  <2>. QED BY <2>1, <2>2, <2>3 DEF HInv
<1>2. CASE Environment
  <2>1. CASE Publish
    BY <2>1, PublishHolds
  <2>2. ASSUME NEW a \in Actors, Bind(a) \/ Disturb(a) PROVE HInv'
    <3>1. CASE Bind(a)
      BY <3>1, BindHolds
    <3>2. CASE Disturb(a)
      BY <3>2, LeaveLineHolds, CancelHolderHolds, StartFailsHolds DEF Disturb
    <3>. QED BY <2>2, <3>1, <3>2
  <2>. QED BY <1>2, <2>1, <2>2 DEF Environment
<1>3. ASSUME NEW a \in Actors, TaskStep(a) PROVE HInv'
  <2>1. CASE Grant(a)
    BY <2>1, AnswerHolds, StartedHolds, RetiredHolds DEF Grant
  <2>2. CASE Work(a)
    BY <2>2, BeginStartHolds, StartPortHolds, StartFailsHolds, DrainedHolds, ClosePortHolds,
       UnwoundHolds, DiscardedHolds DEF Work
  <2>3. CASE CloseWork
    BY <2>3, CloseEmptyHolds, BeginCloseHolds, QuiescedHolds, ShutOneHolds DEF CloseWork
  <2>4. CASE Enqueue(a)
    BY <2>4, EnqueueHolds
  <2>5. CASE RunStep(a)
    BY <2>5, <1>1 DEF RunStep
  <2>6. CASE Release(a)
    <3>1. a \in Requests
      BY <2>6 DEF Release, HInv, LineInv
    <3>. QED BY <2>6, <3>1, ReleaseHolds
  <2>. QED
    BY <1>3, <2>1, <2>2, <2>3, <2>4, <2>5, <2>6
       DEF TaskStep, GrantStep, HolderStep, CloseStep, QueueStep, ReleaseStep
<1>. QED
  BY <1>1, <1>2, <1>3 DEF Next, Done, vars

\* So it always holds.
LEMMA AlwaysHInv == Spec => []HInv
  BY HostInitHolds, HostStepHolds, PTL DEF Spec

\* A request works on running resources with every port open, however many
\* generations are published, started, rolled back and closed meanwhile.
THEOREM LeasesAreServed == Spec => []LeasedIsOpen
<1>1. HInv => LeasedIsOpen
  <2>. SUFFICES ASSUME HInv, NEW r \in Requests, pc[r] = "leased"
       PROVE  res[snap[r]] = [state |-> "running", open |-> PortSet]
    BY DEF LeasedIsOpen
  <2>1. r \in Actors
    BY DEF Actors
  <2>2. snap[r] # None
    BY <2>1, HostAssumption DEF HInv, HostTypeOK, LineInv, Gens, None
  <2>. QED BY <2>2 DEF HInv, OpenInv, Full
<1>. QED BY <1>1, AlwaysHInv, PTL

\* Whatever fails to start or to close, every open port belongs to a generation
\* that somebody still knows, and a closed host has none.
THEOREM PortsAreKnown == Spec => []NothingLeaks
<1>1. HInv => NothingLeaks
  <2>. SUFFICES ASSUME HInv PROVE NothingLeaks
    OBVIOUS
  <2>1. \A g \in Gens : res[g].open # {} => g \in {active, op.cand, op.prev} \cup retired
    BY DEF HInv, OpenInv
  <2>2. ASSUME closed, NEW g \in Gens PROVE res[g].open = {} /\ leases[g] = 0
    <3>1. active = None /\ retired = {} /\ op = NoOp /\ None \notin Gens
      BY <2>2 DEF HInv, PhaseInv, LockInv, None, Gens
    <3>2. res[g].open = {}
      BY <2>1, <3>1 DEF NoOp
    <3>3. Holders(g) = {}
      <4>1. \A r \in Requests : r \in Actors
        BY DEF Actors
      <4>. QED BY <3>1, <4>1 DEF HInv, OpenInv, Holders, NoOp
    <3>. QED BY <3>2, <3>3, FS_EmptySet DEF HInv, CountInv
  <2>. QED BY <2>1, <2>2 DEF NothingLeaks
<1>. QED BY <1>1, AlwaysHInv, PTL

\* How the synchronisation of a chat request ended is never "behind".
LEMMA AnswerMoves == HInv /\ NeverBehind /\ [Next]_vars => NeverBehind'
<1>. SUFFICES ASSUME HInv, NeverBehind, [Next]_vars, NEW r \in Chats
     PROVE  answer'[r] # "behind"
  BY DEF NeverBehind
<1>0. answer[r] # "behind" /\ answer \in [Actors -> Answers] /\ r \in Actors
  BY PlatformAssumption DEF NeverBehind, HInv, HostTypeOK, Actors
<1>1. ASSUME NEW a \in Actors, NEW why \in Answers, Raise(a, why), why # "behind" \/ a \notin Chats
      PROVE  answer'[r] # "behind"
  BY <1>0, <1>1 DEF Raise
<1>2. ASSUME NEW a \in Actors, NEW g, Return(a, g) PROVE answer'[r] # "behind"
  BY <1>0, <1>2 DEF Return
<1>3. CASE UNCHANGED answer
  BY <1>0, <1>3
<1>4. CASE Environment
  <2>1. ASSUME NEW a \in Actors, LeaveLine(a) PROVE answer'[r] # "behind"
    BY <1>0, <2>1 DEF LeaveLine
  <2>. QED
    BY <1>3, <1>4, <2>1 DEF Environment, Publish, Bind, Disturb, CancelHolder, StartFails
<1>5. ASSUME NEW a \in Actors, TaskStep(a) PROVE answer'[r] # "behind"
  <2>1. CASE Answer(a)
    <3>1. ASSUME Raise(a, "behind"), snap[a] < active PROVE a \notin Chats
      <4>1. a = queue[1] /\ 1 \in DOMAIN queue /\ snap[a] \in Nat /\ active \in Nat
        BY <2>1, HolderBound DEF Answer
      <4>. QED BY <3>1, <4>1 DEF HInv, LineInv
    <3>. QED BY <2>1, <3>1, <1>1, <1>2 DEF Answer, Answers
  <2>2. CASE Started(a) \/ Retired(a) \/ Discarded(a)
    BY <2>2, <1>1, <1>2, <1>3 DEF Started, Retired, Discarded, Answers
  <2>3. CASE CloseWork
    BY <2>3, <1>1, <1>3 DEF CloseWork, CloseEmpty, BeginClose, Quiesced, ShutOne, Answers, Actors
  <2>4. CASE Work(a) /\ ~Discarded(a)
    BY <2>4, <1>3 DEF Work, BeginStart, StartPort, StartFails, Drained, ClosePort, Unwound
  <2>5. CASE Enqueue(a) \/ RunStep(a) \/ Release(a)
    BY <2>5, <1>3 DEF Enqueue, RunStep, Release, hostVars
  <2>. QED
    BY <1>5, <2>1, <2>2, <2>3, <2>4, <2>5
       DEF TaskStep, GrantStep, HolderStep, CloseStep, QueueStep, ReleaseStep, Grant
<1>. QED
  BY <1>3, <1>4, <1>5 DEF Next, Done, vars, hostVars

\* The line for the lock keeps chat requests in the order of their snapshots, so
\* none of them finds the host already further than itself.
THEOREM ChatsInOrder == Spec => []NeverBehind
<1>1. Init => NeverBehind
  BY PlatformAssumption DEF Init, HostInit, NeverBehind, Actors
<1>. QED BY <1>1, AlwaysHInv, AnswerMoves, PTL DEF Spec
=============================================================================
