-------------------------- MODULE AccountingProofs --------------------------
(***************************************************************************)
(* The counters of stats.go balance, for all values of the constants.      *)
(*                                                                         *)
(* Reconciles and PipelineBalances compare sums of counters, and hold only *)
(* up to the Adds that goroutines have decided on and not yet made.  The   *)
(* inductive invariant, BooksInv, makes them equations: each balance has a *)
(* term for every place an Add may still be, in todo, in dispatch, in the  *)
(* queue or in a batch.  It also needs that these places hold different    *)
(* datagrams (Held), and that a drained pipeline holds none (DrainedOK).   *)
(*                                                                         *)
(* The proof is in three layers: what one Add does to a sum (AddCounted),  *)
(* what a step that counts does to the balances (the lemmas Count...), and *)
(* which of these each action of Accounting is (ListenerCounts,            *)
(* DemuxerCounts, PipelineCounted, AddCountedLater).                       *)
(***************************************************************************)
EXTENDS Accounting, RetireProofs

-----------------------------------------------------------------------------
(* Bags of Adds: a tally is one of finitely many.                          *)
AllAdds(bag) == UNION {{a} \X (1 .. bag[a]) : a \in DOMAIN bag}

(* A bag that counts finitely many Adds.                                   *)
IsTally(bag) ==
  /\ \A a \in DOMAIN bag : bag[a] \in Nat
  /\ IsFiniteSet(AllAdds(bag))

(* One if the Add a is to one of these counters of one of these owners.    *)
Hit(a, owners, counters) == IF a[1] \in owners /\ a[2] \in counters THEN 1 ELSE 0

(* Add number i of a is in the bag.                                        *)
LEMMA InAdds ==
  ASSUME NEW bag, NEW owners, NEW counters, NEW x
  PROVE  x \in AddsIn(bag, owners, counters)
           <=> \E a \in DOMAIN bag : /\ a[1] \in owners /\ a[2] \in counters
                                     /\ \E i \in 1 .. bag[a] : x = <<a, i>>
BY DEF AddsIn

(* One more Add gives one more element.                                    *)
LEMMA BagAddEffect ==
  ASSUME NEW bag, IsTally(bag), NEW a
  PROVE  \E n \in Nat :
           /\ DOMAIN BagAdd(bag, a) = DOMAIN bag \cup {a}
           /\ BagAdd(bag, a)[a] = n + 1
           /\ a \in DOMAIN bag => bag[a] = n
           /\ a \notin DOMAIN bag => n = 0
           /\ \A b \in DOMAIN bag : b # a => BagAdd(bag, a)[b] = bag[b]
<1> DEFINE n == IF a \in DOMAIN bag THEN bag[a] ELSE 0
<1>1. n \in Nat
  BY DEF IsTally
<1>2. \A b \in DOMAIN bag : bag[b] + 0 = bag[b]
  BY DEF IsTally
<1> QED BY <1>1, <1>2 DEF BagAdd

(* The Adds of a tally, all or some, are a finite set.                     *)
LEMMA AddsFinite ==
  ASSUME NEW bag, IsTally(bag), NEW owners, NEW counters
  PROVE  IsFiniteSet(AddsIn(bag, owners, counters))
<1>1. AddsIn(bag, owners, counters) \subseteq AllAdds(bag)
  BY DEF AddsIn, AllAdds
<1> QED BY <1>1, FS_Subset DEF IsTally

(* What one more Add does to a sum, when the owners that have counted are  *)
(* among the new owners if among the old ones.                             *)
LEMMA AddCounted ==
  ASSUME NEW bag, IsTally(bag), NEW a, NEW owners, NEW owners2, NEW counters,
         \A b \in DOMAIN bag : b[1] \in owners2 <=> b[1] \in owners
  PROVE  /\ IsTally(BagAdd(bag, a))
         /\ Cardinality(AddsIn(bag, owners, counters)) \in Nat
         /\ Cardinality(AddsIn(BagAdd(bag, a), owners2, counters))
              = Cardinality(AddsIn(bag, owners, counters)) + Hit(a, owners2, counters)
<1> DEFINE big == BagAdd(bag, a)
<1>1. PICK n \in Nat : /\ DOMAIN big = DOMAIN bag \cup {a}
                       /\ big[a] = n + 1
                       /\ a \in DOMAIN bag => bag[a] = n
                       /\ a \notin DOMAIN bag => n = 0
                       /\ \A b \in DOMAIN bag : b # a => big[b] = bag[b]
  BY BagAddEffect
<1> HIDE DEF big
<1>2. 1 .. big[a] = (1 .. n) \cup {n + 1} /\ n + 1 \notin 1 .. n
  BY <1>1
<1>3. AllAdds(big) = AllAdds(bag) \cup {<<a, n + 1>>}
  <2>1. \A x : x \in AllAdds(big) <=> \E b \in DOMAIN big : \E i \in 1 .. big[b] : x = <<b, i>>
    BY DEF AllAdds
  <2>2. \A x : x \in AllAdds(bag) <=> \E b \in DOMAIN bag : \E i \in 1 .. bag[b] : x = <<b, i>>
    BY DEF AllAdds
  <2>3. \A x : x \in AllAdds(big) <=> x \in AllAdds(bag) \/ x = <<a, n + 1>>
    BY <1>1, <1>2, <2>1, <2>2
  <2> QED BY <2>3
<1>4. IsTally(big)
  <2>1. \A b \in DOMAIN big : big[b] \in Nat
    BY <1>1 DEF IsTally
  <2> QED BY <1>3, <2>1, FS_AddElement DEF IsTally
<1>5. CASE a[1] \in owners2 /\ a[2] \in counters
  <2>1. AddsIn(big, owners2, counters) = AddsIn(bag, owners, counters) \cup {<<a, n + 1>>}
    <3>1. \A x : x \in AddsIn(big, owners2, counters)
                   <=> x \in AddsIn(bag, owners, counters) \/ x = <<a, n + 1>>
      BY <1>1, <1>2, <1>5, InAdds
    <3> QED BY <3>1
  <2>2. <<a, n + 1>> \notin AddsIn(bag, owners, counters)
    BY <1>1, <1>2, InAdds
  <2>3. IsFiniteSet(AddsIn(bag, owners, counters))
    BY AddsFinite
  <2>4. /\ Cardinality(AddsIn(bag, owners, counters)) \in Nat
        /\ Cardinality(AddsIn(big, owners2, counters))
             = Cardinality(AddsIn(bag, owners, counters)) + 1
    BY <2>1, <2>2, <2>3, FS_AddElement, FS_CardinalityType
  <2> QED BY <1>4, <1>5, <2>4 DEF Hit, big
<1>6. CASE ~(a[1] \in owners2 /\ a[2] \in counters)
  <2>1. AddsIn(big, owners2, counters) = AddsIn(bag, owners, counters)
    <3>1. \A x : x \in AddsIn(big, owners2, counters)
                   <=> x \in AddsIn(bag, owners, counters)
      BY <1>1, <1>6, InAdds
    <3> QED BY <3>1
  <2>2. IsFiniteSet(AddsIn(bag, owners, counters))
    BY AddsFinite
  <2>3. Cardinality(AddsIn(bag, owners, counters)) \in Nat
    BY <2>2, FS_CardinalityType
  <2> QED BY <1>4, <1>6, <2>1, <2>3 DEF Hit, big
<1> QED BY <1>5, <1>6

(* No Add, no change.                                                      *)
LEMMA NothingCounted ==
  ASSUME NEW bag, NEW owners, NEW owners2, NEW counters,
         \A b \in DOMAIN bag : b[1] \in owners2 <=> b[1] \in owners
  PROVE  AddsIn(bag, owners2, counters) = AddsIn(bag, owners, counters)
BY DEF AddsIn

-----------------------------------------------------------------------------
(* The datagrams on their way: where the listener has none, and that the   *)
(* one in dispatch, those in sharedRawCh and the one in the demuxer are    *)
(* different datagrams, which is why each is counted only once.            *)
Resting == {"bind", "read", "backoff", "stopped"}

(* Where the datagrams are that have not been decided on.                  *)
Held ==
  /\ lpc \in Resting <=> ldg.id = 0
  /\ ldg.id # 0 => fate[ldg.id] = "dispatching"
  /\ \A i \in DOMAIN sharedQ : sharedQ[i].id # 0 /\ fate[sharedQ[i].id] = "queued"
  /\ \A i, j \in DOMAIN sharedQ : sharedQ[i].id = sharedQ[j].id => i = j
  /\ xpc \in {"lookup", "send"} => xdg.id # 0 /\ fate[xdg.id] = "demuxing"
  /\ \A d \in 1 .. MaxDatagrams : d > received => fate[d] = "unsent"

(* What a step of the listener does with a datagram: it drops one it has   *)
(* read, takes one into dispatch, decides on it, or none of that.          *)
ReadsAndDrops ==
  /\ lpc = "read" /\ received < MaxDatagrams /\ received' = received + 1
  /\ \E o \in Drops : Settle(received', o)
  /\ UNCHANGED <<lpc, ldg, sharedQ>>

(* It takes one it has read into dispatch.                                 *)
ReadsIn ==
  /\ lpc = "read" /\ received < MaxDatagrams /\ received' = received + 1
  /\ Settle(received', "dispatching")
  /\ lpc' \notin Resting /\ ldg'.id = received'
  /\ UNCHANGED sharedQ

(* dispatch returns outcome o for the listener's datagram.                 *)
Decides(o) ==
  /\ lpc \notin Resting /\ lpc' = "read" /\ ldg' = NoDatagram
  /\ Settle(ldg.id, o)
  /\ UNCHANGED received
  /\ sharedQ' = IF o = "queued" THEN Append(sharedQ, ldg) ELSE sharedQ
  /\ o \in {"missing_token", "routing_closed"} => lpc \in {"check", "enqueue"}

(* dispatch goes on, or the listener does something else.                  *)
Proceeds ==
  /\ UNCHANGED <<received, fate, ldg, sharedQ>>
  /\ lpc \in Resting <=> lpc' \in Resting

(* Every step of the listener is one of these.                             *)
LEMMA ListenerEffect ==
  ASSUME TableInv, Dispatching
  PROVE  /\ UNCHANGED <<home, xpc, xdg, xp>>
         /\ \/ ReadsAndDrops
            \/ ReadsIn
            \/ \E o \in Drops \cup {"queued"} : Decides(o)
            \/ Proceeds
<1>1. ASSUME NEW w \in Payloads, Receive(w)
      PROVE  UNCHANGED <<home, xpc, xdg, xp>> /\ (ReadsAndDrops \/ ReadsIn)
  <2>1. CASE EarlyDrop(w) # "none"
    <3>1. EarlyDrop(w) \in Drops
      BY <2>1 DEF EarlyDrop, Drops
    <3> QED BY <1>1, <2>1, <3>1 DEF Receive, ReadsAndDrops
  <2>2. CASE EarlyDrop(w) = "none"
    BY <1>1, <2>2 DEF Receive, ReadsIn, Resting
  <2> QED BY <2>1, <2>2
<1>2. CASE Listening
  BY <1>2 DEF Listening, ListenerBinds, ListenerFails, ListenerStops, ReadFails,
              ReadResumes, ListenerMoves, routingVars, Proceeds, Resting
<1>3. CASE DispatchLookup \/ RegisterRecheck \/ RegisterLoad \/ RegisterStore \/ DispatchCheck
  <2>1. UNCHANGED <<sharedQ, received, home, xpc, xdg, xp>>
    BY <1>3 DEF DispatchLookup, RegisterRecheck, RegisterLoad, RegisterStore, DispatchCheck
  <2>2. lpc \in {"lookup", "register", "register_load", "register_store", "check"}
    BY <1>3 DEF DispatchLookup, RegisterRecheck, RegisterLoad, RegisterStore, DispatchCheck
  <2>3. \/ \E o \in Drops : /\ Return(o)
                            /\ o \in {"missing_token", "routing_closed"} => lpc = "check"
        \/ /\ lpc' \in {"register", "register_load", "register_store", "check", "enqueue"}
           /\ UNCHANGED <<fate, ldg>>
    <3>1. /\ Unrouted(ldg.project) \in Drops /\ "unrouted_unknown" \in Drops
          /\ "missing_token" \in Drops /\ "routing_closed" \in Drops
          /\ Unrouted(ldg.project) \notin {"missing_token", "routing_closed"}
      BY DEF Unrouted, Drops
    <3>2. CASE DispatchLookup
      BY <3>1, <3>2 DEF DispatchLookup
    <3>3. CASE RegisterRecheck \/ RegisterStore
      BY <3>3 DEF RegisterRecheck, RegisterStore
    <3>4. CASE RegisterLoad
      BY <3>1, <3>4 DEF RegisterLoad
    <3>5. CASE DispatchCheck
      BY <3>1, <3>5 DEF DispatchCheck
    <3> QED BY <1>3, <3>2, <3>3, <3>4, <3>5
  <2>4. "queued" \notin Drops
    BY DEF Drops
  <2> QED BY <2>1, <2>2, <2>3, <2>4 DEF Return, Decides, Proceeds, Resting
<1>4. CASE DispatchEnqueue
  <2>1. "routing_closed" \in Drops /\ "queue_full" \in Drops
    BY DEF Drops
  <2>2. UNCHANGED <<received, home, xpc, xdg, xp>> /\ lpc = "enqueue"
    BY <1>4 DEF DispatchEnqueue
  <2>3. \E o \in {"routing_closed", "queued", "queue_full"} :
          Return(o) /\ sharedQ' = IF o = "queued" THEN Append(sharedQ, ldg) ELSE sharedQ
    BY <1>4 DEF DispatchEnqueue
  <2> QED BY <2>1, <2>2, <2>3 DEF Return, Decides, Resting
<1> QED BY <1>1, <1>2, <1>3, <1>4 DEF Dispatching, DispatchRun

(* The same of the demuxer: it receives a datagram, finds that its project *)
(* has gone, or finds its pipeline.                                        *)
Receives ==
  /\ xpc = "recv" /\ sharedQ # <<>> /\ sharedQ' = Tail(sharedQ)
  /\ Settle(Head(sharedQ).id, "demuxing")
  /\ UNCHANGED home
  /\ xpc' = "lookup" /\ xdg' = Head(sharedQ)

Misses ==
  /\ xpc = "lookup" /\ xpc' = "recv"
  /\ Settle(xdg.id, "routing_closed")
  /\ UNCHANGED <<sharedQ, home>>

Finds ==
  /\ xpc = "lookup" /\ xpc' = "send"
  /\ UNCHANGED <<fate, home, sharedQ, xdg>>

(* It hands its datagram over, or drops it.                                *)
Sends(o) ==
  /\ xpc = "send" /\ xpc' = "recv"
  /\ Settle(xdg.id, o)
  /\ UNCHANGED sharedQ
  /\ o = "handed" => /\ home' = [home EXCEPT ![xdg.id] = xp]
                     /\ At(xp).stage \notin {"closed", "drained"}
  /\ o # "handed" => UNCHANGED home

(* Every step of the demuxer is one of these, or its end.                  *)
LEMMA DemuxerEffect ==
  ASSUME Demuxing
  PROVE  /\ UNCHANGED <<received, lpc, ldg, lp, pipes>>
         /\ \/ Receives \/ Misses \/ Finds
            \/ \E o \in {"routing_closed", "handed", "queue_full"} : Sends(o)
            \/ UNCHANGED <<fate, home, sharedQ>> /\ xpc = "recv" /\ xpc' = "done"
<1>1. CASE DemuxReceive
  BY <1>1 DEF DemuxReceive, Receives
<1>4. CASE DemuxLookup
  BY <1>4 DEF DemuxLookup, Misses, Finds
<1>2. CASE DemuxSend
  BY <1>2 DEF DemuxSend, Sends
<1>3. CASE DemuxExit
  BY <1>3 DEF DemuxExit, routingVars
<1> QED BY <1>1, <1>2, <1>3, <1>4 DEF Demuxing, DemuxRun

(* The other steps leave the datagrams alone.                              *)
LEMMA OthersEffect ==
  ASSUME Reloading \/ Expiring \/ Draining \/ Maining \/ Environment
  PROVE  UNCHANGED <<fate, home, sharedQ, received, lpc, ldg, lp, xpc, xdg, xp>>
<1>1. CASE Maining
  BY <1>1, SMTT(40) DEF Maining, Main, Signal, ListenerGone, ShutdownCloses, ShutdownDrains,
              ShutdownReturns, dispatchVars, routingVars
<1>2. CASE Reloading \/ Expiring \/ Draining \/ Environment
  BY <1>2 DEF Reloading, ReloadStarts, ReloadRun, ReloadLoad, ReloadBuild,
              ReloadStart, ReloadStore, ReloadDrain, ReloadStops, Expiring, ExpireRun,
              ExpireCollect, ExpireStore, ExpireDrain, Draining, DrainCloses, DrainReturns,
              Environment, EditKeysFile, GoesIdle, routingVars, dispatchVars
<1> QED BY <1>1, <1>2

(* The ids and fates there are.                                            *)
LEMMA DatagramTypes ==
  ASSUME TableInv
  PROVE  /\ fate \in [1 .. MaxDatagrams -> Fates]
         /\ received \in 0 .. MaxDatagrams /\ MaxDatagrams \in Nat
         /\ ldg \in Datagrams /\ ldg.id \in 0 .. MaxDatagrams
         /\ xdg \in Datagrams /\ xdg.id \in 0 .. MaxDatagrams
         /\ sharedQ \in Seq(Datagrams)
         /\ \A i \in DOMAIN sharedQ : sharedQ[i].id \in 0 .. MaxDatagrams
<1>1. /\ ldg \in Datagrams /\ xdg \in Datagrams /\ sharedQ \in Seq(Datagrams)
      /\ fate \in [1 .. MaxDatagrams -> Fates] /\ received \in 0 .. MaxDatagrams
  BY DEF TableInv, SharedOK
<1>2. \A dg \in Datagrams : dg.id \in 0 .. MaxDatagrams
  BY DEF Datagrams
<1>3. \A i \in DOMAIN sharedQ : sharedQ[i] \in Datagrams
  BY <1>1
<1> QED BY <1>1, <1>2, <1>3, RoutingAssumption

(* Settling a datagram changes its fate only.                              *)
LEMMA SettleEffect ==
  ASSUME TableInv, NEW d \in 1 .. MaxDatagrams, NEW o, Settle(d, o)
  PROVE  \A e \in 1 .. MaxDatagrams : fate'[e] = IF e = d THEN o ELSE fate[e]
BY DatagramTypes DEF Settle

(* The head of the queue and the rest.                                     *)
LEMMA QueueHead ==
  ASSUME TableInv, sharedQ # <<>>, sharedQ' = Tail(sharedQ)
  PROVE  /\ 1 \in DOMAIN sharedQ /\ Head(sharedQ) = sharedQ[1]
         /\ \A i \in DOMAIN sharedQ' : /\ i + 1 \in DOMAIN sharedQ /\ i + 1 # 1
                                       /\ sharedQ'[i] = sharedQ[i + 1]
         /\ \A i, j \in DOMAIN sharedQ' : i + 1 = j + 1 => i = j
BY DatagramTypes

(* Appending keeps the others and puts ldg behind them.                    *)
LEMMA QueueTail ==
  ASSUME TableInv, sharedQ' = Append(sharedQ, ldg)
  PROVE  \A i \in DOMAIN sharedQ' : \/ i \in DOMAIN sharedQ /\ sharedQ'[i] = sharedQ[i]
                                    \/ i = Len(sharedQ) + 1 /\ sharedQ'[i] = ldg
BY DatagramTypes

(* A step of the listener keeps Held.                                      *)
LEMMA HeldListening ==
  ASSUME TableInv, Held, Dispatching
  PROVE  Held'
<1>0. /\ UNCHANGED <<home, xpc, xdg, xp>>
      /\ \/ ReadsAndDrops
         \/ ReadsIn
         \/ \E o \in Drops \cup {"queued"} : Decides(o)
         \/ Proceeds
  BY ListenerEffect
<1>1. CASE ReadsAndDrops \/ ReadsIn
  <2>1. PICK o \in Drops \cup {"dispatching"} : Settle(received', o)
    BY <1>1 DEF ReadsAndDrops, ReadsIn
  <2>2. received' = received + 1 /\ received' \in 1 .. MaxDatagrams /\ fate[received'] = "unsent"
    BY <1>1, DatagramTypes DEF ReadsAndDrops, ReadsIn, Held
  <2>3. \A e \in 1 .. MaxDatagrams : fate'[e] = IF e = received' THEN o ELSE fate[e]
    BY <2>1, <2>2, SettleEffect
  <2>4. UNCHANGED sharedQ /\ ldg.id = 0
    BY <1>1 DEF ReadsAndDrops, ReadsIn, Held, Resting
  <2>5. \A i \in DOMAIN sharedQ : fate'[sharedQ[i].id] = "queued"
    BY <2>2, <2>3, DatagramTypes DEF Held
  <2>6. xpc \in {"lookup", "send"} => fate'[xdg.id] = "demuxing"
    BY <2>2, <2>3, DatagramTypes DEF Held
  <2>7. \A d \in 1 .. MaxDatagrams : d > received' => fate'[d] = "unsent"
    BY <2>2, <2>3, DatagramTypes DEF Held
  <2>8. CASE ReadsAndDrops
    BY <1>0, <2>4, <2>5, <2>6, <2>7, <2>8 DEF ReadsAndDrops, Held
  <2>9. CASE ReadsIn
    <3>1. fate'[ldg'.id] = "dispatching" /\ ldg'.id # 0 /\ lpc' \notin Resting
      BY <2>2, <2>9, DatagramTypes DEF ReadsIn, Settle
    <3> QED BY <1>0, <2>4, <2>5, <2>6, <2>7, <3>1 DEF Held
  <2> QED BY <1>1, <2>8, <2>9
<1>2. ASSUME NEW o \in Drops \cup {"queued"}, Decides(o)
      PROVE  Held'
  <2>1. /\ ldg.id \in 1 .. MaxDatagrams /\ fate[ldg.id] = "dispatching"
        /\ lpc' \in Resting /\ ldg'.id = 0 /\ UNCHANGED received
    BY <1>2, DatagramTypes DEF Decides, Held, Resting, NoDatagram
  <2>2. \A e \in 1 .. MaxDatagrams : fate'[e] = IF e = ldg.id THEN o ELSE fate[e]
    BY <1>2, <2>1, SettleEffect DEF Decides
  <2>3. \A i \in DOMAIN sharedQ : sharedQ[i].id # ldg.id /\ fate'[sharedQ[i].id] = "queued"
    BY <2>1, <2>2, DatagramTypes DEF Held
  <2>4. xpc \in {"lookup", "send"} => fate'[xdg.id] = "demuxing"
    BY <2>1, <2>2, DatagramTypes DEF Held
  <2>5. \A d \in 1 .. MaxDatagrams : d > received' => fate'[d] = "unsent"
    BY <2>1, <2>2, DatagramTypes DEF Held
  <2>6. /\ \A i \in DOMAIN sharedQ' : sharedQ'[i].id # 0 /\ fate'[sharedQ'[i].id] = "queued"
        /\ \A i, j \in DOMAIN sharedQ' : sharedQ'[i].id = sharedQ'[j].id => i = j
    <3>1. CASE o = "queued"
      <4>1. \A i \in DOMAIN sharedQ' : \/ i \in DOMAIN sharedQ /\ sharedQ'[i] = sharedQ[i]
                                       \/ i = Len(sharedQ) + 1 /\ sharedQ'[i] = ldg
        BY <1>2, <3>1, QueueTail DEF Decides
      <4>2. fate'[ldg.id] = "queued"
        BY <2>1, <2>2, <3>1
      <4> QED BY <2>1, <2>3, <4>1, <4>2 DEF Held
    <3>2. CASE o # "queued"
      BY <1>2, <2>3, <3>2 DEF Decides, Held
    <3> QED BY <3>1, <3>2
  <2> QED BY <1>0, <2>1, <2>4, <2>5, <2>6 DEF Held
<1>3. CASE Proceeds
  BY <1>0, <1>3 DEF Proceeds, Held
<1> QED BY <1>0, <1>1, <1>2, <1>3

(* Every step does.                                                        *)
LEMMA HeldStep ==
  ASSUME TableInv, Held, [Next]_vars
  PROVE  Held'
<1>1. CASE Dispatching
  BY <1>1, HeldListening
<1>2. ASSUME Receives, UNCHANGED <<received, lpc, ldg>>
      PROVE  Held'
  <2>1. /\ 1 \in DOMAIN sharedQ /\ Head(sharedQ) = sharedQ[1]
        /\ \A i \in DOMAIN sharedQ' : /\ i + 1 \in DOMAIN sharedQ /\ i + 1 # 1
                                      /\ sharedQ'[i] = sharedQ[i + 1]
        /\ \A i, j \in DOMAIN sharedQ' : i + 1 = j + 1 => i = j
    BY <1>2, QueueHead DEF Receives
  <2>2. sharedQ[1].id \in 1 .. MaxDatagrams /\ fate[sharedQ[1].id] = "queued"
    BY <2>1, DatagramTypes DEF Held
  <2>3. \A e \in 1 .. MaxDatagrams : fate'[e] = IF e = sharedQ[1].id THEN "demuxing" ELSE fate[e]
    BY <1>2, <2>1, <2>2, SettleEffect DEF Receives
  <2>4. ldg.id # 0 => fate'[ldg.id] = "dispatching"
    BY <2>2, <2>3, DatagramTypes DEF Held
  <2>5. \A i \in DOMAIN sharedQ : i # 1 =>
          sharedQ[i].id # 0 /\ sharedQ[i].id # sharedQ[1].id /\ fate'[sharedQ[i].id] = "queued"
    BY <2>1, <2>3, DatagramTypes DEF Held
  <2>6. xpc' \in {"lookup", "send"} => xdg'.id # 0 /\ fate'[xdg'.id] = "demuxing"
    BY <1>2, <2>1, <2>2, <2>3 DEF Receives
  <2>7. \A d \in 1 .. MaxDatagrams : d > received => fate'[d] = "unsent"
    BY <2>2, <2>3, DatagramTypes DEF Held
  <2>8. /\ \A i \in DOMAIN sharedQ' : sharedQ'[i].id # 0 /\ fate'[sharedQ'[i].id] = "queued"
        /\ \A i, j \in DOMAIN sharedQ' : sharedQ'[i].id = sharedQ'[j].id => i = j
    BY <2>1, <2>5 DEF Held
  <2> QED BY <1>2, <2>4, <2>6, <2>7, <2>8 DEF Held
<1>3. ASSUME NEW o \in {"routing_closed", "handed", "queue_full"},
             Sends(o) \/ (Misses /\ o = "routing_closed"),
             UNCHANGED <<received, lpc, ldg>>
      PROVE  Held'
  <2>1. xdg.id \in 1 .. MaxDatagrams /\ fate[xdg.id] = "demuxing" /\ xpc' = "recv"
    BY <1>3, DatagramTypes DEF Sends, Misses, Held
  <2>2. \A e \in 1 .. MaxDatagrams : fate'[e] = IF e = xdg.id THEN o ELSE fate[e]
    BY <1>3, <2>1, SettleEffect DEF Sends, Misses
  <2>3. ldg.id # 0 => fate'[ldg.id] = "dispatching"
    BY <2>1, <2>2, DatagramTypes DEF Held
  <2>4. \A i \in DOMAIN sharedQ : fate'[sharedQ[i].id] = "queued"
    BY <2>1, <2>2, DatagramTypes DEF Held
  <2>5. \A d \in 1 .. MaxDatagrams : d > received => fate'[d] = "unsent"
    BY <2>1, <2>2, DatagramTypes DEF Held
  <2>6. UNCHANGED sharedQ
    BY <1>3 DEF Sends, Misses
  <2> QED BY <1>3, <2>1, <2>3, <2>4, <2>5, <2>6 DEF Held
<1>4. CASE Demuxing
  <2>1. /\ UNCHANGED <<received, lpc, ldg>>
        /\ \/ Receives \/ Misses \/ Finds
           \/ \E o \in {"routing_closed", "handed", "queue_full"} : Sends(o)
           \/ UNCHANGED <<fate, home, sharedQ>> /\ xpc = "recv" /\ xpc' = "done"
    BY <1>4, DemuxerEffect
  <2>2. CASE UNCHANGED <<fate, home, sharedQ>> /\ xpc' = "done"
    BY <2>1, <2>2 DEF Held
  <2>3. CASE Finds
    BY <2>1, <2>3 DEF Held, Finds
  <2>4. CASE Misses
    BY <1>3, <2>1, <2>4
  <2> QED BY <1>2, <1>3, <2>1, <2>2, <2>3, <2>4
<1>5. CASE Reloading \/ Expiring \/ Draining \/ Maining \/ Environment
  BY <1>5, OthersEffect DEF Held
<1>6. CASE UNCHANGED vars
  BY <1>6 DEF vars, routingVars, dispatchVars, Held
<1> QED BY <1>1, <1>4, <1>5, <1>6 DEF Next

-----------------------------------------------------------------------------
(* What Post and MakeAdd do.  No Add, no change.                           *)
LEMMA PostNone ==
  ASSUME NEW g, Post(g, <<>>)
  PROVE  UNCHANGED <<counts, todo>>
BY DEF Post

(* One Add is made at once.                                                *)
LEMMA PostOne ==
  ASSUME NEW g, NEW a, Post(g, <<a>>)
  PROVE  counts' = BagAdd(counts, a) /\ UNCHANGED todo
BY DEF Post

(* Goroutine g has still to make Add a.                                    *)
Begins(g, a) ==
  /\ DOMAIN todo' = DOMAIN todo \cup {g}
  /\ todo'[g] = <<a>>
  /\ \A h \in DOMAIN todo : h # g => todo'[h] = todo[h]

(* Goroutine g has no Add to make any more.                                *)
Ends(g) ==
  /\ DOMAIN todo' = DOMAIN todo \ {g}
  /\ \A h \in DOMAIN todo : h # g => todo'[h] = todo[h]

(* Of two Adds the second is left to be made.                              *)
LEMMA PostTwo ==
  ASSUME NEW g, NEW a, NEW b, ~Busy(g), Post(g, <<a, b>>)
  PROVE  counts' = BagAdd(counts, a) /\ Begins(g, b)
<1>1. /\ counts' = BagAdd(counts, a)
      /\ todo' = [h \in DOMAIN todo \cup {g} |-> IF h = g THEN <<b>> ELSE todo[h]]
  BY DEF Post
<1>2. g \notin DOMAIN todo
  BY DEF Busy
<1> QED BY <1>1, <1>2 DEF Begins

(* The one Add left to a goroutine is made.                                *)
LEMMA MakeAddEnds ==
  ASSUME NEW g \in DOMAIN todo, NEW a, todo[g] = <<a>>, MakeAdd(g)
  PROVE  counts' = BagAdd(counts, a) /\ Ends(g) /\ UNCHANGED <<vars, inside>>
<1>1. Head(todo[g]) = a /\ Tail(todo[g]) = <<>>
  OBVIOUS
<1> QED BY <1>1 DEF MakeAdd, Ends, Restrict

-----------------------------------------------------------------------------
(* The books.  Tally is Total for any bag, and the same of todo: whether   *)
(* goroutine g has an Add to make, whether it is that of an outcome, and   *)
(* the goroutines about to count outcome c.                                *)
Tally(bag, owners, counters) == Cardinality(AddsIn(bag, owners, counters))
DueIn(t, g) == IF g \in DOMAIN t THEN 1 ELSE 0
OwedIn(t, g) == IF g \in DOMAIN t /\ t[g][1][2] \in Settled THEN 1 ELSE 0
PendingIn(t, c) == {g \in DOMAIN t : t[g][1][2] = c}

(* Every Add is the process's or a pipeline's.                             *)
CountsOK ==
  /\ IsTally(counts)
  /\ \A a \in DOMAIN counts : a[1] \in Made \cup {Process}

(* A goroutine has at most one Add to make after its first: the listener   *)
(* and the demuxer that of a drop, process-wide; a pipeline's goroutines   *)
(* that of an outcome or a refusal, to their pipeline.                     *)
TodoOK ==
  /\ IsFiniteSet(DOMAIN todo)
  /\ \A g \in DOMAIN todo :
       \/ g \in {Listener, DemuxerG} /\ \E c \in Drops : todo[g] = <<<<Process, c>>>>
       \/ \E r \in Made, c \in Settled \cup Refusals :
            g \in {BatcherOf(r), FlusherOf(r)} /\ todo[g] = <<<<r, c>>>>

(* Only what a pipeline took is inside one.                                *)
InsideOK ==
  /\ inside \in [1 .. MaxDatagrams -> {"out", "batched", "settled"}]
  /\ \A d \in 1 .. MaxDatagrams : fate[d] # "handed" => inside[d] = "out"

(* A drained pipeline has settled all it took.                             *)
DrainedOK == \A r \in Made : At(r).stage = "drained" => Emptied(r)

(* The datagrams that have been decided on, but for those batched by r.    *)
Entered == {d \in 1 .. MaxDatagrams : fate[d] \in Drops \/ inside[d] # "out"}
Batch(r) == {d \in 1 .. MaxDatagrams : home[d] = r /\ inside[d] = "batched"}

(* The counters of Reconciles: per project, and process-wide.              *)
Kept == {"received", "queue_full"}
Dropped == Drops \cup {"oversize"}

(* Each datagram received is in the process's count; each that was decided *)
(* on is counted once or about to be; a pipeline's received are its        *)
(* outcomes, those about to be counted and those batched; and the process  *)
(* is ahead of the pipelines by the outcomes they are about to count.      *)
ArrivedOK == Tally(counts, {Process}, {"received"}) = received
EnteredOK ==
  Tally(counts, Made, Kept) + Tally(counts, {Process}, Dropped)
    + DueIn(todo, Listener) + DueIn(todo, DemuxerG) = Cardinality(Entered)
SettledOK ==
  \A r : r # Process =>
    Tally(counts, {r}, {"received"})
      = Tally(counts, {r}, Settled) + OwedIn(todo, BatcherOf(r))
          + OwedIn(todo, FlusherOf(r)) + Cardinality(Batch(r))
MatchedOK ==
  \A c \in Settled :
    Tally(counts, {Process}, {c})
      = Tally(counts, Made, {c}) + Cardinality(PendingIn(todo, c))

(* The inductive invariant: the places, the sets and the balances.         *)
Books == CountsOK /\ TodoOK /\ InsideOK /\ DrainedOK
           /\ ArrivedOK /\ EnteredOK /\ SettledOK /\ MatchedOK
BooksInv == TableInv /\ Held /\ Books

(* Owners and goroutines are told apart.                                   *)
LEMMA Names ==
  /\ Process \notin Made /\ Process \notin Made'
  /\ Listener # DemuxerG
  /\ \A r : BatcherOf(r) \notin {Listener, DemuxerG}
            /\ FlusherOf(r) \notin {Listener, DemuxerG}
  /\ \A r, s : BatcherOf(r) # FlusherOf(s)
  /\ \A r, s : BatcherOf(r) = BatcherOf(s) => r = s
  /\ \A r, s : FlusherOf(r) = FlusherOf(s) => r = s
<1>1. \A p, g : <<p, g>> # Process
  BY DEF Process
<1> QED BY <1>1 DEF Made, Listener, DemuxerG, BatcherOf, FlusherOf

(* A tally is a number.                                                    *)
LEMMA TallyType ==
  ASSUME NEW bag, IsTally(bag)
  PROVE  \A owners, counters : Tally(bag, owners, counters) \in Nat
BY AddsFinite, FS_CardinalityType DEF Tally

(* What an Add of the process's does to the sums.                          *)
ProcessAdded(c) ==
  /\ \A C : Tally(counts', Made', C) = Tally(counts, Made, C)
  /\ \A C : c \in C =>
       Tally(counts', {Process}, C) = Tally(counts, {Process}, C) + 1
  /\ \A C : c \notin C => Tally(counts', {Process}, C) = Tally(counts, {Process}, C)
  /\ \A r, C : r # Process => Tally(counts', {r}, C) = Tally(counts, {r}, C)

(* What an Add of pipeline s's does to them.                               *)
PipelineAdded(s, c) ==
  /\ \A C : c \in C => Tally(counts', Made', C) = Tally(counts, Made, C) + 1
  /\ \A C : c \notin C => Tally(counts', Made', C) = Tally(counts, Made, C)
  /\ \A C : Tally(counts', {Process}, C) = Tally(counts, {Process}, C)
  /\ \A C : c \in C => Tally(counts', {s}, C) = Tally(counts, {s}, C) + 1
  /\ \A C : c \notin C => Tally(counts', {s}, C) = Tally(counts, {s}, C)
  /\ \A r, C : r # s => Tally(counts', {r}, C) = Tally(counts, {r}, C)

(* An Add of the process's.                                                *)
LEMMA ProcessCounts ==
  ASSUME CountsOK, Made \subseteq Made', NEW c, counts' = BagAdd(counts, <<Process, c>>)
  PROVE  /\ CountsOK'
         /\ ProcessAdded(c)
<1> DEFINE a == <<Process, c>>
<1>1. a[1] = Process /\ a[2] = c
  OBVIOUS
<1> HIDE DEF a
<1>2. counts' = BagAdd(counts, a)
  BY DEF a
<1>3. ASSUME NEW owners, NEW owners2, NEW C,
             \A b \in DOMAIN counts : b[1] \in owners2 <=> b[1] \in owners
      PROVE  /\ IsTally(counts') /\ Tally(counts, owners, C) \in Nat
             /\ Tally(counts', owners2, C) = Tally(counts, owners, C) + Hit(a, owners2, C)
  BY <1>2, <1>3, AddCounted DEF CountsOK, Tally
<1>4. CountsOK'
  <2>1. DOMAIN counts' = DOMAIN counts \cup {a}
    BY <1>2 DEF BagAdd
  <2>2. IsTally(counts')
    BY <1>3
  <2> QED BY <1>1, <2>1, <2>2 DEF CountsOK
<1>5. ASSUME NEW C
      PROVE  Tally(counts', Made', C) = Tally(counts, Made, C)
  <2>1. \A b \in DOMAIN counts : b[1] \in Made' <=> b[1] \in Made
    BY Names DEF CountsOK
  <2>2. Hit(a, Made', C) = 0
    BY <1>1, Names DEF Hit
  <2> QED BY <1>3, <2>1, <2>2
<1>6. ASSUME NEW C
      PROVE  /\ c \in C => Tally(counts', {Process}, C) = Tally(counts, {Process}, C) + 1
             /\ c \notin C => Tally(counts', {Process}, C) = Tally(counts, {Process}, C)
  BY <1>1, <1>3 DEF Hit
<1>7. ASSUME NEW r, NEW C, r # Process
      PROVE  Tally(counts', {r}, C) = Tally(counts, {r}, C)
  <2>1. Hit(a, {r}, C) = 0
    BY <1>1, <1>7 DEF Hit
  <2> QED BY <1>3, <2>1
<1> QED BY <1>4, <1>5, <1>6, <1>7 DEF ProcessAdded

(* An Add of pipeline s's.                                                 *)
LEMMA PipelineCounts ==
  ASSUME CountsOK, Made \subseteq Made', NEW s, s \in Made', NEW c,
         counts' = BagAdd(counts, <<s, c>>)
  PROVE  /\ CountsOK'
         /\ PipelineAdded(s, c)
<1> DEFINE a == <<s, c>>
<1>1. a[1] = s /\ a[2] = c
  OBVIOUS
<1> HIDE DEF a
<1>2. counts' = BagAdd(counts, a)
  BY DEF a
<1>3. ASSUME NEW owners, NEW owners2, NEW C,
             \A b \in DOMAIN counts : b[1] \in owners2 <=> b[1] \in owners
      PROVE  /\ IsTally(counts') /\ Tally(counts, owners, C) \in Nat
             /\ Tally(counts', owners2, C) = Tally(counts, owners, C) + Hit(a, owners2, C)
  BY <1>2, <1>3, AddCounted DEF CountsOK, Tally
<1>4. CountsOK'
  <2>1. DOMAIN counts' = DOMAIN counts \cup {a}
    BY <1>2 DEF BagAdd
  <2>2. IsTally(counts')
    BY <1>3
  <2> QED BY <1>1, <2>1, <2>2 DEF CountsOK
<1>5. ASSUME NEW C
      PROVE  /\ c \in C => Tally(counts', Made', C) = Tally(counts, Made, C) + 1
             /\ c \notin C => Tally(counts', Made', C) = Tally(counts, Made, C)
  <2>1. \A b \in DOMAIN counts : b[1] \in Made' <=> b[1] \in Made
    BY Names DEF CountsOK
  <2> QED BY <1>1, <1>3, <2>1 DEF Hit
<1>6. ASSUME NEW C
      PROVE  Tally(counts', {Process}, C) = Tally(counts, {Process}, C)
  <2>1. Hit(a, {Process}, C) = 0
    BY <1>1, Names DEF Hit
  <2> QED BY <1>3, <2>1
<1>7. ASSUME NEW r, NEW C
      PROVE  /\ r = s /\ c \in C => Tally(counts', {r}, C) = Tally(counts, {r}, C) + 1
             /\ r # s \/ c \notin C => Tally(counts', {r}, C) = Tally(counts, {r}, C)
  BY <1>1, <1>3 DEF Hit
<1>8. /\ \A C : c \in C => Tally(counts', {s}, C) = Tally(counts, {s}, C) + 1
      /\ \A C : c \notin C => Tally(counts', {s}, C) = Tally(counts, {s}, C)
      /\ \A r, C : r # s => Tally(counts', {r}, C) = Tally(counts, {r}, C)
  BY <1>7
<1> QED BY <1>4, <1>5, <1>6, <1>8 DEF PipelineAdded

(* No Add.                                                                 *)
LEMMA NobodyCounts ==
  ASSUME CountsOK, Made \subseteq Made', UNCHANGED counts
  PROVE  /\ CountsOK'
         /\ \A C : Tally(counts', Made', C) = Tally(counts, Made, C)
<1>1. \A b \in DOMAIN counts : b[1] \in Made' <=> b[1] \in Made
  BY Names DEF CountsOK
<1> QED BY <1>1, NothingCounted DEF CountsOK, Tally

(* Numbers of todo.                                                        *)
LEMMA TodoTypes ==
  ASSUME TodoOK
  PROVE  /\ \A g : DueIn(todo, g) \in {0, 1}
         /\ \A g : OwedIn(todo, g) \in {0, 1}
         /\ \A c : IsFiniteSet(PendingIn(todo, c)) /\ Cardinality(PendingIn(todo, c)) \in Nat
<1>1. ASSUME NEW c
      PROVE  IsFiniteSet(PendingIn(todo, c)) /\ Cardinality(PendingIn(todo, c)) \in Nat
  <2>1. PendingIn(todo, c) \subseteq DOMAIN todo
    BY DEF PendingIn
  <2>2. IsFiniteSet(PendingIn(todo, c))
    BY <2>1, FS_Subset DEF TodoOK
  <2> QED BY <2>2, FS_CardinalityType
<1> QED BY <1>1 DEF DueIn, OwedIn

(* What may be in todo.                                                    *)
MayOwe(g, a) ==
  \/ g \in {Listener, DemuxerG} /\ \E c \in Drops : a = <<Process, c>>
  \/ \E r \in Made, c \in Settled \cup Refusals :
       g \in {BatcherOf(r), FlusherOf(r)} /\ a = <<r, c>>

(* A goroutine comes to have an Add to make.                               *)
LEMMA BeginsEffect ==
  ASSUME TodoOK, Made \subseteq Made', NEW g, NEW a, g \notin DOMAIN todo, Begins(g, a),
         MayOwe(g, a)
  PROVE  /\ TodoOK'
         /\ \A h : DueIn(todo', h) = DueIn(todo, h) + (IF h = g THEN 1 ELSE 0)
         /\ \A h : OwedIn(todo', h)
                     = OwedIn(todo, h) + (IF h = g /\ a[2] \in Settled THEN 1 ELSE 0)
         /\ \A c : Cardinality(PendingIn(todo', c))
                     = Cardinality(PendingIn(todo, c)) + (IF a[2] = c THEN 1 ELSE 0)
<1>1. IsFiniteSet(DOMAIN todo')
  BY FS_AddElement DEF TodoOK, Begins
<1>2. todo'[g] = <<a>> /\ todo'[g][1] = a
  BY DEF Begins
<1>3. TodoOK'
  BY <1>1, <1>2 DEF TodoOK, Begins, MayOwe
<1>4. \A h : DueIn(todo', h) = DueIn(todo, h) + (IF h = g THEN 1 ELSE 0)
  BY DEF DueIn, Begins
<1>5. \A h : OwedIn(todo', h)
               = OwedIn(todo, h) + (IF h = g /\ a[2] \in Settled THEN 1 ELSE 0)
  <2> SUFFICES ASSUME NEW h
               PROVE  OwedIn(todo', h)
                        = OwedIn(todo, h) + (IF h = g /\ a[2] \in Settled THEN 1 ELSE 0)
    OBVIOUS
  <2>1. CASE h = g
    BY <1>2, <2>1 DEF OwedIn, Begins
  <2>2. CASE h # g
    BY <2>2 DEF OwedIn, Begins
  <2> QED BY <2>1, <2>2
<1>6. ASSUME NEW c
      PROVE  Cardinality(PendingIn(todo', c))
               = Cardinality(PendingIn(todo, c)) + (IF a[2] = c THEN 1 ELSE 0)
  <2>0. IsFiniteSet(PendingIn(todo, c)) /\ Cardinality(PendingIn(todo, c)) \in Nat
    BY TodoTypes
  <2>1. CASE a[2] = c
    <3>1. PendingIn(todo', c) = PendingIn(todo, c) \cup {g} /\ g \notin PendingIn(todo, c)
      BY <1>2, <2>1 DEF PendingIn, Begins
    <3> QED BY <2>0, <2>1, <3>1, FS_AddElement
  <2>2. CASE a[2] # c
    <3>1. PendingIn(todo', c) = PendingIn(todo, c)
      BY <1>2, <2>2 DEF PendingIn, Begins
    <3> QED BY <2>0, <2>2, <3>1
  <2> QED BY <2>1, <2>2
<1> QED BY <1>3, <1>4, <1>5, <1>6

(* It has made it.                                                         *)
LEMMA EndsEffect ==
  ASSUME TodoOK, Made \subseteq Made', NEW g \in DOMAIN todo, NEW a, todo[g] = <<a>>, Ends(g)
  PROVE  /\ TodoOK'
         /\ \A h : DueIn(todo, h) = DueIn(todo', h) + (IF h = g THEN 1 ELSE 0)
         /\ \A h : OwedIn(todo, h)
                     = OwedIn(todo', h) + (IF h = g /\ a[2] \in Settled THEN 1 ELSE 0)
         /\ \A c : Cardinality(PendingIn(todo, c))
                     = Cardinality(PendingIn(todo', c)) + (IF a[2] = c THEN 1 ELSE 0)
<1>1. IsFiniteSet(DOMAIN todo')
  BY FS_RemoveElement DEF TodoOK, Ends
<1>2. todo[g][1] = a
  OBVIOUS
<1>3. TodoOK'
  BY <1>1 DEF TodoOK, Ends
<1>4. \A h : DueIn(todo, h) = DueIn(todo', h) + (IF h = g THEN 1 ELSE 0)
  BY DEF DueIn, Ends
<1>5. \A h : OwedIn(todo, h)
               = OwedIn(todo', h) + (IF h = g /\ a[2] \in Settled THEN 1 ELSE 0)
  <2> SUFFICES ASSUME NEW h
               PROVE  OwedIn(todo, h)
                        = OwedIn(todo', h) + (IF h = g /\ a[2] \in Settled THEN 1 ELSE 0)
    OBVIOUS
  <2>1. CASE h = g
    BY <1>2, <2>1 DEF OwedIn, Ends
  <2>2. CASE h # g
    BY <2>2 DEF OwedIn, Ends
  <2> QED BY <2>1, <2>2
<1>6. ASSUME NEW c
      PROVE  Cardinality(PendingIn(todo, c))
               = Cardinality(PendingIn(todo', c)) + (IF a[2] = c THEN 1 ELSE 0)
  <2>0. IsFiniteSet(PendingIn(todo', c)) /\ Cardinality(PendingIn(todo', c)) \in Nat
    <3>1. PendingIn(todo', c) \subseteq DOMAIN todo'
      BY DEF PendingIn
    <3>2. IsFiniteSet(PendingIn(todo', c))
      BY <1>1, <3>1, FS_Subset
    <3> QED BY <3>2, FS_CardinalityType
  <2>1. CASE a[2] = c
    <3>1. PendingIn(todo, c) = PendingIn(todo', c) \cup {g} /\ g \notin PendingIn(todo', c)
      BY <1>2, <2>1 DEF PendingIn, Ends
    <3> QED BY <2>0, <2>1, <3>1, FS_AddElement
  <2>2. CASE a[2] # c
    <3>1. PendingIn(todo, c) = PendingIn(todo', c)
      BY <1>2, <2>2 DEF PendingIn, Ends
    <3> QED BY <2>0, <2>2, <3>1
  <2> QED BY <2>1, <2>2
<1> QED BY <1>3, <1>4, <1>5, <1>6

(* No goroutine has or makes one.                                          *)
LEMMA TodoSame ==
  ASSUME TodoOK, Made \subseteq Made', UNCHANGED todo
  PROVE  TodoOK'
BY DEF TodoOK

(* The sets of datagrams are finite, and grow and shrink by one.           *)
LEMMA DatagramSets ==
  ASSUME NEW S, S \subseteq 1 .. MaxDatagrams
  PROVE  /\ IsFiniteSet(S) /\ Cardinality(S) \in Nat
         /\ \A d : d \notin S => Cardinality(S \cup {d}) = Cardinality(S) + 1
         /\ \A d \in S : Cardinality(S) = Cardinality(S \ {d}) + 1
                         /\ Cardinality(S \ {d}) \in Nat
<1>1. IsFiniteSet(1 .. MaxDatagrams)
  BY FS_Interval, RoutingAssumption
<1>2. IsFiniteSet(S) /\ Cardinality(S) \in Nat
  BY <1>1, FS_Subset, FS_CardinalityType
<1>3. \A d : d \notin S => Cardinality(S \cup {d}) = Cardinality(S) + 1
  BY <1>2, FS_AddElement
<1>4. ASSUME NEW d \in S
      PROVE  Cardinality(S) = Cardinality(S \ {d}) + 1 /\ Cardinality(S \ {d}) \in Nat
  <2>1. IsFiniteSet(S \ {d}) /\ Cardinality(S \ {d}) = Cardinality(S) - 1
    BY <1>2, FS_RemoveElement
  <2>2. Cardinality(S \ {d}) \in Nat
    BY <2>1, FS_CardinalityType
  <2> QED BY <1>2, <2>1, <2>2
<1> QED BY <1>2, <1>3, <1>4

-----------------------------------------------------------------------------
(* The balances, and what keeps them: a step that counts something decides *)
(* on a datagram or makes an Add that was due.                             *)
Balance == ArrivedOK /\ EnteredOK /\ SettledOK /\ MatchedOK
Ledgers == CountsOK /\ TodoOK /\ Balance

(* The counters are told apart.                                            *)
LEMMA Counters ==
  /\ "received" \in Kept /\ "received" \notin Dropped /\ "received" \notin Settled
  /\ "queue_full" \in Kept /\ "queue_full" \notin Settled
  /\ \A c \in Drops : c \in Dropped /\ c \notin Settled /\ c # "received"
  /\ \A c \in Settled : c \notin Kept /\ c \notin Dropped /\ c # "received"
  /\ \A c \in Refusals : c \in Dropped /\ c \notin Kept /\ c \notin Settled /\ c # "received"
  /\ \A c \in {"missing_token", "routing_closed"} : c \in Drops /\ c \notin Kept
BY AccountingAssumption DEF Kept, Dropped, Drops, Settled

(* The numbers in the balances.                                            *)
LEMMA Numbers ==
  ASSUME CountsOK, TodoOK
  PROVE  /\ \A owners, C : Tally(counts, owners, C) \in Nat
         /\ \A g : DueIn(todo, g) \in Nat
         /\ \A g : OwedIn(todo, g) \in Nat
         /\ \A c : Cardinality(PendingIn(todo, c)) \in Nat
         /\ Cardinality(Entered) \in Nat
         /\ \A r : Cardinality(Batch(r)) \in Nat
<1>1. \A owners, C : Tally(counts, owners, C) \in Nat
  BY TallyType DEF CountsOK
<1>2. Entered \subseteq 1 .. MaxDatagrams /\ \A r : Batch(r) \subseteq 1 .. MaxDatagrams
  BY DEF Entered, Batch
<1>3. Cardinality(Entered) \in Nat /\ \A r : Cardinality(Batch(r)) \in Nat
  BY <1>2, DatagramSets
<1>4. /\ \A g : DueIn(todo, g) \in Nat
      /\ \A g : OwedIn(todo, g) \in Nat
      /\ \A c : Cardinality(PendingIn(todo, c)) \in Nat
  BY TodoTypes
<1> QED BY <1>1, <1>3, <1>4

(* Those of EnteredOK.                                                     *)
LEMMA EnteredTypes ==
  ASSUME CountsOK, TodoOK
  PROVE  /\ Tally(counts, Made, Kept) \in Nat /\ Tally(counts, {Process}, Dropped) \in Nat
         /\ DueIn(todo, Listener) \in Nat /\ DueIn(todo, DemuxerG) \in Nat
         /\ Cardinality(Entered) \in Nat
BY Numbers

(* Those of todo after a step.                                             *)
LEMMA NumbersAfter ==
  ASSUME TodoOK'
  PROVE  /\ \A g : DueIn(todo', g) \in Nat /\ OwedIn(todo', g) \in Nat
         /\ \A c : Cardinality(PendingIn(todo', c)) \in Nat
<1>1. IsFiniteSet(DOMAIN todo')
  BY DEF TodoOK
<1>2. ASSUME NEW c
      PROVE  Cardinality(PendingIn(todo', c)) \in Nat
  <2>1. PendingIn(todo', c) \subseteq DOMAIN todo'
    BY DEF PendingIn
  <2> QED BY <1>1, <2>1, FS_Subset, FS_CardinalityType
<1> QED BY <1>2 DEF DueIn, OwedIn

(* Nothing is counted and no datagram decided on.                          *)
LEMMA LedgersKept ==
  ASSUME Ledgers, Made \subseteq Made', UNCHANGED <<counts, todo, received>>,
         Entered' = Entered, \A r : Batch(r)' = Batch(r)
  PROVE  Ledgers'
<1> USE DEF Ledgers, Balance
<1>1. CountsOK' /\ \A C : Tally(counts', Made', C) = Tally(counts, Made, C)
  BY NobodyCounts
<1>2. TodoOK'
  BY TodoSame
<1>3. ArrivedOK' /\ EnteredOK'
  BY <1>1 DEF ArrivedOK, EnteredOK
<1>4. SettledOK' /\ MatchedOK'
  BY <1>1 DEF SettledOK, MatchedOK
<1> QED BY <1>1, <1>2, <1>3, <1>4

(* A datagram is read, and taken into dispatch.                            *)
LEMMA CountReceived ==
  ASSUME Ledgers, Made \subseteq Made', counts' = BagAdd(counts, <<Process, "received">>),
         UNCHANGED todo, received \in Nat, received' = received + 1,
         Entered' = Entered, \A r : Batch(r)' = Batch(r)
  PROVE  Ledgers'
<1> USE DEF Ledgers, Balance
<1>1. CountsOK' /\ ProcessAdded("received")
  BY ProcessCounts
<1>2. TodoOK'
  BY TodoSame
<1>3. ArrivedOK'
  BY <1>1, Numbers DEF ArrivedOK, ProcessAdded
<1>4. EnteredOK'
  <2>1. Tally(counts', {Process}, Dropped) = Tally(counts, {Process}, Dropped)
    BY <1>1, Counters DEF ProcessAdded
  <2> QED BY <1>1, <2>1 DEF EnteredOK, ProcessAdded
<1>5. SettledOK'
  BY <1>1, ZenonT(40) DEF SettledOK, ProcessAdded
<1>6. MatchedOK'
  <2>1. \A c \in Settled : Tally(counts', {Process}, {c}) = Tally(counts, {Process}, {c})
    BY <1>1, Counters DEF ProcessAdded
  <2> QED BY <1>1, <2>1 DEF MatchedOK, ProcessAdded
<1> QED BY <1>1, <1>2, <1>3, <1>4, <1>5, <1>6

(* The two balances of outcomes hold when none of their terms changes.     *)
OwedSame ==
  /\ \A h : OwedIn(todo', h) = OwedIn(todo, h)
  /\ \A c \in Settled : Cardinality(PendingIn(todo', c)) = Cardinality(PendingIn(todo, c))

(* SettledOK, when none of its terms changes.                              *)
LEMMA SettledSame ==
  ASSUME SettledOK, OwedSame, \A r : Batch(r)' = Batch(r),
         \A r : r # Process =>
           /\ Tally(counts', {r}, {"received"}) = Tally(counts, {r}, {"received"})
           /\ Tally(counts', {r}, Settled) = Tally(counts, {r}, Settled)
  PROVE  SettledOK'
<1> SUFFICES ASSUME NEW r, r # Process
             PROVE  Tally(counts', {r}, {"received"})
                      = Tally(counts', {r}, Settled) + OwedIn(todo', BatcherOf(r))
                          + OwedIn(todo', FlusherOf(r)) + Cardinality(Batch(r)')
  BY DEF SettledOK
<1> QED BY DEF SettledOK, OwedSame

(* MatchedOK, when none of its terms changes.                              *)
LEMMA MatchedSame ==
  ASSUME MatchedOK, OwedSame,
         \A c \in Settled :
           /\ Tally(counts', {Process}, {c}) = Tally(counts, {Process}, {c})
           /\ Tally(counts', Made', {c}) = Tally(counts, Made, {c})
  PROVE  MatchedOK'
BY DEF MatchedOK, OwedSame

(* So an Add of the process's that is not an outcome does not disturb      *)
(* them.                                                                   *)
LEMMA ProcessOutcomes ==
  ASSUME SettledOK, MatchedOK, OwedSame, \A r : Batch(r)' = Batch(r),
         NEW c, c \notin Settled, ProcessAdded(c)
  PROVE  SettledOK' /\ MatchedOK'
<1>1. SettledOK'
  BY SettledSame DEF ProcessAdded
<1>2. ASSUME NEW e \in Settled
      PROVE  /\ Tally(counts', {Process}, {e}) = Tally(counts, {Process}, {e})
             /\ Tally(counts', Made', {e}) = Tally(counts, Made, {e})
  <2>1. c \notin {e}
    OBVIOUS
  <2> QED BY <2>1 DEF ProcessAdded
<1> QED BY <1>1, <1>2, MatchedSame

(* The same of an Add of a pipeline's.                                     *)
LEMMA PipelineOutcomes ==
  ASSUME SettledOK, MatchedOK, OwedSame, \A r : Batch(r)' = Batch(r),
         NEW s, NEW c, c \notin Settled, c # "received", PipelineAdded(s, c)
  PROVE  SettledOK' /\ MatchedOK'
<1>1. ASSUME NEW r
      PROVE  /\ Tally(counts', {r}, {"received"}) = Tally(counts, {r}, {"received"})
             /\ Tally(counts', {r}, Settled) = Tally(counts, {r}, Settled)
  <2>1. c \notin {"received"}
    OBVIOUS
  <2>2. CASE r = s
    BY <2>1, <2>2 DEF PipelineAdded
  <2>3. CASE r # s
    BY <2>3 DEF PipelineAdded
  <2> QED BY <2>2, <2>3
<1>2. SettledOK'
  BY <1>1, SettledSame
<1>3. ASSUME NEW e \in Settled
      PROVE  /\ Tally(counts', {Process}, {e}) = Tally(counts, {Process}, {e})
             /\ Tally(counts', Made', {e}) = Tally(counts, Made, {e})
  <2>1. c \notin {e}
    OBVIOUS
  <2> QED BY <2>1 DEF PipelineAdded
<1> QED BY <1>2, <1>3, MatchedSame

(* The listener or the demuxer still has to count a drop process-wide.     *)
LEMMA DropBegins ==
  ASSUME CountsOK, TodoOK, Made \subseteq Made', NEW g \in {Listener, DemuxerG},
         NEW o \in Drops, g \notin DOMAIN todo, Begins(g, <<Process, o>>)
  PROVE  /\ TodoOK' /\ OwedSame
         /\ DueIn(todo', Listener) + DueIn(todo', DemuxerG)
              = DueIn(todo, Listener) + DueIn(todo, DemuxerG) + 1
         /\ DueIn(todo', Listener) \in Nat /\ DueIn(todo', DemuxerG) \in Nat
<1> DEFINE a == <<Process, o>>
<1>1. a[2] = o /\ o \notin Settled /\ MayOwe(g, a)
  BY Counters DEF MayOwe
<1> HIDE DEF a
<1>2. Begins(g, a)
  BY DEF a
<1>3. /\ TodoOK'
      /\ \A h : DueIn(todo', h) = DueIn(todo, h) + (IF h = g THEN 1 ELSE 0)
      /\ \A h : OwedIn(todo', h)
                  = OwedIn(todo, h) + (IF h = g /\ a[2] \in Settled THEN 1 ELSE 0)
      /\ \A c : Cardinality(PendingIn(todo', c))
                  = Cardinality(PendingIn(todo, c)) + (IF a[2] = c THEN 1 ELSE 0)
  BY <1>1, <1>2, BeginsEffect
<1>4. /\ DueIn(todo', Listener) + DueIn(todo', DemuxerG)
           = DueIn(todo, Listener) + DueIn(todo, DemuxerG) + 1
      /\ DueIn(todo', Listener) \in Nat /\ DueIn(todo', DemuxerG) \in Nat
  BY <1>3, Names, Numbers
<1>5. OwedSame
  BY <1>1, <1>3, Numbers DEF OwedSame
<1> QED BY <1>3, <1>4, <1>5

(* A datagram is read and dropped: its drop is still to be counted.        *)
LEMMA CountReadDrop ==
  ASSUME Ledgers, Made \subseteq Made', counts' = BagAdd(counts, <<Process, "received">>),
         NEW o \in Drops, Listener \notin DOMAIN todo, Begins(Listener, <<Process, o>>),
         received \in Nat, received' = received + 1,
         Cardinality(Entered') = Cardinality(Entered) + 1, \A r : Batch(r)' = Batch(r)
  PROVE  Ledgers'
<1> USE DEF Ledgers, Balance
<1>1. CountsOK' /\ ProcessAdded("received")
  BY ProcessCounts
<1>2. /\ TodoOK' /\ OwedSame
      /\ DueIn(todo', Listener) + DueIn(todo', DemuxerG)
           = DueIn(todo, Listener) + DueIn(todo, DemuxerG) + 1
      /\ DueIn(todo', Listener) \in Nat /\ DueIn(todo', DemuxerG) \in Nat
  BY DropBegins
<1>3. ArrivedOK'
  BY <1>1, Numbers DEF ArrivedOK, ProcessAdded
<1>4. EnteredOK'
  <2>1. /\ Tally(counts', {Process}, Dropped) = Tally(counts, {Process}, Dropped)
        /\ Tally(counts', Made', Kept) = Tally(counts, Made, Kept)
    BY <1>1, Counters DEF ProcessAdded
  <2> QED BY <1>2, <2>1, EnteredTypes DEF EnteredOK
<1>5. SettledOK' /\ MatchedOK'
  BY <1>1, <1>2, Counters, ProcessOutcomes
<1> QED BY <1>1, <1>2, <1>3, <1>4, <1>5

(* A datagram is dropped and counted, process-wide only.                   *)
LEMMA CountDrop ==
  ASSUME Ledgers, Made \subseteq Made', NEW o \in Drops,
         counts' = BagAdd(counts, <<Process, o>>), UNCHANGED <<todo, received>>,
         Cardinality(Entered') = Cardinality(Entered) + 1, \A r : Batch(r)' = Batch(r)
  PROVE  Ledgers'
<1> USE DEF Ledgers, Balance
<1>1. CountsOK' /\ ProcessAdded(o)
  BY ProcessCounts
<1>2. TodoOK' /\ OwedSame
  BY TodoSame DEF OwedSame
<1>3. ArrivedOK'
  <2>1. o \notin {"received"}
    BY Counters
  <2> QED BY <1>1, <2>1 DEF ArrivedOK, ProcessAdded
<1>4. EnteredOK'
  <2>1. /\ Tally(counts', {Process}, Dropped) = Tally(counts, {Process}, Dropped) + 1
        /\ Tally(counts', Made', Kept) = Tally(counts, Made, Kept)
    BY <1>1, Counters DEF ProcessAdded
  <2> QED BY <2>1, EnteredTypes DEF EnteredOK
<1>5. SettledOK' /\ MatchedOK'
  BY <1>1, <1>2, Counters, ProcessOutcomes
<1> QED BY <1>1, <1>2, <1>3, <1>4, <1>5

(* A datagram is dropped at pipeline s, which has counted it; the process  *)
(* has still to.                                                           *)
LEMMA CountPipeDrop ==
  ASSUME Ledgers, Made \subseteq Made', NEW o \in {"missing_token", "routing_closed"},
         NEW s \in Made, counts' = BagAdd(counts, <<s, o>>),
         NEW g \in {Listener, DemuxerG}, g \notin DOMAIN todo, Begins(g, <<Process, o>>),
         UNCHANGED received,
         Cardinality(Entered') = Cardinality(Entered) + 1, \A r : Batch(r)' = Batch(r)
  PROVE  Ledgers'
<1> USE DEF Ledgers, Balance
<1>0. o \in Drops /\ o \notin Kept /\ o \notin Settled /\ o # "received"
  BY Counters
<1>1. CountsOK' /\ PipelineAdded(s, o)
  BY PipelineCounts
<1>2. /\ TodoOK' /\ OwedSame
      /\ DueIn(todo', Listener) + DueIn(todo', DemuxerG)
           = DueIn(todo, Listener) + DueIn(todo, DemuxerG) + 1
      /\ DueIn(todo', Listener) \in Nat /\ DueIn(todo', DemuxerG) \in Nat
  BY <1>0, DropBegins
<1>3. ArrivedOK'
  BY <1>1 DEF ArrivedOK, PipelineAdded
<1>4. EnteredOK'
  <2>1. /\ Tally(counts', {Process}, Dropped) = Tally(counts, {Process}, Dropped)
        /\ Tally(counts', Made', Kept) = Tally(counts, Made, Kept)
    BY <1>0, <1>1 DEF PipelineAdded
  <2> QED BY <1>2, <2>1, EnteredTypes DEF EnteredOK
<1>5. SettledOK' /\ MatchedOK'
  BY <1>0, <1>1, <1>2, PipelineOutcomes
<1> QED BY <1>1, <1>2, <1>3, <1>4, <1>5

(* A datagram finds pipeline s's handoff channel full.                     *)
LEMMA CountFull ==
  ASSUME Ledgers, Made \subseteq Made', NEW s \in Made,
         counts' = BagAdd(counts, <<s, "queue_full">>), UNCHANGED <<todo, received>>,
         Cardinality(Entered') = Cardinality(Entered) + 1, \A r : Batch(r)' = Batch(r)
  PROVE  Ledgers'
<1> USE DEF Ledgers, Balance
<1>1. CountsOK' /\ PipelineAdded(s, "queue_full")
  BY PipelineCounts
<1>2. TodoOK' /\ OwedSame
  BY TodoSame DEF OwedSame
<1>3. ArrivedOK'
  BY <1>1 DEF ArrivedOK, PipelineAdded
<1>4. EnteredOK'
  <2>1. /\ Tally(counts', {Process}, Dropped) = Tally(counts, {Process}, Dropped)
        /\ Tally(counts', Made', Kept) = Tally(counts, Made, Kept) + 1
    BY <1>1, Counters DEF PipelineAdded
  <2> QED BY <2>1, EnteredTypes DEF EnteredOK
<1>5. SettledOK' /\ MatchedOK'
  BY <1>1, <1>2, Counters, PipelineOutcomes
<1> QED BY <1>1, <1>2, <1>3, <1>4, <1>5

(* The batcher of s accepts an event, and has it in its batch.             *)
LEMMA CountAccepted ==
  ASSUME Ledgers, Made \subseteq Made', NEW s \in Made,
         counts' = BagAdd(counts, <<s, "received">>), UNCHANGED <<todo, received>>,
         Cardinality(Entered') = Cardinality(Entered) + 1,
         Cardinality(Batch(s)') = Cardinality(Batch(s)) + 1,
         \A r : r # s => Batch(r)' = Batch(r)
  PROVE  Ledgers'
<1> USE DEF Ledgers, Balance
<1>1. CountsOK' /\ PipelineAdded(s, "received")
  BY PipelineCounts
<1>2. TodoOK' /\ OwedSame
  BY TodoSame DEF OwedSame
<1>3. ArrivedOK'
  BY <1>1 DEF ArrivedOK, PipelineAdded
<1>4. EnteredOK'
  <2>1. /\ Tally(counts', {Process}, Dropped) = Tally(counts, {Process}, Dropped)
        /\ Tally(counts', Made', Kept) = Tally(counts, Made, Kept) + 1
    BY <1>1, Counters DEF PipelineAdded
  <2> QED BY <2>1, EnteredTypes DEF EnteredOK
<1>5. SettledOK'
  <2> SUFFICES ASSUME NEW r, r # Process
               PROVE  Tally(counts', {r}, {"received"})
                        = Tally(counts', {r}, Settled) + OwedIn(todo, BatcherOf(r))
                            + OwedIn(todo, FlusherOf(r)) + Cardinality(Batch(r)')
    BY DEF SettledOK
  <2>1. Tally(counts, {r}, {"received"})
          = Tally(counts, {r}, Settled) + OwedIn(todo, BatcherOf(r))
              + OwedIn(todo, FlusherOf(r)) + Cardinality(Batch(r))
    BY DEF SettledOK
  <2>2. CASE r # s
    BY <1>1, <2>1, <2>2 DEF PipelineAdded
  <2>3. CASE r = s
    <3>1. /\ Tally(counts', {r}, {"received"}) = Tally(counts, {r}, {"received"}) + 1
          /\ Tally(counts', {r}, Settled) = Tally(counts, {r}, Settled)
          /\ Cardinality(Batch(r)') = Cardinality(Batch(r)) + 1
      BY <1>1, <2>3, Counters DEF PipelineAdded
    <3>2. /\ Tally(counts, {r}, Settled) \in Nat /\ OwedIn(todo, BatcherOf(r)) \in Nat
          /\ OwedIn(todo, FlusherOf(r)) \in Nat /\ Cardinality(Batch(r)) \in Nat
      BY Numbers
    <3> QED BY <2>1, <3>1, <3>2
  <2> QED BY <2>2, <2>3
<1>6. MatchedOK'
  <2>1. ASSUME NEW e \in Settled
        PROVE  /\ Tally(counts', {Process}, {e}) = Tally(counts, {Process}, {e})
               /\ Tally(counts', Made', {e}) = Tally(counts, Made, {e})
    <3>1. "received" \notin {e}
      BY Counters
    <3> QED BY <1>1, <3>1 DEF PipelineAdded
  <2> QED BY <1>2, <2>1, MatchedSame
<1> QED BY <1>1, <1>2, <1>3, <1>4, <1>5, <1>6

(* The batcher of s refuses an event, process-wide first.                  *)
LEMMA CountRefused ==
  ASSUME Ledgers, Made \subseteq Made', NEW s \in Made, NEW c \in Refusals,
         counts' = BagAdd(counts, <<Process, c>>), BatcherOf(s) \notin DOMAIN todo,
         Begins(BatcherOf(s), <<s, c>>), UNCHANGED received,
         Cardinality(Entered') = Cardinality(Entered) + 1, \A r : Batch(r)' = Batch(r)
  PROVE  Ledgers'
<1> USE DEF Ledgers, Balance
<1>0. c \in Dropped /\ c \notin Settled /\ c # "received"
  BY Counters
<1>1. CountsOK' /\ ProcessAdded(c)
  BY ProcessCounts
<1>2. /\ TodoOK' /\ OwedSame
      /\ DueIn(todo', Listener) = DueIn(todo, Listener)
      /\ DueIn(todo', DemuxerG) = DueIn(todo, DemuxerG)
  <2> DEFINE a == <<s, c>>
             g == BatcherOf(s)
  <2>1. a[2] = c /\ MayOwe(g, a) /\ g # Listener /\ g # DemuxerG
    BY Names DEF MayOwe
  <2> HIDE DEF a, g
  <2>2. Begins(g, a) /\ g \notin DOMAIN todo
    BY DEF a, g
  <2>3. /\ TodoOK'
        /\ \A h : DueIn(todo', h) = DueIn(todo, h) + (IF h = g THEN 1 ELSE 0)
        /\ \A h : OwedIn(todo', h)
                    = OwedIn(todo, h) + (IF h = g /\ a[2] \in Settled THEN 1 ELSE 0)
        /\ \A e : Cardinality(PendingIn(todo', e))
                    = Cardinality(PendingIn(todo, e)) + (IF a[2] = e THEN 1 ELSE 0)
    BY <2>1, <2>2, BeginsEffect
  <2>4. OwedSame
    BY <1>0, <2>1, <2>3, Numbers DEF OwedSame
  <2>5. /\ DueIn(todo', Listener) = DueIn(todo, Listener)
        /\ DueIn(todo', DemuxerG) = DueIn(todo, DemuxerG)
    BY <2>1, <2>3, Numbers
  <2> QED BY <2>3, <2>4, <2>5
<1>3. ArrivedOK'
  <2>1. c \notin {"received"}
    BY <1>0
  <2> QED BY <1>1, <2>1 DEF ArrivedOK, ProcessAdded
<1>4. EnteredOK'
  <2>1. /\ Tally(counts', {Process}, Dropped) = Tally(counts, {Process}, Dropped) + 1
        /\ Tally(counts', Made', Kept) = Tally(counts, Made, Kept)
    BY <1>0, <1>1 DEF ProcessAdded
  <2> QED BY <1>2, <2>1, EnteredTypes DEF EnteredOK
<1>5. SettledOK' /\ MatchedOK'
  BY <1>0, <1>1, <1>2, ProcessOutcomes
<1> QED BY <1>1, <1>2, <1>3, <1>4, <1>5

(* An event of s's batch has an outcome, counted process-wide first.       *)
LEMMA CountOutcome ==
  ASSUME Ledgers, Made \subseteq Made', NEW s \in Made, NEW c \in Settled,
         counts' = BagAdd(counts, <<Process, c>>),
         NEW g \in {BatcherOf(s), FlusherOf(s)}, g \notin DOMAIN todo,
         Begins(g, <<s, c>>), UNCHANGED received, Entered' = Entered,
         Cardinality(Batch(s)) = Cardinality(Batch(s)') + 1,
         Cardinality(Batch(s)') \in Nat,
         \A r : r # s => Batch(r)' = Batch(r)
  PROVE  Ledgers'
<1> USE DEF Ledgers, Balance
<1>0. c \notin Dropped /\ c \notin Kept /\ c # "received"
  BY Counters
<1>1. CountsOK' /\ ProcessAdded(c)
  BY ProcessCounts
<1>2. /\ TodoOK'
      /\ \A h : DueIn(todo', h) = DueIn(todo, h) + (IF h = g THEN 1 ELSE 0)
      /\ \A h : OwedIn(todo', h) = OwedIn(todo, h) + (IF h = g THEN 1 ELSE 0)
      /\ \A e : Cardinality(PendingIn(todo', e))
                  = Cardinality(PendingIn(todo, e)) + (IF c = e THEN 1 ELSE 0)
  <2> DEFINE a == <<s, c>>
  <2>1. a[2] = c /\ MayOwe(g, a)
    BY DEF MayOwe
  <2> HIDE DEF a
  <2>2. Begins(g, a)
    BY DEF a
  <2>3. /\ TodoOK'
        /\ \A h : DueIn(todo', h) = DueIn(todo, h) + (IF h = g THEN 1 ELSE 0)
        /\ \A h : OwedIn(todo', h)
                    = OwedIn(todo, h) + (IF h = g /\ a[2] \in Settled THEN 1 ELSE 0)
        /\ \A e : Cardinality(PendingIn(todo', e))
                    = Cardinality(PendingIn(todo, e)) + (IF a[2] = e THEN 1 ELSE 0)
    BY <2>1, <2>2, BeginsEffect
  <2> QED BY <2>1, <2>3
<1>3. ArrivedOK'
  <2>1. c \notin {"received"}
    BY <1>0
  <2> QED BY <1>1, <2>1 DEF ArrivedOK, ProcessAdded
<1>4. EnteredOK'
  <2>1. /\ Tally(counts', {Process}, Dropped) = Tally(counts, {Process}, Dropped)
        /\ Tally(counts', Made', Kept) = Tally(counts, Made, Kept)
    BY <1>0, <1>1 DEF ProcessAdded
  <2>2. /\ DueIn(todo', Listener) = DueIn(todo, Listener)
        /\ DueIn(todo', DemuxerG) = DueIn(todo, DemuxerG)
    BY <1>2, Names, Numbers
  <2> QED BY <2>1, <2>2, EnteredTypes DEF EnteredOK
<1>5. SettledOK'
  <2> SUFFICES ASSUME NEW r, r # Process
               PROVE  Tally(counts', {r}, {"received"})
                        = Tally(counts', {r}, Settled) + OwedIn(todo', BatcherOf(r))
                            + OwedIn(todo', FlusherOf(r)) + Cardinality(Batch(r)')
    BY DEF SettledOK
  <2>1. Tally(counts, {r}, {"received"})
          = Tally(counts, {r}, Settled) + OwedIn(todo, BatcherOf(r))
              + OwedIn(todo, FlusherOf(r)) + Cardinality(Batch(r))
    BY DEF SettledOK
  <2>2. /\ Tally(counts', {r}, {"received"}) = Tally(counts, {r}, {"received"})
        /\ Tally(counts', {r}, Settled) = Tally(counts, {r}, Settled)
    BY <1>1 DEF ProcessAdded
  <2>3. /\ Tally(counts, {r}, Settled) \in Nat /\ OwedIn(todo, BatcherOf(r)) \in Nat
        /\ OwedIn(todo, FlusherOf(r)) \in Nat /\ Cardinality(Batch(r)) \in Nat
    BY Numbers
  <2>4. CASE r # s
    <3>1. BatcherOf(r) # g /\ FlusherOf(r) # g
      BY <2>4, Names
    <3> QED BY <1>2, <2>1, <2>2, <2>3, <2>4, <3>1
  <2>5. CASE r = s
    <3>1. OwedIn(todo', BatcherOf(r)) + OwedIn(todo', FlusherOf(r))
            = OwedIn(todo, BatcherOf(r)) + OwedIn(todo, FlusherOf(r)) + 1
          /\ OwedIn(todo', BatcherOf(r)) \in Nat /\ OwedIn(todo', FlusherOf(r)) \in Nat
      BY <1>2, <2>3, <2>5, Names
    <3> QED BY <2>1, <2>2, <2>3, <2>5, <3>1
  <2> QED BY <2>4, <2>5
<1>6. MatchedOK'
  <2> SUFFICES ASSUME NEW e \in Settled
               PROVE  Tally(counts', {Process}, {e})
                        = Tally(counts', Made', {e}) + Cardinality(PendingIn(todo', e))
    BY DEF MatchedOK
  <2>1. Tally(counts, {Process}, {e})
          = Tally(counts, Made, {e}) + Cardinality(PendingIn(todo, e))
    BY DEF MatchedOK
  <2>2. Tally(counts', Made', {e}) = Tally(counts, Made, {e})
    BY <1>1 DEF ProcessAdded
  <2>3. Tally(counts, Made, {e}) \in Nat /\ Cardinality(PendingIn(todo, e)) \in Nat
    BY Numbers
  <2>4. CASE c = e
    <3>1. Tally(counts', {Process}, {e}) = Tally(counts, {Process}, {e}) + 1
      BY <1>1, <2>4 DEF ProcessAdded
    <3> QED BY <1>2, <2>1, <2>2, <2>3, <2>4, <3>1
  <2>5. CASE c # e
    <3>1. c \notin {e}
      BY <2>5
    <3>2. Tally(counts', {Process}, {e}) = Tally(counts, {Process}, {e})
      BY <1>1, <3>1 DEF ProcessAdded
    <3> QED BY <1>2, <2>1, <2>2, <2>3, <2>5, <3>2
  <2> QED BY <2>4, <2>5
<1> QED BY <1>1, <1>2, <1>3, <1>4, <1>5, <1>6

(* The listener or the demuxer makes the second Add of a drop.             *)
LEMMA CountDue ==
  ASSUME Ledgers, Made \subseteq Made', NEW g \in {Listener, DemuxerG}, NEW c \in Drops,
         g \in DOMAIN todo, todo[g] = <<<<Process, c>>>>, Ends(g),
         counts' = BagAdd(counts, <<Process, c>>),
         UNCHANGED received, Entered' = Entered, \A r : Batch(r)' = Batch(r)
  PROVE  Ledgers'
<1> USE DEF Ledgers, Balance
<1>0. c \in Dropped /\ c \notin Settled /\ c # "received"
  BY Counters
<1>1. CountsOK' /\ ProcessAdded(c)
  BY ProcessCounts
<1>2. /\ TodoOK' /\ OwedSame
      /\ DueIn(todo, Listener) + DueIn(todo, DemuxerG)
           = DueIn(todo', Listener) + DueIn(todo', DemuxerG) + 1
      /\ DueIn(todo', Listener) \in Nat /\ DueIn(todo', DemuxerG) \in Nat
  <2> DEFINE a == <<Process, c>>
  <2>1. a[2] = c
    OBVIOUS
  <2> HIDE DEF a
  <2>2. todo[g] = <<a>>
    BY DEF a
  <2>3. /\ TodoOK'
        /\ \A h : DueIn(todo, h) = DueIn(todo', h) + (IF h = g THEN 1 ELSE 0)
        /\ \A h : OwedIn(todo, h)
                    = OwedIn(todo', h) + (IF h = g /\ a[2] \in Settled THEN 1 ELSE 0)
        /\ \A e : Cardinality(PendingIn(todo, e))
                    = Cardinality(PendingIn(todo', e)) + (IF a[2] = e THEN 1 ELSE 0)
    BY <2>2, EndsEffect
  <2>4. /\ \A h : DueIn(todo', h) \in Nat /\ OwedIn(todo', h) \in Nat
        /\ \A e : Cardinality(PendingIn(todo', e)) \in Nat
    BY <1>1, <2>3, NumbersAfter
  <2>5. OwedSame
    BY <1>0, <2>1, <2>3, <2>4 DEF OwedSame
  <2>6. DueIn(todo, Listener) + DueIn(todo, DemuxerG)
          = DueIn(todo', Listener) + DueIn(todo', DemuxerG) + 1
    BY <2>3, <2>4, Names
  <2> QED BY <2>3, <2>4, <2>5, <2>6
<1>3. ArrivedOK'
  <2>1. c \notin {"received"}
    BY <1>0
  <2> QED BY <1>1, <2>1 DEF ArrivedOK, ProcessAdded
<1>4. EnteredOK'
  <2>1. /\ Tally(counts', {Process}, Dropped) = Tally(counts, {Process}, Dropped) + 1
        /\ Tally(counts', Made', Kept) = Tally(counts, Made, Kept)
    BY <1>0, <1>1 DEF ProcessAdded
  <2> QED BY <1>2, <2>1, EnteredTypes DEF EnteredOK
<1>5. SettledOK' /\ MatchedOK'
  BY <1>0, <1>1, <1>2, ProcessOutcomes
<1> QED BY <1>1, <1>2, <1>3, <1>4, <1>5

(* A goroutine of pipeline s makes the second Add of an outcome or of a    *)
(* refusal.                                                                *)
LEMMA CountOwed ==
  ASSUME Ledgers, Made \subseteq Made', NEW s \in Made, NEW c \in Settled \cup Refusals,
         NEW g \in {BatcherOf(s), FlusherOf(s)},
         g \in DOMAIN todo, todo[g] = <<<<s, c>>>>, Ends(g),
         counts' = BagAdd(counts, <<s, c>>),
         UNCHANGED received, Entered' = Entered, \A r : Batch(r)' = Batch(r)
  PROVE  Ledgers'
<1> USE DEF Ledgers, Balance
<1>0. c \notin Kept /\ c # "received" /\ c \notin {"received"} /\ s # Process
  BY Counters, Names
<1>1. CountsOK' /\ PipelineAdded(s, c)
  BY PipelineCounts
<1>2. /\ TodoOK'
      /\ \A h : DueIn(todo, h) = DueIn(todo', h) + (IF h = g THEN 1 ELSE 0)
      /\ \A h : OwedIn(todo, h)
                  = OwedIn(todo', h) + (IF h = g /\ c \in Settled THEN 1 ELSE 0)
      /\ \A e : Cardinality(PendingIn(todo, e))
                  = Cardinality(PendingIn(todo', e)) + (IF c = e THEN 1 ELSE 0)
  <2> DEFINE a == <<s, c>>
  <2>1. a[2] = c
    OBVIOUS
  <2> HIDE DEF a
  <2>2. todo[g] = <<a>>
    BY DEF a
  <2>3. /\ TodoOK'
        /\ \A h : DueIn(todo, h) = DueIn(todo', h) + (IF h = g THEN 1 ELSE 0)
        /\ \A h : OwedIn(todo, h)
                    = OwedIn(todo', h) + (IF h = g /\ a[2] \in Settled THEN 1 ELSE 0)
        /\ \A e : Cardinality(PendingIn(todo, e))
                    = Cardinality(PendingIn(todo', e)) + (IF a[2] = e THEN 1 ELSE 0)
    BY <2>2, EndsEffect
  <2> QED BY <2>1, <2>3
<1>a. /\ \A h : DueIn(todo', h) \in Nat /\ OwedIn(todo', h) \in Nat
      /\ \A e : Cardinality(PendingIn(todo', e)) \in Nat
  BY <1>1, <1>2, NumbersAfter
<1>3. ArrivedOK'
  BY <1>1 DEF ArrivedOK, PipelineAdded
<1>4. EnteredOK'
  <2>1. /\ Tally(counts', {Process}, Dropped) = Tally(counts, {Process}, Dropped)
        /\ Tally(counts', Made', Kept) = Tally(counts, Made, Kept)
    BY <1>0, <1>1 DEF PipelineAdded
  <2>2. /\ DueIn(todo', Listener) = DueIn(todo, Listener)
        /\ DueIn(todo', DemuxerG) = DueIn(todo, DemuxerG)
    BY <1>2, <1>a, Names
  <2> QED BY <2>1, <2>2, EnteredTypes DEF EnteredOK
<1>5. CASE c \notin Settled
  <2>1. OwedSame
    BY <1>2, <1>5, <1>a DEF OwedSame
  <2>2. SettledOK' /\ MatchedOK'
    BY <1>0, <1>1, <1>5, <2>1, PipelineOutcomes
  <2> QED BY <1>1, <1>2, <1>3, <1>4, <2>2
<1>6. CASE c \in Settled
  <2>1. SettledOK'
    <3> SUFFICES ASSUME NEW r, r # Process
                 PROVE  Tally(counts', {r}, {"received"})
                          = Tally(counts', {r}, Settled) + OwedIn(todo', BatcherOf(r))
                              + OwedIn(todo', FlusherOf(r)) + Cardinality(Batch(r)')
      BY DEF SettledOK
    <3>1. Tally(counts, {r}, {"received"})
            = Tally(counts, {r}, Settled) + OwedIn(todo, BatcherOf(r))
                + OwedIn(todo, FlusherOf(r)) + Cardinality(Batch(r))
      BY DEF SettledOK
    <3>2. /\ Tally(counts, {r}, Settled) \in Nat /\ OwedIn(todo', BatcherOf(r)) \in Nat
          /\ OwedIn(todo', FlusherOf(r)) \in Nat /\ Cardinality(Batch(r)) \in Nat
      BY <1>a, Numbers
    <3>3. CASE r # s
      <4>1. BatcherOf(r) # g /\ FlusherOf(r) # g
        BY <3>3, Names
      <4>2. /\ OwedIn(todo, BatcherOf(r)) = OwedIn(todo', BatcherOf(r))
            /\ OwedIn(todo, FlusherOf(r)) = OwedIn(todo', FlusherOf(r))
        BY <1>2, <3>2, <4>1
      <4>3. /\ Tally(counts', {r}, {"received"}) = Tally(counts, {r}, {"received"})
            /\ Tally(counts', {r}, Settled) = Tally(counts, {r}, Settled)
        BY <1>1, <3>3 DEF PipelineAdded
      <4> QED BY <3>1, <4>2, <4>3
    <3>4. CASE r = s
      <4>1. OwedIn(todo, BatcherOf(r)) + OwedIn(todo, FlusherOf(r))
              = OwedIn(todo', BatcherOf(r)) + OwedIn(todo', FlusherOf(r)) + 1
            /\ OwedIn(todo, BatcherOf(r)) \in Nat /\ OwedIn(todo, FlusherOf(r)) \in Nat
        BY <1>2, <1>6, <3>2, <3>4, Names
      <4>2. /\ Tally(counts', {r}, {"received"}) = Tally(counts, {r}, {"received"})
            /\ Tally(counts', {r}, Settled) = Tally(counts, {r}, Settled) + 1
        BY <1>0, <1>1, <1>6, <3>4 DEF PipelineAdded
      <4> QED BY <3>1, <3>2, <4>1, <4>2
    <3> QED BY <3>3, <3>4
  <2>2. MatchedOK'
    <3> SUFFICES ASSUME NEW e \in Settled
                 PROVE  Tally(counts', {Process}, {e})
                          = Tally(counts', Made', {e}) + Cardinality(PendingIn(todo', e))
      BY DEF MatchedOK
    <3>1. Tally(counts, {Process}, {e})
            = Tally(counts, Made, {e}) + Cardinality(PendingIn(todo, e))
      BY DEF MatchedOK
    <3>2. Tally(counts', {Process}, {e}) = Tally(counts, {Process}, {e})
      BY <1>1 DEF PipelineAdded
    <3>3. Tally(counts, Made, {e}) \in Nat /\ Cardinality(PendingIn(todo', e)) \in Nat
      BY <1>a, Numbers
    <3>4. CASE c = e
      <4>1. Tally(counts', Made', {e}) = Tally(counts, Made, {e}) + 1
        BY <1>1, <3>4 DEF PipelineAdded
      <4> QED BY <1>2, <3>1, <3>2, <3>3, <3>4, <4>1
    <3>5. CASE c # e
      <4>1. c \notin {e}
        BY <3>5
      <4>2. Tally(counts', Made', {e}) = Tally(counts, Made, {e})
        BY <1>1, <4>1 DEF PipelineAdded
      <4> QED BY <1>2, <3>1, <3>2, <3>3, <3>5, <4>2
    <3> QED BY <3>4, <3>5
  <2> QED BY <1>1, <1>2, <1>3, <1>4, <2>1, <2>2
<1> QED BY <1>5, <1>6

-----------------------------------------------------------------------------
(* No pipeline comes to be drained.                                        *)
NoneDrained ==
  \A r \in Made' : At(r)'.stage = "drained" => r \in Made /\ At(r).stage = "drained"

(* A step that leaves the stages alone drains none.                        *)
LEMMA UntouchedDrains == AllUntouched => NoneDrained
BY DEF AllUntouched, Untouched, NoneDrained

(* Only the return of a drain does, of a pipeline that was closed.         *)
LEMMA OnlyDrains ==
  ASSUME TableInv, \/ Dispatching \/ Demuxing \/ Reloading \/ Expiring
                   \/ Maining \/ Environment \/ UNCHANGED vars
  PROVE  NoneDrained
<1>1. CASE UNCHANGED pipes
  BY <1>1, UnchangedEffect, UntouchedDrains
<1>2. CASE UNCHANGED vars
  BY <1>1, <1>2 DEF vars, routingVars
<1>3. CASE Dispatching
  <2>1. CASE DispatchCheck /\ ~UNCHANGED pipes
    <3>1. PICK r \in Made : r = lp
      BY <2>1, MadeIsPipe DEF DispatchCheck, TableInv, HoldersOK
    <3>2. pipes' = [pipes EXCEPT ![r[1]][r[2]].idle = FALSE]
      BY <2>1, <3>1 DEF DispatchCheck
    <3> QED BY <3>2, MarkEffect, UntouchedDrains DEF TableInv
  <2>2. CASE RegisterLoad /\ ~UNCHANGED pipes
    <3>1. lpc' # "read"
      BY <2>2 DEF RegisterLoad, Return
    <3>2. /\ Made' = Made \cup {lp'}
          /\ \A r \in Made : At(r)' = At(r)
          /\ At(lp)'.stage = "running"
      BY <2>2, <3>1, RegisterAdds DEF Ready
    <3>3. \A r \in Made' \ Made : At(r)'.stage = "running"
      BY <3>2 DEF At
    <3> QED BY <3>2, <3>3 DEF NoneDrained
  <2>3. CASE UNCHANGED pipes
    BY <1>1, <2>3
  <2> QED
    BY <1>3, <2>1, <2>2, <2>3
       DEF Dispatching, DispatchRun, DispatchLookup, RegisterRecheck, RegisterStore,
           DispatchEnqueue, Receive, Listening, ListenerBinds, ListenerFails, ListenerStops,
           ReadFails, ReadResumes, ListenerMoves, routingVars
<1>4. CASE Demuxing
  BY <1>1, <1>4, DemuxerEffect
<1>5. ASSUME NEW rs, SpawnDrains(rs)
      PROVE  NoneDrained
  BY <1>5, SpawnEffect DEF TableInv, NoneDrained
<1>6. CASE Reloading
  <2>1. CASE ReloadStart
    BY <2>1, StageEffect DEF ReloadStart, TableInv, NoneDrained
  <2>2. CASE ReloadBuild /\ rpc' = "start"
    <3>1. PICK new : /\ Made' = Made \cup new
                     /\ \A r \in new : Unstarted(r)'
                     /\ \A r \in Made : At(r)' = At(r)
      BY <2>2, BuildAdds
    <3> QED BY <3>1 DEF NoneDrained, Unstarted
  <2>3. CASE ReloadDrain
    BY <1>5, <2>3 DEF ReloadDrain
  <2>4. CASE UNCHANGED pipes
    BY <1>1, <2>4
  <2> QED BY <1>6, <2>1, <2>2, <2>3, <2>4
             DEF Reloading, ReloadStarts, ReloadRun, ReloadLoad, ReloadBuild, ReloadStore,
                 ReloadStops, routingVars
<1>7. CASE Expiring
  BY <1>1, <1>5, <1>7 DEF Expiring, ExpireRun, ExpireCollect, ExpireStore, ExpireDrain
<1>8. CASE Maining
  BY <1>1, <1>5, <1>8 DEF Maining, Main, Signal, ListenerGone, ShutdownCloses,
                          ShutdownDrains, ShutdownReturns, routingVars
<1>9. CASE Environment
  <2>1. ASSUME NEW r \in Made, GoesIdle(r)
        PROVE  NoneDrained
    BY <2>1, MarkEffect, UntouchedDrains DEF GoesIdle, TableInv
  <2> QED BY <1>1, <1>9, <2>1 DEF Environment, EditKeysFile, routingVars
<1> QED BY <1>2, <1>3, <1>4, <1>6, <1>7, <1>8, <1>9

(* And a drain that returns found its pipeline closed.                     *)
LEMMA DrainingDrains ==
  ASSUME TableInv, Draining
  PROVE  \A r \in Made' : At(r)'.stage = "drained" =>
           r \in Made /\ At(r).stage \in {"closed", "drained"}
<1>1. CASE UNCHANGED pipes
  BY <1>1 DEF Made, At
<1>2. ASSUME NEW s \in Made, NEW x, pipes' = [pipes EXCEPT ![s[1]][s[2]] = x],
             x.stage = "closed" \/ At(s).stage = "closed"
      PROVE  \A r \in Made' : At(r)'.stage = "drained" =>
               r \in Made /\ At(r).stage \in {"closed", "drained"}
  <2>1. /\ Made' = Made
        /\ At(s)' = x
        /\ \A r \in Made : r # s => At(r)' = At(r)
    BY <1>2, ChangeEffect DEF TableInv
  <2> QED BY <1>2, <2>1
<1>3. ASSUME NEW s \in Made, DrainCloses(s), ~UNCHANGED pipes
      PROVE  pipes' = [pipes EXCEPT ![s[1]][s[2]] = Closed(At(s))]
             /\ Closed(At(s)).stage = "closed"
  <2>1. At(s) \in Pipelines /\ At(s).drains > 0
    BY <1>3, MadeType DEF DrainCloses, TableInv
  <2> QED BY <1>3, <2>1, ClosedType DEF DrainCloses, At
<1>4. ASSUME NEW s \in Made, DrainReturns(s)
      PROVE  /\ pipes' = [pipes EXCEPT ![s[1]][s[2]] = [At(s) EXCEPT !.stage = "drained"]]
             /\ At(s).stage = "closed"
  BY <1>4 DEF DrainReturns, At
<1> QED BY <1>1, <1>2, <1>3, <1>4 DEF Draining

-----------------------------------------------------------------------------
(* The Adds of a drop.  There are none if the datagram is not dropped.     *)
LEMMA DropNone ==
  ASSUME NEW d, NEW owners, fate'[d] \notin Drops
  PROVE  DropAdds(d, owners) = <<>>
BY DEF DropAdds

(* A drop counted at one level.                                            *)
LEMMA DropOne ==
  ASSUME NEW d, NEW p, NEW o \in Drops, fate'[d] = o
  PROVE  DropAdds(d, <<p>>) = <<<<p, o>>>>
BY DEF DropAdds

(* A drop counted at two levels, the owner's first.                        *)
LEMMA DropTwo ==
  ASSUME NEW d, NEW p, NEW q, NEW o \in Drops, fate'[d] = o
  PROVE  DropAdds(d, <<p, q>>) = <<<<p, o>>, <<q, o>>>>
BY DEF DropAdds

(* Two Adds, one after the other.                                          *)
LEMMA JoinTwo ==
  ASSUME NEW a, NEW b
  PROVE  <<a>> \o <<b>> = <<a, b>>
<1> DEFINE s == <<a>> \o <<b>>
<1>1. s \in Seq({a, b}) /\ Len(s) = 2 /\ s[1] = a /\ s[2] = b
  OBVIOUS
<1> HIDE DEF s
<1>2. s = <<s[1], s[2]>>
  BY <1>1
<1>3. s = <<a, b>>
  BY <1>1, <1>2
<1> QED BY <1>3 DEF s

(* One Add and no other.                                                   *)
LEMMA JoinNone ==
  ASSUME NEW a
  PROVE  <<a>> \o <<>> = <<a>>
<1>1. (<<a>> \o <<>>) \in Seq({a}) /\ Len(<<a>> \o <<>>) = 1 /\ (<<a>> \o <<>>)[1] = a
  OBVIOUS
<1> QED BY <1>1

(* A datagram that no pipeline has yet is moved on or dropped: the sets    *)
(* the balances speak of are the same, or one has been decided on.         *)
LEMMA DatagramMoves ==
  ASSUME TableInv, InsideOK, NEW d \in 1 .. MaxDatagrams,
         fate[d] \in {"unsent", "dispatching", "queued", "demuxing"},
         NEW o, Settle(d, o), UNCHANGED inside,
         \A e \in 1 .. MaxDatagrams : e # d => home'[e] = home[e]
  PROVE  /\ InsideOK' /\ \A r : Batch(r)' = Batch(r)
         /\ fate'[d] = o
         /\ o \in Drops => Cardinality(Entered') = Cardinality(Entered) + 1
         /\ o \notin Drops => Entered' = Entered
<1>1. \A e \in 1 .. MaxDatagrams : fate'[e] = IF e = d THEN o ELSE fate[e]
  BY SettleEffect
<1>2. inside[d] = "out" /\ fate[d] \notin Drops
  BY DEF InsideOK, Drops
<1>3. InsideOK'
  BY <1>1, <1>2 DEF InsideOK
<1>4. \A r : Batch(r)' = Batch(r)
  BY <1>2 DEF Batch
<1>5. d \notin Entered /\ Entered \subseteq 1 .. MaxDatagrams
  BY <1>2 DEF Entered
<1>6. ASSUME o \in Drops PROVE Cardinality(Entered') = Cardinality(Entered) + 1
  <2>1. Entered' = Entered \cup {d}
    BY <1>1, <1>6 DEF Entered
  <2> QED BY <1>5, <2>1, DatagramSets
<1>7. ASSUME o \notin Drops PROVE Entered' = Entered
  BY <1>1, <1>2, <1>7 DEF Entered
<1> QED BY <1>1, <1>3, <1>4, <1>6, <1>7

(* The same when no datagram is touched.                                   *)
LEMMA DatagramsRest ==
  ASSUME InsideOK, UNCHANGED <<fate, home, inside>>
  PROVE  InsideOK' /\ Entered' = Entered /\ \A r : Batch(r)' = Batch(r)
BY DEF InsideOK, Entered, Batch

(* A step of the listener, counted, keeps the balances.                    *)
LEMMA ListenerCounts ==
  ASSUME BooksInv, Made \subseteq Made', CountedDispatching
  PROVE  Ledgers' /\ InsideOK'
<1>0. /\ TableInv /\ Held /\ Ledgers /\ InsideOK
      /\ Dispatching /\ ~Busy(Listener) /\ Post(Listener, ListenerAdds) /\ UNCHANGED inside
  BY DEF BooksInv, Books, Ledgers, Balance, CountedDispatching
<1>1. /\ UNCHANGED home
      /\ \/ ReadsAndDrops
         \/ ReadsIn
         \/ \E o \in Drops \cup {"queued"} : Decides(o)
         \/ Proceeds
  BY <1>0, ListenerEffect
<1>2. received \in Nat /\ Listener \notin DOMAIN todo
  BY <1>0, DatagramTypes DEF Busy
<1>3. ASSUME received' = received + 1, received < MaxDatagrams
      PROVE  /\ received' \in 1 .. MaxDatagrams /\ fate[received'] = "unsent"
             /\ ListenerAdds = <<<<Process, "received">>>> \o DropAdds(received', <<Process>>)
  <2>1. received' \in 1 .. MaxDatagrams /\ received' > received /\ received' # received
    BY <1>0, <1>2, <1>3, DatagramTypes
  <2> QED BY <1>0, <2>1 DEF Held, ListenerAdds
<1>4. CASE ReadsAndDrops
  <2>1. PICK o \in Drops : Settle(received', o)
    BY <1>4 DEF ReadsAndDrops
  <2>2. /\ received' \in 1 .. MaxDatagrams /\ fate[received'] = "unsent"
        /\ ListenerAdds = <<<<Process, "received">>>> \o DropAdds(received', <<Process>>)
        /\ received' = received + 1
    BY <1>3, <1>4 DEF ReadsAndDrops
  <2>3. /\ InsideOK' /\ \A r : Batch(r)' = Batch(r)
        /\ fate'[received'] = o
        /\ Cardinality(Entered') = Cardinality(Entered) + 1
    <3> DEFINE d == received'
    <3> HIDE DEF d
    <3>1. d \in 1 .. MaxDatagrams /\ fate[d] = "unsent" /\ Settle(d, o)
      BY <2>1, <2>2 DEF d
    <3>2. /\ InsideOK' /\ \A r : Batch(r)' = Batch(r)
          /\ fate'[d] = o
          /\ Cardinality(Entered') = Cardinality(Entered) + 1
      BY <1>0, <1>1, <3>1, DatagramMoves
    <3> QED BY <3>2 DEF d
  <2>4. DropAdds(received', <<Process>>) = <<<<Process, o>>>>
    BY <2>3, DropOne
  <2>5. ListenerAdds = <<<<Process, "received">>, <<Process, o>>>>
    <3> DEFINE a == <<Process, "received">>
               b == <<Process, o>>
    <3> HIDE DEF a, b
    <3>1. ListenerAdds = <<a>> \o <<b>>
      BY <2>2, <2>4 DEF a, b
    <3>2. ListenerAdds = <<a, b>>
      BY <3>1, JoinTwo
    <3> QED BY <3>2 DEF a, b
  <2>6. /\ counts' = BagAdd(counts, <<Process, "received">>)
        /\ Begins(Listener, <<Process, o>>)
    BY <1>0, <2>5, PostTwo
  <2>7. Ledgers'
    BY <1>0, <1>2, <2>2, <2>3, <2>6, CountReadDrop
  <2> QED BY <2>3, <2>7
<1>5. CASE ReadsIn
  <2>1. /\ received' \in 1 .. MaxDatagrams /\ fate[received'] = "unsent"
        /\ ListenerAdds = <<<<Process, "received">>>> \o DropAdds(received', <<Process>>)
        /\ received' = received + 1 /\ Settle(received', "dispatching")
    BY <1>3, <1>5 DEF ReadsIn
  <2>2. "dispatching" \notin Drops
    BY DEF Drops
  <2>3. /\ InsideOK' /\ \A r : Batch(r)' = Batch(r)
        /\ fate'[received'] = "dispatching"
        /\ Entered' = Entered
    <3> DEFINE d == received'
    <3> HIDE DEF d
    <3>1. d \in 1 .. MaxDatagrams /\ fate[d] = "unsent" /\ Settle(d, "dispatching")
      BY <2>1 DEF d
    <3>2. /\ InsideOK' /\ \A r : Batch(r)' = Batch(r)
          /\ fate'[d] = "dispatching"
          /\ Entered' = Entered
      BY <1>0, <1>1, <2>2, <3>1, DatagramMoves
    <3> QED BY <3>2 DEF d
  <2>4. DropAdds(received', <<Process>>) = <<>>
    BY <2>2, <2>3, DropNone
  <2>5. ListenerAdds = <<<<Process, "received">>>>
    BY <2>1, <2>4, JoinNone
  <2>6. counts' = BagAdd(counts, <<Process, "received">>) /\ UNCHANGED todo
    BY <1>0, <2>5, PostOne
  <2>7. Ledgers'
    BY <1>0, <1>2, <2>1, <2>3, <2>6, CountReceived
  <2> QED BY <2>3, <2>7
<1>6. ASSUME NEW o \in Drops \cup {"queued"}, Decides(o)
      PROVE  Ledgers' /\ InsideOK'
  <2> DEFINE d == ldg.id
             both == o \in {"missing_token", "routing_closed"}
  <2>1. /\ d \in 1 .. MaxDatagrams /\ fate[d] = "dispatching" /\ d # 0
        /\ UNCHANGED received /\ Settle(d, o)
        /\ both => lp \in Made
    <3>1. ldg.id # 0 /\ fate[ldg.id] = "dispatching"
      BY <1>0, <1>6 DEF Decides, Held
    <3>2. both => lp \in Made
      BY <1>0, <1>6, MadeIsPipe DEF Decides, TableInv, HoldersOK
    <3> QED BY <1>0, <1>6, <3>1, <3>2, DatagramTypes DEF Decides
  <2> HIDE DEF d
  <2>2. "queued" \notin Drops
    BY DEF Drops
  <2>3. /\ InsideOK' /\ \A r : Batch(r)' = Batch(r)
        /\ fate'[d] = o
        /\ o \in Drops => Cardinality(Entered') = Cardinality(Entered) + 1
        /\ o \notin Drops => Entered' = Entered
    BY <1>0, <1>1, <2>1, DatagramMoves
  <2>4. ListenerAdds = DropAdds(d, IF both THEN <<lp, Process>> ELSE <<Process>>)
    BY <2>1, <2>3 DEF ListenerAdds, d
  <2>5. CASE o = "queued"
    <3>1. ListenerAdds = <<>>
      BY <2>2, <2>3, <2>4, <2>5, DropNone
    <3>2. UNCHANGED <<counts, todo>>
      BY <1>0, <3>1, PostNone
    <3> QED BY <1>0, <2>1, <2>2, <2>3, <2>5, <3>2, LedgersKept
  <2>6. CASE o \in Drops /\ ~both
    <3>1. ListenerAdds = <<<<Process, o>>>>
      BY <2>3, <2>4, <2>6, DropOne
    <3>2. counts' = BagAdd(counts, <<Process, o>>) /\ UNCHANGED todo
      BY <1>0, <3>1, PostOne
    <3> QED BY <1>0, <2>1, <2>3, <2>6, <3>2, CountDrop
  <2>7. CASE o \in Drops /\ both
    <3>1. ListenerAdds = <<<<lp, o>>, <<Process, o>>>>
      BY <2>3, <2>4, <2>7, DropTwo
    <3>2. counts' = BagAdd(counts, <<lp, o>>) /\ Begins(Listener, <<Process, o>>)
      BY <1>0, <3>1, PostTwo
    <3>3. Ledgers'
      <4> DEFINE s == lp
      <4>1. s \in Made /\ counts' = BagAdd(counts, <<s, o>>)
        BY <2>1, <2>7, <3>2
      <4> HIDE DEF s
      <4> QED BY <1>0, <1>2, <2>1, <2>3, <2>7, <3>2, <4>1, CountPipeDrop
    <3> QED BY <2>3, <3>3
  <2> QED BY <2>5, <2>6, <2>7
<1>7. CASE Proceeds
  <2>1. UNCHANGED <<received, fate, ldg>>
    BY <1>7 DEF Proceeds
  <2>2. ldg.id # 0 => fate'[ldg.id] \notin Drops
    BY <1>0, <2>1 DEF Held, Drops
  <2>3. ListenerAdds = <<>>
    BY <2>1, <2>2, DropNone DEF ListenerAdds
  <2>4. UNCHANGED <<counts, todo>>
    BY <1>0, <2>3, PostNone
  <2>5. InsideOK' /\ Entered' = Entered /\ \A r : Batch(r)' = Batch(r)
    BY <1>0, <1>1, <2>1, DatagramsRest
  <2> QED BY <1>0, <2>1, <2>4, <2>5, LedgersKept
<1> QED BY <1>1, <1>4, <1>5, <1>6, <1>7

(* A step of the demuxer, counted, keeps them.                             *)
LEMMA DemuxerCounts ==
  ASSUME BooksInv, Made \subseteq Made', CountedDemuxing
  PROVE  Ledgers' /\ InsideOK'
<1>0. /\ TableInv /\ Held /\ Ledgers /\ InsideOK
      /\ Demuxing /\ ~Busy(DemuxerG) /\ Post(DemuxerG, DemuxAdds) /\ UNCHANGED inside
  BY DEF BooksInv, Books, Ledgers, Balance, CountedDemuxing
<1>1. /\ UNCHANGED received
      /\ \/ Receives \/ Misses \/ Finds
         \/ \E o \in {"routing_closed", "handed", "queue_full"} : Sends(o)
         \/ UNCHANGED <<fate, home, sharedQ>> /\ xpc = "recv"
  BY <1>0, DemuxerEffect
<1>2. /\ DemuxerG \notin DOMAIN todo
      /\ "routing_closed" \in Drops /\ "queue_full" \in Drops
      /\ "demuxing" \notin Drops /\ "handed" \notin Drops
  BY <1>0 DEF Busy, Drops
<1>3. CASE Receives
  <2> DEFINE d == Head(sharedQ).id
  <2>1. /\ d \in 1 .. MaxDatagrams /\ fate[d] = "queued" /\ Settle(d, "demuxing")
        /\ UNCHANGED home
    <3>1. 1 \in DOMAIN sharedQ /\ Head(sharedQ) = sharedQ[1]
      BY <1>0, <1>3, QueueHead DEF Receives
    <3> QED BY <1>0, <1>3, <3>1, DatagramTypes DEF Receives, Held
  <2> HIDE DEF d
  <2>2. InsideOK' /\ Entered' = Entered /\ \A r : Batch(r)' = Batch(r)
    BY <1>0, <1>2, <2>1, DatagramMoves
  <2>3. DemuxAdds = <<>>
    BY <1>3 DEF Receives, DemuxAdds
  <2>4. UNCHANGED <<counts, todo>>
    BY <1>0, <2>3, PostNone
  <2> QED BY <1>0, <1>1, <2>2, <2>4, LedgersKept
<1>6. CASE Misses
  <2> DEFINE d == xdg.id
             o == "routing_closed"
  <2>1. /\ d \in 1 .. MaxDatagrams /\ fate[d] = "demuxing" /\ Settle(d, o) /\ UNCHANGED home
        /\ DemuxAdds = DropAdds(d, <<Process>>)
    BY <1>0, <1>6, DatagramTypes DEF Misses, Held, DemuxAdds
  <2> HIDE DEF d
  <2>2. /\ InsideOK' /\ \A r : Batch(r)' = Batch(r)
        /\ fate'[d] = o
        /\ Cardinality(Entered') = Cardinality(Entered) + 1
    BY <1>0, <1>2, <2>1, DatagramMoves
  <2>3. DemuxAdds = <<<<Process, o>>>> /\ o \in Drops
    BY <1>2, <2>1, <2>2, DropOne
  <2>4. counts' = BagAdd(counts, <<Process, o>>) /\ UNCHANGED todo
    BY <1>0, <2>3, PostOne
  <2> QED BY <1>0, <1>1, <2>2, <2>3, <2>4, CountDrop
<1>7. CASE Finds
  <2>1. /\ UNCHANGED <<fate, home, sharedQ>> /\ fate[xdg.id] = "demuxing"
        /\ DemuxAdds = DropAdds(xdg.id, <<Process>>)
    BY <1>0, <1>7 DEF Finds, Held, DemuxAdds
  <2>2. UNCHANGED <<counts, todo>>
    BY <1>0, <1>2, <2>1, DropNone, PostNone
  <2>3. InsideOK' /\ Entered' = Entered /\ \A r : Batch(r)' = Batch(r)
    BY <1>0, <2>1, DatagramsRest
  <2> QED BY <1>0, <1>1, <2>2, <2>3, LedgersKept
<1>4. ASSUME NEW o \in {"routing_closed", "handed", "queue_full"}, Sends(o)
      PROVE  Ledgers' /\ InsideOK'
  <2> DEFINE d == xdg.id
             s == xp
  <2>1. /\ d \in 1 .. MaxDatagrams /\ fate[d] = "demuxing" /\ Settle(d, o)
        /\ \A e \in 1 .. MaxDatagrams : e # d => home'[e] = home[e]
        /\ s \in Made
    <3>1. /\ xdg.id # 0 /\ fate[xdg.id] = "demuxing" /\ Settle(xdg.id, o)
          /\ xp \in Made
      BY <1>0, <1>4, MadeIsPipe DEF Sends, Held, TableInv, HoldersOK
    <3>2. xdg.id \in 1 .. MaxDatagrams
      BY <1>0, <3>1, DatagramTypes
    <3>3. \A e \in 1 .. MaxDatagrams : e # d => home'[e] = home[e]
      BY <1>0, <1>4 DEF Sends, TableInv, HoldersOK
    <3> QED BY <3>1, <3>2, <3>3
  <2>2. DemuxAdds = DropAdds(d, IF fate'[d] = "queue_full" THEN <<s>> ELSE <<s, Process>>)
    BY <1>4 DEF Sends, DemuxAdds
  <2> HIDE DEF d, s
  <2>3. /\ InsideOK' /\ \A r : Batch(r)' = Batch(r)
        /\ fate'[d] = o
        /\ o \in Drops => Cardinality(Entered') = Cardinality(Entered) + 1
        /\ o \notin Drops => Entered' = Entered
    BY <1>0, <2>1, DatagramMoves
  <2>4. CASE o = "handed"
    <3>1. UNCHANGED <<counts, todo>>
      BY <1>0, <1>2, <2>2, <2>3, <2>4, DropNone, PostNone
    <3> QED BY <1>0, <1>1, <1>2, <2>3, <2>4, <3>1, LedgersKept
  <2>5. CASE o = "queue_full"
    <3>1. DemuxAdds = <<<<s, "queue_full">>>>
      BY <1>2, <2>2, <2>3, <2>5, DropOne
    <3>2. counts' = BagAdd(counts, <<s, "queue_full">>) /\ UNCHANGED todo
      BY <1>0, <3>1, PostOne
    <3> QED BY <1>0, <1>1, <1>2, <2>1, <2>3, <2>5, <3>2, CountFull
  <2>6. CASE o = "routing_closed"
    <3>1. DemuxAdds = <<<<s, o>>, <<Process, o>>>> /\ o \in Drops
      BY <1>2, <2>2, <2>3, <2>6, DropTwo
    <3>2. counts' = BagAdd(counts, <<s, o>>) /\ Begins(DemuxerG, <<Process, o>>)
      BY <1>0, <3>1, PostTwo
    <3> QED BY <1>0, <1>1, <1>2, <2>1, <2>3, <2>6, <3>1, <3>2, CountPipeDrop
  <2> QED BY <2>4, <2>5, <2>6
<1>5. CASE UNCHANGED <<fate, home, sharedQ>> /\ xpc = "recv"
  <2>1. DemuxAdds = <<>>
    BY <1>5 DEF DemuxAdds
  <2>2. UNCHANGED <<counts, todo>>
    BY <1>0, <2>1, PostNone
  <2>3. InsideOK' /\ Entered' = Entered /\ \A r : Batch(r)' = Batch(r)
    BY <1>0, <1>5, DatagramsRest
  <2> QED BY <1>0, <1>1, <2>2, <2>3, LedgersKept
<1> QED BY <1>1, <1>3, <1>4, <1>5, <1>6, <1>7

(* Inside pipeline s: a datagram that is out is accepted or refused, a     *)
(* batched one gets its outcome.                                           *)
LEMMA BatchMoves ==
  ASSUME InsideOK, NEW s, NEW from \in {"out", "batched"}, NEW to \in {"batched", "settled"},
         NEW d \in In(s, from), UNCHANGED vars, inside' = [inside EXCEPT ![d] = to]
  PROVE  /\ InsideOK'
         /\ from = "out" => Cardinality(Entered') = Cardinality(Entered) + 1
         /\ from = "batched" => Entered' = Entered
         /\ \A r : r # s => Batch(r)' = Batch(r)
         /\ from = "out" /\ to = "batched" => Cardinality(Batch(s)') = Cardinality(Batch(s)) + 1
         /\ from = "out" /\ to = "settled" => Batch(s)' = Batch(s)
         /\ from = "batched" /\ to = "settled" =>
              /\ Cardinality(Batch(s)) = Cardinality(Batch(s)') + 1
              /\ Cardinality(Batch(s)') \in Nat
<1>1. /\ UNCHANGED <<fate, home>>
      /\ d \in 1 .. MaxDatagrams /\ fate[d] = "handed" /\ home[d] = s /\ inside[d] = from
  BY DEF vars, routingVars, In
<1>2. /\ DOMAIN inside = 1 .. MaxDatagrams
      /\ \A e \in 1 .. MaxDatagrams : inside'[e] = IF e = d THEN to ELSE inside[e]
      /\ "handed" \notin Drops
  BY DEF InsideOK, Drops
<1>3. InsideOK'
  BY <1>1, <1>2 DEF InsideOK
<1>4. \A r : r # s => Batch(r)' = Batch(r)
  BY <1>1, <1>2 DEF Batch
<1>5. /\ Entered \subseteq 1 .. MaxDatagrams /\ Batch(s) \subseteq 1 .. MaxDatagrams
  BY DEF Entered, Batch
<1>6. CASE from = "out"
  <2>1. Entered' = Entered \cup {d} /\ d \notin Entered
    BY <1>1, <1>2, <1>6 DEF Entered
  <2>2. to = "batched" => Batch(s)' = Batch(s) \cup {d} /\ d \notin Batch(s)
    BY <1>1, <1>2, <1>6 DEF Batch
  <2>3. to = "settled" => Batch(s)' = Batch(s)
    BY <1>1, <1>2, <1>6 DEF Batch
  <2> QED BY <1>3, <1>4, <1>5, <1>6, <2>1, <2>2, <2>3, DatagramSets
<1>7. CASE from = "batched"
  <2>1. Entered' = Entered
    BY <1>1, <1>2, <1>7 DEF Entered
  <2>2. to = "settled" => Batch(s)' = Batch(s) \ {d} /\ d \in Batch(s)
    BY <1>1, <1>2, <1>7 DEF Batch
  <2> QED BY <1>3, <1>4, <1>5, <1>7, <2>1, <2>2, DatagramSets
<1> QED BY <1>6, <1>7

(* A step inside a pipeline keeps the balances.                            *)
LEMMA PipelineCounted ==
  ASSUME BooksInv, Made \subseteq Made', NEW s \in Made,
         BatcherValidates(s) \/ BatchSettles(s)
  PROVE  Ledgers' /\ InsideOK'
<1>0. /\ Ledgers /\ InsideOK /\ UNCHANGED vars /\ UNCHANGED received
  BY DEF BooksInv, Books, Ledgers, Balance, BatcherValidates, BatchSettles, vars, dispatchVars
<1>1. CASE BatcherValidates(s)
  <2>1. PICK d \in In(s, "out") :
          \/ /\ inside' = [inside EXCEPT ![d] = "batched"]
             /\ Post(BatcherOf(s), <<<<s, "received">>>>)
          \/ \E reason \in Refusals :
               /\ inside' = [inside EXCEPT ![d] = "settled"]
               /\ Post(BatcherOf(s), <<<<Process, reason>>, <<s, reason>>>>)
    BY <1>1 DEF BatcherValidates
  <2>2. ~Busy(BatcherOf(s)) /\ BatcherOf(s) \notin DOMAIN todo
    BY <1>1 DEF BatcherValidates, Busy
  <2>3. CASE /\ inside' = [inside EXCEPT ![d] = "batched"]
             /\ Post(BatcherOf(s), <<<<s, "received">>>>)
    <3>1. /\ InsideOK'
          /\ Cardinality(Entered') = Cardinality(Entered) + 1
          /\ \A r : r # s => Batch(r)' = Batch(r)
          /\ Cardinality(Batch(s)') = Cardinality(Batch(s)) + 1
      BY <1>0, <2>3, BatchMoves
    <3>2. counts' = BagAdd(counts, <<s, "received">>) /\ UNCHANGED todo
      BY <2>3, PostOne
    <3> QED BY <1>0, <3>1, <3>2, CountAccepted
  <2>4. ASSUME NEW reason \in Refusals,
               inside' = [inside EXCEPT ![d] = "settled"],
               Post(BatcherOf(s), <<<<Process, reason>>, <<s, reason>>>>)
        PROVE  Ledgers' /\ InsideOK'
    <3>1. /\ InsideOK'
          /\ Cardinality(Entered') = Cardinality(Entered) + 1
          /\ \A r : r # s => Batch(r)' = Batch(r)
          /\ Batch(s)' = Batch(s)
      BY <1>0, <2>4, BatchMoves
    <3>2. \A r : Batch(r)' = Batch(r)
      BY <3>1
    <3>3. counts' = BagAdd(counts, <<Process, reason>>) /\ Begins(BatcherOf(s), <<s, reason>>)
      BY <2>2, <2>4, PostTwo
    <3> QED BY <1>0, <2>2, <3>1, <3>2, <3>3, CountRefused
  <2> QED BY <2>1, <2>3, <2>4
<1>2. CASE BatchSettles(s)
  <2>1. PICK d \in In(s, "batched") : \E outcome \in Outcomes(s),
          g \in {BatcherOf(s), FlusherOf(s)} :
            /\ ~Busy(g)
            /\ inside' = [inside EXCEPT ![d] = "settled"]
            /\ Post(g, [i \in DOMAIN outcome |-> <<Process, outcome[i]>>]
                         \o [i \in DOMAIN outcome |-> <<s, outcome[i]>>])
    BY <1>2 DEF BatchSettles
  <2>2. PICK outcome \in Outcomes(s) : \E g \in {BatcherOf(s), FlusherOf(s)} :
          /\ ~Busy(g)
          /\ inside' = [inside EXCEPT ![d] = "settled"]
          /\ Post(g, [i \in DOMAIN outcome |-> <<Process, outcome[i]>>]
                       \o [i \in DOMAIN outcome |-> <<s, outcome[i]>>])
    BY <2>1
  <2>3. PICK g \in {BatcherOf(s), FlusherOf(s)} :
          /\ ~Busy(g)
          /\ inside' = [inside EXCEPT ![d] = "settled"]
          /\ Post(g, [i \in DOMAIN outcome |-> <<Process, outcome[i]>>]
                       \o [i \in DOMAIN outcome |-> <<s, outcome[i]>>])
    BY <2>2
  <2>4. PICK c \in Settled : outcome = <<c>>
    BY AccountingAssumption DEF Outcomes, Settled
  <2>5. /\ [i \in DOMAIN outcome |-> <<Process, outcome[i]>>] = <<<<Process, c>>>>
        /\ [i \in DOMAIN outcome |-> <<s, outcome[i]>>] = <<<<s, c>>>>
    BY <2>4
  <2>6. Post(g, <<<<Process, c>>, <<s, c>>>>)
    <3> DEFINE a == <<Process, c>>
               b == <<s, c>>
    <3> HIDE DEF a, b
    <3>1. Post(g, <<a>> \o <<b>>)
      BY <2>3, <2>5 DEF a, b
    <3>2. Post(g, <<a, b>>)
      BY <3>1, JoinTwo
    <3> QED BY <3>2 DEF a, b
  <2>7. counts' = BagAdd(counts, <<Process, c>>) /\ Begins(g, <<s, c>>)
    BY <2>3, <2>6, PostTwo
  <2>8. /\ InsideOK'
        /\ Entered' = Entered
        /\ \A r : r # s => Batch(r)' = Batch(r)
        /\ Cardinality(Batch(s)) = Cardinality(Batch(s)') + 1
        /\ Cardinality(Batch(s)') \in Nat
    BY <1>0, <2>3, BatchMoves
  <2>9. g \notin DOMAIN todo
    BY <2>3 DEF Busy
  <2> QED BY <1>0, <2>7, <2>8, <2>9, CountOutcome
<1> QED BY <1>1, <1>2

(* The second Add of a goroutine keeps them.                               *)
LEMMA AddCountedLater ==
  ASSUME BooksInv, Made \subseteq Made', NEW g \in DOMAIN todo, MakeAdd(g)
  PROVE  Ledgers' /\ InsideOK'
<1>0. Ledgers /\ InsideOK /\ TodoOK
  BY DEF BooksInv, Books, Ledgers, Balance
<1>1. UNCHANGED <<vars, inside>> /\ UNCHANGED <<fate, home, received>>
  BY DEF MakeAdd, vars, routingVars, dispatchVars
<1>2. InsideOK' /\ Entered' = Entered /\ \A r : Batch(r)' = Batch(r)
  BY <1>0, <1>1, DatagramsRest
<1>3. ASSUME g \in {Listener, DemuxerG}, NEW c \in Drops, todo[g] = <<<<Process, c>>>>
      PROVE  Ledgers'
  <2>1. counts' = BagAdd(counts, <<Process, c>>) /\ Ends(g)
    BY <1>3, MakeAddEnds
  <2> QED BY <1>0, <1>1, <1>2, <1>3, <2>1, CountDue
<1>4. ASSUME NEW s \in Made, NEW c \in Settled \cup Refusals,
             g \in {BatcherOf(s), FlusherOf(s)}, todo[g] = <<<<s, c>>>>
      PROVE  Ledgers'
  <2>1. counts' = BagAdd(counts, <<s, c>>) /\ Ends(g)
    BY <1>4, MakeAddEnds
  <2> QED BY <1>0, <1>1, <1>2, <1>4, <2>1, CountOwed
<1>5. \/ g \in {Listener, DemuxerG} /\ \E c \in Drops : todo[g] = <<<<Process, c>>>>
      \/ \E r \in Made, c \in Settled \cup Refusals :
           g \in {BatcherOf(r), FlusherOf(r)} /\ todo[g] = <<<<r, c>>>>
  BY <1>0 DEF TodoOK
<1> QED BY <1>2, <1>3, <1>4, <1>5

-----------------------------------------------------------------------------
(* Only the goroutine that posts Adds comes to have any to make.           *)
LEMMA PostDomain ==
  ASSUME NEW g, NEW adds, Post(g, adds)
  PROVE  DOMAIN todo' \subseteq DOMAIN todo \cup {g}
BY DEF Post

(* A pipeline that is closed and has settled what it took takes no more.   *)
LEMMA EmptiedStays ==
  ASSUME BooksInv, [AccountingNext]_allVars, NEW r \in Made,
         At(r).stage \in {"closed", "drained"}, Emptied(r)
  PROVE  Emptied(r)'
<1>0. /\ TableInv /\ InsideOK
      /\ \A d \in 1 .. MaxDatagrams : home[d] = r => inside[d] = "settled"
      /\ BatcherOf(r) \notin DOMAIN todo /\ FlusherOf(r) \notin DOMAIN todo
  BY DEF BooksInv, Books, Emptied, Busy
<1>a. ASSUME UNCHANGED inside, \A d \in 1 .. MaxDatagrams : home'[d] = r => home[d] = r,
             NEW g \in {Listener, DemuxerG}, DOMAIN todo' \subseteq DOMAIN todo \cup {g}
      PROVE  Emptied(r)'
  <2>1. BatcherOf(r) # g /\ FlusherOf(r) # g
    BY Names
  <2> QED BY <1>0, <1>a, <2>1 DEF Emptied, Busy
<1>1. CASE CountedDispatching
  <2>1. UNCHANGED <<home, inside>>
    BY <1>0, <1>1, ListenerEffect DEF CountedDispatching
  <2>2. DOMAIN todo' \subseteq DOMAIN todo \cup {Listener}
    BY <1>1, PostDomain DEF CountedDispatching
  <2> QED BY <1>a, <2>1, <2>2
<1>2. CASE CountedDemuxing
  <2>1. UNCHANGED inside /\ DOMAIN todo' \subseteq DOMAIN todo \cup {DemuxerG}
    BY <1>2, PostDomain DEF CountedDemuxing
  <2>2. \/ UNCHANGED home
        \/ home' = [home EXCEPT ![xdg.id] = xp] /\ xp # r
    BY <1>2, DemuxerEffect DEF CountedDemuxing, Receives, Misses, Finds, Sends
  <2>3. DOMAIN home = 1 .. MaxDatagrams
    BY <1>0 DEF TableInv, HoldersOK
  <2>4. \A d \in 1 .. MaxDatagrams : home'[d] = r => home[d] = r
    BY <2>2, <2>3
  <2> QED BY <1>a, <2>1, <2>4
<1>3. ASSUME NEW s \in Made, BatcherValidates(s) \/ BatchSettles(s)
      PROVE  Emptied(r)'
  <2>1. PICK d \in In(s, "out") \cup In(s, "batched") :
          \E g \in {BatcherOf(s), FlusherOf(s)} : \E to, adds :
            inside' = [inside EXCEPT ![d] = to] /\ Post(g, adds)
    <3>1. CASE BatcherValidates(s)
      BY <3>1 DEF BatcherValidates
    <3>2. CASE BatchSettles(s)
      <4>1. PICK e \in In(s, "batched"), outcome \in Outcomes(s),
                 g \in {BatcherOf(s), FlusherOf(s)} :
              /\ inside' = [inside EXCEPT ![e] = "settled"]
              /\ Post(g, [i \in DOMAIN outcome |-> <<Process, outcome[i]>>]
                           \o [i \in DOMAIN outcome |-> <<s, outcome[i]>>])
        BY <3>2 DEF BatchSettles
      <4> DEFINE made == [i \in DOMAIN outcome |-> <<Process, outcome[i]>>]
                           \o [i \in DOMAIN outcome |-> <<s, outcome[i]>>]
      <4>2. inside' = [inside EXCEPT ![e] = "settled"] /\ Post(g, made)
        BY <4>1
      <4> HIDE DEF made
      <4> QED BY <4>2
    <3> QED BY <1>3, <3>1, <3>2
  <2>2. PICK g \in {BatcherOf(s), FlusherOf(s)} : \E to, adds :
            inside' = [inside EXCEPT ![d] = to] /\ Post(g, adds)
    BY <2>1
  <2>3. UNCHANGED home
    BY <1>3 DEF BatcherValidates, BatchSettles, vars, routingVars
  <2>4. d \in 1 .. MaxDatagrams /\ home[d] = s /\ inside[d] # "settled"
    BY <2>1 DEF In
  <2>5. s # r
    BY <1>0, <2>4
  <2>6. \A e \in 1 .. MaxDatagrams : home[e] = r => inside'[e] = inside[e]
    BY <1>0, <2>2, <2>4, <2>5 DEF InsideOK
  <2>7. DOMAIN todo' \subseteq DOMAIN todo \cup {g} /\ BatcherOf(r) # g /\ FlusherOf(r) # g
    BY <2>2, <2>5, Names, PostDomain
  <2> QED BY <1>0, <2>3, <2>6, <2>7 DEF Emptied, Busy
<1>4. ASSUME NEW g \in DOMAIN todo, MakeAdd(g)
      PROVE  Emptied(r)'
  <2>1. DOMAIN todo' \subseteq DOMAIN todo
    BY <1>4 DEF MakeAdd, Restrict
  <2>2. UNCHANGED <<home, inside>>
    BY <1>4 DEF MakeAdd, vars, routingVars
  <2> QED BY <1>0, <2>1, <2>2 DEF Emptied, Busy
<1>5. CASE UNCHANGED accountingVars /\ (Draining \/ Reloading \/ Expiring \/ Maining \/ Environment)
  BY <1>0, <1>5, OthersEffect DEF Emptied, Busy, accountingVars
<1>6. CASE UNCHANGED allVars
  BY <1>0, <1>6 DEF Emptied, Busy, allVars, accountingVars, vars, routingVars
<1> QED BY <1>1, <1>2, <1>3, <1>4, <1>5, <1>6 DEF AccountingNext, CountedDraining, InPipelines

(* A step of Accounting is one of Registry, or leaves it alone.            *)
LEMMA StepProjects ==
  ASSUME [AccountingNext]_allVars
  PROVE  [Next]_vars
BY DEF AccountingNext, CountedDispatching, CountedDemuxing, CountedDraining, InPipelines,
       BatcherValidates, BatchSettles, MakeAdd, Next, allVars

(* Every step keeps DrainedOK.                                             *)
LEMMA DrainedStep ==
  ASSUME BooksInv, [AccountingNext]_allVars
  PROVE  DrainedOK'
<1> SUFFICES ASSUME NEW r \in Made', At(r)'.stage = "drained"
             PROVE  Emptied(r)'
  BY DEF DrainedOK
<1>0. TableInv /\ DrainedOK
  BY DEF BooksInv, Books
<1>1. CASE NoneDrained
  <2>1. r \in Made /\ At(r).stage = "drained"
    BY <1>1 DEF NoneDrained
  <2>2. Emptied(r)
    BY <1>0, <2>1 DEF DrainedOK
  <2> QED BY <2>1, <2>2, EmptiedStays
<1>2. CASE CountedDraining
  <2>1. r \in Made /\ At(r).stage \in {"closed", "drained"}
    BY <1>0, <1>2, DrainingDrains DEF CountedDraining
  <2>2. At(r).stage = "closed" => Emptied(r)
    BY <1>2, <2>1 DEF CountedDraining, At
  <2>3. At(r).stage = "drained" => Emptied(r)
    BY <1>0, <2>1 DEF DrainedOK
  <2> QED BY <2>1, <2>2, <2>3, EmptiedStays
<1>3. NoneDrained \/ CountedDraining
  <2>1. \/ CountedDraining
        \/ Dispatching \/ Demuxing \/ Reloading \/ Expiring \/ Maining \/ Environment
        \/ UNCHANGED vars
    BY DEF AccountingNext, CountedDispatching, CountedDemuxing, InPipelines, BatcherValidates,
           BatchSettles, MakeAdd, allVars
  <2> QED BY <1>0, <2>1, OnlyDrains
<1> QED BY <1>1, <1>2, <1>3

(* The inductive invariant is kept.                                        *)
LEMMA BooksStep ==
  ASSUME BooksInv, [AccountingNext]_allVars
  PROVE  BooksInv'
<1>0. TableInv /\ Held /\ Ledgers /\ InsideOK /\ [Next]_vars
  BY StepProjects DEF BooksInv, Books, Ledgers, Balance
<1>1. TableInv' /\ Made \subseteq Made'
  BY <1>0, StepTableInv, MadeGrows
<1>2. Held'
  BY <1>0, HeldStep
<1>3. DrainedOK'
  BY DrainedStep
<1>4. Ledgers' /\ InsideOK'
  <2>1. CASE UNCHANGED accountingVars /\ UNCHANGED <<fate, home, received>>
    <3>1. InsideOK' /\ Entered' = Entered /\ \A r : Batch(r)' = Batch(r)
      BY <1>0, <2>1, DatagramsRest DEF accountingVars
    <3>2. UNCHANGED <<counts, todo, received>>
      BY <2>1 DEF accountingVars
    <3> QED BY <1>0, <1>1, <3>1, <3>2, LedgersKept
  <2>2. CASE CountedDispatching
    BY <1>1, <2>2, ListenerCounts
  <2>3. CASE CountedDemuxing
    BY <1>1, <2>3, DemuxerCounts
  <2>4. CASE InPipelines
    BY <1>1, <2>4, PipelineCounted DEF InPipelines
  <2>5. ASSUME NEW g \in DOMAIN todo, MakeAdd(g)
        PROVE  Ledgers' /\ InsideOK'
    BY <1>1, <2>5, AddCountedLater
  <2>6. CASE /\ UNCHANGED accountingVars
             /\ Draining \/ Reloading \/ Expiring \/ Maining \/ Environment
    BY <2>1, <2>6, OthersEffect
  <2>7. CASE UNCHANGED allVars
    BY <2>1, <2>7 DEF allVars, vars, routingVars, dispatchVars
  <2> QED BY <2>2, <2>3, <2>4, <2>5, <2>6, <2>7 DEF AccountingNext, CountedDraining
<1> QED BY <1>1, <1>2, <1>3, <1>4 DEF BooksInv, Books, Ledgers, Balance

(* Nothing has been received and nothing counted when the agent starts.    *)
LEMMA InitBooks == AccountingInit => BooksInv
<1> SUFFICES ASSUME AccountingInit
             PROVE  BooksInv
  OBVIOUS
<1>0. /\ Init /\ counts = [a \in {} |-> 0] /\ todo = [g \in {} |-> <<>>]
      /\ inside = [d \in 1 .. MaxDatagrams |-> "out"]
  BY DEF AccountingInit
<1>1. TableInv
  BY <1>0, InitTableInv
<1>2. /\ fate = [d \in 1 .. MaxDatagrams |-> "unsent"] /\ sharedQ = <<>>
      /\ received = 0 /\ lpc = "bind" /\ ldg = NoDatagram /\ xpc = "recv"
  BY <1>0 DEF Init, RoutingInit, DispatchInit
<1>3. Held
  BY <1>2 DEF Held, Resting, NoDatagram
<1>4. DOMAIN counts = {} /\ DOMAIN todo = {}
  BY <1>0
<1>5. /\ \A owners, C : Tally(counts, owners, C) = 0
      /\ \A c : Cardinality(PendingIn(todo, c)) = 0
      /\ Cardinality(Entered) = 0
      /\ \A r : Cardinality(Batch(r)) = 0
  <2>1. \A owners, C : AddsIn(counts, owners, C) = {}
    BY <1>4 DEF AddsIn
  <2>2. \A c : PendingIn(todo, c) = {}
    BY <1>4 DEF PendingIn
  <2>3. Entered = {}
    BY <1>0, <1>2 DEF Entered, Drops
  <2>4. \A r : Batch(r) = {}
    BY <1>0 DEF Batch
  <2> QED BY <2>1, <2>2, <2>3, <2>4, FS_EmptySet DEF Tally
<1>6. CountsOK /\ TodoOK
  <2>1. AllAdds(counts) = {}
    BY <1>4 DEF AllAdds
  <2> QED BY <1>4, <2>1, FS_EmptySet DEF CountsOK, IsTally, TodoOK
<1>7. \A g : DueIn(todo, g) = 0 /\ OwedIn(todo, g) = 0
  BY <1>4 DEF DueIn, OwedIn
<1>8. ArrivedOK /\ EnteredOK /\ SettledOK /\ MatchedOK
  BY <1>2, <1>5, <1>7 DEF ArrivedOK, EnteredOK, SettledOK, MatchedOK
<1>9. InsideOK
  BY <1>0 DEF InsideOK
<1>10. DrainedOK
  BY <1>0, InitReady DEF DrainedOK, Ready
<1> QED BY <1>1, <1>3, <1>6, <1>8, <1>9, <1>10 DEF BooksInv, Books

(* BooksInv holds in every reachable state.                                *)
LEMMA BooksSound == AccountingSpec => []BooksInv
<1>1. BooksInv /\ [AccountingNext]_allVars => BooksInv'
  BY BooksStep
<1> QED BY <1>1, InitBooks, PTL DEF AccountingSpec

(* Accounting only adds counters to Registry: what Registry's theorems say *)
(* holds of the counted agent as well.                                     *)
THEOREM AccountingRefines == AccountingSpec => Spec
<1>1. AccountingInit => Init
  BY DEF AccountingInit
<1>2. [AccountingNext]_allVars => [Next]_vars
  BY StepProjects
<1> QED BY <1>1, <1>2, PTL DEF AccountingSpec, Spec

(* Only datagrams that were received have been decided on.                 *)
LEMMA EnteredReceived ==
  ASSUME BooksInv
  PROVE  /\ Entered \subseteq 1 .. received /\ received \in Nat
         /\ Cardinality(1 .. received) = received /\ IsFiniteSet(1 .. received)
         /\ Cardinality(Entered) <= received
<1>1. /\ \A d \in 1 .. MaxDatagrams : d > received => fate[d] = "unsent" /\ inside[d] = "out"
      /\ received \in 0 .. MaxDatagrams /\ MaxDatagrams \in Nat
  BY DatagramTypes DEF BooksInv, Held, Books, InsideOK
<1>2. Entered \subseteq 1 .. received
  <2> SUFFICES ASSUME NEW d \in Entered
               PROVE  d \in 1 .. received
    OBVIOUS
  <2>1. d \in 1 .. MaxDatagrams /\ ~(fate[d] = "unsent" /\ inside[d] = "out")
    BY DEF Entered, Drops
  <2>2. ~(d > received)
    BY <1>1, <2>1
  <2> QED BY <1>1, <2>1, <2>2
<1>3. received \in Nat /\ IsFiniteSet(1 .. received) /\ Cardinality(1 .. received) = received
  BY <1>1, FS_Interval
<1>4. Cardinality(Entered) <= Cardinality(1 .. received)
  BY <1>2, <1>3, FS_Subset
<1> QED BY <1>2, <1>3, <1>4

(* Every datagram is accounted for exactly once (Accounting!Reconciles):   *)
(* however the two Adds of a drop interleave with the other goroutines,    *)
(* the counters never run ahead of events_received, and they add up to it  *)
(* whenever nothing is on its way.                                         *)
THEOREM CountersReconcile == AccountingSpec => []Reconciles
<1>1. BooksInv => Reconciles
  <2> SUFFICES ASSUME BooksInv
               PROVE  Reconciles
    OBVIOUS
  <2>0. CountsOK /\ TodoOK /\ ArrivedOK /\ EnteredOK
    BY DEF BooksInv, Books
  <2> DEFINE arrived == Total({Process}, {"received"})
             accounted == Total(Made, {"received", "queue_full"})
                            + Total({Process}, Drops \cup {"oversize"})
  <2>1. arrived = received
    BY <2>0 DEF ArrivedOK, Total, Tally
  <2>2. accounted = Tally(counts, Made, Kept) + Tally(counts, {Process}, Dropped)
    BY DEF Total, Tally, Kept, Dropped
  <2>3. /\ accounted \in Nat
        /\ accounted + DueIn(todo, Listener) + DueIn(todo, DemuxerG) = Cardinality(Entered)
    BY <2>0, <2>2, EnteredTypes DEF EnteredOK
  <2> HIDE DEF arrived, accounted
  <2>4. accounted <= arrived
    BY <2>0, <2>1, <2>3, EnteredReceived, EnteredTypes
  <2>5. ASSUME AtRest
        PROVE  accounted = arrived
    <3>1. DueIn(todo, Listener) = 0 /\ DueIn(todo, DemuxerG) = 0
      BY <2>5 DEF AtRest, DueIn
    <3>2. Entered = 1 .. received
      <4>1. 1 .. received \subseteq 1 .. MaxDatagrams
        BY DatagramTypes DEF BooksInv
      <4>2. 1 .. received \subseteq Entered
        BY <2>5, <4>1 DEF AtRest, Entered
      <4> QED BY <4>2, EnteredReceived
    <3> QED BY <2>1, <2>3, <3>1, <3>2, EnteredReceived
  <2> QED BY <2>4, <2>5 DEF Reconciles, arrived, accounted
<1> QED BY <1>1, BooksSound, PTL

(* Every accepted event has one outcome, counted once per project and once *)
(* process-wide (Accounting!PipelineBalances): a drained pipeline has      *)
(* accounted for all it accepted, and the projects' outcomes add up to the *)
(* process's except while one of them is being counted.                    *)
THEOREM PipelinesBalance == AccountingSpec => []PipelineBalances
<1>1. BooksInv => PipelineBalances
  <2> SUFFICES ASSUME BooksInv
               PROVE  PipelineBalances
    OBVIOUS
  <2>0. CountsOK /\ TodoOK /\ SettledOK /\ MatchedOK /\ DrainedOK
    BY DEF BooksInv, Books
  <2>1. \A owners, C : Total(owners, C) = Tally(counts, owners, C) /\ Total(owners, C) \in Nat
    BY <2>0, Numbers DEF Total, Tally
  <2>2. ASSUME NEW r \in Made
        PROVE  /\ Total({r}, Settled) <= Total({r}, {"received"})
               /\ At(r).stage = "drained" => Total({r}, Settled) = Total({r}, {"received"})
    <3>1. r # Process
      BY Names
    <3>2. Total({r}, {"received"})
            = Total({r}, Settled) + OwedIn(todo, BatcherOf(r))
                + OwedIn(todo, FlusherOf(r)) + Cardinality(Batch(r))
      BY <2>0, <2>1, <3>1 DEF SettledOK
    <3>3. /\ Total({r}, Settled) \in Nat /\ OwedIn(todo, BatcherOf(r)) \in Nat
          /\ OwedIn(todo, FlusherOf(r)) \in Nat /\ Cardinality(Batch(r)) \in Nat
      BY <2>0, <2>1, Numbers
    <3>4. ASSUME At(r).stage = "drained"
          PROVE  Total({r}, Settled) = Total({r}, {"received"})
      <4>1. Emptied(r)
        BY <2>0, <3>4 DEF DrainedOK
      <4>2. OwedIn(todo, BatcherOf(r)) = 0 /\ OwedIn(todo, FlusherOf(r)) = 0
        BY <4>1 DEF Emptied, Busy, OwedIn
      <4>3. Batch(r) = {}
        BY <4>1 DEF Emptied, Batch
      <4>4. Cardinality(Batch(r)) = 0
        BY <4>3, FS_EmptySet
      <4> QED BY <3>2, <3>3, <4>2, <4>4
    <3>5. Total({r}, Settled) <= Total({r}, {"received"})
      BY <3>2, <3>3
    <3> QED BY <3>4, <3>5
  <2>3. ASSUME NEW c \in Settled
        PROVE  /\ Total(Made, {c}) <= Total({Process}, {c})
               /\ DOMAIN todo = {} => Total(Made, {c}) = Total({Process}, {c})
    <3>1. Total({Process}, {c}) = Total(Made, {c}) + Cardinality(PendingIn(todo, c))
      BY <2>0, <2>1 DEF MatchedOK
    <3>2. Total(Made, {c}) \in Nat /\ Cardinality(PendingIn(todo, c)) \in Nat
      BY <2>0, <2>1, Numbers
    <3>3. ASSUME DOMAIN todo = {}
          PROVE  Total(Made, {c}) = Total({Process}, {c})
      <4>1. PendingIn(todo, c) = {}
        BY <3>3 DEF PendingIn
      <4>2. Cardinality(PendingIn(todo, c)) = 0
        BY <4>1, FS_EmptySet
      <4> QED BY <3>1, <3>2, <4>2
    <3>4. Total(Made, {c}) <= Total({Process}, {c})
      BY <3>1, <3>2
    <3> QED BY <3>3, <3>4
  <2> QED BY <2>2, <2>3 DEF PipelineBalances
<1> QED BY <1>1, BooksSound, PTL
=============================================================================
