--------------------------- MODULE DeliveryProofs ---------------------------
(***************************************************************************)
(* What a pipeline delivers, for all values of the constants: which        *)
(* datagrams the gateway has taken in, under which credential, and in      *)
(* batches of which size.                                                  *)
(*                                                                         *)
(* DeliveryMatchesFate relates a datagram's counter to the gateway; it is  *)
(* kept because of what is known while the datagram's batch is in flight   *)
(* (Taken).  FreshestToken and BatchWithinCaps speak of formed batches;    *)
(* they are kept because of what is known of the batch that is still being *)
(* assembled (Assembled).                                                  *)
(*                                                                         *)
(* EventBytes is a recursive function, so its value is known only once the *)
(* function is shown to exist, and the two facts the batcher's byte count  *)
(* rests on go by induction on the length.  The induction is the           *)
(* least-number principle: a least counterexample is contradicted.         *)
(***************************************************************************)
EXTENDS LedgerProofs, WellFoundedInduction
-----------------------------------------------------------------------------
(* The order of the naturals, as a relation.                               *)
Earlier == {p \in Nat \X Nat : p[1] < p[2]}

(* Every set of naturals has a least element: what replaces induction.     *)
LEMMA LeastNumber ==
  ASSUME NEW T \in SUBSET Nat, T # {}
  PROVE  \E m \in T : \A k \in T : ~(k < m)
<1>1. IsWellFoundedOn(Earlier, Nat)
  BY NatLessThanWellFounded DEF OpToRel, Earlier
<1>2. \E m \in T : \A k \in T : <<k, m>> \notin Earlier
  BY <1>1, WFMin
<1> QED BY <1>2 DEF Earlier

(* f is the running sum of the event lengths of ds, up to its k-th event.  *)
IsSum(f, ds, k) ==
  f = [i \in 0 .. k |-> IF i = 0 THEN 0 ELSE f[i - 1] + EventLen(ds[i].ev)]

(* There is such a function: else take the least k without one.            *)
LEMMA SumExists ==
  ASSUME NEW ds, NEW k \in Nat
  PROVE  \E f : IsSum(f, ds, k)
<1> DEFINE T == {j \in Nat : ~ \E f : IsSum(f, ds, j)}
<1> SUFFICES ASSUME T # {} PROVE FALSE
  OBVIOUS
<1>1. PICK m \in T : \A j \in T : ~(j < m)
  BY LeastNumber
<1>2. m \in Nat /\ ~ \E f : IsSum(f, ds, m)
  OBVIOUS
<1>3. \A j \in Nat : j < m => \E f : IsSum(f, ds, j)
  BY <1>1
<1> HIDE DEF T
<1>4. CASE m = 0
  <2> DEFINE g == [i \in 0 .. 0 |-> 0]
  <2>1. g = [i \in 0 .. 0 |-> IF i = 0 THEN 0 ELSE g[i - 1] + EventLen(ds[i].ev)]
    OBVIOUS
  <2> HIDE DEF g
  <2> QED BY <1>2, <1>4, <2>1 DEF IsSum
<1>5. CASE m # 0
  <2>1. m - 1 \in Nat /\ m - 1 < m
    BY <1>2, <1>5
  <2>2. PICK f : IsSum(f, ds, m - 1)
    BY <1>3, <2>1
  <2> DEFINE g == [i \in 0 .. m |-> IF i = m THEN f[m - 1] + EventLen(ds[m].ev)
                                             ELSE f[i]]
  <2>3. \A i \in 0 .. m - 1 :
          f[i] = IF i = 0 THEN 0 ELSE f[i - 1] + EventLen(ds[i].ev)
    BY <2>2 DEF IsSum
  <2>4. ASSUME NEW i \in 0 .. m
        PROVE  g[i] = IF i = 0 THEN 0 ELSE g[i - 1] + EventLen(ds[i].ev)
    <3>1. CASE i = m
      BY <1>2, <1>5, <3>1
    <3>2. CASE i # m
      <4>1. i \in 0 .. m - 1 /\ g[i] = f[i]
        BY <1>2, <3>2
      <4>2. i # 0 => i - 1 \in 0 .. m /\ i - 1 # m /\ g[i - 1] = f[i - 1]
        BY <1>2, <3>2
      <4> HIDE DEF g
      <4> QED BY <2>3, <4>1, <4>2
    <3> QED BY <3>1, <3>2
  <2>5. g = [i \in 0 .. m |-> g[i]]
    OBVIOUS
  <2> HIDE DEF g
  <2>6. IsSum(g, ds, m)
    BY <2>4, <2>5 DEF IsSum
  <2> QED BY <1>2, <2>6
<1> QED BY <1>4, <1>5

(* The running sum that EventBytes computes.                               *)
SumOf(ds) == CHOOSE f : IsSum(f, ds, Len(ds))

(* EventBytes is the last value of the running sum.                        *)
LEMMA BytesAreSum ==
  ASSUME NEW ds, Len(ds) \in Nat
  PROVE  IsSum(SumOf(ds), ds, Len(ds)) /\ EventBytes(ds) = SumOf(ds)[Len(ds)]
<1>1. EventBytes(ds) = SumOf(ds)[Len(ds)]
  BY DEF EventBytes, SumOf, IsSum
<1>2. \E f : IsSum(f, ds, Len(ds))
  BY SumExists
<1> QED BY <1>1, <1>2 DEF SumOf

(* Running sums of two sequences agree as far as the sequences do.         *)
LEMMA SumsAgree ==
  ASSUME NEW ds, NEW es, NEW f, NEW g, NEW j \in Nat, NEW k \in Nat, j <= k,
         IsSum(f, ds, j), IsSum(g, es, k),
         \A i \in 1 .. j : ds[i] = es[i]
  PROVE  f[j] = g[j]
<1> DEFINE T == {i \in 0 .. j : f[i] # g[i]}
<1> SUFFICES ASSUME T # {} PROVE FALSE
  OBVIOUS
<1>1. T \in SUBSET Nat
  OBVIOUS
<1>2. PICK m \in T : \A i \in T : ~(i < m)
  BY <1>1, LeastNumber
<1>3. m \in 0 .. j /\ f[m] # g[m]
  OBVIOUS
<1>4. \A i \in 0 .. j : i < m => f[i] = g[i]
  BY <1>2
<1> HIDE DEF T
<1>5. /\ f[m] = IF m = 0 THEN 0 ELSE f[m - 1] + EventLen(ds[m].ev)
      /\ g[m] = IF m = 0 THEN 0 ELSE g[m - 1] + EventLen(es[m].ev)
  BY <1>3 DEF IsSum
<1>6. CASE m = 0
  BY <1>3, <1>5, <1>6
<1>7. CASE m # 0
  <2>1. m - 1 \in 0 .. j /\ m - 1 < m /\ m \in 1 .. j
    BY <1>3, <1>7
  <2> QED BY <1>3, <1>4, <1>5, <1>7, <2>1
<1> QED BY <1>6, <1>7

(* No events, no bytes.                                                    *)
LEMMA BytesOfNone == EventBytes(<<>>) = 0
<1>1. Len(<<>>) = 0
  OBVIOUS
<1>2. IsSum(SumOf(<<>>), <<>>, 0) /\ EventBytes(<<>>) = SumOf(<<>>)[0]
  BY <1>1, BytesAreSum
<1> QED BY <1>2 DEF IsSum

(* A sequence longer by one event has the length of that event more.       *)
LEMMA BytesOfLonger ==
  ASSUME NEW ds, NEW es, NEW k \in Nat, NEW m \in Nat, k <= m,
         \A i \in 1 .. k : ds[i] = es[i]
  PROVE  Len(ds) = k /\ Len(es) = m /\ m = k + 1
           => EventBytes(es) = EventBytes(ds) + EventLen(es[m].ev)
<1>1. ASSUME Len(ds) = k, Len(es) = m, m = k + 1
      PROVE  EventBytes(es) = EventBytes(ds) + EventLen(es[m].ev)
  <2>1. PICK f : IsSum(f, ds, k) /\ EventBytes(ds) = f[k]
    BY <1>1, BytesAreSum
  <2>2. PICK g : IsSum(g, es, m) /\ EventBytes(es) = g[m]
    BY <1>1, BytesAreSum
  <2>3. IsSum(f, ds, k) /\ IsSum(g, es, m)
    BY <2>1, <2>2
  <2>4. f[k] = g[k]
    BY <2>3, SumsAgree, SMTT(30)
  <2>5. g[m] = g[k] + EventLen(es[m].ev)
    BY <1>1, <2>3 DEF IsSum
  <2> QED BY <2>1, <2>2, <2>4, <2>5
<1> QED BY <1>1

(* An appended event adds its length.                                      *)
LEMMA BytesOfAppend ==
  ASSUME NEW S, NEW ds \in Seq(S), NEW dg \in S
  PROVE  EventBytes(Append(ds, dg)) = EventBytes(ds) + EventLen(dg.ev)
<1> DEFINE es == Append(ds, dg)
<1>1. /\ Len(ds) \in Nat /\ Len(es) = Len(ds) + 1 /\ es[Len(ds) + 1] = dg
      /\ \A i \in 1 .. Len(ds) : ds[i] = es[i]
  OBVIOUS
<1> HIDE DEF es
<1>2. PICK k \in Nat : k = Len(ds)
  BY <1>1
<1>3. PICK m \in Nat : m = k + 1 /\ k <= m
  OBVIOUS
<1>4. Len(ds) = k /\ Len(es) = m /\ m = k + 1
        => EventBytes(es) = EventBytes(ds) + EventLen(es[m].ev)
  <2>1. k <= m /\ \A i \in 1 .. k : ds[i] = es[i]
    BY <1>1, <1>2, <1>3
  <2> QED BY <2>1, BytesOfLonger
<1> QED BY <1>1, <1>2, <1>3, <1>4 DEF es
-----------------------------------------------------------------------------
(* Fates of datagrams that no batch of the flusher has contained, unless   *)
(* it is in flight.                                                        *)
Early == {"unsent", "pending", "parse_error", "oversize", "queue_full",
          "routing_closed"}

(* A datagram in flight was taken in at most once per attempt, the current *)
(* one included once the gateway has accepted it; elsewhere never.         *)
TakenOf(d) ==
  /\ delivered[d] <= MaxRetries + 1
  /\ fate[d] = "sent" => delivered[d] >= 1
  /\ d \notin FlightIds /\ fate[d] \in Early => delivered[d] = 0
  /\ d \in FlightIds => /\ delivered[d] <= attempt + 1
                        /\ accepted => delivered[d] >= 1
                        /\ ~accepted => delivered[d] <= attempt

(* The same of all datagrams.                                              *)
Taken ==
  /\ accepted => fpc = "posting"
  /\ \A d \in DatagramIds : TakenOf(d)

(* What is in flight is pending.                                           *)
LEMMA FlightPending ==
  ASSUME IInv, NEW d \in DatagramIds, d \in FlightIds
  PROVE  fate[d] = "pending"
BY DEF IInv, Books, Ledgered, InFlight

(* Numbers of the flusher.                                                 *)
LEMMA DeliveryTypes ==
  ASSUME IInv
  PROVE  /\ attempt \in Nat /\ MaxRetries \in Nat /\ attempt <= MaxRetries
         /\ delivered \in [DatagramIds -> Nat]
         /\ accepted \in BOOLEAN
BY FlusherAssumption DEF IInv, TypeInv, TypeOK, FlusherTypeOK

(* A step that leaves the flusher alone, and gives no datagram in flight,  *)
(* and none but an early one, an early fate, keeps Taken.                  *)
LEMMA TakenOutside ==
  ASSUME Taken, UNCHANGED flusherVars,
         \A d \in DatagramIds :
           /\ fate'[d] = "sent" => fate[d] = "sent"
           /\ d \notin FlightIds /\ fate'[d] \in Early => fate[d] \in Early
  PROVE  Taken'
BY DEF Taken, TakenOf, flusherVars, FlightIds

(* The batcher accounts no datagram of a batch in flight, and none as sent.*)
LEMMA TakenBatching ==
  ASSUME IInv, Taken, Batching
  PROVE  Taken'
<1>1. UNCHANGED flusherVars
  BY DEF Batching
<1>2. CASE fate' = fate
  BY <1>1, <1>2, TakenOutside
<1>3. CASE AbandonBatch
  <2>1. Account(handing.events, "shutdown")
    BY <1>3 DEF AbandonBatch
  <2> QED BY <1>1, <2>1, TakenOutside DEF Account, Early
<1>4. CASE DropInvalid
  <2> DEFINE o == ValidateReason(Head(rawCh).ev)
  <2>1. /\ Account(<<Head(rawCh)>>, o) /\ o # "sent"
        /\ rawCh # <<>> /\ rawCh \in Seq(Datagrams)
    BY <1>4 DEF DropInvalid, ValidateReason, IInv, TypeInv, TypeOK, SharedTypeOK
  <2>2. Head(rawCh) \in Datagrams
    BY <2>1
  <2>3. Ids(<<Head(rawCh)>>) \subseteq RawIds
    BY <2>1, <2>2, IdsOne, IdsTail DEF RawIds
  <2>4. \A d \in RawIds : d \in DatagramIds => fate[d] = "pending"
    BY DEF IInv, Books, Ledgered, InFlight
  <2> HIDE DEF o
  <2>5. \A d \in DatagramIds :
          fate'[d] = fate[d] \/ (fate'[d] # "sent" /\ fate[d] = "pending")
    BY <2>1, <2>3, <2>4 DEF Account
  <2> QED BY <1>1, <2>5, TakenOutside DEF Early
<1> QED BY <1>2, <1>3, <1>4
        DEF Batching, BatcherRun, TakeEvent, TakeOverflowing, WindowFlush, InputClosed,
            HandOff, WindowElapses, shared

(* The datagram just offered was unsent before, so it was not taken in.    *)
LEMMA TakenTrySend ==
  ASSUME IInv, Taken, NEW s \in Shapes, TrySend(s)
  PROVE  Taken'
<1> DEFINE dg == [id |-> n + 1, ev |-> s]
<1>1. /\ UNCHANGED flusherVars /\ n \in Nat /\ n + 1 \in DatagramIds
      /\ MaxSends \in Nat
  BY PipelineStateAssumption
     DEF TrySend, IInv, TypeInv, TypeOK, DatagramIds
<1>2. PICK o \in {"pending", "routing_closed", "queue_full"} : Account(<<dg>>, o)
  BY DEF TrySend
<1>3. dg \in Datagrams /\ dg.id = n + 1
  BY <1>1 DEF Datagrams
<1> HIDE DEF dg
<1>4. Ids(<<dg>>) = {n + 1}
  BY <1>3, IdsOne
<1>5. fate[n + 1] = "unsent"
  BY <1>1 DEF IInv, Books, Ledgered, DatagramIds
<1>6. \A d \in DatagramIds :
        fate'[d] = fate[d] \/ (fate'[d] # "sent" /\ fate[d] = "unsent")
  BY <1>2, <1>4, <1>5 DEF Account
<1> QED BY <1>1, <1>6, TakenOutside DEF Early

(* The flusher takes a batch whose datagrams were never taken in.          *)
LEMMA TakenTakeBatch ==
  ASSUME IInv, Taken, TakeBatch
  PROVE  Taken'
<1>1. /\ batchCh \in Seq(Batches) /\ batchCh # <<>> /\ flight.events = <<>>
      /\ flight' = Head(batchCh) /\ fpc = "idle"
      /\ UNCHANGED <<fate, attempt, accepted, delivered>>
  BY DEF TakeBatch, IInv, Control, TypeInv, TypeOK, SharedTypeOK
<1>2. ~accepted /\ accepted' = accepted /\ FlightIds = {}
  BY <1>1, IdsEmpty DEF Taken, FlightIds
<1>3. FlightIds' \subseteq QueueIds
  BY <1>1, QIdsTail DEF QueueIds, FlightIds
<1>4. \A d \in FlightIds' : d \in DatagramIds => fate[d] = "pending"
  BY <1>3 DEF IInv, Books, Ledgered, InFlight
<1>5. ASSUME NEW d \in DatagramIds PROVE TakenOf(d)'
  <2>1. /\ delivered[d] <= MaxRetries + 1
        /\ fate[d] = "sent" => delivered[d] >= 1
        /\ fate[d] \in Early => delivered[d] = 0
    BY <1>2 DEF Taken, TakenOf
  <2>2. d \in FlightIds' => delivered[d] = 0
    BY <1>4, <2>1 DEF Early
  <2> QED BY <1>1, <1>2, <2>1, <2>2, DeliveryTypes DEF TakenOf
<1> QED BY <1>2, <1>5 DEF Taken

(* Between two attempts, and when one starts, nothing new is taken in.     *)
LEMMA TakenAttempt ==
  ASSUME IInv, Taken, UNCHANGED <<fate, flight, delivered>>,
         \/ attempt' = attempt /\ accepted' = accepted
            /\ (accepted => fpc' = "posting")
         \/ attempt' = attempt /\ ~accepted /\ ~accepted'
         \/ attempt' = attempt + 1 /\ ~accepted'
  PROVE  Taken'
<1>1. accepted' => fpc' = "posting"
  OBVIOUS
<1>2. ASSUME NEW d \in DatagramIds PROVE TakenOf(d)'
  <2>1. FlightIds' = FlightIds
    BY DEF FlightIds
  <2>2. TakenOf(d) /\ delivered[d] \in Nat
    BY DeliveryTypes DEF Taken
  <2> QED BY <2>1, <2>2, DeliveryTypes DEF TakenOf
<1> QED BY <1>1, <1>2 DEF Taken

(* Settling an accepted batch as sent, or any batch otherwise.             *)
LEMMA TakenSettle ==
  ASSUME IInv, Taken, NEW o \in {"sent", "flush_failed", "shutdown"}, Settle(o),
         o = "sent" => accepted
  PROVE  Taken'
<1>1. /\ Account(flight.events, o) /\ flight' = NoBatch /\ ~accepted'
      /\ delivered' = delivered
  BY DEF Settle
<1>2. FlightIds' = {}
  BY <1>1, IdsEmpty DEF FlightIds, NoBatch
<1>3. ASSUME NEW d \in DatagramIds PROVE TakenOf(d)'
  <2>1. TakenOf(d)
    BY DEF Taken
  <2>2. CASE d \in FlightIds
    <3>1. fate'[d] = o
      BY <1>1, <2>2 DEF Account, FlightIds
    <3> QED BY <1>1, <1>2, <2>1, <2>2, <3>1 DEF TakenOf, Early
  <2>3. CASE d \notin FlightIds
    <3>1. fate'[d] = fate[d]
      BY <1>1, <2>3 DEF Account, FlightIds
    <3> QED BY <1>1, <1>2, <2>1, <2>3, <3>1 DEF TakenOf
  <2> QED BY <2>2, <2>3
<1> QED BY <1>1, <1>3 DEF Taken

(* The gateway takes the batch in once more.                               *)
LEMMA TakenAccept ==
  ASSUME IInv, Taken, GatewayAccepts
  PROVE  Taken'
<1>1. /\ fpc' = "posting" /\ ~accepted /\ accepted'
      /\ UNCHANGED <<fate, flight, attempt>>
  BY DEF GatewayAccepts, shared
<1>2. ASSUME NEW d \in DatagramIds PROVE TakenOf(d)'
  <2>1. /\ TakenOf(d) /\ FlightIds' = FlightIds
        /\ delivered[d] \in Nat
    BY <1>1, DeliveryTypes DEF Taken, FlightIds
  <2>2. CASE d \in FlightIds
    <3>1. delivered'[d] = delivered[d] + 1
      BY <2>2 DEF GatewayAccepts, FlightIds
    <3> QED BY <1>1, <2>1, <2>2, <3>1, DeliveryTypes DEF TakenOf
  <2>3. CASE d \notin FlightIds
    <3>1. delivered'[d] = delivered[d]
      BY <2>3 DEF GatewayAccepts, FlightIds
    <3> QED BY <1>1, <2>1, <2>3, <3>1 DEF TakenOf
  <2> QED BY <2>2, <2>3
<1> QED BY <1>1, <1>2 DEF Taken

(* The flusher and the gateway keep Taken.                                 *)
LEMMA TakenFlushing ==
  ASSUME IInv, Taken, FlusherRun \/ GatewayAccepts
  PROVE  Taken'
<1>1. CASE TakeBatch
  BY <1>1, TakenTakeBatch
<1>2. CASE GatewayAccepts
  BY <1>2, TakenAccept
<1>3. CASE FlusherExit \/ StartPost \/ BackoffElapses
  BY <1>3, TakenAttempt DEF FlusherExit, StartPost, BackoffElapses, shared, Taken
<1>4. CASE PostSucceeds \/ StartCancelled \/ PostRejected \/ PostCancelled
           \/ BackoffCancelled
  BY <1>4, TakenSettle
     DEF PostSucceeds, StartCancelled, PostRejected, PostCancelled, BackoffCancelled
<1>5. CASE PostFailsTransiently
  <2>1. \/ Settle("flush_failed")
        \/ /\ attempt' = attempt + 1 /\ ~accepted'
           /\ UNCHANGED <<fate, flight, delivered>>
    BY <1>5 DEF PostFailsTransiently, shared
  <2>2. CASE Settle("flush_failed")
    BY <2>2, TakenSettle
  <2> QED BY <2>1, <2>2, TakenAttempt
<1> QED BY <1>1, <1>2, <1>3, <1>4, <1>5 DEF FlusherRun

(* Every step keeps Taken.                                                 *)
LEMMA TakenStep == IInv /\ Taken /\ [Next]_vars => Taken'
<1> SUFFICES ASSUME IInv, Taken, [Next]_vars PROVE Taken'
  OBVIOUS
<1>1. CASE Demuxer
  BY <1>1, TakenTrySend DEF Demuxer
<1>2. CASE Batching
  BY <1>2, TakenBatching
<1>3. CASE Flushing
  BY <1>3, TakenFlushing DEF Flushing
<1>4. CASE Draining
  <2>1. UNCHANGED <<flusherVars, fate>>
    BY <1>4 DEF Draining, DrainRun, DrainClose, DrainArm, DrainCloseBatches,
                DrainReturn, GraceExpires
  <2> QED BY <2>1, TakenOutside
<1>5. CASE UNCHANGED vars
  BY <1>5, TakenOutside DEF vars, shared
<1> QED BY <1>1, <1>2, <1>3, <1>4, <1>5 DEF Next, Stopped

(* Nothing is taken in at the start.                                       *)
LEMMA InitTaken == Init => Taken
BY FlusherAssumption, IdsEmpty
   DEF Init, SharedInit, FlusherInit, Taken, TakenOf, FlightIds, NoBatch

(* The gateway holds what the counters say: an event counted as sent was   *)
(* taken in, an event dropped before the flusher never was, and none is    *)
(* taken in more often than send() makes attempts, even though an answer   *)
(* may be lost and a retry deliver the batch again (flusher.go send and    *)
(* postJSON, events.go run and flush, routing.go drain).                   *)
THEOREM DeliveriesCounted == Spec => []DeliveryMatchesFate
<1>1. IInv /\ Taken => DeliveryMatchesFate
  <2> SUFFICES ASSUME IInv, Taken, NEW d \in DatagramIds
               PROVE  /\ fate[d] = "sent" => delivered[d] >= 1
                      /\ delivered[d] <= MaxRetries + 1
                      /\ fate[d] \in {"unsent", "parse_error", "oversize",
                                      "queue_full", "routing_closed"}
                           => delivered[d] = 0
    BY DEF DeliveryMatchesFate
  <2> QED BY FlightPending DEF Taken, TakenOf, Early
<1>2. Init => IInv /\ Taken
  BY InitIInv, InitTaken
<1>3. IInv /\ Taken /\ [Next]_vars => (IInv /\ Taken)'
  BY IInvStep, TakenStep
<1> QED BY <1>1, <1>2, <1>3, PTL DEF Spec

-----------------------------------------------------------------------------
(* The batches.                                                            *)
Capped(ds) ==
  /\ Len(ds) <= MaxEvents
  /\ Len(ds) > 1 => EventBytes(ds) + Len(ds) <= MaxBatchBytes

(* A formed batch: its credential, its size, and all that are queued.      *)
Sound(b) == IsFreshest(b.token, b.events) /\ Capped(b.events)

SoundBatches ==
  /\ Sound(flight) /\ Sound(handing)
  /\ \A i \in DOMAIN batchCh : Sound(batchCh[i])

(* An unfinished batch: tok is its freshest credential, it is not full,    *)
(* and bytes counts its events and a comma each, within the body limit.    *)
Unfinished(ds, bytes, tok) ==
  /\ IsFreshest(tok, ds)
  /\ Len(ds) < MaxEvents
  /\ EventBytes(ds) \in Nat
  /\ bytes = EventBytes(ds) + Len(ds)
  /\ Len(ds) > 1 => bytes <= MaxBatchBytes

(* The batch in the batcher, and the inductive invariant of the batches.   *)
Assembled == Unfinished(cur, curBytes, curToken)

Batched == Assembled /\ SoundBatches

(* The empty batch is sound, and unfinished.                               *)
LEMMA NothingAssembled ==
  Sound(NoBatch) /\ Unfinished(<<>>, 0, NoToken)
BY BytesOfNone, EventsAssumption
   DEF Sound, NoBatch, IsFreshest, Capped, Unfinished

(* Last-wins: the credential of an appended datagram, if it has one.       *)
LEMMA FreshestAppend ==
  ASSUME NEW ds \in Seq(Datagrams), NEW dg \in Datagrams, NEW tok, IsFreshest(tok, ds)
  PROVE  IsFreshest(IF dg.ev.token # NoToken THEN dg.ev.token ELSE tok, Append(ds, dg))
<1> DEFINE es == Append(ds, dg)
           k  == Len(ds) + 1
<1>1. /\ DOMAIN ds = 1 .. Len(ds) /\ DOMAIN es = 1 .. k /\ Len(ds) \in Nat
      /\ es[k] = dg /\ \A i \in DOMAIN ds : es[i] = ds[i]
  OBVIOUS
<1>2. k \in DOMAIN es /\ \A i \in DOMAIN es : ~(i > k) /\ (i = k \/ i \in DOMAIN ds)
  BY <1>1
<1> HIDE DEF es, k
<1>3. CASE dg.ev.token # NoToken
  <2>1. \A j \in DOMAIN es : j > k => es[j].ev.token = NoToken
    BY <1>2
  <2> QED BY <1>1, <1>2, <1>3, <2>1 DEF IsFreshest, es
<1>4. CASE dg.ev.token = NoToken /\ tok = NoToken
  <2>1. \A i \in DOMAIN es : es[i].ev.token = NoToken
    BY <1>1, <1>2, <1>4 DEF IsFreshest
  <2> QED BY <1>4, <2>1 DEF IsFreshest, es
<1>5. CASE dg.ev.token = NoToken /\ tok # NoToken
  <2>1. PICK i \in DOMAIN ds : /\ ds[i].ev.token = tok
                               /\ \A j \in DOMAIN ds : j > i => ds[j].ev.token = NoToken
    BY <1>5 DEF IsFreshest
  <2>2. i \in DOMAIN es /\ es[i].ev.token = tok
    BY <1>1, <2>1 DEF k
  <2>3. \A j \in DOMAIN es : j > i => es[j].ev.token = NoToken
    BY <1>1, <1>2, <1>5, <2>1
  <2> QED BY <1>5, <2>2, <2>3 DEF IsFreshest, es
<1> QED BY <1>3, <1>4, <1>5

(* A batch handed over as it stands is sound.                              *)
LEMMA UnfinishedSound ==
  ASSUME NEW ds \in Seq(Datagrams), NEW bytes, NEW tok, Unfinished(ds, bytes, tok)
  PROVE  Sound([events |-> ds, token |-> tok])
<1>1. Len(ds) \in Nat /\ MaxEvents \in Nat /\ MaxBatchBytes \in Nat
  BY EventsAssumption
<1>2. Capped(ds)
  BY <1>1 DEF Unfinished, Capped
<1> QED BY <1>2 DEF Unfinished, Sound

(* AppendEvent on an unfinished batch with room for the event.             *)
LEMMA AppendBatched ==
  ASSUME NEW ds \in Seq(Datagrams), NEW bytes \in Nat, NEW tok, NEW tm,
         Unfinished(ds, bytes, tok),
         NEW dg \in Datagrams, ValidateReason(dg.ev) = "ok",
         ds # <<>> => bytes + EventLen(dg.ev) + 1 <= MaxBatchBytes,
         AppendEvent(dg, ds, bytes, tok, tm)
  PROVE  Assembled' /\ Sound(handing')
<1> DEFINE es == Append(ds, dg)
           fresh == IF dg.ev.token # NoToken THEN dg.ev.token ELSE tok
           l == EventLen(dg.ev)
<1>1. es \in Seq(Datagrams) /\ Len(es) = Len(ds) + 1 /\ Len(ds) \in Nat
      /\ (ds = <<>> <=> Len(ds) = 0)
  OBVIOUS
<1>2. IsFreshest(fresh, es)
  BY FreshestAppend DEF Unfinished
<1>3. l \in Nat
  BY DatagramType, EventLenType
<1>4. EventBytes(es) = EventBytes(ds) + l
  BY BytesOfAppend
<1>5. /\ MaxEvents \in Nat /\ MaxBatchBytes \in Nat
  BY EventsAssumption
<1>6. \/ BeginFlush("flush_size", es, fresh)
      \/ /\ Len(es) < MaxEvents /\ handing' = NoBatch
         /\ cur' = es /\ curBytes' = bytes + l + 1 /\ curToken' = fresh
  BY DEF AppendEvent
<1>7. ds # <<>> => bytes + l + 1 <= MaxBatchBytes
  OBVIOUS
<1> HIDE DEF es, fresh, l
<1>8. /\ EventBytes(es) \in Nat
      /\ bytes + l + 1 = EventBytes(es) + Len(es)
      /\ Len(es) <= MaxEvents
      /\ Len(es) > 1 => bytes + l + 1 <= MaxBatchBytes
  <2>1. /\ Len(ds) < MaxEvents /\ EventBytes(ds) \in Nat
        /\ bytes = EventBytes(ds) + Len(ds)
    BY DEF Unfinished
  <2>2. EventBytes(es) \in Nat /\ bytes + l + 1 = EventBytes(es) + Len(es)
    <3>1. PICK e \in Nat : e = EventBytes(ds)
      BY <2>1
    <3>2. PICK k \in Nat : k = Len(ds)
      BY <1>1
    <3>3. Len(es) = k + 1 /\ EventBytes(es) = e + l /\ bytes = e + k
      BY <1>1, <1>4, <2>1, <3>1, <3>2
    <3>4. e + l \in Nat /\ (e + k) + l + 1 = (e + l) + (k + 1)
      BY <1>3
    <3> QED BY <3>3, <3>4
  <2>3. Len(es) <= MaxEvents
    BY <1>1, <1>5, <2>1
  <2>4. Len(es) > 1 => ds # <<>>
    BY <1>1
  <2> QED BY <1>7, <2>2, <2>3, <2>4
<1>9. CASE BeginFlush("flush_size", es, fresh)
  <2>1. Capped(es)
    BY <1>1, <1>5, <1>8 DEF Capped
  <2>2. Sound(handing')
    BY <1>2, <1>9, <2>1 DEF BeginFlush, Sound
  <2> QED BY <1>9, <2>2, NothingAssembled DEF BeginFlush, Assembled
<1>10. CASE /\ Len(es) < MaxEvents /\ handing' = NoBatch
            /\ cur' = es /\ curBytes' = bytes + l + 1 /\ curToken' = fresh
  <2>1. Unfinished(es, bytes + l + 1, fresh)
    BY <1>2, <1>8, <1>10 DEF Unfinished
  <2> QED BY <1>10, <2>1, NothingAssembled DEF Assembled
<1> QED BY <1>6, <1>9, <1>10

(* A flush of the current batch, or none when it is empty.                 *)
LEMMA FlushBatched ==
  ASSUME cur \in Seq(Datagrams), Assembled, Sound(handing),
         NEW call, NEW next, Flush(call, next)
  PROVE  Assembled' /\ Sound(handing')
<1>1. CASE cur = <<>>
  BY <1>1 DEF Flush, Assembled
<1>2. CASE cur # <<>>
  <2>1. Sound([events |-> cur, token |-> curToken])
    BY UnfinishedSound DEF Assembled
  <2> QED BY <1>2, <2>1, NothingAssembled DEF Flush, BeginFlush, Assembled
<1> QED BY <1>1, <1>2

(* What follows a flush leaves the batcher with a sound hand-over.         *)
LEMMA AfterFlushBatched ==
  ASSUME TypeInv, Control, Assembled, AfterFlush
  PROVE  Assembled' /\ Sound(handing')
<1>1. CASE ReturnFromFlush
  BY <1>1, NothingAssembled DEF ReturnFromFlush, Assembled
<1>2. CASE /\ bpc = "flush_bytes"
           /\ AppendEvent(held[1], <<>>, 0, NoToken, "off")
  <2>1. held \in Seq(Datagrams) /\ Len(held) = 1
    BY <1>2 DEF Control, TypeInv, TypeOK, BatcherTypeOK
  <2>2. held[1] \in Datagrams /\ ValidateReason(held[1].ev) = "ok"
    BY <2>1 DEF TypeInv, HeldOK
  <2>3. <<>> \in Seq(Datagrams)
    OBVIOUS
  <2> QED BY <1>2, <2>2, <2>3, NothingAssembled, AppendBatched
<1> QED BY <1>1, <1>2 DEF AfterFlush

(* The batcher assembles and hands over sound batches only.                *)
LEMMA BatchedBatcher ==
  ASSUME TypeInv, Control, Batched, BatcherRun \/ WindowElapses, UNCHANGED flusherVars
  PROVE  Batched'
<1>1. /\ rawCh \in Seq(Datagrams) /\ cur \in Seq(Datagrams) /\ curBytes \in Nat
      /\ batchCh \in Seq(Batches) /\ MaxBatchBytes \in Nat
  BY EventsAssumption DEF TypeInv, TypeOK, SharedTypeOK, BatcherTypeOK
<1>2. /\ Assembled /\ Sound(handing) /\ Sound(flight)
      /\ \A i \in DOMAIN batchCh : Sound(batchCh[i])
  BY DEF Batched, SoundBatches
<1>3. flight' = flight
  BY DEF flusherVars
<1>4. CASE DropInvalid \/ WindowElapses
  BY <1>2, <1>3, <1>4
     DEF DropInvalid, WindowElapses, shared, batcherVars, Batched, SoundBatches, Assembled
<1>5. ASSUME Assembled' /\ Sound(handing'), batchCh' = batchCh
      PROVE  Batched'
  BY <1>2, <1>3, <1>5 DEF Batched, SoundBatches
<1>6. CASE TakeEvent
  <2>1. /\ Head(rawCh) \in Datagrams /\ ValidateReason(Head(rawCh).ev) = "ok"
        /\ ~Overflows(Head(rawCh)) /\ batchCh' = batchCh
        /\ AppendEvent(Head(rawCh), cur, curBytes, curToken, timer)
    BY <1>1, <1>6 DEF TakeEvent
  <2>2. EventLen(Head(rawCh).ev) \in Nat
    BY <2>1, DatagramType, EventLenType
  <2>3. cur # <<>> => curBytes + EventLen(Head(rawCh).ev) + 1 <= MaxBatchBytes
    BY <1>1, <2>1, <2>2 DEF Overflows
  <2>4. Assembled' /\ Sound(handing')
    BY <1>1, <1>2, <2>1, <2>3, AppendBatched DEF Assembled
  <2> QED BY <1>5, <2>1, <2>4
<1>7. CASE TakeOverflowing
  <2>1. BeginFlush("flush_bytes", cur, curToken) /\ batchCh' = batchCh
    BY <1>7 DEF TakeOverflowing
  <2>2. Sound([events |-> cur, token |-> curToken])
    BY <1>1, <1>2, UnfinishedSound DEF Assembled
  <2>3. Assembled' /\ Sound(handing')
    BY <2>1, <2>2, NothingAssembled DEF BeginFlush, Assembled
  <2> QED BY <1>5, <2>1, <2>3
<1>8. CASE WindowFlush \/ InputClosed
  <2>1. batchCh' = batchCh /\ \E call, next : Flush(call, next)
    BY <1>8 DEF WindowFlush, InputClosed, shared
  <2>2. Assembled' /\ Sound(handing')
    BY <1>1, <1>2, <2>1, FlushBatched
  <2> QED BY <1>5, <2>1, <2>2
<1>9. CASE AbandonBatch
  BY <1>2, <1>5, <1>9, AfterFlushBatched DEF AbandonBatch
<1>10. CASE HandOff
  <2>1. AfterFlush /\ batchCh' = Append(batchCh, handing)
    BY <1>10 DEF HandOff
  <2>2. Assembled' /\ Sound(handing')
    BY <1>2, <2>1, AfterFlushBatched
  <2>3. \A i \in DOMAIN batchCh' : Sound(batchCh'[i])
    BY <1>1, <1>2, <2>1
  <2> QED BY <1>2, <1>3, <2>2, <2>3 DEF Batched, SoundBatches
<1> QED BY <1>4, <1>6, <1>7, <1>8, <1>9, <1>10 DEF BatcherRun

(* The flusher takes batches as they were queued.                          *)
LEMMA BatchedFlusher ==
  ASSUME TypeInv, Batched, FlusherRun \/ GatewayAccepts, UNCHANGED batcherVars
  PROVE  Batched'
<1>1. batchCh \in Seq(Batches)
  BY DEF TypeInv, TypeOK, SharedTypeOK
<1>2. /\ Sound(handing') /\ Assembled' /\ Sound(flight)
      /\ \A i \in DOMAIN batchCh : Sound(batchCh[i])
  BY DEF Batched, SoundBatches, Assembled, batcherVars
<1>3. CASE TakeBatch
  <2>1. /\ batchCh # <<>> /\ flight' = Head(batchCh) /\ batchCh' = Tail(batchCh)
    BY <1>3 DEF TakeBatch
  <2>2. Sound(flight') /\ \A i \in DOMAIN batchCh' : Sound(batchCh'[i])
    BY <1>1, <1>2, <2>1
  <2> QED BY <1>2, <2>2 DEF Batched, SoundBatches
<1>4. CASE batchCh' = batchCh /\ flight' \in {flight, NoBatch}
  BY <1>2, <1>4, NothingAssembled DEF Batched, SoundBatches
<1> QED BY <1>3, <1>4
        DEF FlusherRun, GatewayAccepts, FlusherExit, StartPost, StartCancelled,
            PostSucceeds, PostFailsTransiently, PostRejected, PostCancelled,
            BackoffElapses, BackoffCancelled, Settle, shared

(* Every step keeps the batches sound.                                     *)
LEMMA BatchedStep == TypeInv /\ Control /\ Batched /\ [Next]_vars => Batched'
<1> SUFFICES ASSUME TypeInv, Control, Batched, [Next]_vars PROVE Batched'
  OBVIOUS
<1>1. CASE UNCHANGED <<batchCh, batcherVars, flusherVars>>
  BY <1>1 DEF Batched, SoundBatches, Assembled, batcherVars, flusherVars
<1>2. CASE Batching
  BY <1>2, BatchedBatcher DEF Batching
<1>3. CASE Flushing
  BY <1>3, BatchedFlusher DEF Flushing
<1>4. CASE Demuxer
  BY <1>1, <1>4 DEF Demuxer, TrySend
<1>5. CASE Draining
  BY <1>1, <1>5 DEF Draining, DrainRun, DrainClose, DrainArm, DrainCloseBatches,
                    DrainReturn, GraceExpires
<1>6. CASE UNCHANGED vars
  BY <1>1, <1>6 DEF vars, shared
<1> QED BY <1>2, <1>3, <1>4, <1>5, <1>6 DEF Next, Stopped

(* There are no batches at the start.                                      *)
LEMMA InitBatched == Init => Batched
BY NothingAssembled
   DEF Init, SharedInit, BatcherInit, FlusherInit, Batched, SoundBatches, Assembled

(* The batches are sound in every behaviour.                               *)
LEMMA BatchedHolds == Spec => []Batched
<1>1. Init => IInv /\ Batched
  BY InitIInv, InitBatched
<1>2. IInv /\ Batched /\ [Next]_vars => (IInv /\ Batched)'
  BY IInvStep, BatchedStep DEF IInv
<1> QED BY <1>1, <1>2, PTL DEF Spec

(* Every batch is authorized by the last credential among its own events,  *)
(* whichever of the four flushes formed it and however often the batcher   *)
(* is interrupted by one: a credential is never left over from an earlier  *)
(* batch and never overridden by an older one (events.go run, "Last-wins", *)
(* and the reset of curToken in flush).                                    *)
THEOREM CredentialIsFreshest == Spec => []FreshestToken
<1>1. Batched => FreshestToken
  BY DEF Batched, SoundBatches, Sound, FreshestToken, FormedBatches
<1> QED BY <1>1, BatchedHolds, PTL

(* A batch stays within MaxEvents, and the events of a batch of several,   *)
(* with a comma each, within MaxBatchBytes, for events of all lengths,     *)
(* stamped or not: the running count b.curBytes is exactly the sum of the  *)
(* encoded lengths and commas (events.go run).  The wrapper is not in it.  *)
THEOREM BodiesWithinCaps == Spec => []BatchWithinCaps
<1>1. Batched => BatchWithinCaps
  BY DEF Batched, SoundBatches, Sound, Capped, BatchWithinCaps, FormedBatches
<1> QED BY <1>1, BatchedHolds, PTL
=============================================================================
