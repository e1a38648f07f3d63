---------------------------- MODULE LedgerProofs ----------------------------
(***************************************************************************)
(* The pipeline implements EventLedger and keeps its datagrams in order,   *)
(* for all values of the constants.                                        *)
(*                                                                         *)
(* Neither is inductive.  The inductive invariant Books says where a       *)
(* pending datagram is: in exactly one of six places, which are ordered by *)
(* id; and Control ties the places to the program counters, so that a      *)
(* place is known to be empty when a step fills it and when drain returns. *)
(***************************************************************************)
EXTENDS PipelineProofs

(* The six places, from the gateway's end.                                 *)
QIds(bs) == {d \in DatagramIds : \E i \in DOMAIN bs : d \in Ids(bs[i].events)}

FlightIds == Ids(flight.events)
QueueIds  == QIds(batchCh)
HandIds   == Ids(handing.events)
CurIds    == Ids(cur)
HeldIds   == Ids(held)
RawIds    == Ids(rawCh)

InFlight ==
  FlightIds \cup QueueIds \cup HandIds \cup CurIds \cup HeldIds \cup RawIds

Below(S, T) == \A a \in S, b \in T : a < b

Chain(F, Q, H, C, D, R) ==
  /\ Below(F, Q) /\ Below(F, H) /\ Below(F, C) /\ Below(F, D) /\ Below(F, R)
  /\ Below(Q, H) /\ Below(Q, C) /\ Below(Q, D) /\ Below(Q, R)
  /\ Below(H, C) /\ Below(H, D) /\ Below(H, R)
  /\ Below(C, D) /\ Below(C, R)
  /\ Below(D, R)

(* The batches of a queue, each in order and one after the other.          *)
QueueOrder(bs) ==
  /\ \A i \in DOMAIN bs : Ascending(bs[i].events)
  /\ \A i, j \in DOMAIN bs : i < j => Ahead(bs[i].events, bs[j].events)

Order ==
  /\ Chain(FlightIds, QueueIds, HandIds, CurIds, HeldIds, RawIds)
  /\ QueueOrder(batchCh)
  /\ Ascending(flight.events) /\ Ascending(handing.events)
  /\ Ascending(cur) /\ Ascending(held) /\ Ascending(rawCh)

Ledgered ==
  \A d \in DatagramIds : /\ fate[d] = "unsent" <=> d > n
                         /\ fate[d] = "pending" <=> d \in InFlight

Books == Order /\ Ledgered

Control ==
  /\ bpc \notin FlushCalls => handing.events = <<>>
  /\ bpc = "flush_bytes" => Len(held) = 1
  /\ bpc # "flush_bytes" => held = <<>>
  /\ bpc # "select" => cur = <<>>
  /\ bpc \in {"flush_final", "done"} => rawCh = <<>> /\ rawClosed
  /\ fpc \in {"idle", "done"} => flight.events = <<>>
  /\ fpc = "done" => batchCh = <<>> /\ batchClosed
  /\ batchClosed => bpc = "done"
  /\ rawClosed <=> dpc # "idle"
  /\ batchClosed <=> dpc \in {"wait_flusher", "done"}
  /\ dpc = "done" => fpc = "done"

IInv == TypeInv /\ Control /\ Books
-----------------------------------------------------------------------------
(* Ids, Ascending and Ahead on the sequences the actions build.            *)
LEMMA IdsEmpty == Ids(<<>>) = {} /\ Ascending(<<>>) /\ QIds(<<>>) = {} /\ QueueOrder(<<>>)
BY DEF Ids, Ascending, QIds, QueueOrder

(* A single datagram is its own sequence of ids.                           *)
LEMMA IdsOne ==
  ASSUME NEW dg \in Datagrams
  PROVE  Ids(<<dg>>) = {dg.id} /\ Ascending(<<dg>>)
BY DEF Ids, Ascending

(* Ids are numbers of offered datagrams.                                   *)
LEMMA IdsType ==
  ASSUME NEW ds \in Seq(Datagrams)
  PROVE  Ids(ds) \subseteq DatagramIds
BY DatagramType DEF Ids

(* Appending a datagram adds its id.                                       *)
LEMMA IdsAppend ==
  ASSUME NEW ds \in Seq(Datagrams), NEW dg \in Datagrams
  PROVE  Ids(Append(ds, dg)) = Ids(ds) \cup {dg.id}
<1> DEFINE es == Append(ds, dg)
<1>1. /\ Len(es) = Len(ds) + 1 /\ es[Len(ds) + 1] = dg
      /\ \A i \in 1 .. Len(ds) : es[i] = ds[i]
      /\ DOMAIN es = 1 .. Len(ds) + 1 /\ DOMAIN ds = 1 .. Len(ds)
      /\ Len(ds) \in Nat
  OBVIOUS
<1> HIDE DEF es
<1>2. ASSUME NEW x \in Ids(es) PROVE x \in Ids(ds) \cup {dg.id}
  BY <1>1, <1>2 DEF Ids
<1>3. ASSUME NEW x \in Ids(ds) \cup {dg.id} PROVE x \in Ids(es)
  <2>1. CASE x = dg.id
    BY <1>1, <2>1 DEF Ids
  <2>2. CASE x \in Ids(ds)
    <3>1. PICK i \in DOMAIN ds : x = ds[i].id
      BY <2>2 DEF Ids
    <3>2. i \in DOMAIN es /\ x = es[i].id
      BY <1>1, <3>1
    <3> QED BY <3>2 DEF Ids
  <2> QED BY <1>3, <2>1, <2>2
<1> QED BY <1>2, <1>3 DEF es

(* Taking the head removes its id.                                         *)
LEMMA IdsTail ==
  ASSUME NEW ds \in Seq(Datagrams), ds # <<>>
  PROVE  Ids(ds) = {Head(ds).id} \cup Ids(Tail(ds))
<1> DEFINE es == Tail(ds)
<1>1. /\ Head(ds) = ds[1]
      /\ \A i \in 1 .. Len(ds) - 1 : es[i] = ds[i + 1]
      /\ DOMAIN es = 1 .. Len(ds) - 1 /\ DOMAIN ds = 1 .. Len(ds)
      /\ Len(ds) \in Nat \ {0}
  OBVIOUS
<1> HIDE DEF es
<1>2. ASSUME NEW x \in Ids(ds) PROVE x \in {Head(ds).id} \cup Ids(es)
  <2>1. PICK i \in DOMAIN ds : x = ds[i].id
    BY <1>2 DEF Ids
  <2>2. CASE i = 1
    BY <1>1, <2>1, <2>2
  <2>3. CASE i # 1
    <3>1. i - 1 \in DOMAIN es /\ es[i - 1] = ds[i]
      BY <1>1, <2>1, <2>3
    <3> QED BY <2>1, <3>1 DEF Ids
  <2> QED BY <2>2, <2>3
<1>3. ASSUME NEW x \in Ids(es) PROVE x \in Ids(ds)
  <2>1. PICK i \in DOMAIN es : x = es[i].id
    BY <1>3 DEF Ids
  <2>2. i + 1 \in DOMAIN ds /\ x = ds[i + 1].id
    BY <1>1, <2>1
  <2> QED BY <2>2 DEF Ids
<1>4. Head(ds).id \in Ids(ds)
  BY <1>1 DEF Ids
<1> QED BY <1>2, <1>3, <1>4 DEF es

(* A datagram later than all others may be appended.                       *)
LEMMA AscendingAppend ==
  ASSUME NEW ds \in Seq(Datagrams), NEW dg \in Datagrams,
         Ascending(ds), Below(Ids(ds), {dg.id})
  PROVE  Ascending(Append(ds, dg))
BY DEF Ascending, Ids, Below

(* The head of an ascending sequence comes before its tail.                *)
LEMMA AscendingTail ==
  ASSUME NEW ds \in Seq(Datagrams), ds # <<>>, Ascending(ds)
  PROVE  Ascending(Tail(ds)) /\ Below({Head(ds).id}, Ids(Tail(ds)))
BY DEF Ascending, Ids, Below

(* Ahead on sequences is Below on their ids.                               *)
LEMMA AheadBelow ==
  ASSUME NEW ds, NEW es
  PROVE  Ahead(ds, es) <=> Below(Ids(ds), Ids(es))
BY DEF Ahead, Ids, Below

(* A batch holds datagrams.                                                *)
LEMMA EventsType ==
  ASSUME NEW b \in Batches
  PROVE  b.events \in Seq(Datagrams)
BY DEF Batches

(* Queueing a batch adds its ids to the queue.                             *)
LEMMA QIdsAppend ==
  ASSUME NEW bs \in Seq(Batches), NEW b \in Batches
  PROVE  QIds(Append(bs, b)) = QIds(bs) \cup Ids(b.events)
<1> DEFINE cs == Append(bs, b)
<1>1. /\ cs[Len(bs) + 1] = b
      /\ \A i \in 1 .. Len(bs) : cs[i] = bs[i]
      /\ DOMAIN cs = 1 .. Len(bs) + 1 /\ DOMAIN bs = 1 .. Len(bs)
      /\ Len(bs) \in Nat
  OBVIOUS
<1>2. Ids(b.events) \subseteq DatagramIds
  BY EventsType, IdsType
<1> HIDE DEF cs
<1>3. ASSUME NEW x \in QIds(cs) PROVE x \in QIds(bs) \cup Ids(b.events)
  BY <1>1, <1>3 DEF QIds
<1>4. ASSUME NEW x \in QIds(bs) PROVE x \in QIds(cs)
  BY <1>1, <1>4 DEF QIds
<1>5. ASSUME NEW x \in Ids(b.events) PROVE x \in QIds(cs)
  BY <1>1, <1>2, <1>5 DEF QIds
<1> QED BY <1>3, <1>4, <1>5 DEF cs

(* Taking the first batch removes its ids from the queue.                  *)
LEMMA QIdsTail ==
  ASSUME NEW bs \in Seq(Batches), bs # <<>>
  PROVE  QIds(bs) = Ids(Head(bs).events) \cup QIds(Tail(bs))
<1> DEFINE cs == Tail(bs)
<1>1. /\ Head(bs) = bs[1] /\ Head(bs) \in Batches
      /\ \A i \in 1 .. Len(bs) - 1 : cs[i] = bs[i + 1]
      /\ DOMAIN cs = 1 .. Len(bs) - 1 /\ DOMAIN bs = 1 .. Len(bs)
      /\ Len(bs) \in Nat \ {0}
  OBVIOUS
<1>2. Ids(Head(bs).events) \subseteq DatagramIds
  BY <1>1, EventsType, IdsType
<1> HIDE DEF cs
<1>3. ASSUME NEW x \in QIds(bs) PROVE x \in Ids(Head(bs).events) \cup QIds(cs)
  <2>1. PICK i \in DOMAIN bs : x \in Ids(bs[i].events)
    BY <1>3 DEF QIds
  <2>2. CASE i = 1
    BY <1>1, <2>1, <2>2
  <2>3. CASE i # 1
    <3>1. i - 1 \in DOMAIN cs /\ cs[i - 1] = bs[i]
      BY <1>1, <2>1, <2>3
    <3> QED BY <1>3, <2>1, <3>1 DEF QIds
  <2> QED BY <2>2, <2>3
<1>4. ASSUME NEW x \in QIds(cs) PROVE x \in QIds(bs)
  <2>1. PICK i \in DOMAIN cs : x \in Ids(cs[i].events)
    BY <1>4 DEF QIds
  <2>2. i + 1 \in DOMAIN bs /\ x \in Ids(bs[i + 1].events)
    BY <1>1, <2>1
  <2> QED BY <1>4, <2>2 DEF QIds
<1>5. ASSUME NEW x \in Ids(Head(bs).events) PROVE x \in QIds(bs)
  BY <1>1, <1>2, <1>5 DEF QIds
<1> QED BY <1>3, <1>4, <1>5 DEF cs

(* A batch later than the whole queue may be queued.                       *)
LEMMA QueueOrderAppend ==
  ASSUME NEW bs \in Seq(Batches), NEW b \in Batches, QueueOrder(bs),
         Ascending(b.events), Below(QIds(bs), Ids(b.events))
  PROVE  QueueOrder(Append(bs, b))
BY EventsType, IdsType, AheadBelow DEF QueueOrder, QIds, Below

(* The first batch comes before the rest of the queue.                     *)
LEMMA QueueOrderTail ==
  ASSUME NEW bs \in Seq(Batches), bs # <<>>, QueueOrder(bs)
  PROVE  /\ QueueOrder(Tail(bs))
         /\ Ascending(Head(bs).events)
         /\ Below(Ids(Head(bs).events), QIds(Tail(bs)))
BY AheadBelow DEF QueueOrder, QIds, Below
-----------------------------------------------------------------------------
(* How the chain of places changes when datagrams move.                    *)
LEMMA ChainEnter ==
  ASSUME NEW F, NEW Q, NEW H, NEW C, NEW D, NEW R, NEW m,
         Chain(F, Q, H, C, D, R),
         Below(F \cup Q \cup H \cup C \cup D \cup R, {m})
  PROVE  Chain(F, Q, H, C, D, R \cup {m})
BY DEF Chain, Below

(* The head of rawCh is appended to cur.                                   *)
LEMMA ChainRawToCur ==
  ASSUME NEW F, NEW Q, NEW H, NEW C, NEW R, NEW h, NEW R2,
         Chain(F, Q, H, C, {}, R), R = {h} \cup R2, Below({h}, R2)
  PROVE  Chain(F, Q, H, C \cup {h}, {}, R2) /\ Below(C, {h})
BY DEF Chain, Below

(* The head of rawCh is held during a pre-flush.                           *)
LEMMA ChainRawToHeld ==
  ASSUME NEW F, NEW Q, NEW H, NEW C, NEW R, NEW h, NEW R2,
         Chain(F, Q, H, C, {}, R), R = {h} \cup R2, Below({h}, R2)
  PROVE  Chain(F, Q, H, C, {h}, R2)
BY DEF Chain, Below

(* flush() takes cur.                                                      *)
LEMMA ChainCurToHand ==
  ASSUME NEW F, NEW Q, NEW C, NEW D, NEW R,
         Chain(F, Q, {}, C, D, R)
  PROVE  Chain(F, Q, C, {}, D, R)
BY DEF Chain, Below

(* flush() hands its batch over to batchCh.                                *)
LEMMA ChainHandToQueue ==
  ASSUME NEW F, NEW Q, NEW H, NEW C, NEW D, NEW R,
         Chain(F, Q, H, C, D, R)
  PROVE  Chain(F, Q \cup H, {}, C, D, R)
BY DEF Chain, Below

(* After the pre-flush the held datagram starts a new batch.               *)
LEMMA ChainHeldToCur ==
  ASSUME NEW F, NEW Q, NEW H, NEW D, NEW R,
         Chain(F, Q, H, {}, D, R)
  PROVE  Chain(F, Q, H, D, {}, R)
BY DEF Chain, Below

(* The flusher takes the first batch.                                      *)
LEMMA ChainQueueToFlight ==
  ASSUME NEW Q, NEW H, NEW C, NEW D, NEW R, NEW F, NEW Q2,
         Chain({}, Q, H, C, D, R), Q = F \cup Q2, Below(F, Q2)
  PROVE  Chain(F, Q2, H, C, D, R)
BY DEF Chain, Below

(* A place can lose datagrams.                                             *)
LEMMA ChainShrink ==
  ASSUME NEW F, NEW Q, NEW H, NEW C, NEW D, NEW R, NEW F2, NEW H2, NEW R2,
         Chain(F, Q, H, C, D, R),
         F2 \subseteq F, H2 \subseteq H, R2 \subseteq R
  PROVE  Chain(F2, Q, H2, C, D, R2)
BY DEF Chain, Below
-----------------------------------------------------------------------------
(* What AppendEvent and AfterFlush do to the places.                       *)
Kept(es)   == bpc' = "select" /\ cur' = es /\ handing'.events = <<>>
Handed(es) == bpc' = "flush_size" /\ cur' = <<>> /\ handing'.events = es

(* The extended batch stays in cur or is handed over.                      *)
LEMMA AppendEventEffect ==
  ASSUME NEW dg, NEW c, NEW bytes, NEW tok, NEW tm,
         AppendEvent(dg, c, bytes, tok, tm)
  PROVE  Kept(Append(c, dg)) \/ Handed(Append(c, dg))
BY DEF AppendEvent, BeginFlush, NoBatch, Kept, Handed

(* After a flush a held datagram starts the next batch, else none exists.  *)
LEMMA AfterFlushEffect ==
  ASSUME TypeInv, Control, AfterFlush
  PROVE  /\ cur = <<>> /\ held' = <<>>
         /\ \/ /\ bpc = "flush_bytes"
               /\ held[1] \in Datagrams /\ held = <<held[1]>>
               /\ Kept(<<held[1]>>) \/ Handed(<<held[1]>>)
            \/ /\ held = <<>> /\ cur' = <<>> /\ handing'.events = <<>>
               /\ \/ bpc' = "select"
                  \/ bpc' = "done" /\ bpc = "flush_final"
<1>1. CASE ReturnFromFlush
  BY <1>1 DEF ReturnFromFlush, Control, NoBatch
<1>2. CASE /\ bpc = "flush_bytes"
           /\ AppendEvent(held[1], <<>>, 0, NoToken, "off")
           /\ held' = <<>>
  <2>1. held \in Seq(Datagrams) /\ Len(held) = 1
    BY <1>2 DEF Control, TypeInv, TypeOK, BatcherTypeOK
  <2>2. held[1] \in Datagrams /\ held = <<held[1]>>
    BY <2>1
  <2>3. Append(<<>>, held[1]) = <<held[1]>>
    OBVIOUS
  <2>4. Kept(<<held[1]>>) \/ Handed(<<held[1]>>)
    BY <1>2, <2>3, AppendEventEffect
  <2> QED BY <1>2, <2>2, <2>4 DEF Control
<1> QED BY <1>1, <1>2 DEF AfterFlush

(* The batcher keeps Control.                                              *)
LEMMA ControlBatcher ==
  ASSUME TypeInv, Control, BatcherRun \/ WindowElapses,
         UNCHANGED <<flusherVars, n, drainVars>>
  PROVE  Control'
<1> USE DEF Control, flusherVars, drainVars, FlushCalls
<1>1. CASE DropInvalid
  BY <1>1 DEF DropInvalid, batcherVars
<1>2. CASE TakeEvent
  <2>1. Kept(Append(cur, Head(rawCh))) \/ Handed(Append(cur, Head(rawCh)))
    BY <1>2, AppendEventEffect DEF TakeEvent
  <2> QED BY <1>2, <2>1 DEF TakeEvent, Kept, Handed
<1>3. CASE TakeOverflowing
  BY <1>3 DEF TakeOverflowing, BeginFlush
<1>4. CASE WindowFlush
  BY <1>4 DEF WindowFlush, Flush, BeginFlush, shared
<1>5. CASE InputClosed
  BY <1>5 DEF InputClosed, Flush, BeginFlush, shared
<1>6. CASE HandOff \/ AbandonBatch
  <2>1. AfterFlush /\ UNCHANGED <<rawCh, rawClosed, batchClosed>>
    BY <1>6 DEF HandOff, AbandonBatch
  <2>2. fpc = "done" => bpc = "done"
    OBVIOUS
  <2>3. bpc # "done"
    BY <1>6 DEF HandOff, AbandonBatch
  <2> HIDE DEF FlushCalls
  <2>4. /\ held' = <<>>
        /\ \/ Kept(<<held[1]>>) \/ Handed(<<held[1]>>)
           \/ /\ cur' = <<>> /\ handing'.events = <<>>
              /\ bpc' = "select" \/ (bpc' = "done" /\ bpc = "flush_final")
    BY <2>1, AfterFlushEffect
  <2> QED BY <2>1, <2>2, <2>3, <2>4 DEF Kept, Handed, FlushCalls
<1>7. CASE WindowElapses
  BY <1>7 DEF WindowElapses, shared
<1> QED BY <1>1, <1>2, <1>3, <1>4, <1>5, <1>6, <1>7 DEF BatcherRun

(* The flusher keeps Control.                                              *)
LEMMA ControlFlusher ==
  ASSUME TypeInv, Control, FlusherRun \/ GatewayAccepts,
         UNCHANGED <<batcherVars, n, drainVars>>
  PROVE  Control'
<1> USE DEF Control, batcherVars, drainVars
<1>1. ASSUME NEW o, Settle(o), fpc # "done" PROVE Control'
  BY <1>1 DEF Settle, NoBatch
<1>2. CASE TakeBatch
  BY <1>2 DEF TakeBatch
<1>3. CASE FlusherExit \/ StartPost \/ BackoffElapses \/ GatewayAccepts
  BY <1>3 DEF FlusherExit, StartPost, BackoffElapses, GatewayAccepts, shared
<1>4. CASE StartCancelled \/ PostSucceeds \/ PostRejected \/ PostCancelled
           \/ BackoffCancelled
  BY <1>1, <1>4
     DEF StartCancelled, PostSucceeds, PostRejected, PostCancelled, BackoffCancelled
<1>5. CASE PostFailsTransiently
  <2>1. /\ fpc = "posting"
        /\ \/ Settle("flush_failed")
           \/ fpc' = "backoff" /\ UNCHANGED <<shared, flight>>
    BY <1>5 DEF PostFailsTransiently
  <2> QED BY <1>1, <2>1 DEF shared
<1> QED BY <1>2, <1>3, <1>4, <1>5 DEF FlusherRun

(* Every step keeps Control.                                               *)
LEMMA ControlStep == TypeInv /\ Control /\ [Next]_vars => Control'
<1> SUFFICES ASSUME TypeInv, Control, [Next]_vars PROVE Control'
  OBVIOUS
<1>1. CASE Demuxer
  BY <1>1 DEF Demuxer, TrySend, Control, batcherVars, flusherVars, drainVars
<1>2. CASE Batching
  BY <1>2, ControlBatcher DEF Batching
<1>3. CASE Flushing
  BY <1>3, ControlFlusher DEF Flushing
<1>4. CASE Draining
  BY <1>4 DEF Draining, DrainRun, DrainClose, DrainArm, DrainCloseBatches,
              DrainReturn, GraceExpires, Control, batcherVars, flusherVars
<1>5. CASE UNCHANGED vars
  BY <1>5 DEF vars, shared, batcherVars, flusherVars, drainVars, Control
<1> QED BY <1>1, <1>2, <1>3, <1>4, <1>5 DEF Next, Stopped
-----------------------------------------------------------------------------
(* The ledger when datagrams only move, and when some are accounted.       *)
LEMMA LedgerMove ==
  ASSUME Ledgered, InFlight' = InFlight, UNCHANGED <<fate, n>>
  PROVE  Ledgered'
BY DEF Ledgered

(* Accounting what leaves the places keeps the ledger.                     *)
LEMMA LedgerSettle ==
  ASSUME Ledgered, NEW ds, NEW o \in Outcomes, Account(ds, o),
         Ids(ds) \subseteq InFlight, InFlight' = InFlight \ Ids(ds), n' = n
  PROVE  Ledgered'
<1>1. o # "unsent" /\ o # "pending"
  BY DEF Outcomes
<1>2. ASSUME NEW d \in DatagramIds
      PROVE  /\ fate'[d] = "unsent" <=> d > n'
             /\ fate'[d] = "pending" <=> d \in InFlight'
  <2>1. CASE d \in Ids(ds)
    <3>1. fate'[d] = o
      BY <2>1 DEF Account
    <3>2. ~(d > n)
      BY <2>1 DEF Ledgered
    <3> QED BY <1>1, <2>1, <3>1, <3>2
  <2>2. CASE d \notin Ids(ds)
    BY <2>2 DEF Account, Ledgered
  <2> QED BY <2>1, <2>2
<1> QED BY <1>2 DEF Ledgered

(* Ids are numbers, so places in order are disjoint.                       *)
LEMMA BelowDisjoint ==
  ASSUME NEW S \in SUBSET DatagramIds, NEW T \in SUBSET DatagramIds, Below(S, T)
  PROVE  S \cap T = {}
BY PipelineStateAssumption DEF Below, DatagramIds

(* All places hold ids of offered datagrams.                               *)
LEMMA PlacesType ==
  ASSUME TypeInv
  PROVE  /\ FlightIds \subseteq DatagramIds /\ QueueIds \subseteq DatagramIds
         /\ HandIds \subseteq DatagramIds /\ CurIds \subseteq DatagramIds
         /\ HeldIds \subseteq DatagramIds /\ RawIds \subseteq DatagramIds
<1>1. /\ flight.events \in Seq(Datagrams) /\ handing.events \in Seq(Datagrams)
      /\ cur \in Seq(Datagrams) /\ held \in Seq(Datagrams) /\ rawCh \in Seq(Datagrams)
  BY EventsType DEF TypeInv, TypeOK, SharedTypeOK, BatcherTypeOK, FlusherTypeOK
<1> QED BY <1>1, IdsType
        DEF FlightIds, QueueIds, QIds, HandIds, CurIds, HeldIds, RawIds

(* In the select, nothing is being handed over and nothing is held.        *)
LEMMA SelectPlaces ==
  ASSUME Control, bpc = "select"
  PROVE  HandIds = {} /\ HeldIds = {}
BY IdsEmpty DEF Control, HandIds, HeldIds, FlushCalls

(* TakeEvent keeps Books: rawCh to cur, or on to the hand-over.            *)
LEMMA BooksTakeEvent ==
  ASSUME TypeInv, Control, Books, TakeEvent, UNCHANGED <<flusherVars, n>>
  PROVE  Books'
<1> DEFINE dg == Head(rawCh)
<1>1. /\ rawCh \in Seq(Datagrams) /\ rawCh # <<>> /\ dg \in Datagrams
      /\ cur \in Seq(Datagrams)
  BY DEF TypeInv, TypeOK, SharedTypeOK, BatcherTypeOK, TakeEvent
<1>2. /\ rawCh' = Tail(rawCh) /\ bpc = "select" /\ held' = held
      /\ batchCh' = batchCh /\ flight' = flight /\ fate' = fate
      /\ AppendEvent(dg, cur, curBytes, curToken, timer)
  BY DEF TakeEvent, flusherVars
<1> HIDE DEF dg
<1>3. RawIds = {dg.id} \cup RawIds' /\ Ascending(rawCh') /\ Below({dg.id}, RawIds')
  BY <1>1, <1>2, IdsTail, AscendingTail DEF RawIds, Books, Order, dg
<1>4. HandIds = {} /\ HeldIds = {}
  BY <1>2, SelectPlaces
<1>5. /\ Chain(FlightIds, QueueIds, {}, CurIds \cup {dg.id}, {}, RawIds')
      /\ Below(CurIds, {dg.id})
  BY <1>3, <1>4, ChainRawToCur DEF Books, Order
<1>6. Ids(Append(cur, dg)) = CurIds \cup {dg.id} /\ Ascending(Append(cur, dg))
  BY <1>1, <1>5, IdsAppend, AscendingAppend DEF CurIds, Books, Order
<1>7. /\ FlightIds' = FlightIds /\ QueueIds' = QueueIds /\ HeldIds' = HeldIds
      /\ QueueOrder(batchCh)' /\ Ascending(flight.events)' /\ Ascending(held)'
  BY <1>2 DEF FlightIds, QueueIds, HeldIds, Books, Order
<1>8. CASE Kept(Append(cur, dg))
  <2>1. /\ CurIds' = CurIds \cup {dg.id} /\ HandIds' = {}
        /\ Ascending(cur)' /\ Ascending(handing.events)'
    BY <1>6, <1>8, IdsEmpty DEF Kept, CurIds, HandIds
  <2>2. Order'
    BY <1>3, <1>4, <1>5, <1>7, <2>1 DEF Order
  <2>3. InFlight' = InFlight
    BY <1>3, <1>4, <1>7, <2>1 DEF InFlight
  <2> QED BY <1>2, <2>2, <2>3, LedgerMove DEF Books
<1>9. CASE Handed(Append(cur, dg))
  <2>1. /\ HandIds' = CurIds \cup {dg.id} /\ CurIds' = {}
        /\ Ascending(cur)' /\ Ascending(handing.events)'
    BY <1>6, <1>9, IdsEmpty DEF Handed, CurIds, HandIds
  <2>2. Chain(FlightIds, QueueIds, CurIds \cup {dg.id}, {}, {}, RawIds')
    BY <1>5, ChainCurToHand
  <2>3. Order'
    BY <1>3, <1>4, <1>7, <2>1, <2>2 DEF Order
  <2>4. InFlight' = InFlight
    BY <1>3, <1>4, <1>7, <2>1 DEF InFlight
  <2> QED BY <1>2, <2>3, <2>4, LedgerMove DEF Books
<1> QED BY <1>2, <1>8, <1>9, AppendEventEffect

(* DropInvalid keeps Books: a datagram leaves rawCh and is counted.        *)
LEMMA BooksDropInvalid ==
  ASSUME TypeInv, Control, Books, DropInvalid, UNCHANGED <<flusherVars, n>>
  PROVE  Books'
<1> DEFINE dg == Head(rawCh)
           o == ValidateReason(dg.ev)
<1>1. rawCh \in Seq(Datagrams) /\ rawCh # <<>> /\ dg \in Datagrams
  BY DEF TypeInv, TypeOK, SharedTypeOK, DropInvalid
<1>2. /\ rawCh' = Tail(rawCh) /\ Account(<<dg>>, o) /\ o # "ok"
      /\ batchCh' = batchCh /\ flight' = flight
      /\ handing' = handing /\ cur' = cur /\ held' = held
  BY DEF DropInvalid, batcherVars, flusherVars
<1>3. o \in Outcomes
  BY <1>2 DEF ValidateReason, Outcomes
<1> HIDE DEF dg, o
<1>4. RawIds = {dg.id} \cup RawIds' /\ Ascending(rawCh') /\ Below({dg.id}, RawIds')
  BY <1>1, <1>2, IdsTail, AscendingTail DEF RawIds, Books, Order, dg
<1>5. /\ FlightIds' = FlightIds /\ QueueIds' = QueueIds /\ HandIds' = HandIds
      /\ CurIds' = CurIds /\ HeldIds' = HeldIds
  BY <1>2 DEF FlightIds, QueueIds, HandIds, CurIds, HeldIds
<1>6. Chain(FlightIds, QueueIds, HandIds, CurIds, HeldIds, RawIds')
  BY <1>4, ChainShrink DEF Books, Order
<1>7. Order'
  BY <1>2, <1>4, <1>5, <1>6 DEF Books, Order
<1>8. Ids(<<dg>>) = {dg.id}
  BY <1>1, IdsOne
<1>9. dg.id \notin FlightIds \cup QueueIds \cup HandIds \cup CurIds \cup HeldIds \cup RawIds'
  <2>1. dg.id \in DatagramIds
    BY <1>1, DatagramType
  <2>2. ~(dg.id < dg.id)
    BY <2>1 DEF DatagramIds
  <2>3. dg.id \in RawIds
    BY <1>4
  <2> QED BY <1>4, <2>2, <2>3 DEF Books, Order, Chain, Below
<1>10. InFlight' = InFlight \ {dg.id} /\ {dg.id} \subseteq InFlight
  BY <1>4, <1>5, <1>9 DEF InFlight
<1>11. Ledgered'
  BY <1>2, <1>3, <1>8, <1>10, LedgerSettle DEF Books
<1> QED BY <1>7, <1>11 DEF Books

(* TakeOverflowing keeps Books: cur to the hand-over, rawCh to held.       *)
LEMMA BooksTakeOverflowing ==
  ASSUME TypeInv, Control, Books, TakeOverflowing, UNCHANGED <<flusherVars, n>>
  PROVE  Books'
<1> DEFINE dg == Head(rawCh)
<1>1. rawCh \in Seq(Datagrams) /\ rawCh # <<>> /\ dg \in Datagrams
  BY DEF TypeInv, TypeOK, SharedTypeOK, TakeOverflowing
<1>2. /\ rawCh' = Tail(rawCh) /\ bpc = "select" /\ held' = <<dg>>
      /\ batchCh' = batchCh /\ flight' = flight /\ fate' = fate
      /\ cur' = <<>> /\ handing'.events = cur
  BY DEF TakeOverflowing, BeginFlush, flusherVars
<1> HIDE DEF dg
<1>3. RawIds = {dg.id} \cup RawIds' /\ Ascending(rawCh') /\ Below({dg.id}, RawIds')
  BY <1>1, <1>2, IdsTail, AscendingTail DEF RawIds, Books, Order, dg
<1>4. HandIds = {} /\ HeldIds = {}
  BY <1>2, SelectPlaces
<1>5. Chain(FlightIds, QueueIds, {}, CurIds, {dg.id}, RawIds')
  BY <1>3, <1>4, ChainRawToHeld DEF Books, Order
<1>6. Chain(FlightIds, QueueIds, CurIds, {}, {dg.id}, RawIds')
  BY <1>5, ChainCurToHand
<1>7. /\ FlightIds' = FlightIds /\ QueueIds' = QueueIds /\ HeldIds' = {dg.id}
      /\ HandIds' = CurIds /\ CurIds' = {}
      /\ Ascending(held') /\ Ascending(cur') /\ Ascending(handing'.events)
  BY <1>1, <1>2, IdsOne, IdsEmpty
     DEF FlightIds, QueueIds, HeldIds, HandIds, CurIds, Books, Order
<1>8. Order'
  BY <1>2, <1>3, <1>6, <1>7 DEF Books, Order
<1>9. InFlight' = InFlight
  BY <1>3, <1>4, <1>7 DEF InFlight
<1> QED BY <1>2, <1>8, <1>9, LedgerMove DEF Books

(* WindowFlush and InputClosed keep Books: cur to the hand-over.           *)
LEMMA BooksFlush ==
  ASSUME TypeInv, Control, Books, WindowFlush \/ InputClosed,
         UNCHANGED <<flusherVars, n>>
  PROVE  Books'
<1>1. /\ bpc = "select" /\ rawCh' = rawCh /\ batchCh' = batchCh /\ fate' = fate
      /\ held' = held /\ flight' = flight
      /\ \/ cur' = cur /\ handing' = handing
         \/ cur' = <<>> /\ handing'.events = cur
  BY DEF WindowFlush, InputClosed, Flush, BeginFlush, shared, flusherVars
<1>2. HandIds = {}
  BY <1>1, SelectPlaces
<1>3. /\ FlightIds' = FlightIds /\ QueueIds' = QueueIds /\ HeldIds' = HeldIds
      /\ RawIds' = RawIds
  BY <1>1 DEF FlightIds, QueueIds, HeldIds, RawIds
<1>4. CASE cur' = cur /\ handing' = handing
  <2>1. CurIds' = CurIds /\ HandIds' = HandIds
    BY <1>4 DEF CurIds, HandIds
  <2>2. Order' /\ InFlight' = InFlight
    BY <1>1, <1>3, <1>4, <2>1 DEF Books, Order, InFlight
  <2> QED BY <1>1, <2>2, LedgerMove DEF Books
<1>5. CASE cur' = <<>> /\ handing'.events = cur
  <2>1. CurIds' = {} /\ HandIds' = CurIds /\ Ascending(cur')
    BY <1>5, IdsEmpty DEF CurIds, HandIds
  <2>2. Chain(FlightIds, QueueIds, CurIds, {}, HeldIds, RawIds)
    BY <1>2, ChainCurToHand DEF Books, Order
  <2>3. Order' /\ InFlight' = InFlight
    BY <1>1, <1>2, <1>3, <1>5, <2>1, <2>2 DEF Books, Order, InFlight
  <2> QED BY <1>1, <2>3, LedgerMove DEF Books
<1> QED BY <1>1, <1>4, <1>5

(* After a flush the handed batch is gone from the batcher; a held         *)
(* datagram moves on to the new batch or, if that is already full, into    *)
(* the next hand-over.                                                     *)
LEMMA AfterFlushPlaces ==
  ASSUME TypeInv, Control, Books, AfterFlush,
         NEW Q, Chain(FlightIds, Q, {}, CurIds, HeldIds, RawIds)
  PROVE  /\ Chain(FlightIds, Q, HandIds', CurIds', HeldIds', RawIds)
         /\ HandIds' \cup CurIds' \cup HeldIds' = CurIds \cup HeldIds
         /\ Ascending(cur') /\ Ascending(held') /\ Ascending(handing'.events)
<1>1. CurIds = {} /\ held' = <<>> /\ HeldIds' = {}
  BY AfterFlushEffect, IdsEmpty DEF CurIds, HeldIds
<1>2. CASE /\ held[1] \in Datagrams /\ held = <<held[1]>>
           /\ Kept(<<held[1]>>) \/ Handed(<<held[1]>>)
  <2>1. HeldIds = {held[1].id} /\ Ascending(<<held[1]>>)
    BY <1>2, IdsOne DEF HeldIds
  <2>2. Chain(FlightIds, Q, {}, HeldIds, {}, RawIds)
    BY <1>1, ChainHeldToCur
  <2>3. Chain(FlightIds, Q, HeldIds, {}, {}, RawIds)
    BY <2>2, ChainCurToHand
  <2>4. CASE Kept(<<held[1]>>)
    <3>1. CurIds' = HeldIds /\ HandIds' = {}
      BY <1>2, <2>4, IdsEmpty DEF Kept, CurIds, HandIds, HeldIds
    <3> QED BY <1>1, <2>1, <2>2, <2>4, <3>1, IdsEmpty DEF Kept
  <2>5. CASE Handed(<<held[1]>>)
    <3>1. HandIds' = HeldIds /\ CurIds' = {}
      BY <1>2, <2>5, IdsEmpty DEF Handed, CurIds, HandIds, HeldIds
    <3> QED BY <1>1, <2>1, <2>3, <2>5, <3>1, IdsEmpty DEF Handed
  <2> QED BY <1>2, <2>4, <2>5
<1>3. CASE held = <<>> /\ cur' = <<>> /\ handing'.events = <<>>
  BY <1>1, <1>3, IdsEmpty DEF HeldIds, HandIds, CurIds
<1> QED BY <1>2, <1>3, AfterFlushEffect

(* HandOff keeps Books: the hand-over to batchCh.                          *)
LEMMA BooksHandOff ==
  ASSUME TypeInv, Control, Books, HandOff, UNCHANGED <<flusherVars, n>>
  PROVE  Books'
<1>1. /\ AfterFlush /\ batchCh' = Append(batchCh, handing)
      /\ rawCh' = rawCh /\ fate' = fate /\ flight' = flight
      /\ batchCh \in Seq(Batches) /\ handing \in Batches
  BY DEF HandOff, flusherVars, TypeInv, TypeOK, SharedTypeOK, BatcherTypeOK
<1>2. QueueIds' = QueueIds \cup HandIds
  BY <1>1, QIdsAppend DEF QueueIds, HandIds
<1>3. QueueOrder(batchCh')
  BY <1>1, QueueOrderAppend DEF Books, Order, Chain, QueueIds, HandIds
<1>4. Chain(FlightIds, QueueIds \cup HandIds, {}, CurIds, HeldIds, RawIds)
  BY ChainHandToQueue DEF Books, Order
<1>5. FlightIds' = FlightIds /\ RawIds' = RawIds
  BY <1>1 DEF FlightIds, RawIds
<1>6. /\ Chain(FlightIds, QueueIds \cup HandIds, HandIds', CurIds', HeldIds', RawIds)
      /\ HandIds' \cup CurIds' \cup HeldIds' = CurIds \cup HeldIds
      /\ Ascending(cur') /\ Ascending(held') /\ Ascending(handing'.events)
  BY <1>1, <1>4, AfterFlushPlaces
<1>7. Order'
  BY <1>1, <1>2, <1>3, <1>5, <1>6 DEF Books, Order
<1>8. InFlight' = InFlight
  BY <1>2, <1>5, <1>6 DEF InFlight
<1> QED BY <1>1, <1>7, <1>8, LedgerMove DEF Books

(* AbandonBatch keeps Books: the hand-over is counted as shutdown.         *)
LEMMA BooksAbandon ==
  ASSUME TypeInv, Control, Books, AbandonBatch, UNCHANGED <<flusherVars, n>>
  PROVE  Books'
<1>1. /\ AfterFlush /\ Account(handing.events, "shutdown") /\ batchCh' = batchCh
      /\ rawCh' = rawCh /\ flight' = flight
  BY DEF AbandonBatch, flusherVars
<1>2. Chain(FlightIds, QueueIds, {}, CurIds, HeldIds, RawIds)
  BY ChainShrink DEF Books, Order
<1>3. FlightIds' = FlightIds /\ RawIds' = RawIds /\ QueueIds' = QueueIds
  BY <1>1 DEF FlightIds, RawIds, QueueIds
<1>4. /\ Chain(FlightIds, QueueIds, HandIds', CurIds', HeldIds', RawIds)
      /\ HandIds' \cup CurIds' \cup HeldIds' = CurIds \cup HeldIds
      /\ Ascending(cur') /\ Ascending(held') /\ Ascending(handing'.events)
  BY <1>1, <1>2, AfterFlushPlaces
<1>5. Order'
  BY <1>1, <1>3, <1>4 DEF Books, Order
<1>6. HandIds \cap (FlightIds \cup QueueIds \cup CurIds \cup HeldIds \cup RawIds) = {}
  <2>1. /\ Below(FlightIds, HandIds) /\ Below(QueueIds, HandIds)
        /\ Below(HandIds, CurIds) /\ Below(HandIds, HeldIds) /\ Below(HandIds, RawIds)
    BY DEF Books, Order, Chain
  <2> QED BY <2>1, PlacesType, BelowDisjoint
<1>7. InFlight' = InFlight \ HandIds /\ HandIds \subseteq InFlight
  BY <1>3, <1>4, <1>6 DEF InFlight
<1>8. Ledgered'
  BY <1>1, <1>7, LedgerSettle DEF Books, HandIds, Outcomes
<1> QED BY <1>5, <1>8 DEF Books

(* A step that leaves the places, the counters and n alone.                *)
LEMMA BooksQuiet ==
  ASSUME Books, UNCHANGED <<flight, batchCh, handing, cur, held, rawCh, fate, n>>
  PROVE  Books'
BY DEF Books, Order, Ledgered, InFlight, FlightIds, QueueIds, HandIds, CurIds,
       HeldIds, RawIds

(* Settling keeps Books: the batch in flight is counted.                   *)
LEMMA BooksSettle ==
  ASSUME TypeInv, Books, NEW o \in {"sent", "flush_failed", "shutdown"}, Settle(o),
         UNCHANGED <<batcherVars, n>>
  PROVE  Books'
<1>1. /\ Account(flight.events, o) /\ flight' = NoBatch
      /\ UNCHANGED <<batchCh, handing, cur, held, rawCh>>
  BY DEF Settle, batcherVars
<1>2. /\ FlightIds' = {} /\ QueueIds' = QueueIds /\ HandIds' = HandIds
      /\ CurIds' = CurIds /\ HeldIds' = HeldIds /\ RawIds' = RawIds
      /\ Ascending(flight'.events)
  BY <1>1, IdsEmpty
     DEF FlightIds, QueueIds, HandIds, CurIds, HeldIds, RawIds, NoBatch
<1>3. Chain({}, QueueIds, HandIds, CurIds, HeldIds, RawIds)
  BY ChainShrink DEF Books, Order
<1>4. Order'
  BY <1>1, <1>2, <1>3 DEF Books, Order
<1>5. FlightIds \cap (QueueIds \cup HandIds \cup CurIds \cup HeldIds \cup RawIds) = {}
  <2>1. /\ Below(FlightIds, QueueIds) /\ Below(FlightIds, HandIds)
        /\ Below(FlightIds, CurIds) /\ Below(FlightIds, HeldIds)
        /\ Below(FlightIds, RawIds)
    BY DEF Books, Order, Chain
  <2> QED BY <2>1, PlacesType, BelowDisjoint
<1>6. InFlight' = InFlight \ FlightIds /\ FlightIds \subseteq InFlight
  BY <1>2, <1>5 DEF InFlight
<1>7. Ledgered'
  BY <1>1, <1>6, LedgerSettle DEF Books, FlightIds, Outcomes
<1> QED BY <1>4, <1>7 DEF Books

(* TakeBatch keeps Books: batchCh to flight.                               *)
LEMMA BooksTakeBatch ==
  ASSUME TypeInv, Control, Books, TakeBatch, UNCHANGED <<batcherVars, n>>
  PROVE  Books'
<1>1. /\ batchCh \in Seq(Batches) /\ batchCh # <<>> /\ flight.events = <<>>
      /\ flight' = Head(batchCh) /\ batchCh' = Tail(batchCh)
      /\ UNCHANGED <<handing, cur, held, rawCh, fate, n>>
  BY DEF TakeBatch, batcherVars, Control, TypeInv, TypeOK, SharedTypeOK
<1>2. QueueIds = FlightIds' \cup QueueIds'
  BY <1>1, QIdsTail DEF QueueIds, FlightIds
<1>3. /\ QueueOrder(batchCh') /\ Ascending(flight'.events)
      /\ Below(FlightIds', QueueIds')
  BY <1>1, QueueOrderTail DEF Books, Order, QueueIds, FlightIds
<1>4. /\ FlightIds = {} /\ HandIds' = HandIds /\ CurIds' = CurIds
      /\ HeldIds' = HeldIds /\ RawIds' = RawIds
  BY <1>1, IdsEmpty DEF FlightIds, HandIds, CurIds, HeldIds, RawIds
<1>5. Chain(FlightIds', QueueIds', HandIds, CurIds, HeldIds, RawIds)
  BY <1>2, <1>3, <1>4, ChainQueueToFlight DEF Books, Order
<1>6. Order'
  BY <1>1, <1>3, <1>4, <1>5 DEF Books, Order
<1>7. InFlight' = InFlight
  BY <1>2, <1>4 DEF InFlight
<1> QED BY <1>1, <1>6, <1>7, LedgerMove DEF Books

(* The flusher keeps Books.                                                *)
LEMMA BooksFlusher ==
  ASSUME TypeInv, Control, Books, FlusherRun \/ GatewayAccepts,
         UNCHANGED <<batcherVars, n>>
  PROVE  Books'
<1>1. CASE TakeBatch
  BY <1>1, BooksTakeBatch
<1>2. CASE FlusherExit \/ StartPost \/ BackoffElapses \/ GatewayAccepts
  <2>1. UNCHANGED <<flight, batchCh, handing, cur, held, rawCh, fate, n>>
    BY <1>2 DEF FlusherExit, StartPost, BackoffElapses, GatewayAccepts, shared,
                batcherVars
  <2> QED BY <2>1, BooksQuiet
<1>3. CASE StartCancelled \/ PostSucceeds \/ PostRejected \/ PostCancelled
           \/ BackoffCancelled
  BY <1>3, BooksSettle
     DEF StartCancelled, PostSucceeds, PostRejected, PostCancelled, BackoffCancelled
<1>4. CASE PostFailsTransiently
  <2>1. Settle("flush_failed") \/ UNCHANGED <<shared, flight>>
    BY <1>4 DEF PostFailsTransiently
  <2>2. CASE UNCHANGED <<shared, flight>>
    <3>1. UNCHANGED <<flight, batchCh, handing, cur, held, rawCh, fate, n>>
      BY <2>2 DEF shared, batcherVars
    <3> QED BY <3>1, BooksQuiet
  <2> QED BY <2>1, <2>2, BooksSettle
<1> QED BY <1>1, <1>2, <1>3, <1>4 DEF FlusherRun

(* trySend keeps Books: a new id enters rawCh or is refused.               *)
LEMMA BooksTrySend ==
  ASSUME TypeInv, Books, NEW s \in Shapes, TrySend(s)
  PROVE  Books'
<1> DEFINE dg == [id |-> n + 1, ev |-> s]
<1>1. /\ n' = n + 1 /\ n \in Nat /\ n + 1 \in DatagramIds
      /\ UNCHANGED <<flight, batchCh, handing, cur, held>>
      /\ rawCh \in Seq(Datagrams)
  BY PipelineStateAssumption
     DEF TrySend, TypeInv, TypeOK, SharedTypeOK, DatagramIds, batcherVars, flusherVars
<1>2. dg \in Datagrams /\ dg.id = n + 1
  BY <1>1 DEF Datagrams
<1>3. \/ rawCh' = Append(rawCh, dg) /\ Account(<<dg>>, "pending")
      \/ /\ rawCh' = rawCh
         /\ \E o \in {"routing_closed", "queue_full"} : Account(<<dg>>, o)
  BY DEF TrySend
<1> HIDE DEF dg
<1>4. Ids(<<dg>>) = {n + 1}
  BY <1>2, IdsOne
<1>5. /\ FlightIds' = FlightIds /\ QueueIds' = QueueIds /\ HandIds' = HandIds
      /\ CurIds' = CurIds /\ HeldIds' = HeldIds
  BY <1>1 DEF FlightIds, QueueIds, HandIds, CurIds, HeldIds
<1>6. \A d \in InFlight : d \in DatagramIds /\ d <= n
  <2>1. InFlight \subseteq DatagramIds
    BY PlacesType DEF InFlight
  <2>2. ASSUME NEW d \in InFlight PROVE ~(d > n)
    BY <2>1 DEF Books, Ledgered
  <2> QED BY <1>1, <2>1, <2>2 DEF DatagramIds
<1>7. CASE rawCh' = Append(rawCh, dg) /\ Account(<<dg>>, "pending")
  <2>1. RawIds' = RawIds \cup {n + 1}
    BY <1>1, <1>2, <1>7, IdsAppend DEF RawIds
  <2>2. Below(InFlight, {n + 1})
    BY <1>1, <1>6 DEF Below, DatagramIds
  <2>3. Ascending(rawCh')
    BY <1>1, <1>2, <1>7, <2>2, AscendingAppend
       DEF Books, Order, InFlight, RawIds, Below
  <2>4. Chain(FlightIds, QueueIds, HandIds, CurIds, HeldIds, RawIds \cup {n + 1})
    BY <2>2, ChainEnter DEF Books, Order, InFlight
  <2>5. Order'
    BY <1>1, <1>5, <2>1, <2>3, <2>4 DEF Books, Order
  <2>6. InFlight' = InFlight \cup {n + 1}
    BY <1>5, <2>1 DEF InFlight
  <2>7. Ledgered'
    <3> SUFFICES ASSUME NEW d \in DatagramIds
                 PROVE  /\ fate'[d] = "unsent" <=> d > n + 1
                        /\ fate'[d] = "pending" <=> d \in InFlight'
      BY <1>1 DEF Ledgered
    <3>1. CASE d = n + 1
      BY <1>1, <1>4, <1>7, <2>6, <3>1 DEF Account
    <3>2. CASE d # n + 1
      <4>1. fate'[d] = fate[d] /\ (d \in InFlight' <=> d \in InFlight)
        BY <1>4, <1>7, <2>6, <3>2 DEF Account
      <4>2. d > n <=> d > n + 1
        BY <1>1, <3>2 DEF DatagramIds
      <4> QED BY <4>1, <4>2 DEF Books, Ledgered
    <3> QED BY <3>1, <3>2
  <2> QED BY <2>5, <2>7 DEF Books
<1>8. CASE rawCh' = rawCh /\ \E o \in {"routing_closed", "queue_full"} : Account(<<dg>>, o)
  <2>1. RawIds' = RawIds
    BY <1>8 DEF RawIds
  <2>2. Order' /\ InFlight' = InFlight
    BY <1>1, <1>5, <1>8, <2>1 DEF Books, Order, InFlight
  <2>3. PICK o \in {"routing_closed", "queue_full"} : Account(<<dg>>, o)
    BY <1>8
  <2>4. Ledgered'
    <3> SUFFICES ASSUME NEW d \in DatagramIds
                 PROVE  /\ fate'[d] = "unsent" <=> d > n + 1
                        /\ fate'[d] = "pending" <=> d \in InFlight'
      BY <1>1 DEF Ledgered
    <3>1. CASE d = n + 1
      <4>1. fate'[d] = o /\ d \notin InFlight
        BY <1>1, <1>4, <1>6, <2>3, <3>1 DEF Account
      <4> QED BY <1>1, <2>2, <2>3, <3>1, <4>1
    <3>2. CASE d # n + 1
      <4>1. fate'[d] = fate[d]
        BY <1>4, <2>3, <3>2 DEF Account
      <4>2. d > n <=> d > n + 1
        BY <1>1, <3>2 DEF DatagramIds
      <4> QED BY <2>2, <4>1, <4>2 DEF Books, Ledgered
    <3> QED BY <3>1, <3>2
  <2> QED BY <2>2, <2>4 DEF Books
<1> QED BY <1>3, <1>7, <1>8

(* Every step keeps Books.                                                 *)
LEMMA BooksStep == TypeInv /\ Control /\ Books /\ [Next]_vars => Books'
<1> SUFFICES ASSUME TypeInv, Control, Books, [Next]_vars PROVE Books'
  OBVIOUS
<1>1. CASE Demuxer
  BY <1>1, BooksTrySend DEF Demuxer
<1>2. CASE Batching
  <2>1. UNCHANGED <<flusherVars, n>> /\ (BatcherRun \/ WindowElapses)
    BY <1>2 DEF Batching
  <2>2. CASE WindowElapses
    <3>1. UNCHANGED <<flight, batchCh, handing, cur, held, rawCh, fate, n>>
      BY <2>1, <2>2 DEF WindowElapses, shared, flusherVars
    <3> QED BY <3>1, BooksQuiet
  <2> QED BY <2>1, <2>2, BooksDropInvalid, BooksTakeEvent, BooksTakeOverflowing,
             BooksFlush, BooksHandOff, BooksAbandon DEF BatcherRun
<1>3. CASE Flushing
  BY <1>3, BooksFlusher DEF Flushing
<1>4. CASE Draining
  <2>1. UNCHANGED <<flight, batchCh, handing, cur, held, rawCh, fate, n>>
    BY <1>4 DEF Draining, DrainRun, DrainClose, DrainArm, DrainCloseBatches,
                DrainReturn, GraceExpires, batcherVars, flusherVars
  <2> QED BY <2>1, BooksQuiet
<1>5. CASE UNCHANGED vars
  <2>1. UNCHANGED <<flight, batchCh, handing, cur, held, rawCh, fate, n>>
    BY <1>5 DEF vars, shared, batcherVars, flusherVars
  <2> QED BY <2>1, BooksQuiet
<1> QED BY <1>1, <1>2, <1>3, <1>4, <1>5 DEF Next, Stopped

(* The inductive invariant holds initially.                                *)
LEMMA InitIInv == Init => IInv
<1> SUFFICES ASSUME Init PROVE IInv
  OBVIOUS
<1>1. TypeInv
  BY InitTypeInv
<1>2. Control
  BY DEF Init, SharedInit, BatcherInit, FlusherInit, Control, NoBatch, FlushCalls
<1>3. /\ FlightIds = {} /\ QueueIds = {} /\ HandIds = {} /\ CurIds = {}
      /\ HeldIds = {} /\ RawIds = {}
      /\ QueueOrder(batchCh) /\ Ascending(flight.events) /\ Ascending(handing.events)
      /\ Ascending(cur) /\ Ascending(held) /\ Ascending(rawCh)
  BY IdsEmpty DEF Init, SharedInit, BatcherInit, FlusherInit, NoBatch, FlightIds,
                  QueueIds, HandIds, CurIds, HeldIds, RawIds
<1>4. Order /\ InFlight = {}
  BY <1>3 DEF Order, Chain, Below, InFlight
<1>5. Ledgered
  BY <1>4 DEF Init, SharedInit, Ledgered, DatagramIds
<1> QED BY <1>1, <1>2, <1>4, <1>5 DEF IInv, Books

(* Every step keeps the inductive invariant.                               *)
LEMMA IInvStep == IInv /\ [Next]_vars => IInv'
BY TypeInvStep, ControlStep, BooksStep DEF IInv

(* The inductive invariant holds in every behaviour.                       *)
LEMMA IInvHolds == Spec => []IInv
BY InitIInv, IInvStep, PTL DEF Spec

(* The order of the places is the order InOrder speaks of.                 *)
LEMMA OrderIsInOrder == TypeInv /\ Books => InOrder
<1> SUFFICES ASSUME TypeInv, Books PROVE InOrder
  OBVIOUS
<1>1. Chain(FlightIds, QueueIds, HandIds, CurIds, HeldIds, RawIds)
  BY DEF Books, Order
<1>2. /\ QueueOrder(batchCh) /\ Ascending(flight.events) /\ Ascending(handing.events)
      /\ Ascending(cur) /\ Ascending(held) /\ Ascending(rawCh)
  BY DEF Books, Order
<1>3. ASSUME NEW i \in DOMAIN batchCh
      PROVE  Ids(batchCh[i].events) \subseteq QueueIds
  <2>1. batchCh[i] \in Batches
    BY <1>3 DEF TypeInv, TypeOK, SharedTypeOK
  <2>2. Ids(batchCh[i].events) \subseteq DatagramIds
    BY <2>1, EventsType, IdsType
  <2> QED BY <1>3, <2>2 DEF QueueIds, QIds
<1>4. ASSUME NEW i \in DOMAIN batchCh
      PROVE  /\ Ahead(flight.events, batchCh[i].events)
             /\ Ahead(batchCh[i].events, handing.events)
             /\ Ahead(batchCh[i].events, cur)
             /\ Ahead(batchCh[i].events, held)
             /\ Ahead(batchCh[i].events, rawCh)
  <2>1. /\ Below(FlightIds, Ids(batchCh[i].events))
        /\ Below(Ids(batchCh[i].events), HandIds)
        /\ Below(Ids(batchCh[i].events), CurIds)
        /\ Below(Ids(batchCh[i].events), HeldIds)
        /\ Below(Ids(batchCh[i].events), RawIds)
    BY <1>1, <1>3, <1>4 DEF Chain, Below
  <2> QED BY <2>1, AheadBelow DEF FlightIds, HandIds, CurIds, HeldIds, RawIds
<1>5. /\ Ahead(flight.events, handing.events) /\ Ahead(flight.events, cur)
      /\ Ahead(flight.events, held) /\ Ahead(flight.events, rawCh)
      /\ Ahead(handing.events, cur) /\ Ahead(handing.events, held)
      /\ Ahead(handing.events, rawCh)
      /\ Ahead(cur, held) /\ Ahead(cur, rawCh) /\ Ahead(held, rawCh)
  BY <1>1, AheadBelow DEF Chain, FlightIds, HandIds, CurIds, HeldIds, RawIds
<1>6. ASSUME NEW b \in FormedBatches
      PROVE  Ascending(b.events) /\ Ahead(b.events, cur)
             /\ Ahead(b.events, held) /\ Ahead(b.events, rawCh)
  <2>1. CASE b = flight
    BY <1>2, <1>5, <2>1
  <2>2. CASE b = handing
    BY <1>2, <1>5, <2>2
  <2>3. CASE \E i \in DOMAIN batchCh : b = batchCh[i]
    BY <1>2, <1>4, <2>3 DEF QueueOrder
  <2> QED BY <1>6, <2>1, <2>2, <2>3 DEF FormedBatches
<1>7. \A i, j \in DOMAIN batchCh :
        i < j => Ahead(batchCh[i].events, batchCh[j].events)
  BY <1>2 DEF QueueOrder
<1> QED BY <1>2, <1>4, <1>5, <1>6, <1>7 DEF InOrder

(* Datagrams never overtake each other and are never in two places of a    *)
(* pipeline at once, on their way from rawCh through the batcher's cur and *)
(* batchCh to the flusher, for every cap, queue depth, retry budget and    *)
(* number of datagrams (routing.go trySend, events.go run and flush,       *)
(* flusher.go send).                                                       *)
THEOREM KeepsOrder == Spec => []InOrder
<1>1. IInv => InOrder
  BY OrderIsInOrder DEF IInv
<1> QED BY <1>1, IInvHolds, PTL

(* Nobody sends on batchCh once drain has closed it, and nothing is left   *)
(* that would have to be sent, for every interleaving of offers, flushes   *)
(* and drain (routing.go drain: <-p.batcherDone comes before close).       *)
THEOREM NoSendAfterClose == Spec => []ClosedForGood
<1>1. IInv => ClosedForGood
  BY DEF IInv, Control, ClosedForGood, FlushCalls
<1> QED BY <1>1, IInvHolds, PTL

(* The timer goes with the batch through every step of the batcher.        *)
LEMMA WindowBatcher ==
  ASSUME TypeInv, Control, WindowGuardsBatch, BatcherRun \/ WindowElapses
  PROVE  WindowGuardsBatch'
<1> USE DEF WindowGuardsBatch
<1>1. CASE DropInvalid
  BY <1>1 DEF DropInvalid, batcherVars
<1>2. CASE TakeEvent
  <2>1. AppendEvent(Head(rawCh), cur, curBytes, curToken, timer)
    BY <1>2 DEF TakeEvent
  <2>2. Append(cur, Head(rawCh)) # <<>>
    BY DEF TypeInv, TypeOK, BatcherTypeOK
  <2>3. timer' # "off"
    BY <1>2, <2>1 DEF TakeEvent, AppendEvent
  <2>4. bpc' = "select" => cur' # <<>>
    BY <2>1, <2>2 DEF AppendEvent, BeginFlush
  <2> QED BY <2>3, <2>4
<1>3. CASE TakeOverflowing
  BY <1>3 DEF TakeOverflowing, BeginFlush
<1>4. CASE WindowFlush
  BY <1>4 DEF WindowFlush, Flush, BeginFlush
<1>5. CASE InputClosed
  BY <1>5 DEF InputClosed, Flush, BeginFlush
<1>6. CASE HandOff \/ AbandonBatch
  <2>1. AfterFlush
    BY <1>6 DEF HandOff, AbandonBatch
  <2>2. CASE ReturnFromFlush
    BY <2>2 DEF ReturnFromFlush, Control
  <2>3. CASE AppendEvent(held[1], <<>>, 0, NoToken, "off")
    <3>1. Append(<<>>, held[1]) # <<>>
      OBVIOUS
    <3> QED BY <2>3, <3>1 DEF AppendEvent, BeginFlush
  <2> QED BY <2>1, <2>2, <2>3 DEF AfterFlush
<1>7. CASE WindowElapses
  BY <1>7 DEF WindowElapses
<1> QED BY <1>1, <1>2, <1>3, <1>4, <1>5, <1>6, <1>7 DEF BatcherRun

(* No other goroutine touches the timer or the batch.                      *)
LEMMA WindowStep == TypeInv /\ Control /\ WindowGuardsBatch /\ [Next]_vars => WindowGuardsBatch'
<1> SUFFICES ASSUME TypeInv, Control, WindowGuardsBatch, [Next]_vars PROVE WindowGuardsBatch'
  OBVIOUS
<1>1. CASE Batching
  BY <1>1, WindowBatcher DEF Batching
<1>2. CASE Demuxer \/ Flushing \/ Draining \/ UNCHANGED vars
  <2>1. UNCHANGED batcherVars
    BY <1>2 DEF Demuxer, TrySend, Flushing, Draining, vars
  <2> QED BY <2>1 DEF batcherVars, WindowGuardsBatch
<1> QED BY <1>1, <1>2 DEF Next, Stopped

(* A batch being assembled is always watched by its own window timer, for  *)
(* every cap, depth and retry budget: with the fairness of timers, which   *)
(* only TLC reasons about, it is what keeps a partial batch from waiting   *)
(* for more traffic (events.go run, armTimer/disarmTimer).                 *)
THEOREM BatchesAreWatched == Spec => []WindowGuardsBatch
<1>1. Init => WindowGuardsBatch
  BY DEF Init, BatcherInit, WindowGuardsBatch
<1>2. IInv /\ WindowGuardsBatch /\ [Next]_vars => WindowGuardsBatch'
  BY WindowStep DEF IInv
<1> QED BY <1>1, <1>2, IInvHolds, PTL DEF Spec
-----------------------------------------------------------------------------
(* The refinement: what each step of the pipeline is to its ledger.        *)

(* A step that leaves the accounting and the drain alone is a stutter.     *)
LEMMA LedgerQuiet ==
  ASSUME UNCHANGED <<fate, rawClosed, dpc>>
  PROVE  UNCHANGED Ledger!ledgerVars
BY DEF Ledger!ledgerVars

(* One Add on a counter, for datagrams in flight, decides them.            *)
LEMMA LedgerDecides ==
  ASSUME Ledgered, UNCHANGED <<rawClosed, dpc>>,
         fate \in [DatagramIds -> Fates],
         NEW ds \in Seq(Datagrams), Ids(ds) \subseteq InFlight,
         NEW o \in Outcomes \ {"queue_full"}, Account(ds, o)
  PROVE  [Ledger!LedgerNext]_(Ledger!ledgerVars)
<1>1. Ids(ds) \in SUBSET Ledger!Pending
  BY IdsType DEF Ledgered, Ledger!Pending, DatagramIds
<1>2. fate' = [d \in 1 .. MaxSends |-> IF d \in Ids(ds) THEN o ELSE fate[d]]
  BY DEF Account, DatagramIds
<1>3. CASE Ids(ds) = {}
  <2>1. fate' = fate
    BY <1>2, <1>3 DEF DatagramIds
  <2> QED BY <2>1, LedgerQuiet
<1>4. CASE Ids(ds) # {}
  <2>1. Ledger!Decide(Ids(ds), o)
    BY <1>2, <1>4 DEF Ledger!Decide
  <2> QED BY <1>1, <2>1 DEF Ledger!LedgerNext
<1> QED BY <1>3, <1>4

(* trySend offers the next datagram.                                       *)
LEMMA LedgerOffers ==
  ASSUME IInv, NEW s \in Shapes, TrySend(s)
  PROVE  Ledger!LedgerNext
<1> DEFINE dg == [id |-> n + 1, ev |-> s]
<1>1. /\ n \in Nat /\ MaxSends \in Nat /\ n < MaxSends
      /\ fate \in [DatagramIds -> Fates] /\ rawClosed \in BOOLEAN
      /\ UNCHANGED <<rawClosed, dpc>>
  BY PipelineStateAssumption
     DEF IInv, TypeInv, TypeOK, SharedTypeOK, TrySend, drainVars
<1>2. n + 1 \in 1 .. MaxSends /\ dg \in Datagrams
  BY <1>1 DEF Datagrams, DatagramIds
<1>3. PICK d \in 1 .. MaxSends : d = n + 1
  BY <1>2
<1>4. Ids(<<dg>>) = {d}
  BY <1>2, <1>3, IdsOne
<1>5. Ledger!Offered = 1 .. (d - 1)
  BY <1>1, <1>3 DEF IInv, Books, Ledgered, Ledger!Offered, DatagramIds
<1>6. PICK o \in {"pending", "routing_closed", "queue_full"} :
        Account(<<dg>>, o) /\ (~rawClosed <=> o # "routing_closed")
  BY <1>1 DEF TrySend
<1>7. fate' = [fate EXCEPT ![d] = o]
  BY <1>1, <1>4, <1>6 DEF Account, DatagramIds
<1>8. UNCHANGED <<~rawClosed, dpc = "done">>
  BY <1>1
<1>9. Ledger!Offer(d)
  BY <1>5, <1>6, <1>7, <1>8 DEF Ledger!Offer
<1> QED BY <1>3, <1>9 DEF Ledger!LedgerNext

(* When drain is about to return, nothing is in flight.                    *)
LEMMA DrainedIsEmpty ==
  ASSUME IInv, dpc = "wait_flusher", fpc = "done"
  PROVE  Ledger!Pending = {}
<1>1. /\ bpc = "done" /\ handing.events = <<>> /\ held = <<>> /\ cur = <<>>
      /\ rawCh = <<>> /\ flight.events = <<>> /\ batchCh = <<>>
  BY DEF IInv, Control, FlushCalls
<1>2. InFlight = {}
  BY <1>1, IdsEmpty DEF InFlight, FlightIds, QueueIds, HandIds, CurIds, HeldIds, RawIds
<1> QED BY <1>2 DEF IInv, Books, Ledgered, Ledger!Pending, DatagramIds

(* A batcher step decides datagrams or stutters.                           *)
LEMMA LedgerBatcher ==
  ASSUME IInv, BatcherRun \/ WindowElapses, UNCHANGED drainVars
  PROVE  [Ledger!LedgerNext]_(Ledger!ledgerVars)
<1>1. /\ fate \in [DatagramIds -> Fates] /\ rawCh \in Seq(Datagrams)
      /\ handing \in Batches /\ UNCHANGED dpc /\ Ledgered
  BY DEF IInv, TypeInv, TypeOK, SharedTypeOK, BatcherTypeOK, drainVars, Books
<1>2. CASE DropInvalid
  <2> DEFINE why == ValidateReason(Head(rawCh).ev)
  <2>1. /\ rawCh # <<>> /\ why # "ok" /\ UNCHANGED rawClosed
        /\ Account(<<Head(rawCh)>>, why)
    BY <1>2 DEF DropInvalid
  <2>2. Head(rawCh) \in Datagrams
    BY <1>1, <2>1
  <2>3. Ids(<<Head(rawCh)>>) \subseteq InFlight
    BY <1>1, <2>1, <2>2, IdsOne, IdsTail DEF InFlight, RawIds
  <2>4. why \in Outcomes \ {"queue_full"}
    BY <2>1 DEF ValidateReason, Outcomes
  <2>5. <<Head(rawCh)>> \in Seq(Datagrams)
    BY <2>2
  <2> QED BY <1>1, <2>1, <2>3, <2>4, <2>5, LedgerDecides
<1>3. CASE AbandonBatch
  <2>1. UNCHANGED rawClosed /\ Account(handing.events, "shutdown")
    BY <1>3 DEF AbandonBatch
  <2>2. Ids(handing.events) \subseteq InFlight
    BY DEF InFlight, HandIds
  <2>3. "shutdown" \in Outcomes \ {"queue_full"}
    BY DEF Outcomes
  <2> QED BY <1>1, <2>1, <2>2, <2>3, EventsType, LedgerDecides
<1>4. CASE UNCHANGED <<fate, rawClosed>>
  BY <1>1, <1>4, LedgerQuiet
<1> QED BY <1>2, <1>3, <1>4 DEF BatcherRun, TakeEvent, TakeOverflowing, WindowFlush,
           InputClosed, HandOff, WindowElapses, shared

(* A flusher step decides datagrams or stutters.                           *)
LEMMA LedgerFlusher ==
  ASSUME IInv, FlusherRun \/ GatewayAccepts, UNCHANGED drainVars
  PROVE  [Ledger!LedgerNext]_(Ledger!ledgerVars)
<1>1. /\ fate \in [DatagramIds -> Fates] /\ flight \in Batches
      /\ UNCHANGED dpc /\ Ledgered
  BY DEF IInv, TypeInv, TypeOK, SharedTypeOK, FlusherTypeOK, drainVars, Books
<1>2. ASSUME NEW o \in {"sent", "flush_failed", "shutdown"}, Settle(o)
      PROVE  [Ledger!LedgerNext]_(Ledger!ledgerVars)
  <2>1. UNCHANGED rawClosed /\ Account(flight.events, o)
    BY <1>2 DEF Settle
  <2>2. Ids(flight.events) \subseteq InFlight
    BY DEF InFlight, FlightIds
  <2>3. o \in Outcomes \ {"queue_full"}
    BY DEF Outcomes
  <2> QED BY <1>1, <2>1, <2>2, <2>3, EventsType, LedgerDecides
<1>3. CASE UNCHANGED <<fate, rawClosed>>
  BY <1>1, <1>3, LedgerQuiet
<1> QED BY <1>2, <1>3 DEF FlusherRun, GatewayAccepts, TakeBatch, FlusherExit, StartPost,
           StartCancelled, PostSucceeds, PostFailsTransiently, PostRejected,
           PostCancelled, BackoffElapses, BackoffCancelled, shared

(* A drain step closes, finishes or stutters.                              *)
LEMMA LedgerDrain ==
  ASSUME IInv, DrainRun \/ GraceExpires
  PROVE  [Ledger!LedgerNext]_(Ledger!ledgerVars)
<1>1. rawClosed \in BOOLEAN /\ (rawClosed <=> dpc # "idle")
  BY DEF IInv, TypeInv, TypeOK, SharedTypeOK, Control
<1>2. CASE DrainClose
  <2>1. Ledger!Close
    BY <1>1, <1>2 DEF DrainClose, Ledger!Close
  <2> QED BY <2>1 DEF Ledger!LedgerNext
<1>3. CASE DrainReturn
  <2>1. Ledger!Pending = {}
    BY <1>3, DrainedIsEmpty DEF DrainReturn
  <2>2. Ledger!Finish
    BY <1>1, <1>3, <2>1 DEF DrainReturn, Ledger!Finish
  <2> QED BY <2>2 DEF Ledger!LedgerNext
<1>4. CASE DrainArm \/ DrainCloseBatches \/ GraceExpires
  <2>1. /\ UNCHANGED <<fate, rawClosed>>
        /\ (dpc' = "done") = (dpc = "done")
    BY <1>4 DEF DrainArm, DrainCloseBatches, GraceExpires
  <2> QED BY <2>1 DEF Ledger!ledgerVars
<1> QED BY <1>2, <1>3, <1>4 DEF DrainRun

(* Every step of the pipeline is a step of the ledger or a stutter.        *)
LEMMA LedgerStep == IInv /\ [Next]_vars => [Ledger!LedgerNext]_(Ledger!ledgerVars)
<1> SUFFICES ASSUME IInv, [Next]_vars
             PROVE  [Ledger!LedgerNext]_(Ledger!ledgerVars)
  OBVIOUS
<1>1. CASE Demuxer
  BY <1>1, LedgerOffers DEF Demuxer
<1>2. CASE Batching
  BY <1>2, LedgerBatcher DEF Batching
<1>3. CASE Flushing
  BY <1>3, LedgerFlusher DEF Flushing
<1>4. CASE Draining
  BY <1>4, LedgerDrain DEF Draining
<1>5. CASE UNCHANGED vars
  BY <1>5, LedgerQuiet DEF vars, shared, drainVars
<1> QED BY <1>1, <1>2, <1>3, <1>4, <1>5 DEF Next, Stopped

(* Every pipeline keeps its ledger, for every cap, queue depth and retry   *)
(* budget and whatever the interleaving of demuxer, batcher, flusher,      *)
(* grace timer and drain: an accepted datagram is counted once, under one  *)
(* counter of stats.go, and drain (routing.go) returns only when none is   *)
(* left uncounted.                                                         *)
THEOREM ImplementsLedger == Spec => KeepsLedger
<1>1. Init => Ledger!LedgerInit
  BY DEF Init, SharedInit, Ledger!LedgerInit, DatagramIds
<1> QED BY <1>1, IInvHolds, LedgerStep, PTL DEF Spec, KeepsLedger, Ledger!LedgerSpec
=============================================================================
