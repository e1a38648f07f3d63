--------------------------- MODULE PipelineProofs ---------------------------
(* Theorems about one pipeline, for all values of the constants.           *)
EXTENDS Pipeline, TLAPS

(* The datagram that waits for a pre-flush was validated before it was     *)
(* held, so it has a length; and a pre-flush always has one waiting.       *)
HeldOK ==
  /\ \A i \in DOMAIN held : ValidateReason(held[i].ev) = "ok"
  /\ bpc = "flush_bytes" => held # <<>>

TypeInv == TypeOK /\ HeldOK

(* A valid event has a length.                                             *)
LEMMA EventLenType ==
  ASSUME NEW s \in Shapes, ValidateReason(s) = "ok"
  PROVE  EventLen(s) \in Nat
<1>1. s.object
  BY DEF ValidateReason
<1>2. s.len \in Nat /\ s.pad \in 0 .. s.len /\ s.slack \in Nat /\ StampBytes \in Nat
      /\ s.slack < s.len - s.pad + StampBytes
  BY <1>1, EventsAssumption
<1> QED BY <1>2 DEF EventLen

(* The empty batch is a batch.                                             *)
LEMMA NoBatchType == NoBatch \in Batches
BY DEF NoBatch, Batches, Tokens

(* The parts of a datagram.                                                *)
LEMMA DatagramType ==
  ASSUME NEW dg \in Datagrams
  PROVE  dg.ev \in Shapes /\ dg.ev.token \in Tokens /\ dg.id \in DatagramIds
BY DEF Datagrams, Tokens

(* Accounting keeps the type of fate.                                      *)
LEMMA AccountType ==
  ASSUME fate \in [DatagramIds -> Fates], NEW ds, NEW o \in Fates, Account(ds, o)
  PROVE  fate' \in [DatagramIds -> Fates]
BY DEF Account

(* A batch is made of datagrams and a token.                               *)
LEMMA BatchType ==
  ASSUME NEW es \in Seq(Datagrams), NEW tok \in Tokens
  PROVE  [events |-> es, token |-> tok] \in Batches
BY DEF Batches

(* The type invariant holds initially.                                     *)
LEMMA InitTypeInv == Init => TypeInv
<1> SUFFICES ASSUME Init PROVE TypeInv
  OBVIOUS
<1> USE DEF Init, SharedInit, BatcherInit, FlusherInit
<1>1. SharedTypeOK
  <2>1. fate \in [DatagramIds -> Fates]
    BY DEF Fates
  <2>2. rawCh \in Seq(Datagrams) /\ batchCh \in Seq(Batches)
    OBVIOUS
  <2> QED BY <2>1, <2>2 DEF SharedTypeOK
<1>2. BatcherTypeOK
  BY NoBatchType DEF BatcherTypeOK, Tokens
<1>3. FlusherTypeOK
  <2>1. delivered \in [DatagramIds -> Nat]
    OBVIOUS
  <2>2. attempt \in 0 .. MaxRetries
    BY FlusherAssumption
  <2> QED BY <2>1, <2>2, NoBatchType DEF FlusherTypeOK
<1>4. HeldOK /\ n \in 0 .. MaxSends
  BY PipelineStateAssumption DEF HeldOK
<1> QED BY <1>1, <1>2, <1>3, <1>4 DEF TypeInv, TypeOK

(* AppendEvent keeps the batcher's types.                                  *)
LEMMA AppendEventType ==
  ASSUME NEW dg \in Datagrams, ValidateReason(dg.ev) = "ok",
         NEW c \in Seq(Datagrams), NEW bytes \in Nat, NEW tok \in Tokens,
         NEW tm \in {"off", "armed", "fired"},
         AppendEvent(dg, c, bytes, tok, tm)
  PROVE  /\ bpc' \in {"select", "flush_size"}
         /\ cur' \in Seq(Datagrams)
         /\ curBytes' \in Nat
         /\ curToken' \in Tokens
         /\ timer' \in {"off", "armed", "fired"}
         /\ handing' \in Batches
<1> DEFINE events == Append(c, dg)
           token  == IF dg.ev.token # NoToken THEN dg.ev.token ELSE tok
<1>1. events \in Seq(Datagrams)
  OBVIOUS
<1>2. token \in Tokens
  BY DatagramType
<1>3. NoToken \in Tokens
  BY DEF Tokens
<1>4. EventLen(dg.ev) \in Nat
  BY EventLenType, DatagramType
<1>5. timer' \in {"off", "armed", "fired"}
  BY DEF AppendEvent
<1>6. CASE BeginFlush("flush_size", events, token)
  <2>1. [events |-> events, token |-> token] \in Batches
    BY <1>1, <1>2, BatchType
  <2> HIDE DEF events, token
  <2> QED BY <2>1, <1>3, <1>5, <1>6 DEF BeginFlush
<1>7. CASE /\ bpc' = "select"
           /\ handing' = NoBatch
           /\ cur' = events
           /\ curBytes' = bytes + EventLen(dg.ev) + 1
           /\ curToken' = token
  BY <1>1, <1>2, <1>4, <1>5, <1>7, NoBatchType
<1> QED BY <1>6, <1>7 DEF AppendEvent

(* What the shared part and the batcher keep typed, for the batcher steps. *)
LEMMA BatcherTypeStep ==
  ASSUME SharedTypeOK, BatcherTypeOK, HeldOK, BatcherRun \/ WindowElapses
  PROVE  SharedTypeOK' /\ BatcherTypeOK' /\ HeldOK'
<1> USE DEF SharedTypeOK, BatcherTypeOK
<1>0. /\ NoToken \in Tokens
      /\ {"flush_bytes", "flush_size", "flush_window", "flush_final"} = FlushCalls
  BY DEF Tokens, FlushCalls
<1>1. CASE DropInvalid
  <2>1. ValidateReason(Head(rawCh).ev) \in Fates
    BY <1>1 DEF DropInvalid, ValidateReason, Fates, Outcomes
  <2>2. fate' \in [DatagramIds -> Fates]
    <3> DEFINE o == ValidateReason(Head(rawCh).ev)
    <3>1. Account(<<Head(rawCh)>>, o)
      BY <1>1 DEF DropInvalid
    <3> HIDE DEF o
    <3> QED BY <2>1, <3>1, AccountType DEF o
  <2>3. rawCh' \in Seq(Datagrams)
    BY <1>1 DEF DropInvalid
  <2> QED BY <1>1, <2>2, <2>3 DEF DropInvalid, batcherVars, HeldOK
<1>2. CASE TakeEvent
  <2>1. Head(rawCh) \in Datagrams /\ rawCh' \in Seq(Datagrams)
    BY <1>2 DEF TakeEvent
  <2>2. /\ ValidateReason(Head(rawCh).ev) = "ok"
        /\ AppendEvent(Head(rawCh), cur, curBytes, curToken, timer)
    BY <1>2 DEF TakeEvent
  <2>3. /\ bpc' \in {"select", "flush_size"}
        /\ cur' \in Seq(Datagrams)
        /\ curBytes' \in Nat
        /\ curToken' \in Tokens
        /\ timer' \in {"off", "armed", "fired"}
        /\ handing' \in Batches
    BY <2>1, <2>2, AppendEventType
  <2> QED BY <1>0, <1>2, <2>1, <2>3 DEF TakeEvent, HeldOK
<1>3. CASE TakeOverflowing
  <2>1. Head(rawCh) \in Datagrams /\ rawCh' \in Seq(Datagrams)
    BY <1>3 DEF TakeOverflowing
  <2>2. held' = <<Head(rawCh)>> /\ ValidateReason(Head(rawCh).ev) = "ok"
    BY <1>3 DEF TakeOverflowing
  <2>3. HeldOK' /\ held' \in Seq(Datagrams)
    BY <2>1, <2>2 DEF HeldOK, ValidateReason
  <2>4. handing' \in Batches
    BY <1>3, BatchType DEF TakeOverflowing, BeginFlush
  <2> QED BY <1>0, <1>3, <2>1, <2>3, <2>4 DEF TakeOverflowing, BeginFlush
<1>4. CASE WindowFlush
  <2>1. Flush("flush_window", "select")
    BY <1>4 DEF WindowFlush
  <2>2. handing' \in Batches
    BY <2>1, BatchType DEF Flush, BeginFlush
  <2>3. /\ bpc' \in {"select", "done"} \cup FlushCalls
        /\ cur' \in Seq(Datagrams)
        /\ curBytes' \in Nat
        /\ curToken' \in Tokens
    <3>1. CASE cur = <<>>
      BY <2>1, <3>1 DEF Flush
    <3>2. CASE cur # <<>>
      BY <1>0, <2>1, <3>2 DEF Flush, BeginFlush
    <3> QED BY <3>1, <3>2
  <2>4. HeldOK'
    BY <1>4, <2>1 DEF WindowFlush, Flush, BeginFlush, HeldOK
  <2> QED BY <1>4, <2>2, <2>3, <2>4 DEF WindowFlush, shared
<1>5. CASE InputClosed
  <2>1. Flush("flush_final", "done")
    BY <1>5 DEF InputClosed
  <2>2. handing' \in Batches
    BY <2>1, BatchType DEF Flush, BeginFlush
  <2>3. /\ bpc' \in {"select", "done"} \cup FlushCalls
        /\ cur' \in Seq(Datagrams)
        /\ curBytes' \in Nat
        /\ curToken' \in Tokens
    <3>1. CASE cur = <<>>
      BY <2>1, <3>1 DEF Flush
    <3>2. CASE cur # <<>>
      BY <1>0, <2>1, <3>2 DEF Flush, BeginFlush
    <3> QED BY <3>1, <3>2
  <2>4. HeldOK'
    BY <1>5, <2>1 DEF InputClosed, Flush, BeginFlush, HeldOK
  <2> QED BY <1>5, <2>2, <2>3, <2>4 DEF InputClosed, shared
<1>6. ASSUME AfterFlush PROVE BatcherTypeOK' /\ HeldOK'
  <2>1. CASE ReturnFromFlush
    BY <2>1, NoBatchType DEF ReturnFromFlush, HeldOK
  <2>2. CASE /\ bpc = "flush_bytes"
             /\ AppendEvent(held[1], <<>>, 0, NoToken, "off")
             /\ held' = <<>>
    <3>1. held[1] \in Datagrams /\ ValidateReason(held[1].ev) = "ok"
      BY <2>2 DEF HeldOK
    <3>2. <<>> \in Seq(Datagrams)
      OBVIOUS
    <3>3. /\ bpc' \in {"select", "flush_size"}
          /\ cur' \in Seq(Datagrams)
          /\ curBytes' \in Nat
          /\ curToken' \in Tokens
          /\ timer' \in {"off", "armed", "fired"}
          /\ handing' \in Batches
      BY <1>0, <2>2, <3>1, <3>2, AppendEventType
    <3> QED BY <1>0, <2>2, <3>3 DEF HeldOK
  <2> QED BY <1>6, <2>1, <2>2 DEF AfterFlush
<1>7. CASE HandOff
  <2>1. batchCh' \in Seq(Batches)
    BY <1>7 DEF HandOff
  <2> QED BY <1>6, <1>7, <2>1 DEF HandOff
<1>8. CASE AbandonBatch
  <2>1. fate' \in [DatagramIds -> Fates]
    BY <1>8, AccountType DEF AbandonBatch, Fates, Outcomes
  <2> QED BY <1>6, <1>8, <2>1 DEF AbandonBatch
<1>9. CASE WindowElapses
  BY <1>9 DEF WindowElapses, shared, HeldOK
<1> QED BY <1>1, <1>2, <1>3, <1>4, <1>5, <1>7, <1>8, <1>9 DEF BatcherRun

(* The flusher keeps the type invariant.                                   *)
LEMMA FlusherTypeStep ==
  ASSUME SharedTypeOK, FlusherTypeOK, FlusherRun \/ GatewayAccepts
  PROVE  SharedTypeOK' /\ FlusherTypeOK'
<1> USE DEF SharedTypeOK, FlusherTypeOK
<1>1. ASSUME NEW o \in {"sent", "flush_failed", "shutdown"}, Settle(o)
      PROVE  SharedTypeOK' /\ FlusherTypeOK'
  <2>1. fate' \in [DatagramIds -> Fates]
    BY <1>1, AccountType DEF Settle, Fates, Outcomes
  <2>2. 0 \in 0 .. MaxRetries
    BY FlusherAssumption
  <2> QED BY <1>1, <2>1, <2>2, NoBatchType DEF Settle
<1>2. CASE TakeBatch
  <2>1. flight' \in Batches /\ batchCh' \in Seq(Batches)
    BY <1>2 DEF TakeBatch
  <2> QED BY <1>2, <2>1 DEF TakeBatch
<1>3. CASE FlusherExit \/ StartPost \/ BackoffElapses
  BY <1>3 DEF FlusherExit, StartPost, BackoffElapses, shared
<1>4. CASE StartCancelled \/ PostSucceeds \/ PostRejected \/ PostCancelled
           \/ BackoffCancelled
  BY <1>1, <1>4
     DEF StartCancelled, PostSucceeds, PostRejected, PostCancelled, BackoffCancelled
<1>5. CASE PostFailsTransiently
  <2>1. PICK code \in Statuses \cup {NetworkError} :
          \/ /\ attempt < MaxRetries
             /\ attempt' = attempt + 1
             /\ fpc' = "backoff"
             /\ accepted' = FALSE
             /\ UNCHANGED <<shared, flight, delivered>>
          \/ Settle("flush_failed")
    BY <1>5 DEF PostFailsTransiently
  <2>2. CASE attempt < MaxRetries /\ attempt' = attempt + 1
             /\ fpc' = "backoff" /\ accepted' = FALSE
             /\ UNCHANGED <<shared, flight, delivered>>
    <3>1. attempt' \in 0 .. MaxRetries
      BY <2>2, FlusherAssumption
    <3> QED BY <2>2, <3>1 DEF shared
  <2> QED BY <1>1, <2>1, <2>2
<1>6. CASE GatewayAccepts
  <2>1. delivered' \in [DatagramIds -> Nat]
    BY <1>6 DEF GatewayAccepts
  <2> QED BY <1>6, <2>1 DEF GatewayAccepts, shared
<1> QED BY <1>2, <1>3, <1>4, <1>5, <1>6 DEF FlusherRun

(* Every step keeps the type invariant.                                    *)
LEMMA TypeInvStep == TypeInv /\ [Next]_vars => TypeInv'
<1> SUFFICES ASSUME TypeInv, [Next]_vars PROVE TypeInv'
  OBVIOUS
<1> USE DEF TypeInv, TypeOK
<1>1. CASE Demuxer
  <2>1. PICK s \in Shapes : TrySend(s)
    BY <1>1 DEF Demuxer
  <2>2. n' \in 0 .. MaxSends /\ n + 1 \in DatagramIds
    BY <2>1, PipelineStateAssumption DEF TrySend, DatagramIds
  <2>3. [id |-> n + 1, ev |-> s] \in Datagrams
    BY <2>2 DEF Datagrams
  <2>4. rawCh' \in Seq(Datagrams)
    <3> DEFINE dg == [id |-> n + 1, ev |-> s]
    <3>1. rawCh' = rawCh \/ rawCh' = Append(rawCh, dg)
      BY <2>1 DEF TrySend
    <3>2. rawCh \in Seq(Datagrams) /\ dg \in Datagrams
      BY <2>3 DEF SharedTypeOK
    <3> HIDE DEF dg
    <3> QED BY <3>1, <3>2
  <2>5. fate' \in [DatagramIds -> Fates]
    BY <2>1, AccountType DEF TrySend, Fates, Outcomes, SharedTypeOK
  <2>6. SharedTypeOK'
    BY <2>1, <2>4, <2>5 DEF TrySend, SharedTypeOK
  <2> QED BY <2>1, <2>2, <2>6
          DEF TrySend, batcherVars, flusherVars, drainVars, BatcherTypeOK,
              FlusherTypeOK, HeldOK
<1>2. CASE Batching
  <2>1. SharedTypeOK' /\ BatcherTypeOK' /\ HeldOK'
    BY <1>2, BatcherTypeStep DEF Batching
  <2> QED BY <1>2, <2>1 DEF Batching, flusherVars, drainVars, FlusherTypeOK
<1>3. CASE Flushing
  <2>1. SharedTypeOK' /\ FlusherTypeOK'
    BY <1>3, FlusherTypeStep DEF Flushing
  <2> QED BY <1>3, <2>1 DEF Flushing, batcherVars, drainVars, BatcherTypeOK, HeldOK
<1>4. CASE Draining
  <2>1. SharedTypeOK' /\ dpc' \in {"idle", "arming", "wait_batcher", "wait_flusher", "done"}
        /\ grace' \in {"off", "armed"}
    BY <1>4, PipelineAssumption
       DEF Draining, DrainRun, DrainClose, DrainArm, DrainCloseBatches,
           DrainReturn, GraceExpires, SharedTypeOK
  <2> QED BY <1>4, <2>1
          DEF Draining, batcherVars, flusherVars, BatcherTypeOK, FlusherTypeOK, HeldOK
<1>5. CASE UNCHANGED vars
  BY <1>5 DEF vars, shared, batcherVars, flusherVars, drainVars, SharedTypeOK,
              BatcherTypeOK, FlusherTypeOK, HeldOK
<1> QED BY <1>1, <1>2, <1>3, <1>4, <1>5 DEF Next, Stopped

(* Every variable keeps its type; in particular send() never makes more    *)
(* than 1 + MaxRetries attempts.                                           *)
THEOREM TypeCorrect == Spec => []TypeOK
<1>1. TypeInv => TypeOK
  BY DEF TypeInv
<1> QED BY <1>1, InitTypeInv, TypeInvStep, PTL DEF Spec
=============================================================================
