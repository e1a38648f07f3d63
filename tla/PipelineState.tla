---------------------------- MODULE PipelineState ----------------------------
(***************************************************************************)
(* What the goroutines of one pipeline share (routing.go, type pipeline):  *)
(* the two channels, the context drain cancels, and the accounting.        *)
(*                                                                         *)
(* The counters of stats.go are kept per event: fate[d] names the counter  *)
(* datagram d was added to, so that "counted twice" and "never counted"    *)
(* can be told apart.  A counter is the number of datagrams with its name. *)
(***************************************************************************)
EXTENDS Events

CONSTANTS
  HandoffDepth,   \* pipelineHandoffDepth, the capacity of rawCh (16)
  BatchDepth,     \* the capacity of batchCh (8)
  MaxSends        \* bound: datagrams offered to the pipeline in a behaviour

ASSUME PipelineStateAssumption ==
  /\ HandoffDepth \in Nat \ {0}
  /\ BatchDepth \in Nat \ {0}
  /\ MaxSends \in Nat

VARIABLES
  rawCh,          \* chan rawDatagram: demuxer to batcher
  rawClosed,      \* pipeline.closed, set together with close(rawCh)
  batchCh,        \* chan EventBatch: batcher to flusher
  batchClosed,    \* close(batchCh) done by drain
  ctxDone,        \* pipeline.ctx is cancelled
  fate            \* datagram id -> where it was accounted

shared == <<rawCh, rawClosed, batchCh, batchClosed, ctxDone, fate>>

DatagramIds == 1 .. MaxSends

(* rawDatagram: an identity and the shape of its payload.                  *)
Datagrams == [id : DatagramIds, ev : Shapes]

(* EventBatch: the events in order and the credential of the whole batch.  *)
Tokens == {s.token : s \in Shapes} \cup {NoToken}
Batches == [events : Seq(Datagrams), token : Tokens]
NoBatch == [events |-> <<>>, token |-> NoToken]

(* Counters a datagram can end in; "unsent" and "pending" are none yet.    *)
Outcomes == {"parse_error", "oversize", "sent", "flush_failed", "shutdown",
             "queue_full", "routing_closed"}
Fates == Outcomes \cup {"unsent", "pending"}

Ids(ds) == {ds[i].id : i \in DOMAIN ds}

(* One Add(len(ds)) on the counter o.                                      *)
Account(ds, o) ==
  fate' = [d \in DatagramIds |-> IF d \in Ids(ds) THEN o ELSE fate[d]]

SharedInit ==
  /\ rawCh = <<>>
  /\ rawClosed = FALSE
  /\ batchCh = <<>>
  /\ batchClosed = FALSE
  /\ ctxDone = FALSE
  /\ fate = [d \in DatagramIds |-> "unsent"]

SharedTypeOK ==
  /\ rawCh \in Seq(Datagrams)
  /\ rawClosed \in BOOLEAN
  /\ batchCh \in Seq(Batches)
  /\ batchClosed \in BOOLEAN
  /\ ctxDone \in BOOLEAN
  /\ fate \in [DatagramIds -> Fates]
=============================================================================
