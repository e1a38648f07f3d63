------------------------------ MODULE Pipeline ------------------------------
(***************************************************************************)
(* One project's pipeline (routing.go): the demuxer offers datagrams with  *)
(* trySend, the batcher and the flusher goroutine move them towards the    *)
(* gateway, and a drain goroutine closes the pipeline down, with a grace   *)
(* timer that cancels whatever is still under way.                         *)
(***************************************************************************)
EXTENDS Batcher, Flusher

CONSTANT ZeroGrace   \* cfg.ShutdownGrace = 0: drain cancels at once

ASSUME PipelineAssumption == ZeroGrace \in BOOLEAN

VARIABLES
  n,        \* datagrams offered so far; the next one has id n + 1
  dpc,      \* drain(): "idle", "arming", "wait_batcher", "wait_flusher", "done"
  grace     \* drain's time.AfterFunc timer: "off" or "armed"

drainVars == <<dpc, grace>>
vars == <<shared, batcherVars, flusherVars, n, drainVars>>

Init ==
  /\ SharedInit
  /\ BatcherInit
  /\ FlusherInit
  /\ n = 0
  /\ dpc = "idle"
  /\ grace = "off"

(* pipeline.trySend, called by the demuxer, with the demuxer's accounting  *)
(* of the two refusals.  sendMu makes the test of closed and the send one  *)
(* step with respect to drain.                                             *)
TrySend(s) ==
  LET dg == [id |-> n + 1, ev |-> s]
  IN /\ n < MaxSends
     /\ n' = n + 1
     /\ \/ /\ rawClosed
           /\ Account(<<dg>>, "routing_closed")
           /\ UNCHANGED rawCh
        \/ /\ ~rawClosed
           /\ Len(rawCh) < HandoffDepth
           /\ rawCh' = Append(rawCh, dg)
           /\ Account(<<dg>>, "pending")
        \/ /\ ~rawClosed
           /\ Len(rawCh) >= HandoffDepth
           /\ Account(<<dg>>, "queue_full")
           /\ UNCHANGED rawCh
     /\ UNCHANGED <<rawClosed, batchCh, batchClosed, ctxDone>>
     /\ UNCHANGED <<batcherVars, flusherVars, drainVars>>

(* drain(), first critical section: closed = true and close(rawCh).        *)
DrainClose ==
  /\ dpc = "idle"
  /\ dpc' = "arming"
  /\ rawClosed' = TRUE
  /\ UNCHANGED <<rawCh, batchCh, batchClosed, ctxDone, fate, grace>>

(* Mutant of DrainArm: the grace timer is not started.                     *)
DrainArmNoTimer ==
  /\ dpc = "arming"
  /\ dpc' = "wait_batcher"
  /\ grace' = "off"
  /\ ctxDone' = ZeroGrace
  /\ UNCHANGED <<rawCh, rawClosed, batchCh, batchClosed, fate>>

(* Arm the grace timer, or cancel right away when there is no grace.       *)
DrainArm ==
  /\ dpc = "arming"
  /\ dpc' = "wait_batcher"
  /\ grace' = IF ZeroGrace THEN "off" ELSE "armed"
  /\ ctxDone' = ZeroGrace
  /\ UNCHANGED <<rawCh, rawClosed, batchCh, batchClosed, fate>>

(* Mutant of DrainCloseBatches: it does not wait for the batcher.          *)
DrainCloseBatchesEarly ==
  /\ dpc = "wait_batcher"
  /\ dpc' = "wait_flusher"
  /\ batchClosed' = TRUE
  /\ UNCHANGED <<rawCh, rawClosed, batchCh, ctxDone, fate, grace>>

(* <-p.batcherDone, then close(p.batchCh).                                 *)
DrainCloseBatches ==
  /\ dpc = "wait_batcher"
  /\ bpc = "done"
  /\ dpc' = "wait_flusher"
  /\ batchClosed' = TRUE
  /\ UNCHANGED <<rawCh, rawClosed, batchCh, ctxDone, fate, grace>>

(* <-p.flushDone, then stop the timer and release the context.             *)
DrainReturn ==
  /\ dpc = "wait_flusher"
  /\ fpc = "done"
  /\ dpc' = "done"
  /\ grace' = "off"
  /\ ctxDone' = TRUE
  /\ UNCHANGED <<rawCh, rawClosed, batchCh, batchClosed, fate>>

DrainRun == DrainClose \/ DrainArm \/ DrainCloseBatches \/ DrainReturn

(* The grace timer runs p.cancel.                                          *)
GraceExpires ==
  /\ grace = "armed"
  /\ grace' = "off"
  /\ ctxDone' = TRUE
  /\ UNCHANGED <<rawCh, rawClosed, batchCh, batchClosed, fate, dpc>>

Demuxer == \E s \in Shapes : TrySend(s)
Batching == (BatcherRun \/ WindowElapses) /\ UNCHANGED <<flusherVars, n, drainVars>>
Flushing == (FlusherRun \/ GatewayAccepts) /\ UNCHANGED <<batcherVars, n, drainVars>>
Draining == (DrainRun \/ GraceExpires) /\ UNCHANGED <<batcherVars, flusherVars, n>>

(* After drain nothing but further refused offers happens.                 *)
Stopped == dpc = "done" /\ UNCHANGED vars

Next == Demuxer \/ Batching \/ Flushing \/ Draining \/ Stopped

Spec == Init /\ [][Next]_vars

(***************************************************************************)
(* Fairness.  The Go scheduler runs every runnable goroutine and fires     *)
(* every armed timer, client.Timeout's included; but nothing here relies   *)
(* on a POST coming back: it may hang until its context is cancelled.      *)
(* Nobody is obliged to offer datagrams or to start a drain.               *)
(***************************************************************************)
FairSpec ==
  /\ Spec
  /\ WF_vars(BatcherRun /\ UNCHANGED <<flusherVars, n, drainVars>>)
  /\ WF_vars(WindowElapses /\ UNCHANGED <<flusherVars, n, drainVars>>)
  /\ WF_vars((fpc # "posting" \/ ctxDone) /\ FlusherRun
             /\ UNCHANGED <<batcherVars, n, drainVars>>)
  /\ WF_vars(dpc # "idle" /\ Draining)
-----------------------------------------------------------------------------
TypeOK ==
  /\ SharedTypeOK
  /\ BatcherTypeOK
  /\ FlusherTypeOK
  /\ n \in 0 .. MaxSends
  /\ dpc \in {"idle", "arming", "wait_batcher", "wait_flusher", "done"}
  /\ grace \in {"off", "armed"}

Ledger == INSTANCE EventLedger
            WITH Rejections <- {"queue_full"},
                 open <- ~rawClosed, drained <- (dpc = "done")

(* A pipeline keeps its ledger: every accepted datagram is accounted once, *)
(* under one counter, whatever the interleaving of batcher, flusher, grace *)
(* timer and drain, and drain returns only when none is left               *)
(* (routing.go trySend/drain, events.go flush, flusher.go send).           *)
KeepsLedger == Ledger!LedgerSpec

(* Every batch that has left b.cur.                                        *)
FormedBatches == {flight, handing} \cup {batchCh[i] : i \in DOMAIN batchCh}

Ascending(ds) == \A i, j \in DOMAIN ds : i < j => ds[i].id < ds[j].id
Ahead(ds, es) == \A i \in DOMAIN ds, j \in DOMAIN es : ds[i].id < es[j].id

(* Datagrams never overtake each other and are never in two places: along  *)
(* the pipeline, from the batch being sent back through batchCh, the       *)
(* flush, cur and the pre-flush to rawCh, the ids strictly ascend.         *)
InOrder ==
  /\ \A b \in FormedBatches : Ascending(b.events) /\ Ahead(b.events, cur)
                              /\ Ahead(b.events, held) /\ Ahead(b.events, rawCh)
  /\ \A i \in DOMAIN batchCh :
       /\ Ahead(flight.events, batchCh[i].events)
       /\ Ahead(batchCh[i].events, handing.events)
       /\ \A j \in DOMAIN batchCh :
            i < j => Ahead(batchCh[i].events, batchCh[j].events)
  /\ Ahead(flight.events, handing.events)
  /\ Ascending(cur) /\ Ahead(cur, held) /\ Ahead(cur, rawCh)
  /\ Ascending(held) /\ Ahead(held, rawCh)
  /\ Ascending(rawCh)

(* tok is the last credential among the datagrams ds, or none if no        *)
(* datagram carries one.                                                   *)
IsFreshest(tok, ds) ==
  \/ /\ tok = NoToken
     /\ \A i \in DOMAIN ds : ds[i].ev.token = NoToken
  \/ /\ tok # NoToken
     /\ \E i \in DOMAIN ds :
          /\ ds[i].ev.token = tok
          /\ \A j \in DOMAIN ds : j > i => ds[j].ev.token = NoToken

(* A batch is authorized by the freshest credential of its own events and  *)
(* never by one left over from an earlier batch (events.go, "Last-wins"    *)
(* and the reset of curToken in flush).  So an inline pipeline, which has  *)
(* no key, never POSTs without a credential while all it is given carries  *)
(* one (routing.go registerInline: "every batch it flushes must carry the  *)
(* token that arrived with its events").                                   *)
FreshestToken ==
  \A b \in FormedBatches : IsFreshest(b.token, b.events)

(* A batch stays within the event cap, and the events of a batch of        *)
(* several, each with the comma the batcher counts for it, stay within     *)
(* MaxBatchBytes, whichever event the pre-flush, the size flush or the     *)
(* window found waiting (events.go run, "pre-flush if appending would push *)
(* us past this").  The {"events":[]} wrapper is not in that count: see    *)
(* BodyWithinLimit.                                                        *)
BatchWithinCaps ==
  \A b \in FormedBatches :
    /\ Len(b.events) <= MaxEvents
    /\ Len(b.events) > 1 => EventBytes(b.events) + Len(b.events) <= MaxBatchBytes

(* What the gateway holds agrees with the counters: an event counted as    *)
(* sent was taken in, no event is taken in more than 1 + MaxRetries times, *)
(* and an event dropped before the flusher was never taken in.             *)
DeliveryMatchesFate ==
  \A d \in DatagramIds :
    /\ fate[d] = "sent" => delivered[d] >= 1
    /\ delivered[d] <= MaxRetries + 1
    /\ fate[d] \in {"unsent", "parse_error", "oversize", "queue_full",
                    "routing_closed"} => delivered[d] = 0

(* While the batcher waits for input its window timer runs exactly if a    *)
(* batch is being assembled: no partial batch waits without one, and no    *)
(* tick left over from an earlier batch cuts the next one short, whichever *)
(* of the three flushes ended that one (events.go run, armTimer and        *)
(* disarmTimer).                                                           *)
WindowGuardsBatch == bpc = "select" => (timer = "off" <=> cur = <<>>)

(* Nobody sends on a closed channel, which would end the process: when     *)
(* drain closes batchCh no flush is blocked on it and none is to come,     *)
(* neither from what rawCh still holds nor from a batch being assembled    *)
(* (routing.go drain, events.go flush).                                    *)
ClosedForGood ==
  batchClosed => /\ bpc \notin FlushCalls
                 /\ rawCh = <<>> /\ cur = <<>> /\ held = <<>>

(* Once drain has been called it returns, even when the gateway never      *)
(* answers: the grace timer frees a flusher stuck in a POST and a batcher  *)
(* stuck behind it (routing.go drain, events.go flush).                    *)
DrainTerminates == (dpc = "arming") ~> (dpc = "done")

(* Unless a POST hangs for good, every accepted datagram is accounted,     *)
(* drain or no drain: no event is stranded in cur without a window timer   *)
(* (events.go run, armTimer/disarmTimer).                                  *)
EventuallyAccounted ==
  \/ <>[](fpc = "posting")
  \/ \A d \in DatagramIds : (fate[d] = "pending") ~> (fate[d] # "pending")
-----------------------------------------------------------------------------
(* What the documentation says, where the code does otherwise.             *)

(* README, Inline credentials: "The keys file remains the credential for   *)
(* datagrams that carry no token".                                         *)
KeysFileCredential ==
  fpc = "posting" =>
    \A i \in DOMAIN flight.events :
      flight.events[i].ev.token = NoToken => Credential(flight) = ApiKey

(* README, Server limits: "(matched client-side): batch <= 5000 events,    *)
(* body <= 10 MB".  A body is all that encodeEventBatch returns.           *)
BodyWithinLimit ==
  \A b \in FormedBatches : BodyLen(b.events) <= MaxBatchBytes
=============================================================================
