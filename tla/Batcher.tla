------------------------------- MODULE Batcher -------------------------------
(***************************************************************************)
(* eventsBatcher of events.go: the goroutine that turns the datagrams of   *)
(* rawCh into batches on batchCh.                                          *)
(*                                                                         *)
(* run() is one select loop.  Everything an iteration does between two     *)
(* points where it can block is one action; it can block in the select and *)
(* inside flush(), whose select offers the batch to batchCh or gives up    *)
(* when the pipeline's context is done.                                    *)
(***************************************************************************)
EXTENDS PipelineState

VARIABLES
  bpc,       \* "select", inside a flush ("flush_*": which call), or "done"
  cur,       \* b.cur, the batch being assembled
  curBytes,  \* b.curBytes
  curToken,  \* b.curToken
  timer,     \* "off" (timerC is nil), "armed" or "fired" (a tick waits)
  handing,   \* flush()'s local batch while it blocks
  held       \* the datagram of this iteration while its pre-flush blocks

batcherVars == <<bpc, cur, curBytes, curToken, timer, handing, held>>

FlushCalls == {"flush_bytes", "flush_size", "flush_window", "flush_final"}

BatcherInit ==
  /\ bpc = "select"
  /\ cur = <<>>
  /\ curBytes = 0
  /\ curToken = NoToken
  /\ timer = "off"
  /\ handing = NoBatch
  /\ held = <<>>

BatcherTypeOK ==
  /\ bpc \in {"select", "done"} \cup FlushCalls
  /\ cur \in Seq(Datagrams)
  /\ curBytes \in Nat
  /\ curToken \in Tokens
  /\ timer \in {"off", "armed", "fired"}
  /\ handing \in Batches
  /\ held \in Seq(Datagrams)

(* Mutants of BeginFlush: flush() forgets b.curToken = "" or b.cur = nil.  *)
BeginFlushKeepsToken(call, events, token) ==
  /\ bpc' = call
  /\ handing' = [events |-> events, token |-> token]
  /\ cur' = <<>>
  /\ curBytes' = 0
  /\ curToken' = token

BeginFlushKeepsEvents(call, events, token) ==
  /\ bpc' = call
  /\ handing' = [events |-> events, token |-> token]
  /\ cur' = events
  /\ curBytes' = 0
  /\ curToken' = NoToken

(* The head of flush(): the batch leaves cur and is offered downstream.    *)
BeginFlush(call, events, token) ==
  /\ bpc' = call
  /\ handing' = [events |-> events, token |-> token]
  /\ cur' = <<>>
  /\ curBytes' = 0
  /\ curToken' = NoToken

(* flush() on the current batch, which returns at once when it is empty.   *)
Flush(call, next) ==
  IF cur = <<>>
  THEN bpc' = next /\ UNCHANGED <<cur, curBytes, curToken, handing>>
  ELSE BeginFlush(call, cur, curToken)

(* The tail of an iteration with a valid event: arm the window timer if    *)
(* this is the first event, append, let a non-empty token win, and flush   *)
(* when the batch is full.  c, bytes, tok and tm are the values of cur,    *)
(* curBytes, curToken and timer at that point of the iteration.            *)
AppendEvent(dg, c, bytes, tok, tm) ==
  LET events == Append(c, dg)
      token  == IF dg.ev.token # NoToken THEN dg.ev.token ELSE tok
  IN /\ timer' = IF c = <<>> THEN "armed" ELSE tm
     /\ \/ /\ Len(events) >= MaxEvents
           /\ BeginFlush("flush_size", events, token)
        \/ /\ Len(events) < MaxEvents
           /\ bpc' = "select"
           /\ handing' = NoBatch
           /\ cur' = events
           /\ curBytes' = bytes + EventLen(dg.ev) + 1
           /\ curToken' = token

(* Mutant of Overflows: the incoming event is left out of the sum.         *)
OverflowsAlready(dg) ==
  /\ cur # <<>>
  /\ curBytes > MaxBatchBytes

(* Would the event push a non-empty batch past the body limit?             *)
Overflows(dg) ==
  /\ cur # <<>>
  /\ curBytes + EventLen(dg.ev) + 1 > MaxBatchBytes

(* case dg := <-b.in with an invalid datagram: count it and go on.         *)
DropInvalid ==
  /\ bpc = "select"
  /\ rawCh # <<>>
  /\ ValidateReason(Head(rawCh).ev) # "ok"
  /\ rawCh' = Tail(rawCh)
  /\ Account(<<Head(rawCh)>>, ValidateReason(Head(rawCh).ev))
  /\ UNCHANGED <<rawClosed, batchCh, batchClosed, ctxDone, batcherVars>>

(* case dg := <-b.in with a valid datagram that fits the current batch.    *)
TakeEvent ==
  /\ bpc = "select"
  /\ rawCh # <<>>
  /\ ValidateReason(Head(rawCh).ev) = "ok"
  /\ ~Overflows(Head(rawCh))
  /\ rawCh' = Tail(rawCh)
  /\ AppendEvent(Head(rawCh), cur, curBytes, curToken, timer)
  /\ UNCHANGED <<rawClosed, batchCh, batchClosed, ctxDone, fate, held>>

(* The same when the byte cap is reached: the pre-flush comes first.       *)
TakeOverflowing ==
  /\ bpc = "select"
  /\ rawCh # <<>>
  /\ ValidateReason(Head(rawCh).ev) = "ok"
  /\ Overflows(Head(rawCh))
  /\ rawCh' = Tail(rawCh)
  /\ held' = <<Head(rawCh)>>
  /\ BeginFlush("flush_bytes", cur, curToken)
  /\ UNCHANGED <<rawClosed, batchCh, batchClosed, ctxDone, fate, timer>>

(* time.Timer delivers its tick; the batcher may be blocked elsewhere.     *)
WindowElapses ==
  /\ timer = "armed"
  /\ timer' = "fired"
  /\ UNCHANGED <<shared, bpc, cur, curBytes, curToken, handing, held>>

(* case <-timerC.                                                          *)
WindowFlush ==
  /\ bpc = "select"
  /\ timer = "fired"
  /\ timer' = "off"
  /\ Flush("flush_window", "select")
  /\ UNCHANGED <<shared, held>>

(* case _, ok := <-b.in with ok = false: the final flush, then return.     *)
InputClosed ==
  /\ bpc = "select"
  /\ rawCh = <<>>
  /\ rawClosed
  /\ Flush("flush_final", "done")
  /\ UNCHANGED <<shared, timer, held>>

(* Mutant of ReturnFromFlush: the window timer of the old batch runs on.   *)
ReturnFromFlushNoDisarm ==
  \/ /\ bpc \in {"flush_size", "flush_window"}
     /\ bpc' = "select"
     /\ handing' = NoBatch
     /\ UNCHANGED <<cur, curBytes, curToken, timer, held>>
  \/ /\ bpc = "flush_final"
     /\ bpc' = "done"
     /\ handing' = NoBatch
     /\ UNCHANGED <<cur, curBytes, curToken, timer, held>>

(* Back from flush() with nothing left to do in this iteration: the timer  *)
(* is disarmed, or run() returns after the final flush.                    *)
ReturnFromFlush ==
  \/ /\ bpc \in {"flush_size", "flush_window"}
     /\ bpc' = "select"
     /\ timer' = "off"
     /\ handing' = NoBatch
     /\ UNCHANGED <<cur, curBytes, curToken, held>>
  \/ /\ bpc = "flush_final"
     /\ bpc' = "done"
     /\ handing' = NoBatch
     /\ UNCHANGED <<cur, curBytes, curToken, timer, held>>

(* Mutant of AfterFlush: after the pre-flush the window timer is disarmed  *)
(* only once the event has armed it.                                       *)
AfterFlushDisarmsLast ==
  \/ /\ bpc = "flush_bytes"
     /\ bpc' = "select"
     /\ handing' = NoBatch
     /\ cur' = held
     /\ curBytes' = EventLen(held[1].ev) + 1
     /\ curToken' = held[1].ev.token
     /\ timer' = "off"
     /\ held' = <<>>
  \/ ReturnFromFlush

(* What the caller of flush() does once it returns.                        *)
AfterFlush ==
  \/ /\ bpc = "flush_bytes"
     /\ AppendEvent(held[1], <<>>, 0, NoToken, "off")
     /\ held' = <<>>
  \/ ReturnFromFlush

(* flush(): case b.out <- batch.                                           *)
HandOff ==
  /\ bpc \in FlushCalls
  /\ Len(batchCh) < BatchDepth
  /\ batchCh' = Append(batchCh, handing)
  /\ AfterFlush
  /\ UNCHANGED <<rawCh, rawClosed, batchClosed, ctxDone, fate>>

(* Mutant of AbandonBatch: the batch is dropped without counting it.       *)
AbandonBatchUncounted ==
  /\ bpc \in FlushCalls
  /\ ctxDone
  /\ AfterFlush
  /\ UNCHANGED shared

(* flush(): case <-b.ctx.Done().                                           *)
AbandonBatch ==
  /\ bpc \in FlushCalls
  /\ ctxDone
  /\ Account(handing.events, "shutdown")
  /\ AfterFlush
  /\ UNCHANGED <<rawCh, rawClosed, batchCh, batchClosed, ctxDone>>

BatcherRun ==
  \/ DropInvalid
  \/ TakeEvent
  \/ TakeOverflowing
  \/ WindowFlush
  \/ InputClosed
  \/ HandOff
  \/ AbandonBatch
=============================================================================
