------------------------------- MODULE Flusher -------------------------------
(***************************************************************************)
(* eventsFlusher of flusher.go: the goroutine that POSTs each batch of     *)
(* batchCh, with send()'s retry loop and postJSON()'s classification of    *)
(* the answer.  The gateway is external: it may take a request's events in *)
(* and still have its answer lost, in which case the retry delivers them   *)
(* again.                                                                  *)
(***************************************************************************)
EXTENDS PipelineState

CONSTANTS
  ApiKey,      \* the pipeline's configured key, NoToken for an inline one
  MaxRetries,  \* cfg.MaxRetries
  Statuses     \* HTTP status codes the gateway answers with

NetworkError == 0   \* client.Do failed: refused, reset, timed out

ASSUME FlusherAssumption ==
  /\ MaxRetries \in Nat
  /\ Statuses \subseteq 100 .. 599

VARIABLES
  fpc,       \* "idle", "ready" (about to POST), "posting", "backoff", "done"
  flight,    \* send()'s batch
  attempt,   \* send()'s loop counter
  accepted,  \* the gateway has taken in the events of the current POST
  delivered  \* datagram id -> how often the gateway took it in

flusherVars == <<fpc, flight, attempt, accepted, delivered>>

FlusherInit ==
  /\ fpc = "idle"
  /\ flight = NoBatch
  /\ attempt = 0
  /\ accepted = FALSE
  /\ delivered = [d \in DatagramIds |-> 0]

FlusherTypeOK ==
  /\ fpc \in {"idle", "ready", "posting", "backoff", "done"}
  /\ flight \in Batches
  /\ attempt \in 0 .. MaxRetries
  /\ accepted \in BOOLEAN
  /\ delivered \in [DatagramIds -> Nat]

(* The bearer of a POST: the batch's own token, else the configured key.   *)
Credential(batch) == IF batch.token # NoToken THEN batch.token ELSE ApiKey

Success(code) == 200 <= code /\ code < 300

(* isRetryable(postJSON's error).                                          *)
Retryable(code) ==
  code = NetworkError \/ code >= 500 \/ code = 408 \/ code = 429

(* The end of send(): the batch is counted once and the loop of run() goes *)
(* on.                                                                     *)
Settle(outcome) ==
  /\ Account(flight.events, outcome)
  /\ fpc' = "idle"
  /\ flight' = NoBatch
  /\ attempt' = 0
  /\ accepted' = FALSE
  /\ UNCHANGED <<rawCh, rawClosed, batchCh, batchClosed, ctxDone, delivered>>

(* for batch := range f.in                                                 *)
TakeBatch ==
  /\ fpc = "idle"
  /\ batchCh # <<>>
  /\ flight' = Head(batchCh)
  /\ batchCh' = Tail(batchCh)
  /\ fpc' = "ready"
  /\ UNCHANGED <<rawCh, rawClosed, batchClosed, ctxDone, fate>>
  /\ UNCHANGED <<attempt, accepted, delivered>>

FlusherExit ==
  /\ fpc = "idle"
  /\ batchCh = <<>>
  /\ batchClosed
  /\ fpc' = "done"
  /\ UNCHANGED <<shared, flight, attempt, accepted, delivered>>

(* client.Do under a context that is already cancelled sends nothing.      *)
StartPost ==
  /\ fpc = "ready"
  /\ ~ctxDone
  /\ fpc' = "posting"
  /\ accepted' = FALSE
  /\ UNCHANGED <<shared, flight, attempt, delivered>>

StartCancelled ==
  /\ fpc = "ready"
  /\ ctxDone
  /\ Settle("shutdown")

(* External: the gateway takes the events of the request in.               *)
GatewayAccepts ==
  /\ fpc = "posting"
  /\ ~accepted
  /\ accepted' = TRUE
  /\ delivered' = [d \in DatagramIds |->
                     IF d \in Ids(flight.events) THEN delivered[d] + 1
                                                 ELSE delivered[d]]
  /\ UNCHANGED <<shared, fpc, flight, attempt>>

(* postJSON returns nil.  Assumed of the gateway: it answers 2xx only to a *)
(* request whose events it has taken in.                                   *)
PostSucceeds ==
  /\ fpc = "posting"
  /\ accepted
  /\ \E code \in Statuses : Success(code)
  /\ Settle("sent")

(* Mutant of PostFailsTransiently: one retry too many.                     *)
PostFailsOnceMore ==
  /\ fpc = "posting"
  /\ \E code \in Statuses \cup {NetworkError} :
       /\ Retryable(code)
       /\ \/ /\ attempt <= MaxRetries
             /\ attempt' = attempt + 1
             /\ fpc' = "backoff"
             /\ accepted' = FALSE
             /\ UNCHANGED <<shared, flight, delivered>>
          \/ /\ attempt > MaxRetries
             /\ Settle("flush_failed")

(* A transient failure: back off while retries are left, else drop.  The   *)
(* events may have been taken in (the answer was lost).                    *)
PostFailsTransiently ==
  /\ fpc = "posting"
  /\ \E code \in Statuses \cup {NetworkError} :
       /\ Retryable(code)
       /\ \/ /\ attempt < MaxRetries
             /\ attempt' = attempt + 1
             /\ fpc' = "backoff"
             /\ accepted' = FALSE
             /\ UNCHANGED <<shared, flight, delivered>>
          \/ /\ attempt = MaxRetries
             /\ Settle("flush_failed")

(* An answer that retrying will not fix.  Nothing is assumed of what the   *)
(* gateway did with the events before it gave it.                          *)
PostRejected ==
  /\ fpc = "posting"
  /\ \E code \in Statuses : ~Success(code) /\ ~Retryable(code)
  /\ Settle("flush_failed")

(* context.Canceled from a POST in progress.                               *)
PostCancelled ==
  /\ fpc = "posting"
  /\ ctxDone
  /\ Settle("shutdown")

(* send()'s select between time.After(d) and f.ctx.Done().                 *)
BackoffElapses ==
  /\ fpc = "backoff"
  /\ fpc' = "ready"
  /\ UNCHANGED <<shared, flight, attempt, accepted, delivered>>

BackoffCancelled ==
  /\ fpc = "backoff"
  /\ ctxDone
  /\ Settle("shutdown")

FlusherRun ==
  \/ TakeBatch
  \/ FlusherExit
  \/ StartPost
  \/ StartCancelled
  \/ PostSucceeds
  \/ PostFailsTransiently
  \/ PostRejected
  \/ PostCancelled
  \/ BackoffElapses
  \/ BackoffCancelled
=============================================================================
