------------------------------ MODULE Registry ------------------------------
(***************************************************************************)
(* The registry of routing.go with every goroutine main.go starts around   *)
(* it: the listener's dispatch, the demuxer, the reload loop, the expiry   *)
(* loop, the drain goroutines, and main's own shutdown sequence.           *)
(***************************************************************************)
EXTENDS Dispatch, Reload

VARIABLE mpc   \* main: "run", "stopping", "demux", "wait", "done"

vars == <<routingVars, dispatchVars, reloadVars, mpc>>

Init ==
  /\ \E f \in KeysFiles : /\ IF UseKeysFile
                             THEN LoadKeysFile(f) # Unreadable
                             ELSE LoadKeysFile(f) = NoKeys
                          /\ RoutingInit(LoadKeysFile(f))
                          /\ ReloadInit(f)
  /\ DispatchInit
  /\ mpc = "run"

(* Pipeline p after one of the goroutines to drain it has closed rawCh.    *)
Closed(p) == [p EXCEPT !.stage = "closed", !.drains = @ - 1]

(* A goroutine enters drain: closed = true and close(rawCh).  The second   *)
(* close of a channel panics and takes the process down.                   *)
DrainCloses(r) ==
  /\ At(r).drains > 0
  /\ IF At(r).stage \in {"closed", "drained"}
     THEN panicked' = TRUE /\ UNCHANGED pipes
     ELSE /\ pipes' = [pipes EXCEPT ![r[1]][r[2]] = Closed(@)]
          /\ UNCHANGED panicked
  /\ UNCHANGED <<cur, sharedQ, sharedClosed, inlineMu, fate, home, ctxDone>>

(* The batcher and the flusher are done (Pipeline!DrainTerminates).        *)
DrainReturns(r) ==
  /\ At(r).stage = "closed"
  /\ pipes' = [pipes EXCEPT ![r[1]][r[2]].stage = "drained"]
  /\ UNCHANGED <<cur, sharedQ, sharedClosed, inlineMu, fate, home, ctxDone,
                 panicked>>

(* SIGINT or SIGTERM.                                                      *)
Signal ==
  /\ mpc = "run"
  /\ mpc' = "stopping"
  /\ ctxDone' = TRUE
  /\ UNCHANGED <<cur, pipes, sharedQ, sharedClosed, inlineMu, fate, home,
                 panicked>>

(* case err := <-listenerErr before any signal: main cancels the context.  *)
ListenerGone ==
  /\ mpc = "run"
  /\ lpc = "stopped"
  /\ mpc' = "stopping"
  /\ ctxDone' = TRUE
  /\ UNCHANGED <<cur, pipes, sharedQ, sharedClosed, inlineMu, fate, home,
                 panicked>>

(* Mutant of ShutdownCloses: the shared queue is never closed.             *)
ShutdownLeavesOpen ==
  /\ mpc = "stopping"
  /\ lpc = "stopped"
  /\ rpc = "stopped"
  /\ mpc' = "demux"
  /\ UNCHANGED routingVars

(* <-listenerErr and <-hupDone, then shutdown's closeShared.               *)
ShutdownCloses ==
  /\ mpc = "stopping"
  /\ lpc = "stopped"
  /\ rpc = "stopped"
  /\ mpc' = "demux"
  /\ sharedClosed' = TRUE
  /\ UNCHANGED <<cur, pipes, sharedQ, inlineMu, fate, home, ctxDone, panicked>>

(* Mutant of ShutdownDrains: the demuxer is not waited for.                *)
ShutdownDrainsEarly ==
  /\ mpc = "demux"
  /\ mpc' = "wait"
  /\ SpawnDrains(InTable(cur))
  /\ UNCHANGED <<cur, sharedQ, sharedClosed, inlineMu, fate, home, ctxDone,
                 panicked>>

(* <-r.demuxDone, then a drain for every pipeline of the table loaded now. *)
ShutdownDrains ==
  /\ mpc = "demux"
  /\ xpc = "done"
  /\ mpc' = "wait"
  /\ SpawnDrains(InTable(cur))
  /\ UNCHANGED <<cur, sharedQ, sharedClosed, inlineMu, fate, home, ctxDone,
                 panicked>>

(* wg.Wait and drainsInFlight.Wait; main returns and the process exits.    *)
ShutdownReturns ==
  /\ mpc = "wait"
  /\ \A r \in Made : At(r).drains = 0 /\ At(r).stage # "closed"
  /\ mpc' = "done"
  /\ UNCHANGED routingVars

Main == Signal \/ ListenerGone \/ ShutdownCloses \/ ShutdownDrains \/ ShutdownReturns

Exited == mpc = "done" \/ panicked

Dispatching ==
  /\ ~Exited
  /\ (\E w \in Payloads : Receive(w)) \/ DispatchRun \/ Listening
  /\ UNCHANGED <<reloadVars, mpc>>

Demuxing == ~Exited /\ DemuxRun /\ UNCHANGED <<reloadVars, mpc>>

Reloading ==
  /\ ~Exited
  /\ ReloadStarts \/ ReloadRun \/ ReloadStops
  /\ UNCHANGED <<dispatchVars, mpc>>

Expiring == ~Exited /\ ExpireRun /\ UNCHANGED <<dispatchVars, mpc>>

Draining ==
  /\ ~Exited
  /\ \E r \in Made : DrainCloses(r) \/ DrainReturns(r)
  /\ UNCHANGED <<dispatchVars, reloadVars, mpc>>

Maining == ~Exited /\ Main /\ UNCHANGED <<dispatchVars, reloadVars>>

Environment ==
  /\ ~Exited
  /\ EditKeysFile \/ \E r \in Made : GoesIdle(r)
  /\ UNCHANGED <<dispatchVars, mpc>>

Next ==
  \/ Dispatching
  \/ Demuxing
  \/ Reloading
  \/ Expiring
  \/ Draining
  \/ Maining
  \/ Environment
  \/ Exited /\ UNCHANGED vars

Spec == Init /\ [][Next]_vars

(***************************************************************************)
(* Fairness.  Runnable goroutines run, the poll ticker ticks, and every    *)
(* drain returns (Pipeline!DrainTerminates).  The reload loop's select is  *)
(* random among its ready cases, so a cancelled context is eventually      *)
(* chosen although ticks keep arriving: strong fairness.  Nobody is        *)
(* obliged to send datagrams, to edit the file or to signal.               *)
(***************************************************************************)
Fairness ==
  /\ WF_vars(Dispatching /\ (lpc # "read" \/ ctxDone))
  /\ WF_vars(Demuxing)
  /\ WF_vars(Reloading)
  /\ SF_vars(Reloading /\ ReloadStops)
  /\ WF_vars(Draining)
  /\ WF_vars(Maining /\ (mpc # "run" \/ lpc = "stopped"))

FairSpec == Spec /\ Fairness
-----------------------------------------------------------------------------
Drops == {"parse_error", "unrouted_unknown", "unrouted_missing", "bad_token",
          "missing_token", "routing_closed", "queue_full"}

TypeOK ==
  /\ DOMAIN cur.map \subseteq Projects
  /\ InTable(cur) \subseteq Made
  /\ cur.hasDefault \in BOOLEAN
  /\ \A r \in Made : At(r).stage \in {"fresh", "running", "closed", "drained"}
  /\ Len(sharedQ) <= QueueSize
  /\ inlineMu \in {"free", "dispatch", "expiry"}
  /\ \A d \in 1 .. MaxDatagrams :
       /\ fate[d] \in Drops \cup {"unsent", "dispatching", "queued",
                                  "demuxing", "handed"}
       /\ home[d] \in Made \cup {NoPipe}
  /\ mpc \in {"run", "stopping", "demux", "wait", "done"}

(* No pipeline is drained twice, which would close a closed channel and    *)
(* crash the agent (routing.go drain; reload, expireInline and shutdown    *)
(* each start drains from a table they loaded earlier).                    *)
NoDoubleDrain == ~panicked

(* Until shutdown starts draining, whatever table dispatch and demux read, *)
(* its pipelines run and nobody is about to drain them: reload starts them *)
(* before the swap, and drains only what the swap removed.                 *)
TableUsable ==
  mpc \in {"run", "stopping", "demux"} =>
    \A r \in InTable(cur) : At(r).stage = "running" /\ At(r).drains = 0

(* When main returns, no datagram is left in dispatch, in the shared queue *)
(* or in the demuxer, and one that a pipeline took is in a pipeline whose  *)
(* drain has returned (routing.go shutdown, "no in-flight datagrams are    *)
(* stranded").                                                             *)
ShutdownStrandsNothing ==
  mpc = "done" =>
    \A d \in 1 .. MaxDatagrams :
      /\ fate[d] \in Drops \cup {"unsent", "handed"}
      /\ fate[d] = "handed" => At(home[d]).stage = "drained"

(* Keys file and inline registrations share one budget: however reload and *)
(* registration interleave, no published table exceeds it.                 *)
WithinBudget ==
  MaxProjects > 0 => Cardinality(DOMAIN cur.map) <= MaxProjects

(* The cached flag can be trusted by lookup's fast path: behind it there   *)
(* is a default pipeline, and one with a credential of its own, so that an *)
(* untagged datagram never falls back to an inline pipeline.               *)
DefaultRoutable ==
  cur.hasDefault => Default \in DOMAIN cur.map /\ ~At(cur.map[Default]).inline

(* A datagram without a token never reaches an inline pipeline, which      *)
(* would POST it under an empty bearer (routing.go dispatch: "Drop it here *)
(* rather than letting the batcher assemble events the flusher would POST  *)
(* under an empty bearer").                                                *)
NoTokenlessInline ==
  xpc = "send" /\ ~xdg.token => ~At(xp).inline

(* The routes a readable file within the budget asks for are installed.    *)
Installed(fileKeys) ==
  LET keys == WithApiKey(fileKeys)
  IN /\ DOMAIN cur.map = DOMAIN keys
     /\ \A p \in DOMAIN keys : At(cur.map[p]).key = keys[p]
     /\ cur.hasDefault <=> Default \in DOMAIN keys

(* The poll makes the table follow the file: once the file stops changing, *)
(* its routes are installed for good, unless it is unreadable or too long  *)
(* or the agent is going down (main.go, reload loop).                      *)
ReloadConverges ==
  <>[](\/ ctxDone
       \/ LoadKeysFile(keysFile) = Unreadable
       \/ TooMany(Cardinality(DOMAIN WithApiKey(LoadKeysFile(keysFile))))
       \/ Installed(LoadKeysFile(keysFile)))

(* A signal, and a listener that cannot bind, leads to the end of main:    *)
(* listener, reload loop, demuxer and drains are waited for in an order    *)
(* that cannot block, a listener that sleeps after a read error included   *)
(* (main.go, listen, shutdown).                                            *)
ShutdownCompletes == (ctxDone \/ lpc = "stopped") ~> (mpc = "done")

(* MESH0_API_KEY is process-lifetime (routing.go reload): whatever the     *)
(* keys file comes to hold, the fallback route stays with the pipeline it  *)
(* had at the start.                                                       *)
ApiKeyStands ==
  ApiKey # NoKey => /\ Lookup(cur, Default) = <<Default, 1>>
                    /\ At(<<Default, 1>>).key = ApiKey
=============================================================================
