------------------------------ MODULE Dispatch ------------------------------
(***************************************************************************)
(* The two goroutines a datagram passes through in the registry: the       *)
(* listener, which runs dispatch (and registerInline) for each datagram,   *)
(* and the demuxer.  Each load or store of registry.cur, each critical     *)
(* section and each channel operation is a step of its own, because the    *)
(* table can be swapped between any two of them.                           *)
(***************************************************************************)
EXTENDS Routing

CONSTANT Payloads   \* what extractAndStripFields can report of a datagram

(* form: "ok", or the fault dispatch tests for; project, or NoProject;     *)
(* token: a non-empty string `_token` was present.                         *)
ASSUME DispatchAssumption ==
  \A w \in Payloads : /\ w.form \in {"ok", "malformed", "bad_project", "bad_token"}
                      /\ w.project \in Projects \cup {NoProject}
                      /\ w.token \in BOOLEAN

VARIABLES
  received,  \* datagrams received so far
  lpc,       \* where the listener is: "bind", "read", "backoff", in
             \* dispatch, or "stopped"
  ldg,       \* its datagram
  lp,        \* dispatch's p
  lprev,     \* registerInline's prev
  xpc,       \* where the demuxer is: "recv", "lookup", "send" or "done"
  xdg,       \* its datagram
  xp         \* its pipeline

dispatchVars == <<received, lpc, ldg, lp, lprev, xpc, xdg, xp>>

NoDatagram == [id |-> 0, project |-> NoProject, token |-> FALSE]

DispatchInit ==
  /\ received = 0
  /\ lpc = "bind"
  /\ ldg = NoDatagram
  /\ lp = NoPipe
  /\ lprev = EmptyTable
  /\ xpc = "recv"
  /\ xdg = NoDatagram
  /\ xp = NoPipe

(* The drop decided before any lookup, if any.  A bad `_token` is only a   *)
(* fault when inline credentials are in use.                               *)
EarlyDrop(w) ==
  CASE w.form = "malformed" -> "parse_error"
    [] w.form = "bad_project" -> "unrouted_unknown"
    [] w.form = "bad_token" /\ InlineTokens -> "bad_token"
    [] OTHER -> "none"

(* ReadFrom returns a datagram and dispatch looks at its routing fields.   *)
Receive(w) ==
  /\ lpc = "read"
  /\ received < MaxDatagrams
  /\ received' = received + 1
  /\ \/ /\ EarlyDrop(w) # "none"
        /\ Settle(received', EarlyDrop(w))
        /\ UNCHANGED <<lpc, ldg>>
     \/ /\ EarlyDrop(w) = "none"
        /\ Settle(received', "dispatching")
        /\ lpc' = "lookup"
        /\ ldg' = [id |-> received', project |-> w.project,
                   token |-> InlineTokens /\ w.token]
  /\ UNCHANGED <<cur, pipes, sharedQ, sharedClosed, inlineMu, home, ctxDone, panicked>>
  /\ UNCHANGED <<lp, lprev, xpc, xdg, xp>>

(* dispatch returns, having accounted the datagram under outcome.          *)
Return(outcome) ==
  /\ Settle(ldg.id, outcome)
  /\ lpc' = "read"
  /\ ldg' = NoDatagram
  /\ lp' = NoPipe

Unrouted(project) ==
  IF project = NoProject THEN "unrouted_missing" ELSE "unrouted_unknown"

(* p, ok := r.lookup(project), and what dispatch does with the answer.     *)
DispatchLookup ==
  /\ lpc = "lookup"
  /\ \/ /\ Lookup(cur, ldg.project) # NoPipe
        /\ lp' = Lookup(cur, ldg.project)
        /\ lpc' = "check"
        /\ UNCHANGED <<fate, ldg>>
     \/ /\ Lookup(cur, ldg.project) = NoPipe
        /\ ldg.token /\ ldg.project # NoProject
        /\ lpc' = "register"
        /\ UNCHANGED <<fate, ldg, lp>>
     \/ /\ Lookup(cur, ldg.project) = NoPipe
        /\ ~(ldg.token /\ ldg.project # NoProject)
        /\ Return(Unrouted(ldg.project))
  /\ UNCHANGED <<cur, pipes, sharedQ, sharedClosed, inlineMu, home, ctxDone, panicked>>
  /\ UNCHANGED <<received, lprev, xpc, xdg, xp>>

(* registerInline: lock inlineMu and look again.                           *)
RegisterRecheck ==
  /\ lpc = "register"
  /\ inlineMu = "free"
  /\ \/ /\ Lookup(cur, ldg.project) # NoPipe
        /\ lp' = Lookup(cur, ldg.project)
        /\ lpc' = "check"
        /\ UNCHANGED inlineMu
     \/ /\ Lookup(cur, ldg.project) = NoPipe
        /\ inlineMu' = "dispatch"
        /\ lpc' = "register_load"
        /\ UNCHANGED lp
  /\ UNCHANGED <<cur, pipes, sharedQ, sharedClosed, fate, home, ctxDone, panicked>>
  /\ UNCHANGED <<received, ldg, lprev, xpc, xdg, xp>>

(* Mutant of RegisterLoad: the cap is tested with > instead of >=.         *)
RegisterLoadPastCap ==
  /\ lpc = "register_load"
  /\ \/ /\ TooMany(Cardinality(DOMAIN cur.map))
        /\ Return("unrouted_unknown")
        /\ inlineMu' = "free"
        /\ UNCHANGED <<pipes, lprev>>
     \/ /\ ~TooMany(Cardinality(DOMAIN cur.map))
        /\ lprev' = cur
        /\ lp' = <<ldg.project, Len(pipes[ldg.project]) + 1>>
        /\ pipes' = [pipes EXCEPT ![ldg.project] =
                       Append(@, [NewPipeline(NoKey, TRUE)
                                    EXCEPT !.stage = "running"])]
        /\ lpc' = "register_store"
        /\ UNCHANGED <<fate, ldg, inlineMu>>
  /\ UNCHANGED <<cur, sharedQ, sharedClosed, home, ctxDone, panicked>>
  /\ UNCHANGED <<received, xpc, xdg, xp>>

(* prev := r.cur.Load(), the cap, and a new pipeline that is started.      *)
RegisterLoad ==
  /\ lpc = "register_load"
  /\ \/ /\ MaxProjects > 0 /\ Cardinality(DOMAIN cur.map) >= MaxProjects
        /\ Return("unrouted_unknown")
        /\ inlineMu' = "free"
        /\ UNCHANGED <<pipes, lprev>>
     \/ /\ ~(MaxProjects > 0 /\ Cardinality(DOMAIN cur.map) >= MaxProjects)
        /\ lprev' = cur
        /\ lp' = <<ldg.project, Len(pipes[ldg.project]) + 1>>
        /\ pipes' = [pipes EXCEPT ![ldg.project] =
                       Append(@, [NewPipeline(NoKey, TRUE)
                                    EXCEPT !.stage = "running"])]
        /\ lpc' = "register_store"
        /\ UNCHANGED <<fate, ldg, inlineMu>>
  /\ UNCHANGED <<cur, sharedQ, sharedClosed, home, ctxDone, panicked>>
  /\ UNCHANGED <<received, xpc, xdg, xp>>

(* Mutant of RegisterStore: hasDefault is computed afresh, as buildTable   *)
(* does, instead of copied.                                                *)
RegisterStoreFlag ==
  /\ lpc = "register_store"
  /\ cur' = Table([p \in DOMAIN lprev.map \cup {ldg.project} |->
                     IF p = ldg.project THEN lp ELSE lprev.map[p]],
                  Default \in DOMAIN lprev.map \cup {ldg.project})
  /\ inlineMu' = "free"
  /\ lpc' = "check"
  /\ lprev' = EmptyTable
  /\ UNCHANGED <<pipes, sharedQ, sharedClosed, fate, home, ctxDone, panicked>>
  /\ UNCHANGED <<received, ldg, lp, xpc, xdg, xp>>

(* Publish the copy of prev with the new entry and unlock inlineMu.        *)
RegisterStore ==
  /\ lpc = "register_store"
  /\ cur' = Table([p \in DOMAIN lprev.map \cup {ldg.project} |->
                     IF p = ldg.project THEN lp ELSE lprev.map[p]],
                  lprev.hasDefault)
  /\ inlineMu' = "free"
  /\ lpc' = "check"
  /\ lprev' = EmptyTable
  /\ UNCHANGED <<pipes, sharedQ, sharedClosed, fate, home, ctxDone, panicked>>
  /\ UNCHANGED <<received, ldg, lp, xpc, xdg, xp>>

(* Mutant of DispatchCheck: no missing-token check.                        *)
DispatchCheckClosedOnly ==
  /\ lpc = "check"
  /\ pipes' = [pipes EXCEPT ![lp[1]][lp[2]].idle = FALSE]
  /\ \/ /\ At(lp).stage \in {"closed", "drained"}
        /\ Return("routing_closed")
     \/ /\ At(lp).stage \notin {"closed", "drained"}
        /\ lpc' = "enqueue"
        /\ UNCHANGED <<fate, ldg, lp>>
  /\ UNCHANGED <<cur, sharedQ, sharedClosed, inlineMu, home, ctxDone, panicked>>
  /\ UNCHANGED <<received, lprev, xpc, xdg, xp>>

(* The missing-token check, lastSeen, and the early test of p.closed.      *)
DispatchCheck ==
  /\ lpc = "check"
  /\ \/ /\ At(lp).inline /\ ~ldg.token
        /\ Return("missing_token")
        /\ UNCHANGED pipes
     \/ /\ ~(At(lp).inline /\ ~ldg.token)
        /\ pipes' = [pipes EXCEPT ![lp[1]][lp[2]].idle = FALSE]
        /\ \/ /\ At(lp).stage \in {"closed", "drained"}
              /\ Return("routing_closed")
           \/ /\ At(lp).stage \notin {"closed", "drained"}
              /\ lpc' = "enqueue"
              /\ UNCHANGED <<fate, ldg, lp>>
  /\ UNCHANGED <<cur, sharedQ, sharedClosed, inlineMu, home, ctxDone, panicked>>
  /\ UNCHANGED <<received, lprev, xpc, xdg, xp>>

(* Mutant of DispatchEnqueue: the queue takes one datagram too many.       *)
DispatchEnqueueOneMore ==
  /\ lpc = "enqueue"
  /\ LET room == ~sharedClosed /\ Len(sharedQ) <= QueueSize
     IN /\ sharedQ' = IF room THEN Append(sharedQ, ldg) ELSE sharedQ
        /\ Return(IF sharedClosed THEN "routing_closed"
                  ELSE IF room THEN "queued" ELSE "queue_full")
  /\ UNCHANGED <<cur, pipes, sharedClosed, inlineMu, home, ctxDone, panicked>>
  /\ UNCHANGED <<received, lprev, xpc, xdg, xp>>

(* The non-blocking send on sharedRawCh under sharedSendMu.  The listener  *)
(* adds queue_full when dispatch reports it.                               *)
DispatchEnqueue ==
  /\ lpc = "enqueue"
  /\ LET room == ~sharedClosed /\ Len(sharedQ) < QueueSize
     IN /\ sharedQ' = IF room THEN Append(sharedQ, ldg) ELSE sharedQ
        /\ Return(IF sharedClosed THEN "routing_closed"
                  ELSE IF room THEN "queued" ELSE "queue_full")
  /\ UNCHANGED <<cur, pipes, sharedClosed, inlineMu, home, ctxDone, panicked>>
  /\ UNCHANGED <<received, lprev, xpc, xdg, xp>>

ListenerMoves(from, to) ==
  /\ lpc = from
  /\ lpc' = to
  /\ UNCHANGED <<routingVars, received, ldg, lp, lprev, xpc, xdg, xp>>

(* bindUnixgram replaces a stale socket and binds; or the path holds       *)
(* something else, or the bind or the chmod fails, and listen returns an   *)
(* error.                                                                  *)
ListenerBinds == ListenerMoves("bind", "read")
ListenerFails == ListenerMoves("bind", "stopped")

(* The context is done and the socket closed: ReadFrom fails, or the sleep *)
(* after a read error ends, and listen returns.                            *)
ListenerStops ==
  /\ ctxDone
  /\ ListenerMoves("read", "stopped") \/ ListenerMoves("backoff", "stopped")

(* Any other read error is followed by a sleep, then the next read.        *)
ReadFails == ~ctxDone /\ ListenerMoves("read", "backoff")
ReadResumes == ListenerMoves("backoff", "read")

Listening ==
  ListenerBinds \/ ListenerFails \/ ListenerStops \/ ReadFails \/ ReadResumes

DispatchRun ==
  \/ DispatchLookup
  \/ RegisterRecheck
  \/ RegisterLoad
  \/ RegisterStore
  \/ DispatchCheck
  \/ DispatchEnqueue
-----------------------------------------------------------------------------
(* dg := range sharedRawCh.                                                *)
DemuxReceive ==
  /\ xpc = "recv"
  /\ sharedQ # <<>>
  /\ sharedQ' = Tail(sharedQ)
  /\ Settle(Head(sharedQ).id, "demuxing")
  /\ xpc' = "lookup"
  /\ xdg' = Head(sharedQ)
  /\ UNCHANGED <<cur, pipes, sharedClosed, inlineMu, home, ctxDone, panicked>>
  /\ UNCHANGED <<received, lpc, ldg, lp, lprev, xp>>

(* p, ok := r.lookup(dg.project) in the table of this moment.              *)
DemuxLookup ==
  /\ xpc = "lookup"
  /\ \/ /\ Lookup(cur, xdg.project) = NoPipe
        /\ Settle(xdg.id, "routing_closed")
        /\ xpc' = "recv"
        /\ xdg' = NoDatagram
        /\ UNCHANGED xp
     \/ /\ Lookup(cur, xdg.project) # NoPipe
        /\ xp' = Lookup(cur, xdg.project)
        /\ xpc' = "send"
        /\ UNCHANGED <<fate, xdg>>
  /\ UNCHANGED <<cur, pipes, sharedQ, sharedClosed, inlineMu, home, ctxDone, panicked>>
  /\ UNCHANGED <<received, lpc, ldg, lp, lprev>>

(* p.trySend(dg): closed, delivered, or its handoff channel is full, which *)
(* depends on the inside of the pipeline.                                  *)
DemuxSend ==
  /\ xpc = "send"
  /\ \/ /\ At(xp).stage \in {"closed", "drained"}
        /\ Settle(xdg.id, "routing_closed")
        /\ UNCHANGED home
     \/ /\ At(xp).stage \notin {"closed", "drained"}
        /\ Settle(xdg.id, "handed")
        /\ home' = [home EXCEPT ![xdg.id] = xp]
     \/ /\ At(xp).stage \notin {"closed", "drained"}
        /\ Settle(xdg.id, "queue_full")
        /\ UNCHANGED home
  /\ xpc' = "recv"
  /\ xdg' = NoDatagram
  /\ xp' = NoPipe
  /\ UNCHANGED <<cur, pipes, sharedQ, sharedClosed, inlineMu, ctxDone, panicked>>
  /\ UNCHANGED <<received, lpc, ldg, lp, lprev>>

(* The range over the closed, empty channel ends: close(demuxDone).        *)
DemuxExit ==
  /\ xpc = "recv"
  /\ sharedQ = <<>>
  /\ sharedClosed
  /\ xpc' = "done"
  /\ UNCHANGED <<routingVars, received, lpc, ldg, lp, lprev, xdg, xp>>

DemuxRun == DemuxReceive \/ DemuxLookup \/ DemuxSend \/ DemuxExit
=============================================================================
