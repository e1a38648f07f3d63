---------------------------- MODULE RetireProofs ----------------------------
(***************************************************************************)
(* What happens to the pipelines behind the routing tables, for all values *)
(* of the constants other than two combinations of features: OneSource     *)
(* excludes the one registry_lost_update refutes, NoExpiry that shutdown   *)
(* drains what expireInline is about to drain.                             *)
(*                                                                         *)
(* With one source of routes, keys file or inline registration, a table    *)
(* under construction is computed from the table it replaces (Current):    *)
(* reload runs in one goroutine, and registerInline and expireInline hold  *)
(* inlineMu from their load to their store.  So a pipeline leaves the      *)
(* published table before it is drained (Usable).  Without expiry it is    *)
(* drained by whoever took it out of the table, or by shutdown, never by   *)
(* both (Once), and by one of them for certain (Covered).                  *)
(*                                                                         *)
(* dispatch tests the pipeline its lookup finds for a datagram without a   *)
(* token, and the demuxer looks the project up again when the table may be *)
(* another one.  Tokenless says of a datagram dispatch has let through     *)
(* that the second lookup can only find the fallback, the one pipeline     *)
(* that is not inline; the run registry_tokenless refutes it without       *)
(* OneSource.                                                              *)
(***************************************************************************)
EXTENDS RegistryProofs

(* The hypotheses of the theorems: not both a keys file and inline tokens; *)
(* no expiry of inline pipelines.                                          *)
OneSource == ~(InlineTokens /\ UseKeysFile)
NoExpiry == ~(InlineTokens /\ InlineIdle)

(* What is said of a pipeline: made but not started, running and not to be *)
(* drained, being drained, drained at most once.                           *)
Unstarted(r) == At(r).stage = "fresh" /\ At(r).drains = 0
Ready(r) == At(r).stage = "running" /\ At(r).drains = 0
Retiring(r) == At(r).drains > 0 \/ At(r).stage \in {"closed", "drained"}
Single(r) == At(r).drains = 0 \/ (At(r).drains = 1 /\ At(r).stage = "running")

(* What cannot run at the same time.                                       *)
Modes ==
  /\ ~UseKeysFile => rpc \in {"idle", "stopped"}
  /\ ldg.token => InlineTokens
  /\ ~InlineTokens => lpc \notin Registering /\ epc = "idle"
  /\ ~InlineIdle => epc = "idle"
  /\ mpc \notin {"run", "stopping"} => lpc = "stopped" /\ rpc = "stopped"
  /\ inlineMu = "dispatch" <=> lpc \in {"register_load", "register_store"}
  /\ inlineMu = "expiry" <=> epc = "store"

(* The table under construction is made from the one it replaces.          *)
Current ==
  /\ lpc \in {"register_load", "register_store"} => ldg.project \notin DOMAIN cur.map
  /\ lpc = "register_store" => lprev = cur /\ lp \notin retired
  /\ rpc \in {"start", "store"} => rprev = cur
  /\ rpc = "drain" => cur = rtbl
  /\ epc = "store" => InTable(enext) \subseteq InTable(cur) \ retired
  /\ epc = "drain" => retired \cap InTable(cur) = {}
  /\ epc = "idle" => retired = {}
  /\ retired \subseteq Made

(* The pipelines that are published, or will be.                           *)
Usable ==
  /\ TableUsable
  /\ lpc = "register_store" => Ready(lp) /\ lp \notin InTable(cur)
  /\ rpc = "start" => \A r \in InTable(rtbl) \ InTable(rprev) : Unstarted(r)
  /\ rpc = "store" => \A r \in InTable(rtbl) \ InTable(rprev) : Ready(r)

(* The inductive invariant of the tables and the pipelines in them.        *)
UsableInv == TableInv /\ Modes /\ Current /\ Usable

(* Nobody has drained what reload is about to drain.                       *)
Once ==
  /\ ~panicked
  /\ \A r \in Made : Single(r)
  /\ rpc = "drain" => \A r \in InTable(rprev) \ InTable(rtbl) :
                        r \in Made /\ Ready(r)

(* Every pipeline is published, about to be, about to be drained by reload *)
(* or being drained; and shutdown leaves none of the first kind.           *)
Covered ==
  /\ mpc \in {"run", "stopping", "demux"} =>
       \A r \in Made : \/ r \in InTable(cur)
                       \/ Retiring(r)
                       \/ lpc = "register_store" /\ r = lp
                       \/ rpc \in {"start", "store"} /\ r \in InTable(rtbl)
                       \/ rpc = "drain" /\ r \in InTable(rprev) \ InTable(rtbl)
  /\ mpc = "wait" => \A r \in Made : Retiring(r)
  /\ mpc = "done" => \A r \in Made : At(r).stage = "drained"

(* A datagram that is neither dropped nor handed over is where its fate    *)
(* says, and what holds it is done with it before shutdown goes on.        *)
Placed ==
  /\ \A d \in 1 .. MaxDatagrams :
       /\ fate[d] = "dispatching" => lpc \notin {"bind", "read", "backoff", "stopped"}
                                     /\ ldg.id = d
       /\ fate[d] = "queued" => \E i \in DOMAIN sharedQ : sharedQ[i].id = d
       /\ fate[d] = "demuxing" => xpc \in {"lookup", "send"} /\ xdg.id = d
       /\ fate[d] = "handed" => home[d] # NoPipe
  /\ xpc = "done" => sharedQ = <<>> /\ sharedClosed
  /\ mpc \in {"wait", "done"} => xpc = "done"

(* The inductive invariant of the drains and of shutdown.                  *)
DrainInv == UsableInv /\ Once /\ Covered /\ Placed
-----------------------------------------------------------------------------
(* What the steps do to pipelines.  Untouched: neither stage nor drains.   *)
Untouched(r) ==
  /\ At(r)'.stage = At(r).stage
  /\ At(r)'.drains = At(r).drains
  /\ At(r)'.inline = At(r).inline

AllUntouched == Made' = Made /\ \A r \in Made : Untouched(r)

(* A step that leaves pipes alone touches no pipeline.                     *)
LEMMA UnchangedEffect == UNCHANGED pipes => AllUntouched
BY DEF AllUntouched, Untouched, Made, At

(* A change of the one pipeline r.                                         *)
LEMMA ChangeEffect ==
  ASSUME PipesOK, NEW r \in Made, NEW x, pipes' = [pipes EXCEPT ![r[1]][r[2]] = x]
  PROVE  /\ Made' = Made
         /\ At(r)' = x
         /\ \A s \in Made : s # r => At(s)' = At(s)
<1>1. PICK p \in Projects : \E g \in DOMAIN pipes[p] : r = <<p, g>>
  BY DEF Made
<1>2. PICK g \in DOMAIN pipes[p] : r = <<p, g>>
  BY <1>1
<1>3. pipes' = [pipes EXCEPT ![p] = [pipes[p] EXCEPT ![g] = x]]
  BY <1>2
<1>4. \A q \in Projects : /\ DOMAIN pipes'[q] = DOMAIN pipes[q]
                          /\ \A h \in DOMAIN pipes[q] :
                               pipes'[q][h] = IF q = p /\ h = g THEN x ELSE pipes[q][h]
  BY <1>1, <1>2, <1>3 DEF PipesOK
<1>5. Made' = Made
  BY <1>4 DEF Made
<1>6. At(r)' = x
  BY <1>1, <1>2, <1>4 DEF At
<1>7. ASSUME NEW s \in Made, s # r PROVE At(s)' = At(s)
  <2>1. PICK q \in Projects : \E h \in DOMAIN pipes[q] : s = <<q, h>>
    BY DEF Made
  <2>2. PICK h \in DOMAIN pipes[q] : s = <<q, h>>
    BY <2>1
  <2>3. ~(q = p /\ h = g)
    BY <1>2, <1>7, <2>2
  <2> QED BY <1>4, <2>1, <2>2, <2>3 DEF At
<1> QED BY <1>5, <1>6, <1>7

(* SpawnDrains and SetStage.                                               *)
LEMMA SpawnEffect ==
  ASSUME PipesOK, NEW rs, SpawnDrains(rs)
  PROVE  /\ Made' = Made
         /\ \A r \in Made :
              /\ At(r)'.stage = At(r).stage
              /\ At(r)'.inline = At(r).inline
              /\ At(r)'.drains = IF r \in rs THEN At(r).drains + 1 ELSE At(r).drains
<1>1. \A p \in Projects : /\ DOMAIN pipes'[p] = DOMAIN pipes[p]
                          /\ \A g \in DOMAIN pipes[p] :
                               pipes'[p][g] = IF <<p, g>> \in rs
                                              THEN [pipes[p][g] EXCEPT !.drains = @ + 1]
                                              ELSE pipes[p][g]
  BY DEF SpawnDrains
<1>2. Made' = Made
  BY <1>1 DEF Made
<1>3. ASSUME NEW r \in Made
      PROVE  /\ At(r)'.stage = At(r).stage
             /\ At(r)'.inline = At(r).inline
             /\ At(r)'.drains = IF r \in rs THEN At(r).drains + 1 ELSE At(r).drains
  <2>1. PICK p \in Projects : \E g \in DOMAIN pipes[p] : r = <<p, g>>
    BY DEF Made
  <2>2. PICK g \in DOMAIN pipes[p] : r = <<p, g>>
    BY <2>1
  <2>3. At(r) = pipes[p][g] /\ At(r)' = pipes'[p][g] /\ pipes[p][g] \in Pipelines
    BY <2>1, <2>2 DEF At, PipesOK
  <2>4. CASE r \in rs
    <3>1. pipes'[p][g] = [pipes[p][g] EXCEPT !.drains = @ + 1]
      BY <1>1, <2>1, <2>2, <2>4
    <3> QED BY <2>3, <2>4, <3>1 DEF Pipelines
  <2>5. CASE r \notin rs
    BY <1>1, <2>1, <2>2, <2>3, <2>5
  <2> QED BY <2>4, <2>5
<1> QED BY <1>2, <1>3

(* Starting the pipelines of rs changes their stage and nothing else.      *)
LEMMA StageEffect ==
  ASSUME PipesOK, NEW rs, NEW stage, SetStage(rs, stage)
  PROVE  /\ Made' = Made
         /\ \A r \in Made :
              /\ At(r)'.stage = IF r \in rs THEN stage ELSE At(r).stage
              /\ At(r)'.inline = At(r).inline
              /\ At(r)'.drains = At(r).drains
<1>1. \A p \in Projects : /\ DOMAIN pipes'[p] = DOMAIN pipes[p]
                          /\ \A g \in DOMAIN pipes[p] :
                               pipes'[p][g] = IF <<p, g>> \in rs
                                              THEN [pipes[p][g] EXCEPT !.stage = stage]
                                              ELSE pipes[p][g]
  BY DEF SetStage
<1>2. Made' = Made
  BY <1>1 DEF Made
<1>3. ASSUME NEW r \in Made
      PROVE  /\ At(r)'.stage = IF r \in rs THEN stage ELSE At(r).stage
             /\ At(r)'.inline = At(r).inline
             /\ At(r)'.drains = At(r).drains
  <2>1. PICK p \in Projects : \E g \in DOMAIN pipes[p] : r = <<p, g>>
    BY DEF Made
  <2>2. PICK g \in DOMAIN pipes[p] : r = <<p, g>>
    BY <2>1
  <2>3. At(r) = pipes[p][g] /\ At(r)' = pipes'[p][g] /\ pipes[p][g] \in Pipelines
    BY <2>1, <2>2 DEF At, PipesOK
  <2>4. CASE r \in rs
    <3>1. pipes'[p][g] = [pipes[p][g] EXCEPT !.stage = stage]
      BY <1>1, <2>1, <2>2, <2>4
    <3> QED BY <2>3, <2>4, <3>1 DEF Pipelines
  <2>5. CASE r \notin rs
    BY <1>1, <2>1, <2>2, <2>3, <2>5
  <2> QED BY <2>4, <2>5
<1> QED BY <1>2, <1>3

(* New pipelines: the next ones of some of the projects.                   *)
Fresh(ps) == {<<p, Len(pipes[p]) + 1>> : p \in ps}

(* Appending new pipelines leaves the others as they are.                  *)
LEMMA AddEffect ==
  ASSUME PipesOK, NEW new, DOMAIN new \subseteq Projects,
         pipes' = [p \in Projects |-> IF p \in DOMAIN new THEN Append(pipes[p], new[p])
                                                          ELSE pipes[p]]
  PROVE  /\ Made' = Made \cup Fresh(DOMAIN new)
         /\ \A r \in Fresh(DOMAIN new) : r \notin Made /\ At(r)' = new[r[1]]
         /\ \A r \in Made : At(r)' = At(r)
<1>0. \A p \in Projects : Len(pipes[p]) \in Nat /\ DOMAIN pipes[p] = 1 .. Len(pipes[p])
  BY DEF PipesOK
<1>1. ASSUME NEW p \in DOMAIN new
      PROVE  /\ DOMAIN pipes'[p] = DOMAIN pipes[p] \cup {Len(pipes[p]) + 1}
             /\ Len(pipes[p]) + 1 \notin DOMAIN pipes[p]
             /\ pipes'[p][Len(pipes[p]) + 1] = new[p]
             /\ \A g \in DOMAIN pipes[p] : pipes'[p][g] = pipes[p][g]
  <2>1. pipes'[p] = Append(pipes[p], new[p]) /\ p \in Projects
    BY <1>1
  <2>2. pipes[p] \in Seq(Pipelines)
    BY <2>1 DEF PipesOK
  <2> QED BY <1>0, <2>1, <2>2
<1>2. \A p \in Projects \ DOMAIN new : pipes'[p] = pipes[p]
  OBVIOUS
<1>3. Made' = Made \cup Fresh(DOMAIN new)
  <2>1. ASSUME NEW r \in Made' PROVE r \in Made \cup Fresh(DOMAIN new)
    <3>1. PICK p \in Projects : \E g \in DOMAIN pipes'[p] : r = <<p, g>>
      BY DEF Made
    <3> QED BY <1>1, <1>2, <3>1 DEF Made, Fresh
  <2>2. ASSUME NEW r \in Made \cup Fresh(DOMAIN new) PROVE r \in Made'
    <3>1. CASE r \in Fresh(DOMAIN new)
      BY <1>1, <3>1 DEF Made, Fresh
    <3>2. CASE r \in Made
      BY <1>1, <1>2, <3>2 DEF Made
    <3> QED BY <2>2, <3>1, <3>2
  <2> QED BY <2>1, <2>2
<1>4. ASSUME NEW r \in Fresh(DOMAIN new) PROVE r \notin Made /\ At(r)' = new[r[1]]
  <2>1. PICK p \in DOMAIN new : r = <<p, Len(pipes[p]) + 1>>
    BY DEF Fresh
  <2> QED BY <1>1, <2>1 DEF Made, At
<1>5. ASSUME NEW r \in Made PROVE At(r)' = At(r)
  <2>1. PICK p \in Projects : \E g \in DOMAIN pipes[p] : r = <<p, g>>
    BY DEF Made
  <2> QED BY <1>1, <1>2, <2>1 DEF At
<1> QED BY <1>3, <1>4, <1>5

-----------------------------------------------------------------------------
(* Every step keeps Modes: a goroutine takes a lock that is free, and main *)
(* goes on when listener and reload loop have stopped.                     *)
LEMMA ModesStep ==
  ASSUME TableInv, Modes, [Next]_vars
  PROVE  Modes'
<1> USE DEF Modes, Registering
<1>1. CASE UNCHANGED vars
  BY <1>1 DEF vars, routingVars, dispatchVars, reloadVars
<1>2. CASE Dispatching
  <2>0. UNCHANGED <<rpc, epc, mpc>>
    BY <1>2 DEF Dispatching, reloadVars
  <2>1. CASE \E w \in Payloads : Receive(w)
    <3>1. PICK w \in Payloads : Receive(w)
      BY <2>1
    <3>2. ldg' = ldg \/ ldg'.token = (InlineTokens /\ w.token)
      BY <3>1 DEF Receive
    <3>3. w.token \in BOOLEAN
      BY DispatchAssumption
    <3>4. ldg'.token => InlineTokens
      BY <3>2, <3>3
    <3>5. UNCHANGED inlineMu /\ lpc = "read" /\ lpc' \in {"read", "lookup"}
      BY <3>1 DEF Receive
    <3> QED BY <2>0, <3>4, <3>5
  <2>2. ASSUME DispatchRun
        PROVE  ldg'.token => InlineTokens
    <3>1. ldg' \in {ldg, NoDatagram}
      BY <2>2 DEF DispatchRun, DispatchLookup, RegisterRecheck, RegisterLoad, RegisterStore,
                  DispatchCheck, DispatchEnqueue, Return
    <3> QED BY <3>1 DEF NoDatagram
  <2>3. CASE DispatchLookup
    <3>1. /\ lpc = "lookup" /\ lpc' \in {"check", "register", "read"}
          /\ lpc' = "register" => ldg.token
          /\ UNCHANGED inlineMu
      BY <2>3 DEF DispatchLookup, Return
    <3> QED BY <2>0, <2>2, <2>3, <3>1 DEF DispatchRun
  <2>4. CASE RegisterRecheck
    <3>1. /\ lpc = "register" /\ inlineMu = "free"
          /\ \/ lpc' = "check" /\ UNCHANGED inlineMu
             \/ lpc' = "register_load" /\ inlineMu' = "dispatch"
      BY <2>4 DEF RegisterRecheck
    <3> QED BY <2>0, <2>2, <2>4, <3>1 DEF DispatchRun
  <2>5. CASE RegisterLoad
    <3>1. /\ lpc = "register_load"
          /\ \/ lpc' = "read" /\ inlineMu' = "free"
             \/ lpc' = "register_store" /\ UNCHANGED inlineMu
      BY <2>5 DEF RegisterLoad, Return
    <3> QED BY <2>0, <2>2, <2>5, <3>1 DEF DispatchRun
  <2>6. CASE RegisterStore
    <3>1. lpc = "register_store" /\ lpc' = "check" /\ inlineMu' = "free"
      BY <2>6 DEF RegisterStore
    <3> QED BY <2>0, <2>2, <2>6, <3>1 DEF DispatchRun
  <2>7. CASE DispatchCheck \/ DispatchEnqueue
    <3>1. lpc \in {"check", "enqueue"} /\ lpc' \in {"read", "enqueue"} /\ UNCHANGED inlineMu
      BY <2>7 DEF DispatchCheck, DispatchEnqueue, Return
    <3> QED BY <2>0, <2>2, <2>7, <3>1 DEF DispatchRun
  <2>8. CASE Listening
    <3>1. /\ lpc \in {"bind", "read", "backoff"} /\ lpc' \in {"read", "backoff", "stopped"}
          /\ UNCHANGED <<inlineMu, ldg>>
      BY <2>8 DEF Listening, ListenerBinds, ListenerFails, ListenerStops, ReadFails,
                  ReadResumes, ListenerMoves, routingVars
    <3> QED BY <2>0, <3>1
  <2> QED
    BY <1>2, <2>1, <2>3, <2>4, <2>5, <2>6, <2>7, <2>8 DEF Dispatching, DispatchRun
<1>3. CASE Demuxing
  <2>1. UNCHANGED <<rpc, epc, mpc, lpc, ldg, inlineMu>>
    BY <1>3 DEF Demuxing, reloadVars, DemuxRun, DemuxReceive, DemuxLookup, DemuxSend, DemuxExit, routingVars
  <2> QED BY <2>1
<1>4. CASE Reloading
  <2>1. UNCHANGED <<epc, mpc, lpc, ldg, inlineMu>>
    BY <1>4 DEF Reloading, dispatchVars, ReloadStarts, ReloadRun, ReloadLoad, ReloadBuild,
                ReloadStart, ReloadStore, ReloadDrain, ReloadStops, routingVars
  <2>2. /\ rpc # "stopped"
        /\ rpc = "idle" => UseKeysFile \/ rpc' = "stopped"
    BY <1>4 DEF Reloading, ReloadStarts, ReloadRun, ReloadLoad, ReloadBuild,
                ReloadStart, ReloadStore, ReloadDrain, ReloadStops
  <2> QED BY <2>1, <2>2
<1>5. CASE Expiring
  <2>1. UNCHANGED <<rpc, mpc, lpc, ldg>>
    BY <1>5 DEF Expiring, dispatchVars, ExpireRun, ExpireCollect, ExpireStore, ExpireDrain
  <2>2. \/ /\ epc = "idle" /\ epc' = "store" /\ inlineMu = "free" /\ inlineMu' = "expiry"
           /\ InlineTokens /\ InlineIdle
        \/ epc = "store" /\ epc' = "drain" /\ inlineMu' = "free"
        \/ epc = "drain" /\ epc' = "idle" /\ UNCHANGED inlineMu
    BY <1>5 DEF Expiring, ExpireRun, ExpireCollect, ExpireStore, ExpireDrain
  <2> QED BY <2>1, <2>2
<1>6. CASE Draining \/ Environment
  <2>1. UNCHANGED <<rpc, epc, mpc, lpc, ldg, inlineMu>>
    BY <1>6 DEF Draining, Environment, DrainCloses, DrainReturns, EditKeysFile, GoesIdle,
                dispatchVars, reloadVars, routingVars
  <2> QED BY <2>1
<1>7. CASE Maining
  <2>1. UNCHANGED <<rpc, epc, lpc, ldg, inlineMu>>
    BY <1>7 DEF Maining, Main, Signal, ListenerGone, ShutdownCloses, ShutdownDrains,
                ShutdownReturns, dispatchVars, reloadVars, routingVars
  <2>2. \/ mpc' = "stopping"
        \/ lpc = "stopped" /\ rpc = "stopped"
        \/ mpc \notin {"run", "stopping"}
    BY <1>7 DEF Maining, Main, Signal, ListenerGone, ShutdownCloses, ShutdownDrains,
                ShutdownReturns
  <2> QED BY <2>1, <2>2
<1> QED BY <1>1, <1>2, <1>3, <1>4, <1>5, <1>6, <1>7 DEF Next

(* The pipelines of a table were made, and pipelines stay made.            *)
LEMMA TableMade ==
  ASSUME NEW t, TableOK(t, pipes)
  PROVE  InTable(t) \subseteq Made
BY MadeIsPipe DEF TableOK, InTable, Range, IsPipe

(* Pipelines are never removed.                                            *)
LEMMA MadeGrows ==
  ASSUME Evolves
  PROVE  Made \subseteq Made'
BY DEF Evolves, Grown, Made

(* What registerInline publishes: the table it loaded and its pipeline.    *)
LEMMA Registered ==
  ASSUME RegisterStore, lprev = cur
  PROVE  InTable(cur') \subseteq InTable(cur) \cup {lp}
<1>1. /\ DOMAIN cur'.map = DOMAIN cur.map \cup {ldg.project}
      /\ \A p \in DOMAIN cur'.map :
           cur'.map[p] = IF p = ldg.project THEN lp ELSE cur.map[p]
  BY DEF RegisterStore, Table
<1> QED BY <1>1 DEF InTable, Range

(* What expireInline keeps.                                                *)
LEMMA Collected ==
  ASSUME ExpireCollect
  PROVE  /\ InTable(enext') \subseteq InTable(cur) \ retired'
         /\ retired' \subseteq InTable(cur)
<1>1. /\ DOMAIN enext'.map = {p \in DOMAIN cur.map : cur.map[p] \notin Idle(cur)}
      /\ \A p \in DOMAIN enext'.map : enext'.map[p] = cur.map[p]
  BY DEF ExpireCollect, Table, RestrictValues, Restrict
<1>2. retired' = Idle(cur)
  BY DEF ExpireCollect
<1> QED BY <1>1, <1>2 DEF InTable, Range, Idle

(* A step that leaves the tables, published and under construction, alone. *)
LEMMA CurrentKept ==
  ASSUME Current, Evolves, UNCHANGED <<cur, retired>>,
         lpc' \in {"register_load", "register_store"} =>
           lpc \in {"register_load", "register_store"} /\ ldg' = ldg,
         lpc' = "register_store" =>
           lpc = "register_store" /\ UNCHANGED <<lp, lprev>>,
         rpc' \in {"start", "store"} => rpc \in {"start", "store"} /\ rprev' = rprev,
         rpc' = "drain" => rpc = "drain" /\ rtbl' = rtbl,
         epc' = epc, enext' = enext
  PROVE  Current'
<1>1. InTable(cur)' = InTable(cur) /\ InTable(enext)' = InTable(enext)
  BY DEF InTable
<1>2. retired' \subseteq Made'
  BY MadeGrows DEF Current
<1> QED BY <1>1, <1>2 DEF Current

(* Every step keeps Current: whoever replaces the table holds what keeps   *)
(* the others of its kind out, and with one source there is one kind.      *)
LEMMA CurrentStep ==
  ASSUME OneSource, TableInv, Modes, Current, [Next]_vars
  PROVE  Current'
<1>0. Evolves
  BY StepTableInv
<1>a. /\ lpc \in {"register_load", "register_store"} => rpc \in {"idle", "stopped"}
      /\ epc # "idle" => rpc \in {"idle", "stopped"}
  BY RoutingAssumption, ReloadAssumption DEF Modes, OneSource, Registering
<1>1. CASE UNCHANGED vars
  BY <1>0, <1>1, CurrentKept DEF vars, routingVars, dispatchVars, reloadVars
<1>2. CASE Dispatching
  <2>0. UNCHANGED <<rpc, rprev, rtbl, epc, enext, retired>>
    BY <1>2 DEF Dispatching, reloadVars
  <2>1. CASE RegisterRecheck
    <3>1. UNCHANGED <<cur, ldg>> /\ lpc = "register" /\ lpc' \in {"check", "register_load"}
          /\ (lpc' = "register_load" => Lookup(cur, ldg.project) = NoPipe)
      BY <2>1 DEF RegisterRecheck
    <3>2. ldg.project \in Projects /\ TableOK(cur, pipes)
      BY <3>1 DEF TableInv, HoldersOK, TablesOK
    <3>3. lpc' = "register_load" => ldg'.project \notin DOMAIN cur'.map
      BY <3>1, <3>2, LookupMisses
    <3>4. InTable(cur)' = InTable(cur) /\ InTable(enext)' = InTable(enext)
          /\ retired' \subseteq Made'
      BY <1>0, <2>0, <3>1, MadeGrows DEF InTable, Current
    <3> QED BY <2>0, <3>1, <3>3, <3>4 DEF Current
  <2>2. CASE RegisterLoad
    <3>1. cur' = cur /\ lpc = "register_load"
      BY <2>2 DEF RegisterLoad
    <3>2. CASE lpc' = "read"
      BY <1>0, <2>0, <3>1, <3>2, CurrentKept
    <3>3. CASE lpc' # "read"
      <4>1. /\ lpc' = "register_store" /\ lprev' = cur /\ ldg' = ldg
            /\ lp' = <<ldg.project, Len(pipes[ldg.project]) + 1>>
        BY <2>2, <3>3 DEF RegisterLoad, Return
      <4>2. ldg.project \in Projects
        BY <3>1 DEF TableInv, HoldersOK
      <4>3. lp' \notin Made
        <5>1. Len(pipes[ldg.project]) + 1 \notin DOMAIN pipes[ldg.project]
          BY <4>2 DEF TableInv, PipesOK
        <5> QED BY <4>1, <4>2, <5>1 DEF Made
      <4>4. lp' \notin retired'
        BY <2>0, <4>3 DEF Current
      <4>5. InTable(cur)' = InTable(cur) /\ InTable(enext)' = InTable(enext)
            /\ retired' \subseteq Made'
        BY <1>0, <2>0, <3>1, MadeGrows DEF InTable, Current
      <4> QED BY <2>0, <3>1, <4>1, <4>4, <4>5 DEF Current
    <3> QED BY <3>2, <3>3
  <2>3. CASE RegisterStore
    <3>1. lpc = "register_store" /\ lpc' = "check" /\ UNCHANGED pipes
      BY <2>3 DEF RegisterStore
    <3>2. InTable(cur') \subseteq InTable(cur) \cup {lp} /\ lp \notin retired
      BY <2>3, <3>1, Registered DEF Current
    <3>3. epc # "store" /\ rpc \in {"idle", "stopped"}
      BY <1>a, <3>1 DEF Modes
    <3>4. epc = "drain" => retired' \cap InTable(cur') = {}
      BY <2>0, <3>2 DEF Current
    <3>5. retired' \subseteq Made' /\ (epc = "idle" => retired' = {})
      BY <1>0, <2>0, MadeGrows DEF Current
    <3>6. InTable(cur)' = InTable(cur')
      BY DEF InTable
    <3> QED BY <2>0, <3>1, <3>3, <3>4, <3>5, <3>6 DEF Current
  <2>4. ASSUME DispatchLookup \/ DispatchCheck \/ DispatchEnqueue \/ Listening
               \/ \E w \in Payloads : Receive(w)
        PROVE  Current'
    <3>1. UNCHANGED cur
          /\ lpc' \in {"check", "register", "read", "enqueue", "backoff", "stopped", "lookup"}
      BY <2>4 DEF DispatchLookup, DispatchCheck, DispatchEnqueue, Return, Receive, Listening,
                  ListenerBinds, ListenerFails, ListenerStops, ReadFails, ReadResumes,
                  ListenerMoves, routingVars
    <3> QED BY <1>0, <2>0, <3>1, CurrentKept
  <2> QED BY <1>2, <2>1, <2>2, <2>3, <2>4 DEF Dispatching, DispatchRun
<1>3. CASE Reloading
  <2>0. /\ UNCHANGED <<lpc, ldg, lp, lprev, epc, enext, retired>>
        /\ epc = "idle" \/ rpc = "idle"
    <3>1. UNCHANGED <<lpc, ldg, lp, lprev, epc, enext, retired>> /\ rpc # "stopped"
      BY <1>3 DEF Reloading, dispatchVars, ReloadStarts, ReloadRun, ReloadLoad, ReloadBuild,
                  ReloadStart, ReloadStore, ReloadDrain, ReloadStops, routingVars
    <3> QED BY <1>a, <3>1
  <2>1. CASE ReloadStarts \/ ReloadLoad \/ ReloadStart \/ ReloadDrain \/ ReloadStops
    <3>1. /\ UNCHANGED cur
          /\ \/ rpc' \in {"load", "retry", "idle", "build", "stopped"}
             \/ rpc = "start" /\ rpc' = "store" /\ rprev' = rprev
      BY <2>1 DEF ReloadStarts, ReloadLoad, ReloadStart, ReloadDrain, ReloadStops, routingVars
    <3> QED BY <1>0, <2>0, <3>1, CurrentKept
  <2>2. CASE ReloadBuild
    <3>1. /\ UNCHANGED cur /\ rpc = "build"
          /\ rpc' = "idle" \/ (rpc' = "start" /\ rprev' = cur)
      BY <2>2 DEF ReloadBuild
    <3>2. InTable(cur)' = InTable(cur) /\ InTable(enext)' = InTable(enext)
          /\ retired' \subseteq Made'
      BY <1>0, <2>0, <3>1, MadeGrows DEF InTable, Current
    <3> QED BY <2>0, <3>1, <3>2 DEF Current
  <2>3. CASE ReloadStore
    <3>1. rpc = "store" /\ rpc' = "drain" /\ cur' = rtbl /\ UNCHANGED rtbl
      BY <2>3 DEF ReloadStore
    <3>2. lpc \notin {"register_load", "register_store"} /\ epc = "idle"
      BY <1>a, <3>1
    <3>3. retired' \subseteq Made' /\ retired' = {}
      BY <1>0, <2>0, <3>2, MadeGrows DEF Current
    <3> QED BY <2>0, <3>1, <3>2, <3>3 DEF Current
  <2> QED BY <1>3, <2>1, <2>2, <2>3 DEF Reloading, ReloadRun
<1>4. CASE Expiring
  <2>0. UNCHANGED <<lpc, ldg, lp, lprev, rpc, rprev, rtbl>>
    BY <1>4 DEF Expiring, dispatchVars, ExpireRun, ExpireCollect, ExpireStore, ExpireDrain
  <2>1. CASE ExpireCollect
    <3>1. epc' = "store" /\ UNCHANGED cur /\ inlineMu = "free"
      BY <2>1 DEF ExpireCollect
    <3>2. InTable(enext') \subseteq InTable(cur) \ retired' /\ retired' \subseteq Made
      BY <2>1, Collected, TableMade DEF TableInv, TablesOK
    <3>3. lpc # "register_store"
      BY <3>1 DEF Modes
    <3>4. InTable(cur)' = InTable(cur) /\ InTable(enext)' = InTable(enext')
          /\ retired' \subseteq Made'
      BY <1>0, <3>1, <3>2, MadeGrows DEF InTable
    <3> QED BY <2>0, <3>1, <3>2, <3>3, <3>4 DEF Current
  <2>2. CASE ExpireStore
    <3>1. epc = "store" /\ epc' = "drain" /\ cur' = enext /\ UNCHANGED retired
      BY <2>2 DEF ExpireStore
    <3>2. lpc \notin {"register_load", "register_store"} /\ rpc \in {"idle", "stopped"}
      BY <1>a, <3>1 DEF Modes
    <3>3. retired' \cap InTable(cur)' = {} /\ retired' \subseteq Made'
      BY <1>0, <3>1, MadeGrows DEF Current, InTable
    <3> QED BY <2>0, <3>1, <3>2, <3>3 DEF Current
  <2>3. CASE ExpireDrain
    <3>1. epc = "drain" /\ epc' = "idle" /\ retired' = {} /\ UNCHANGED <<cur, enext>>
      BY <2>3 DEF ExpireDrain
    <3> QED BY <2>0, <3>1 DEF Current
  <2> QED BY <1>4, <2>1, <2>2, <2>3 DEF Expiring, ExpireRun
<1>5. CASE Demuxing \/ Draining \/ Maining \/ Environment
  <2>1. UNCHANGED <<cur, lpc, ldg, lp, lprev, rpc, rprev, rtbl, epc, enext, retired>>
    BY <1>5 DEF Demuxing, DemuxRun, DemuxReceive, DemuxLookup, DemuxSend, DemuxExit, Draining,
                DrainCloses, DrainReturns, Maining, Main, Signal, ListenerGone, ShutdownCloses,
                ShutdownDrains, ShutdownReturns, Environment, EditKeysFile, GoesIdle,
                routingVars, dispatchVars, reloadVars
  <2> QED BY <1>0, <2>1, CurrentKept
<1> QED BY <1>1, <1>2, <1>3, <1>4, <1>5 DEF Next

-----------------------------------------------------------------------------
(* A step that starts no drain and no pipeline keeps all of it.            *)
Keeps ==
  /\ Made \subseteq Made'
  /\ \A r \in Made : /\ Ready(r) => Ready(r)'
                     /\ Unstarted(r) => Unstarted(r)'
                     /\ Retiring(r) => Retiring(r)'
                     /\ Single(r) => Single(r)'
  /\ \A r \in Made' \ Made : At(r)'.drains = 0

(* A step that touches no pipeline disturbs none.                          *)
LEMMA UntouchedKeeps == AllUntouched => Keeps
BY DEF AllUntouched, Untouched, Keeps, Ready, Unstarted, Retiring, Single

(* registerInline makes and starts lp.                                     *)
LEMMA RegisterAdds ==
  ASSUME TableInv, RegisterLoad, lpc' # "read"
  PROVE  /\ Made' = Made \cup {lp'} /\ lp' \notin Made
         /\ Ready(lp)' /\ At(lp)'.inline
         /\ \A r \in Made : At(r)' = At(r)
         /\ lprev' = cur
<1> DEFINE q == ldg.project
           x == [NewPipeline(NoKey, TRUE) EXCEPT !.stage = "running"]
           new == [p \in {q} |-> x]
<1>1. /\ lprev' = cur /\ lp' = <<q, Len(pipes[q]) + 1>> /\ q \in Projects
      /\ pipes' = [pipes EXCEPT ![q] = Append(@, x)]
  BY DEF RegisterLoad, Return, TableInv, HoldersOK
<1>2. x.stage = "running" /\ x.drains = 0 /\ x.inline
  BY DEF NewPipeline
<1> HIDE DEF x
<1>3. DOMAIN new = {q} /\ new[q] = x
  OBVIOUS
<1> HIDE DEF new
<1>4. pipes' = [p \in Projects |-> IF p \in DOMAIN new THEN Append(pipes[p], new[p])
                                                       ELSE pipes[p]]
  BY <1>1, <1>3 DEF TableInv, PipesOK
<1>5. /\ Made' = Made \cup Fresh(DOMAIN new)
      /\ \A r \in Fresh(DOMAIN new) : r \notin Made /\ At(r)' = new[r[1]]
      /\ \A r \in Made : At(r)' = At(r)
  BY <1>1, <1>3, <1>4, AddEffect DEF TableInv
<1>6. Fresh(DOMAIN new) = {lp'}
  BY <1>1, <1>3 DEF Fresh
<1>7. At(lp)' = x
  <2>1. lp' \in Fresh(DOMAIN new) /\ lp'[1] = q
    BY <1>1, <1>6
  <2> QED BY <1>3, <1>5, <2>1 DEF At
<1> QED BY <1>1, <1>2, <1>5, <1>6, <1>7 DEF Ready

(* reload makes the pipelines of the new table that the old one lacks.     *)
LEMMA BuildAdds ==
  ASSUME TableInv, ReloadBuild, rpc' = "start"
  PROVE  \E new : /\ Made' = Made \cup new /\ new \cap Made = {}
                  /\ \A r \in new : Unstarted(r)' /\ ~At(r)'.inline
                  /\ \A r \in Made : At(r)' = At(r)
                  /\ InTable(rtbl)' \subseteq InTable(cur) \cup new
                  /\ new \subseteq InTable(rtbl)'
                  /\ rprev' = cur
<1> DEFINE S == Spawned(newKeys, cur)
           new == [p \in S |-> NewPipeline(newKeys[p], FALSE)]
<1>1. /\ rpc = "build" /\ rprev' = cur /\ rtbl' = BuildTable(newKeys, cur)
      /\ pipes' = [p \in Projects |-> IF p \in S
                                      THEN Append(pipes[p], NewPipeline(newKeys[p], FALSE))
                                      ELSE pipes[p]]
  BY DEF ReloadBuild
<1>2. S \subseteq DOMAIN newKeys /\ DOMAIN newKeys \subseteq Projects
  BY <1>1 DEF Spawned, TableInv, TablesOK, KeysOK
<1>3. /\ DOMAIN rtbl'.map = DOMAIN newKeys
      /\ \A p \in DOMAIN newKeys : rtbl'.map[p] = IF p \in S THEN <<p, Len(pipes[p]) + 1>>
                                                             ELSE cur.map[p]
      /\ \A p \in DOMAIN newKeys \ S : p \in DOMAIN cur.map
  BY <1>1 DEF BuildTable, Table, Spawned
<1>4. \A p \in S : NewPipeline(newKeys[p], FALSE).stage = "fresh"
                   /\ NewPipeline(newKeys[p], FALSE).drains = 0
                   /\ ~NewPipeline(newKeys[p], FALSE).inline
  BY DEF NewPipeline
<1> HIDE DEF S
<1>5. DOMAIN new = S /\ \A p \in S : new[p] = NewPipeline(newKeys[p], FALSE)
  OBVIOUS
<1> HIDE DEF new
<1>6. pipes' = [p \in Projects |-> IF p \in DOMAIN new THEN Append(pipes[p], new[p])
                                                       ELSE pipes[p]]
  BY <1>1, <1>5
<1>7. /\ Made' = Made \cup Fresh(S)
      /\ \A r \in Fresh(S) : r \notin Made /\ At(r)' = new[r[1]]
      /\ \A r \in Made : At(r)' = At(r)
  BY <1>2, <1>5, <1>6, AddEffect DEF TableInv
<1>8. \A r \in Fresh(S) : Unstarted(r)' /\ ~At(r)'.inline
  <2> SUFFICES ASSUME NEW r \in Fresh(S)
               PROVE  Unstarted(r)' /\ ~At(r)'.inline
    OBVIOUS
  <2>1. r[1] \in S
    BY DEF Fresh
  <2>2. At(r)' = NewPipeline(newKeys[r[1]], FALSE)
    BY <1>5, <1>7, <2>1
  <2> QED BY <1>4, <2>1, <2>2 DEF Unstarted
<1>9. InTable(rtbl)' \subseteq InTable(cur) \cup Fresh(S)
  BY <1>3 DEF InTable, Range, Fresh
<1>10. Fresh(S) \subseteq InTable(rtbl)'
  BY <1>2, <1>3 DEF InTable, Range, Fresh
<1> QED BY <1>1, <1>7, <1>8, <1>9, <1>10

(* Only the idle mark of one pipeline changes: it is not touched.          *)
LEMMA MarkEffect ==
  ASSUME PipesOK, NEW r \in Made, NEW b,
         pipes' = [pipes EXCEPT ![r[1]][r[2]].idle = b]
  PROVE  AllUntouched
<1> DEFINE x == [At(r) EXCEPT !.idle = b]
<1>1. At(r) \in Pipelines
  BY MadeType
<1>2. x.stage = At(r).stage /\ x.drains = At(r).drains /\ x.inline = At(r).inline
  BY <1>1 DEF Pipelines
<1>3. pipes' = [pipes EXCEPT ![r[1]][r[2]] = x]
  BY DEF At
<1> HIDE DEF x
<1>4. /\ Made' = Made
      /\ At(r)' = x
      /\ \A s \in Made : s # r => At(s)' = At(s)
  BY <1>3, ChangeEffect
<1> QED BY <1>2, <1>4 DEF AllUntouched, Untouched

(* The steps of listener, demuxer and environment, and those of a drain.   *)
LEMMA DispatchingKeeps ==
  ASSUME TableInv, Dispatching
  PROVE  Keeps
<1>1. CASE UNCHANGED pipes
  BY <1>1, UnchangedEffect, UntouchedKeeps
<1>2. CASE RegisterLoad /\ ~UNCHANGED pipes
  <2>1. lpc' # "read"
    BY <1>2 DEF RegisterLoad, Return
  <2>2. /\ Made' = Made \cup {lp'}
        /\ \A r \in Made : At(r)' = At(r)
        /\ At(lp)'.drains = 0
    BY <1>2, <2>1, RegisterAdds DEF Ready
  <2>3. \A r \in Made' \ Made : At(r)'.drains = 0
    BY <2>2 DEF At
  <2> QED BY <2>2, <2>3 DEF Keeps, Ready, Unstarted, Retiring, Single
<1>3. CASE DispatchCheck /\ ~UNCHANGED pipes
  <2>1. PICK r \in Made : r = lp
    BY <1>3, MadeIsPipe DEF DispatchCheck, TableInv, HoldersOK
  <2>2. pipes' = [pipes EXCEPT ![r[1]][r[2]].idle = FALSE]
    BY <1>3, <2>1 DEF DispatchCheck
  <2> QED BY <2>2, MarkEffect, UntouchedKeeps DEF TableInv
<1>4. CASE Listening
  <2>1. UNCHANGED pipes
    BY <1>4 DEF Listening, ListenerBinds, ListenerFails, ListenerStops, ReadFails,
                ReadResumes, ListenerMoves, routingVars
  <2> QED BY <1>1, <2>1
<1>5. ASSUME NEW w \in Payloads, Receive(w)
      PROVE  Keeps
  BY <1>1, <1>5 DEF Receive
<1>6. CASE DispatchLookup \/ RegisterRecheck \/ RegisterStore \/ DispatchEnqueue
  BY <1>1, <1>6 DEF DispatchLookup, RegisterRecheck, RegisterStore, DispatchEnqueue
<1> QED BY <1>1, <1>2, <1>3, <1>4, <1>5, <1>6 DEF Dispatching, DispatchRun

(* The demuxer, the drains and the environment disturb no pipeline.        *)
LEMMA OthersKeep ==
  ASSUME TableInv, Demuxing \/ Draining \/ Environment
  PROVE  Keeps
<1>1. CASE UNCHANGED pipes
  BY <1>1, UnchangedEffect, UntouchedKeeps
<1>2. CASE Demuxing
  <2>1. UNCHANGED pipes
    BY <1>2 DEF Demuxing, DemuxRun, DemuxReceive, DemuxLookup, DemuxSend, DemuxExit, routingVars
  <2> QED BY <1>1, <2>1
<1>3. CASE Environment
  <2>1. CASE EditKeysFile
    BY <1>1, <2>1 DEF EditKeysFile, routingVars
  <2>2. ASSUME NEW r \in Made, GoesIdle(r)
        PROVE  Keeps
    BY <2>2, MarkEffect, UntouchedKeeps DEF GoesIdle, TableInv
  <2> QED BY <1>3, <2>1, <2>2 DEF Environment
<1>4. ASSUME NEW r \in Made, DrainCloses(r), ~UNCHANGED pipes
      PROVE  Keeps
  <2> DEFINE x == Closed(At(r))
  <2>1. At(r) \in Pipelines /\ At(r).drains > 0 /\ At(r).drains \in Nat
    BY <1>4, MadeType DEF DrainCloses, TableInv, Pipelines
  <2>2. x.stage = "closed" /\ x.drains = At(r).drains - 1
    BY <2>1, ClosedType
  <2>3. pipes' = [pipes EXCEPT ![r[1]][r[2]] = x]
    BY <1>4 DEF DrainCloses, At
  <2> HIDE DEF x
  <2>4. /\ Made' = Made
        /\ At(r)' = x
        /\ \A s \in Made : s # r => At(s)' = At(s)
    BY <2>3, ChangeEffect DEF TableInv
  <2>5. ~Ready(r) /\ ~Unstarted(r) /\ Retiring(r)' /\ (Single(r) => Single(r)')
    BY <2>1, <2>2, <2>4 DEF Ready, Unstarted, Retiring, Single
  <2>6. \A s \in Made : s # r => /\ Ready(s)' = Ready(s) /\ Unstarted(s)' = Unstarted(s)
                                 /\ Retiring(s)' = Retiring(s) /\ Single(s)' = Single(s)
    BY <2>4 DEF Ready, Unstarted, Retiring, Single
  <2> QED BY <2>4, <2>5, <2>6 DEF Keeps
<1>5. ASSUME NEW r \in Made, DrainReturns(r)
      PROVE  Keeps
  <2> DEFINE x == [At(r) EXCEPT !.stage = "drained"]
  <2>1. At(r) \in Pipelines /\ At(r).stage = "closed" /\ At(r).drains \in Nat
    BY <1>5, MadeType DEF DrainReturns, TableInv, Pipelines
  <2>2. x.stage = "drained" /\ x.drains = At(r).drains
    BY <2>1 DEF Pipelines
  <2>3. pipes' = [pipes EXCEPT ![r[1]][r[2]] = x]
    BY <1>5 DEF DrainReturns, At
  <2> HIDE DEF x
  <2>4. /\ Made' = Made
        /\ At(r)' = x
        /\ \A s \in Made : s # r => At(s)' = At(s)
    BY <2>3, ChangeEffect DEF TableInv
  <2>5. ~Ready(r) /\ ~Unstarted(r) /\ Retiring(r)' /\ (Single(r) => Single(r)')
    BY <2>1, <2>2, <2>4 DEF Ready, Unstarted, Retiring, Single
  <2>6. \A s \in Made : s # r => /\ Ready(s)' = Ready(s) /\ Unstarted(s)' = Unstarted(s)
                                 /\ Retiring(s)' = Retiring(s) /\ Single(s)' = Single(s)
    BY <2>4 DEF Ready, Unstarted, Retiring, Single
  <2> QED BY <2>4, <2>5, <2>6 DEF Keeps
<1> QED BY <1>1, <1>2, <1>3, <1>4, <1>5 DEF Draining

(* Only registerInline and reload make pipelines.                          *)
LEMMA MadeSteady ==
  ASSUME TableInv, [Next]_vars,
         ~(RegisterLoad /\ lpc' # "read"), ~(ReloadBuild /\ rpc' # "idle")
  PROVE  Made' = Made
<1>1. CASE UNCHANGED pipes
  BY <1>1 DEF Made
<1>2. ASSUME NEW r \in Made, NEW x, pipes' = [pipes EXCEPT ![r[1]][r[2]] = x]
      PROVE  Made' = Made
  BY <1>2, ChangeEffect DEF TableInv
<1>3. CASE UNCHANGED vars
  BY <1>1, <1>3 DEF vars, routingVars
<1>4. CASE Dispatching
  <2>1. CASE DispatchCheck /\ ~UNCHANGED pipes
    <3>1. PICK r \in Made : r = lp
      BY <2>1, MadeIsPipe DEF DispatchCheck, TableInv, HoldersOK
    <3>2. pipes' = [pipes EXCEPT ![r[1]][r[2]].idle = FALSE]
      BY <2>1, <3>1 DEF DispatchCheck
    <3> QED BY <3>2, MarkEffect DEF TableInv, AllUntouched
  <2>2. CASE RegisterLoad /\ lpc' = "read"
    BY <1>1, <2>2 DEF RegisterLoad
  <2>3. CASE UNCHANGED pipes
    BY <1>1, <2>3
  <2> QED
    BY <1>4, <2>1, <2>2, <2>3
       DEF Dispatching, DispatchRun, DispatchLookup, RegisterRecheck, RegisterStore,
           DispatchEnqueue, Receive, Listening, ListenerBinds, ListenerFails, ListenerStops,
           ReadFails, ReadResumes, ListenerMoves, routingVars
<1>5. CASE Demuxing
  BY <1>1, <1>5 DEF Demuxing, DemuxRun, DemuxReceive, DemuxLookup, DemuxSend, DemuxExit, routingVars
<1>6. CASE Reloading
  <2>1. CASE ReloadStart
    BY <2>1, StageEffect DEF ReloadStart, TableInv
  <2>2. CASE ReloadDrain
    BY <2>2, SpawnEffect DEF ReloadDrain, TableInv
  <2>3. CASE UNCHANGED pipes
    BY <1>1, <2>3
  <2> QED BY <1>6, <2>1, <2>2, <2>3 DEF Reloading, ReloadStarts, ReloadRun, ReloadLoad,
                                       ReloadBuild, ReloadStore, ReloadStops, routingVars
<1>7. CASE Expiring
  <2>1. CASE ExpireDrain
    BY <2>1, SpawnEffect DEF ExpireDrain, TableInv
  <2> QED BY <1>1, <1>7, <2>1 DEF Expiring, ExpireRun, ExpireCollect, ExpireStore
<1>8. CASE Draining
  <2>1. ASSUME NEW r \in Made, DrainCloses(r) PROVE Made' = Made
    <3>1. \/ UNCHANGED pipes
          \/ pipes' = [pipes EXCEPT ![r[1]][r[2]] = Closed(pipes[r[1]][r[2]])]
      BY <2>1 DEF DrainCloses
    <3> QED BY <1>1, <1>2, <3>1
  <2>2. ASSUME NEW r \in Made, DrainReturns(r) PROVE Made' = Made
    <3>1. pipes' = [pipes EXCEPT ![r[1]][r[2]] = [pipes[r[1]][r[2]] EXCEPT !.stage = "drained"]]
      BY <2>2 DEF DrainReturns
    <3> QED BY <1>2, <3>1
  <2> QED BY <1>8, <2>1, <2>2 DEF Draining
<1>9. CASE Maining
  <2>1. CASE ShutdownDrains
    BY <2>1, SpawnEffect DEF ShutdownDrains, TableInv
  <2> QED BY <1>1, <1>9, <2>1 DEF Maining, Main, Signal, ListenerGone, ShutdownCloses,
                                  ShutdownReturns, routingVars
<1>10. CASE Environment
  <2>1. ASSUME NEW r \in Made, GoesIdle(r) PROVE Made' = Made
    BY <2>1, MarkEffect DEF GoesIdle, TableInv, AllUntouched
  <2> QED BY <1>1, <1>10, <2>1 DEF Environment, EditKeysFile, routingVars
<1> QED BY <1>3, <1>4, <1>5, <1>6, <1>7, <1>8, <1>9, <1>10 DEF Next

(* The pipelines goroutines are about to publish were made.                *)
LEMMA TablesMade ==
  ASSUME TableInv
  PROVE  /\ InTable(cur) \subseteq Made
         /\ lpc = "register_store" => lp \in Made
         /\ rpc \in {"start", "store"} => InTable(rtbl) \subseteq Made
BY TableMade, MadeIsPipe DEF TableInv, TablesOK, HoldersOK, IsPipe

(* A step that keeps what is said of pipelines and leaves the tables alone *)
(* keeps Usable.                                                           *)
LEMMA UsableKept ==
  ASSUME TableInv, Usable, Keeps, UNCHANGED <<cur, rtbl, rprev>>,
         mpc' \in {"run", "stopping", "demux"} => mpc \in {"run", "stopping", "demux"},
         lpc' = "register_store" => lpc = "register_store" /\ lp' = lp,
         rpc' \in {"start", "store"} => rpc' = rpc
  PROVE  Usable'
<1>0. InTable(cur)' = InTable(cur) /\ InTable(rtbl)' = InTable(rtbl)
      /\ InTable(rprev)' = InTable(rprev)
  BY DEF InTable
<1>1. TableUsable'
  <2>1. \A r \in InTable(cur) : Ready(r) => Ready(r)'
    BY TablesMade DEF Keeps
  <2> QED BY <1>0, <2>1 DEF Usable, TableUsable, Ready
<1>2. lpc' = "register_store" => Ready(lp)' /\ lp' \notin InTable(cur)'
  <2> SUFFICES ASSUME lpc' = "register_store" PROVE Ready(lp)' /\ lp' \notin InTable(cur)'
    OBVIOUS
  <2>1. PICK r \in Made : r = lp /\ r = lp'
    BY TablesMade
  <2>2. Ready(r)'
    BY <2>1 DEF Usable, Keeps
  <2> QED BY <1>0, <2>1, <2>2 DEF Usable, Ready, At
<1>3. rpc' = "start" => \A r \in InTable(rtbl)' \ InTable(rprev)' : Unstarted(r)'
  <2> SUFFICES ASSUME rpc' = "start", NEW r \in InTable(rtbl) \ InTable(rprev)
               PROVE  Unstarted(r)'
    BY <1>0
  <2>1. r \in Made
    BY TablesMade
  <2> QED BY <2>1 DEF Usable, Keeps, Unstarted
<1>4. rpc' = "store" => \A r \in InTable(rtbl)' \ InTable(rprev)' : Ready(r)'
  <2> SUFFICES ASSUME rpc' = "store", NEW r \in InTable(rtbl) \ InTable(rprev)
               PROVE  Ready(r)'
    BY <1>0
  <2>1. r \in Made
    BY TablesMade
  <2> QED BY <2>1 DEF Usable, Keeps
<1> QED BY <1>1, <1>2, <1>3, <1>4 DEF Usable, Unstarted

(* Every step keeps Usable: a pipeline runs before it is published, and is *)
(* drained by nobody before it has left the table.                         *)
LEMMA UsableStep ==
  ASSUME OneSource, UsableInv, [Next]_vars
  PROVE  Usable'
<1> USE DEF UsableInv
<1>a. /\ lpc = "register_store" => rpc \in {"idle", "stopped"}
      /\ epc # "idle" => rpc \in {"idle", "stopped"}
  BY RoutingAssumption, ReloadAssumption DEF Modes, OneSource, Registering
<1>b. InTable(cur) \subseteq Made
  BY TablesMade
<1>1. CASE UNCHANGED vars
  <2>1. Keeps
    BY <1>1, UnchangedEffect, UntouchedKeeps DEF vars, routingVars
  <2> QED BY <1>1, <2>1, UsableKept DEF vars, routingVars, dispatchVars, reloadVars
<1>2. CASE Dispatching
  <2>0. Keeps /\ UNCHANGED <<rpc, rtbl, rprev, mpc>>
    BY <1>2, DispatchingKeeps DEF Dispatching, reloadVars
  <2>1. CASE lpc' = "register_store"
    <3>1. RegisterLoad /\ lpc' # "read"
      BY <1>2, <2>1 DEF Dispatching, DispatchRun, DispatchLookup, RegisterRecheck, RegisterStore,
                  DispatchCheck, DispatchEnqueue, Return, Receive, Listening,
                  ListenerBinds, ListenerFails, ListenerStops, ReadFails, ReadResumes,
                  ListenerMoves
    <3>2. Ready(lp)' /\ lp' \notin Made /\ cur' = cur
      BY <3>1, RegisterAdds DEF RegisterLoad
    <3>3. rpc \in {"idle", "stopped"}
      BY <3>1, RoutingAssumption, ReloadAssumption DEF RegisterLoad, Modes, OneSource, Registering
    <3>4. TableUsable' /\ InTable(cur)' = InTable(cur)
      <4>1. \A r \in InTable(cur) : Ready(r) => Ready(r)'
        BY <1>b, <2>0 DEF Keeps
      <4>2. InTable(cur)' = InTable(cur)
        BY <3>2 DEF InTable
      <4> QED BY <2>0, <4>1, <4>2 DEF Usable, TableUsable, Ready
    <3> QED BY <1>b, <2>0, <3>2, <3>3, <3>4 DEF Usable
  <2>2. CASE RegisterStore
    <3>1. lpc = "register_store" /\ lpc' = "check" /\ UNCHANGED pipes
      BY <2>2 DEF RegisterStore
    <3>2. InTable(cur') \subseteq InTable(cur) \cup {lp} /\ Ready(lp)
      BY <2>2, <3>1, Registered DEF Current, Usable
    <3>3. TableUsable'
      <4>1. InTable(cur)' = InTable(cur') /\ \A r : At(r)' = At(r)
        BY <3>1 DEF InTable, At
      <4> QED BY <2>0, <3>2, <4>1 DEF Usable, TableUsable, Ready
    <3> QED BY <1>a, <2>0, <3>1, <3>3 DEF Usable
  <2>3. CASE ~RegisterStore /\ lpc' # "register_store"
    <3>1. UNCHANGED cur
      BY <1>2, <2>3 DEF Dispatching, DispatchRun, DispatchLookup, RegisterRecheck, RegisterLoad,
                  DispatchCheck, DispatchEnqueue, Receive, Listening,
                  ListenerBinds, ListenerFails, ListenerStops, ReadFails, ReadResumes,
                  ListenerMoves, routingVars
    <3> QED BY <2>0, <2>3, <3>1, UsableKept
  <2> QED BY <2>1, <2>2, <2>3
<1>3. CASE Demuxing \/ Draining \/ Environment
  <2>1. UNCHANGED <<cur, lpc, lp, rpc, rtbl, rprev, mpc>>
    BY <1>3 DEF Demuxing, DemuxRun, DemuxReceive, DemuxLookup, DemuxSend, DemuxExit, Draining,
                DrainCloses, DrainReturns, Environment, EditKeysFile, GoesIdle,
                routingVars, dispatchVars, reloadVars
  <2> QED BY <1>3, <2>1, OthersKeep, UsableKept
<1>4. CASE Reloading
  <2>0. UNCHANGED <<lpc, lp, mpc>> /\ rpc # "stopped"
    BY <1>4 DEF Reloading, dispatchVars, ReloadStarts, ReloadRun, ReloadLoad, ReloadBuild,
                ReloadStart, ReloadStore, ReloadDrain, ReloadStops
  <2>1. CASE ReloadStarts \/ ReloadLoad \/ ReloadStops \/ (ReloadBuild /\ rpc' = "idle")
    <3>1. UNCHANGED <<cur, pipes, rtbl, rprev>> /\ rpc' \notin {"start", "store"}
      BY <2>1 DEF ReloadStarts, ReloadLoad, ReloadStops, ReloadBuild, routingVars
    <3>2. Keeps
      BY <3>1, UnchangedEffect, UntouchedKeeps
    <3> QED BY <2>0, <3>1, <3>2, UsableKept
  <2>2. CASE ReloadBuild /\ rpc' # "idle"
    <3>1. rpc = "build" /\ rpc' = "start" /\ cur' = cur
      BY <2>2 DEF ReloadBuild
    <3>2. PICK new : /\ new \cap Made = {}
                     /\ \A r \in new : Unstarted(r)'
                     /\ \A r \in Made : At(r)' = At(r)
                     /\ InTable(rtbl)' \subseteq InTable(cur) \cup new
                     /\ rprev' = cur
      BY <2>2, <3>1, BuildAdds
    <3>3. InTable(cur)' = InTable(cur) /\ InTable(rprev)' = InTable(cur)
      BY <3>1, <3>2 DEF InTable
    <3>4. TableUsable'
      BY <1>b, <2>0, <3>2, <3>3 DEF Usable, TableUsable
    <3>5. lpc # "register_store"
      BY <1>a, <3>1
    <3> QED BY <2>0, <3>1, <3>2, <3>3, <3>4, <3>5 DEF Usable, Unstarted
  <2>3. CASE ReloadStart
    <3>1. /\ rpc = "start" /\ rpc' = "store" /\ UNCHANGED <<cur, rtbl, rprev>>
          /\ SetStage(InTable(rtbl) \ InTable(rprev), "running")
      BY <2>3 DEF ReloadStart
    <3>2. \A r \in Made : /\ At(r)'.stage = IF r \in InTable(rtbl) \ InTable(rprev)
                                            THEN "running" ELSE At(r).stage
                          /\ At(r)'.drains = At(r).drains
      BY <3>1, StageEffect DEF TableInv
    <3>3. /\ InTable(cur)' = InTable(cur) /\ InTable(rtbl)' = InTable(rtbl)
          /\ InTable(rprev)' = InTable(rprev) /\ InTable(rtbl) \subseteq Made
      BY <3>1, TablesMade DEF InTable
    <3>4. TableUsable'
      BY <1>b, <2>0, <3>2, <3>3 DEF Usable, TableUsable
    <3>5. \A r \in InTable(rtbl)' \ InTable(rprev)' : Ready(r)'
      BY <3>1, <3>2, <3>3 DEF Usable, Ready, Unstarted
    <3>6. lpc # "register_store"
      BY <1>a, <3>1
    <3> QED BY <2>0, <3>1, <3>4, <3>5, <3>6 DEF Usable
  <2>4. CASE ReloadStore
    <3>1. rpc = "store" /\ rpc' = "drain" /\ cur' = rtbl /\ UNCHANGED pipes
      BY <2>4 DEF ReloadStore
    <3>2. rprev = cur /\ InTable(cur)' = InTable(rtbl) /\ \A r : At(r)' = At(r)
      BY <3>1 DEF Current, InTable, At
    <3>3. \A r \in InTable(rtbl) \ InTable(cur) : Ready(r)
      BY <3>1, <3>2 DEF Usable
    <3>4. TableUsable'
      BY <2>0, <3>2, <3>3 DEF Usable, TableUsable, Ready
    <3>5. lpc # "register_store"
      BY <1>a, <3>1
    <3> QED BY <2>0, <3>1, <3>4, <3>5 DEF Usable
  <2>5. CASE ReloadDrain
    <3>1. /\ rpc = "drain" /\ rpc' = "idle" /\ UNCHANGED cur
          /\ SpawnDrains(InTable(rprev) \ InTable(rtbl))
      BY <2>5 DEF ReloadDrain
    <3>2. cur = rtbl /\ InTable(cur)' = InTable(cur)
      BY <3>1 DEF Current, InTable
    <3>3. \A r \in InTable(cur) : At(r)'.stage = At(r).stage /\ At(r)'.drains = At(r).drains
      BY <1>b, <3>1, <3>2, SpawnEffect DEF TableInv
    <3>4. TableUsable'
      BY <2>0, <3>2, <3>3 DEF Usable, TableUsable
    <3>5. lpc # "register_store"
      BY <1>a, <3>1
    <3> QED BY <2>0, <3>1, <3>4, <3>5 DEF Usable
  <2> QED BY <1>4, <2>1, <2>2, <2>3, <2>4, <2>5 DEF Reloading, ReloadRun
<1>5. CASE Expiring
  <2>0. UNCHANGED <<lpc, lp, rpc, rtbl, rprev, mpc>>
    BY <1>5 DEF Expiring, dispatchVars, ExpireRun, ExpireCollect, ExpireStore, ExpireDrain
  <2>1. CASE ExpireCollect
    <3>1. UNCHANGED <<cur, pipes>>
      BY <2>1 DEF ExpireCollect
    <3>2. Keeps
      BY <3>1, UnchangedEffect, UntouchedKeeps
    <3> QED BY <2>0, <3>1, <3>2, UsableKept
  <2>2. CASE ExpireStore
    <3>1. epc = "store" /\ cur' = enext /\ UNCHANGED pipes
      BY <2>2 DEF ExpireStore
    <3>2. InTable(cur)' \subseteq InTable(cur) /\ \A r : At(r)' = At(r)
      BY <3>1 DEF Current, InTable, At
    <3>3. TableUsable'
      BY <2>0, <3>2 DEF Usable, TableUsable
    <3>4. lpc # "register_store" /\ rpc \in {"idle", "stopped"}
      BY <1>a, <3>1 DEF Modes
    <3> QED BY <2>0, <3>3, <3>4 DEF Usable
  <2>3. CASE ExpireDrain
    <3>1. epc = "drain" /\ SpawnDrains(retired) /\ UNCHANGED cur
      BY <2>3 DEF ExpireDrain
    <3>2. \A r \in Made \ retired : At(r)'.stage = At(r).stage /\ At(r)'.drains = At(r).drains
      BY <3>1, SpawnEffect DEF TableInv
    <3>3. retired \cap InTable(cur) = {} /\ InTable(cur)' = InTable(cur)
      BY <3>1 DEF Current, InTable
    <3>4. TableUsable'
      BY <1>b, <2>0, <3>2, <3>3 DEF Usable, TableUsable
    <3>5. lpc' = "register_store" => Ready(lp)' /\ lp' \notin InTable(cur)'
      <4> SUFFICES ASSUME lpc = "register_store" PROVE Ready(lp)' /\ lp' \notin InTable(cur)'
        BY <2>0
      <4>1. PICK r \in Made : r = lp
        BY TablesMade
      <4>2. r \notin retired /\ Ready(r) /\ r \notin InTable(cur)
        BY <4>1 DEF Current, Usable
      <4>3. Ready(r)'
        BY <3>2, <4>2 DEF Ready
      <4> QED BY <2>0, <3>3, <4>1, <4>2, <4>3 DEF Ready, At
    <3>6. rpc \in {"idle", "stopped"}
      BY <1>a, <3>1
    <3> QED BY <2>0, <3>4, <3>5, <3>6 DEF Usable
  <2> QED BY <1>5, <2>1, <2>2, <2>3 DEF Expiring, ExpireRun
<1>6. CASE Maining
  <2>0. UNCHANGED <<lpc, lp, rpc, rtbl, rprev, cur>>
    BY <1>6 DEF Maining, Main, Signal, ListenerGone, ShutdownCloses, ShutdownDrains,
                ShutdownReturns, dispatchVars, reloadVars, routingVars
  <2>1. CASE ShutdownDrains
    <3>1. mpc = "demux" /\ mpc' = "wait"
      BY <2>1 DEF ShutdownDrains
    <3> QED BY <2>0, <3>1 DEF Modes, Usable, TableUsable
  <2>2. CASE ~ShutdownDrains
    <3>1. /\ UNCHANGED pipes
          /\ mpc \in {"run", "stopping"} \/ mpc' = "done"
      BY <1>6, <2>2 DEF Maining, Main, Signal, ListenerGone, ShutdownCloses,
                        ShutdownReturns, routingVars
    <3>2. Keeps
      BY <3>1, UnchangedEffect, UntouchedKeeps
    <3> QED BY <2>0, <3>1, <3>2, UsableKept
  <2> QED BY <2>1, <2>2
<1> QED BY <1>1, <1>2, <1>3, <1>4, <1>5, <1>6 DEF Next

(* install leaves a table of running pipelines, and no others.             *)
LEMMA InitReady ==
  ASSUME Init
  PROVE  \A r \in Made : Ready(r) /\ r \in InTable(cur)
<1>1. PICK f \in KeysFiles : RoutingInit(LoadKeysFile(f))
  BY DEF Init
<1> DEFINE keys == WithApiKey(LoadKeysFile(f))
           first(p) == [NewPipeline(keys[p], FALSE) EXCEPT !.stage = "running"]
<1> HIDE DEF keys
<1>2. /\ cur = Table([p \in DOMAIN keys |-> <<p, 1>>], Default \in DOMAIN keys)
      /\ pipes = [p \in Projects |-> IF p \in DOMAIN keys THEN <<first(p)>> ELSE <<>>]
  BY <1>1 DEF RoutingInit, keys
<1>3. \A p \in Projects : first(p).stage = "running" /\ first(p).drains = 0
  BY DEF NewPipeline
<1> HIDE DEF first
<1>4. DOMAIN cur.map = DOMAIN keys /\ \A p \in DOMAIN keys : cur.map[p] = <<p, 1>>
  BY <1>2 DEF Table
<1> SUFFICES ASSUME NEW r \in Made
             PROVE  Ready(r) /\ r \in InTable(cur)
  OBVIOUS
<1>5. PICK p \in Projects : \E g \in DOMAIN pipes[p] : r = <<p, g>>
  BY DEF Made
<1>6. PICK g \in DOMAIN pipes[p] : r = <<p, g>>
  BY <1>5
<1>7. p \in DOMAIN keys
  <2> SUFFICES ASSUME p \notin DOMAIN keys PROVE FALSE
    OBVIOUS
  <2>1. pipes[p] = <<>>
    BY <1>2, <1>5
  <2> QED BY <1>6, <2>1
<1>8. pipes[p] = <<first(p)>>
  BY <1>2, <1>5, <1>7
<1>9. g = 1 /\ pipes[p][g] = first(p)
  BY <1>6, <1>8
<1> QED BY <1>3, <1>4, <1>5, <1>6, <1>7, <1>9 DEF Ready, At, InTable, Range

(* At start the table is the one main installed, and it runs.              *)
LEMMA InitUsableInv == Init => UsableInv
<1> SUFFICES ASSUME Init PROVE UsableInv
  OBVIOUS
<1>1. /\ rpc = "idle" /\ epc = "idle" /\ retired = {} /\ inlineMu = "free"
      /\ lpc = "bind" /\ ldg = NoDatagram /\ mpc = "run"
  BY DEF Init, ReloadInit, RoutingInit, DispatchInit
<1>2. TableInv
  BY InitTableInv
<1>3. Modes
  BY <1>1 DEF Modes, Registering, NoDatagram
<1>4. Current
  BY <1>1 DEF Current
<1>5. Usable
  BY <1>1, <1>2, InitReady, TablesMade DEF Usable, TableUsable, Ready
<1> QED BY <1>2, <1>3, <1>4, <1>5 DEF UsableInv

(* UsableInv holds in every reachable state.                               *)
LEMMA UsableSound ==
  ASSUME OneSource
  PROVE  Spec => []UsableInv
<1>1. UsableInv /\ [Next]_vars => UsableInv'
  BY StepTableInv, ModesStep, CurrentStep, UsableStep DEF UsableInv
<1> QED BY <1>1, InitUsableInv, PTL DEF Spec

(* With one source of routes, whatever table the listener or the demuxer   *)
(* reads, its pipelines run and nobody is about to drain them              *)
(* (Registry!TableUsable; routing.go reload, registerInline, expireInline).*)
THEOREM TablesStayUsable ==
  ASSUME OneSource
  PROVE  Spec => []TableUsable
<1>1. UsableInv => TableUsable
  BY DEF UsableInv, Usable
<1> QED BY <1>1, UsableSound, PTL

-----------------------------------------------------------------------------
(* Without expiry, every step keeps Once: reload drains what it took out   *)
(* of the table, shutdown what is in the table when reload has stopped.    *)
LEMMA OnceStep ==
  ASSUME OneSource, NoExpiry, UsableInv, Once, [Next]_vars
  PROVE  Once'
<1> USE DEF UsableInv
<1>a. epc = "idle"
  BY RoutingAssumption, ReloadAssumption DEF Modes, NoExpiry
<1>b. InTable(cur) \subseteq Made
  BY TablesMade
<1>c. ASSUME Keeps, UNCHANGED <<rtbl, rprev, panicked>>, rpc' = "drain" => rpc = "drain"
      PROVE  Once'
  <2>1. \A r \in Made' : Single(r)'
    BY <1>c DEF Keeps, Once, Single
  <2>2. InTable(rtbl)' = InTable(rtbl) /\ InTable(rprev)' = InTable(rprev)
    BY <1>c DEF InTable
  <2>3. rpc' = "drain" => \A r \in InTable(rprev)' \ InTable(rtbl)' : r \in Made' /\ Ready(r)'
    BY <1>c, <2>2 DEF Keeps, Once
  <2> QED BY <1>c, <2>1, <2>3 DEF Once
<1>1. CASE UNCHANGED vars
  <2>1. Keeps
    BY <1>1, UnchangedEffect, UntouchedKeeps DEF vars, routingVars
  <2> QED BY <1>c, <1>1, <2>1 DEF vars, routingVars, reloadVars
<1>2. CASE Dispatching
  <2>1. UNCHANGED <<rpc, rtbl, rprev, panicked>>
    BY <1>2 DEF Dispatching, reloadVars, DispatchRun, DispatchLookup, RegisterRecheck,
                RegisterLoad, RegisterStore, DispatchCheck, DispatchEnqueue, Receive,
                Listening, ListenerBinds, ListenerFails, ListenerStops, ReadFails,
                ReadResumes, ListenerMoves, routingVars
  <2> QED BY <1>c, <1>2, <2>1, DispatchingKeeps
<1>3. CASE Demuxing \/ Environment
  <2>1. UNCHANGED <<rpc, rtbl, rprev, panicked>>
    BY <1>3 DEF Demuxing, DemuxRun, DemuxReceive, DemuxLookup, DemuxSend, DemuxExit,
                Environment, EditKeysFile, GoesIdle, routingVars, reloadVars
  <2> QED BY <1>c, <1>3, <2>1, OthersKeep
<1>4. CASE Draining
  <2>1. ASSUME NEW r \in Made, DrainCloses(r)
        PROVE  UNCHANGED panicked
    <3>1. At(r).drains > 0 /\ At(r).drains \in Nat
      BY <2>1, MadeType DEF DrainCloses, TableInv, Pipelines
    <3>2. At(r).stage = "running"
      BY <3>1 DEF Once, Single
    <3> QED BY <2>1, <3>2 DEF DrainCloses
  <2>2. UNCHANGED panicked
    BY <1>4, <2>1 DEF Draining, DrainReturns
  <2>3. UNCHANGED <<rpc, rtbl, rprev>>
    BY <1>4 DEF Draining, reloadVars
  <2> QED BY <1>c, <1>4, <2>2, <2>3, OthersKeep
<1>5. CASE Reloading
  <2>0. UNCHANGED panicked
    BY <1>5 DEF Reloading, ReloadStarts, ReloadRun, ReloadLoad, ReloadBuild,
                ReloadStart, ReloadStore, ReloadDrain, ReloadStops, routingVars
  <2>1. CASE ReloadStarts \/ ReloadLoad \/ ReloadStops \/ (ReloadBuild /\ rpc' = "idle")
    <3>1. UNCHANGED <<pipes, rtbl, rprev>> /\ rpc' # "drain"
      BY <2>1 DEF ReloadStarts, ReloadLoad, ReloadStops, ReloadBuild, routingVars
    <3>2. Keeps
      BY <3>1, UnchangedEffect, UntouchedKeeps
    <3> QED BY <1>c, <2>0, <3>1, <3>2
  <2>2. CASE ReloadBuild /\ rpc' # "idle"
    <3>1. rpc' = "start"
      BY <2>2 DEF ReloadBuild
    <3>2. PICK new : /\ Made' = Made \cup new
                     /\ \A r \in new : Unstarted(r)'
                     /\ \A r \in Made : At(r)' = At(r)
      BY <2>2, <3>1, BuildAdds
    <3>3. \A r \in Made' : Single(r)'
      BY <3>2 DEF Once, Single, Unstarted
    <3> QED BY <2>0, <3>1, <3>3 DEF Once
  <2>3. CASE ReloadStart
    <3>1. rpc = "start" /\ rpc' = "store" /\ SetStage(InTable(rtbl) \ InTable(rprev), "running")
      BY <2>3 DEF ReloadStart
    <3>2. /\ Made' = Made
          /\ \A r \in Made : /\ At(r)'.stage = IF r \in InTable(rtbl) \ InTable(rprev)
                                               THEN "running" ELSE At(r).stage
                             /\ At(r)'.drains = At(r).drains
      BY <3>1, StageEffect DEF TableInv
    <3>3. \A r \in Made' : Single(r)'
      BY <3>2 DEF Once, Single
    <3> QED BY <2>0, <3>1, <3>3 DEF Once
  <2>4. CASE ReloadStore
    <3>1. rpc = "store" /\ rpc' = "drain" /\ UNCHANGED <<pipes, rtbl, rprev>> /\ rprev = cur
      BY <2>4 DEF ReloadStore, Current
    <3>2. /\ InTable(rprev)' = InTable(cur) /\ Made' = Made
          /\ \A r : At(r)' = At(r)
      BY <3>1 DEF InTable, Made, At
    <3>3. mpc \in {"run", "stopping"}
      BY <3>1 DEF Modes
    <3>4. \A r \in InTable(cur) : r \in Made /\ Ready(r)
      BY <1>b, <3>3 DEF Usable, TableUsable, Ready
    <3> QED BY <2>0, <3>2, <3>4 DEF Once, Single, Ready
  <2>5. CASE ReloadDrain
    <3>1. rpc = "drain" /\ rpc' = "idle" /\ SpawnDrains(InTable(rprev) \ InTable(rtbl))
      BY <2>5 DEF ReloadDrain
    <3>2. /\ Made' = Made
          /\ \A r \in Made : /\ At(r)'.stage = At(r).stage
                             /\ At(r)'.drains = IF r \in InTable(rprev) \ InTable(rtbl)
                                                THEN At(r).drains + 1 ELSE At(r).drains
      BY <3>1, SpawnEffect DEF TableInv
    <3>3. \A r \in Made' : Single(r)'
      BY <3>1, <3>2 DEF Once, Single, Ready
    <3> QED BY <2>0, <3>1, <3>3 DEF Once
  <2> QED BY <1>5, <2>1, <2>2, <2>3, <2>4, <2>5 DEF Reloading, ReloadRun
<1>6. CASE Expiring
  <2>1. UNCHANGED <<rpc, rtbl, rprev, panicked, pipes>>
    BY <1>a, <1>6 DEF Expiring, ExpireRun, ExpireCollect, ExpireStore, ExpireDrain
  <2>2. Keeps
    BY <2>1, UnchangedEffect, UntouchedKeeps
  <2> QED BY <1>c, <2>1, <2>2
<1>7. CASE Maining
  <2>0. UNCHANGED <<rpc, rtbl, rprev, cur, panicked>>
    BY <1>7 DEF Maining, Main, Signal, ListenerGone, ShutdownCloses, ShutdownDrains,
                ShutdownReturns, reloadVars, routingVars
  <2>1. CASE ShutdownDrains
    <3>1. mpc = "demux" /\ SpawnDrains(InTable(cur))
      BY <2>1 DEF ShutdownDrains
    <3>2. /\ Made' = Made
          /\ \A r \in Made : /\ At(r)'.stage = At(r).stage
                             /\ At(r)'.drains = IF r \in InTable(cur)
                                                THEN At(r).drains + 1 ELSE At(r).drains
      BY <3>1, SpawnEffect DEF TableInv
    <3>3. \A r \in InTable(cur) : Ready(r)
      BY <3>1 DEF Usable, TableUsable, Ready
    <3>4. \A r \in Made' : Single(r)'
      BY <3>2, <3>3 DEF Once, Single, Ready
    <3>5. rpc' # "drain"
      BY <2>0, <3>1 DEF Modes
    <3> QED BY <2>0, <3>4, <3>5 DEF Once
  <2>2. CASE ~ShutdownDrains
    <3>1. UNCHANGED pipes
      BY <1>7, <2>2 DEF Maining, Main, Signal, ListenerGone, ShutdownCloses,
                        ShutdownReturns, routingVars
    <3>2. Keeps
      BY <3>1, UnchangedEffect, UntouchedKeeps
    <3> QED BY <1>c, <2>0, <3>1, <3>2
  <2> QED BY <2>1, <2>2
<1> QED BY <1>1, <1>2, <1>3, <1>4, <1>5, <1>6, <1>7 DEF Next

(* At start nothing has been drained.                                      *)
LEMMA InitOnce == Init => Once
<1> SUFFICES ASSUME Init PROVE Once
  OBVIOUS
<1>1. rpc = "idle" /\ ~panicked
  BY DEF Init, ReloadInit, RoutingInit
<1> QED BY <1>1, InitReady DEF Once, Single, Ready

(* With one source of routes and without expiry, no pipeline is drained    *)
(* twice, which would close a closed channel (Registry!NoDoubleDrain;      *)
(* routing.go drain, reload, shutdown).                                    *)
THEOREM DrainedOnce ==
  ASSUME OneSource, NoExpiry
  PROVE  Spec => []NoDoubleDrain
<1>1. UsableInv /\ Once /\ [Next]_vars => Once'
  BY OnceStep
<1>2. UsableInv /\ Once => NoDoubleDrain
  BY DEF Once, NoDoubleDrain
<1> QED BY <1>1, <1>2, UsableSound, InitOnce, PTL DEF Spec

-----------------------------------------------------------------------------
(* Without expiry, every step keeps Covered: what leaves the table is      *)
(* reload's to drain, and what is in it at the end is shutdown's.          *)
LEMMA CoveredStep ==
  ASSUME OneSource, NoExpiry, UsableInv, Once, Covered, [Next]_vars
  PROVE  Covered'
<1> USE DEF UsableInv
<1>a. epc = "idle"
  BY RoutingAssumption, ReloadAssumption DEF Modes, NoExpiry
<1>b. ~UNCHANGED vars => mpc # "done"
  BY DEF Next, Dispatching, Demuxing, Reloading, Expiring, Draining, Maining, Environment,
         Exited
<1>c. ASSUME Keeps, Made' = Made, UNCHANGED <<cur, rtbl, rprev>>, UNCHANGED mpc, mpc # "done",
             lpc = "register_store" => lpc' = lpc /\ lp' = lp,
             rpc \in {"start", "store", "drain"} => rpc' = rpc
      PROVE  Covered'
  <2>1. /\ InTable(cur)' = InTable(cur) /\ InTable(rtbl)' = InTable(rtbl)
        /\ InTable(rprev)' = InTable(rprev)
        /\ \A r \in Made : Retiring(r) => Retiring(r)'
    BY <1>c DEF InTable, Keeps
  <2>2. mpc' = "wait" => \A r \in Made' : Retiring(r)'
    BY <1>c, <2>1 DEF Covered
  <2>3. ASSUME mpc' \in {"run", "stopping", "demux"}, NEW r \in Made'
        PROVE  \/ r \in InTable(cur)'
               \/ Retiring(r)'
               \/ lpc' = "register_store" /\ r = lp'
               \/ rpc' \in {"start", "store"} /\ r \in InTable(rtbl)'
               \/ rpc' = "drain" /\ r \in InTable(rprev)' \ InTable(rtbl)'
    BY <1>c, <2>1, <2>3 DEF Covered
  <2>4. mpc' # "done"
    BY <1>c
  <2> QED BY <2>2, <2>3, <2>4 DEF Covered
<1>1. CASE UNCHANGED vars
  <2>1. /\ UNCHANGED <<mpc, cur, rtbl, rprev, lpc, lp, rpc, pipes>>
        /\ Made' = Made /\ (\A r : At(r)' = At(r))
        /\ InTable(cur)' = InTable(cur) /\ InTable(rtbl)' = InTable(rtbl)
        /\ InTable(rprev)' = InTable(rprev)
    BY <1>1 DEF vars, routingVars, dispatchVars, reloadVars, Made, At, InTable
  <2> QED BY <2>1 DEF Covered, Retiring
<1>2. CASE Dispatching
  <2>0. /\ Keeps /\ UNCHANGED <<rpc, rtbl, rprev, mpc>>
        /\ lpc # "stopped" /\ mpc \in {"run", "stopping"}
    <3>1. Keeps /\ UNCHANGED <<rpc, rtbl, rprev, mpc>>
      BY <1>2, DispatchingKeeps DEF Dispatching, reloadVars
    <3>2. lpc # "stopped"
      BY <1>2 DEF Dispatching, DispatchRun, DispatchLookup, RegisterRecheck,
                  RegisterLoad, RegisterStore, DispatchCheck, DispatchEnqueue, Receive,
                  Listening, ListenerBinds, ListenerFails, ListenerStops, ReadFails,
                  ReadResumes, ListenerMoves
    <3> QED BY <3>1, <3>2 DEF Modes
  <2>1. CASE RegisterLoad /\ lpc' # "read"
    <3>1. /\ Made' = Made \cup {lp'} /\ cur' = cur
          /\ lpc = "register_load" /\ lpc' = "register_store"
      BY <2>1, RegisterAdds DEF RegisterLoad, Return
    <3>2. /\ InTable(cur)' = InTable(cur) /\ InTable(rtbl)' = InTable(rtbl)
          /\ InTable(rprev)' = InTable(rprev)
          /\ \A r \in Made : Retiring(r) => Retiring(r)'
      BY <2>0, <3>1 DEF InTable, Keeps
    <3>3. ASSUME NEW r \in Made'
          PROVE  \/ r \in InTable(cur)'
                 \/ Retiring(r)'
                 \/ lpc' = "register_store" /\ r = lp'
                 \/ rpc' \in {"start", "store"} /\ r \in InTable(rtbl)'
                 \/ rpc' = "drain" /\ r \in InTable(rprev)' \ InTable(rtbl)'
      BY <2>0, <3>1, <3>2 DEF Covered
    <3> QED BY <2>0, <3>3 DEF Covered
  <2>2. CASE RegisterStore
    <3>1. lpc = "register_store" /\ lpc' = "check" /\ UNCHANGED pipes /\ lprev = cur
          /\ ldg.project \notin DOMAIN cur.map
      BY <2>2 DEF RegisterStore, Current
    <3>2. InTable(cur) \cup {lp} \subseteq InTable(cur)'
      <4>1. /\ DOMAIN cur'.map = DOMAIN cur.map \cup {ldg.project}
            /\ \A p \in DOMAIN cur'.map :
                 cur'.map[p] = IF p = ldg.project THEN lp ELSE cur.map[p]
        BY <2>2, <3>1 DEF RegisterStore, Table
      <4> QED BY <3>1, <4>1 DEF InTable, Range
    <3>3. /\ InTable(rtbl)' = InTable(rtbl) /\ InTable(rprev)' = InTable(rprev)
          /\ Made' = Made
          /\ \A r \in Made : Retiring(r) => Retiring(r)'
      BY <2>0, <3>1 DEF InTable, Keeps, Made
    <3>4. ASSUME NEW r \in Made'
          PROVE  \/ r \in InTable(cur)'
                 \/ Retiring(r)'
                 \/ rpc' \in {"start", "store"} /\ r \in InTable(rtbl)'
                 \/ rpc' = "drain" /\ r \in InTable(rprev)' \ InTable(rtbl)'
      BY <2>0, <3>1, <3>2, <3>3 DEF Covered
    <3> QED BY <2>0, <3>4 DEF Covered
  <2>3. CASE ~(RegisterLoad /\ lpc' # "read") /\ ~RegisterStore
    <3>1. UNCHANGED cur /\ lpc # "register_store"
      BY <1>2, <2>3 DEF Dispatching, DispatchRun, DispatchLookup, RegisterRecheck, RegisterLoad,
                  DispatchCheck, DispatchEnqueue, Receive, Listening,
                  ListenerBinds, ListenerFails, ListenerStops, ReadFails, ReadResumes,
                  ListenerMoves, routingVars
    <3>2. Made' = Made
      <4>1. ~ReloadBuild
        BY <2>0 DEF ReloadBuild
      <4> QED BY <2>3, <4>1, MadeSteady
    <3> QED BY <1>c, <2>0, <3>1, <3>2
  <2> QED BY <2>1, <2>2, <2>3
<1>3. CASE Demuxing \/ Draining \/ Environment
  <2>1. /\ UNCHANGED <<cur, lpc, lp, rpc, rtbl, rprev, mpc>>
        /\ mpc # "done"
    BY <1>3 DEF Demuxing, DemuxRun, DemuxReceive, DemuxLookup, DemuxSend, DemuxExit, Draining,
                DrainCloses, DrainReturns, Environment, EditKeysFile, GoesIdle,
                routingVars, dispatchVars, reloadVars, Exited
  <2>2. Made' = Made
    <3>1. ~ReloadBuild /\ ~RegisterLoad
      BY <2>1 DEF ReloadBuild, RegisterLoad, Return
    <3> QED BY <3>1, MadeSteady
  <2> QED BY <1>3, <1>c, <2>1, <2>2, OthersKeep
<1>4. CASE Reloading
  <2>0. UNCHANGED <<lpc, lp, mpc>> /\ rpc # "stopped" /\ mpc \in {"run", "stopping"}
    <3>1. UNCHANGED <<lpc, lp, mpc>> /\ rpc # "stopped"
      BY <1>4 DEF Reloading, dispatchVars, ReloadStarts, ReloadRun, ReloadLoad, ReloadBuild,
                  ReloadStart, ReloadStore, ReloadDrain, ReloadStops
    <3> QED BY <3>1 DEF Modes
  <2>a. rpc # "idle" => lpc # "register_store"
    BY <2>0, RoutingAssumption, ReloadAssumption DEF Modes, OneSource, Registering
  <2>1. CASE ReloadStarts \/ ReloadLoad \/ ReloadStops \/ (ReloadBuild /\ rpc' = "idle")
    <3>1. UNCHANGED <<cur, pipes, rtbl, rprev>> /\ rpc \notin {"start", "store", "drain"}
      BY <2>1 DEF ReloadStarts, ReloadLoad, ReloadStops, ReloadBuild, routingVars
    <3>2. Keeps /\ Made' = Made
      BY <3>1, UnchangedEffect, UntouchedKeeps DEF AllUntouched
    <3> QED BY <1>c, <2>0, <3>1, <3>2
  <2>2. CASE ReloadBuild /\ rpc' # "idle"
    <3>1. rpc = "build" /\ rpc' = "start" /\ cur' = cur
      BY <2>2 DEF ReloadBuild
    <3>2. PICK new : /\ Made' = Made \cup new
                     /\ \A r \in Made : At(r)' = At(r)
                     /\ new \subseteq InTable(rtbl)'
      BY <2>2, <3>1, BuildAdds
    <3>3. InTable(cur)' = InTable(cur)
      BY <3>1 DEF InTable
    <3>4. \A r \in Made' : \/ r \in InTable(cur)'
                           \/ Retiring(r)'
                           \/ rpc' \in {"start", "store"} /\ r \in InTable(rtbl)'
      BY <2>0, <2>a, <3>1, <3>2, <3>3 DEF Covered, Retiring
    <3> QED BY <2>0, <3>4 DEF Covered
  <2>3. CASE ReloadStart
    <3>1. /\ rpc = "start" /\ rpc' = "store" /\ UNCHANGED <<cur, rtbl>>
          /\ SetStage(InTable(rtbl) \ InTable(rprev), "running")
      BY <2>3 DEF ReloadStart
    <3>2. /\ Made' = Made
          /\ \A r \in Made : /\ At(r)'.stage = IF r \in InTable(rtbl) \ InTable(rprev)
                                               THEN "running" ELSE At(r).stage
                             /\ At(r)'.drains = At(r).drains
      BY <3>1, StageEffect DEF TableInv
    <3>3. InTable(cur)' = InTable(cur) /\ InTable(rtbl)' = InTable(rtbl)
      BY <3>1 DEF InTable
    <3>4. \A r \in Made' : \/ r \in InTable(cur)'
                           \/ Retiring(r)'
                           \/ rpc' \in {"start", "store"} /\ r \in InTable(rtbl)'
      BY <2>0, <2>a, <3>1, <3>2, <3>3 DEF Covered, Retiring
    <3> QED BY <2>0, <3>4 DEF Covered
  <2>4. CASE ReloadStore
    <3>1. rpc = "store" /\ rpc' = "drain" /\ cur' = rtbl /\ UNCHANGED <<pipes, rtbl, rprev>>
          /\ rprev = cur
      BY <2>4 DEF ReloadStore, Current
    <3>2. /\ InTable(cur)' = InTable(rtbl) /\ InTable(rtbl)' = InTable(rtbl)
          /\ InTable(rprev)' = InTable(cur)
          /\ Made' = Made /\ (\A r : At(r)' = At(r))
      BY <3>1 DEF InTable, Made, At
    <3>3. \A r \in Made' : \/ r \in InTable(cur)'
                           \/ Retiring(r)'
                           \/ rpc' = "drain" /\ r \in InTable(rprev)' \ InTable(rtbl)'
      BY <2>0, <2>a, <3>1, <3>2 DEF Covered, Retiring
    <3> QED BY <2>0, <3>3 DEF Covered
  <2>5. CASE ReloadDrain
    <3>1. rpc = "drain" /\ rpc' = "idle" /\ SpawnDrains(InTable(rprev) \ InTable(rtbl))
          /\ UNCHANGED cur
      BY <2>5 DEF ReloadDrain
    <3>2. /\ Made' = Made
          /\ \A r \in Made : /\ At(r)'.stage = At(r).stage
                             /\ At(r)'.drains = IF r \in InTable(rprev) \ InTable(rtbl)
                                                THEN At(r).drains + 1 ELSE At(r).drains
      BY <3>1, SpawnEffect DEF TableInv
    <3>3. InTable(cur)' = InTable(cur) /\ \A r \in Made : At(r).drains \in Nat
      BY <3>1, MadeType DEF InTable, TableInv, Pipelines
    <3>4. \A r \in Made' : r \in InTable(cur)' \/ Retiring(r)'
      BY <2>0, <2>a, <3>1, <3>2, <3>3 DEF Covered, Retiring
    <3> QED BY <2>0, <3>4 DEF Covered
  <2> QED BY <1>4, <2>1, <2>2, <2>3, <2>4, <2>5 DEF Reloading, ReloadRun
<1>5. CASE Expiring
  <2>1. FALSE
    BY <1>a, <1>5, RoutingAssumption, ReloadAssumption
       DEF Expiring, ExpireRun, ExpireCollect, ExpireStore, ExpireDrain, NoExpiry
  <2> QED BY <2>1
<1>6. CASE Maining
  <2>0. UNCHANGED <<lpc, lp, rpc, rtbl, rprev, cur>>
    BY <1>6 DEF Maining, Main, Signal, ListenerGone, ShutdownCloses, ShutdownDrains,
                ShutdownReturns, dispatchVars, reloadVars, routingVars
  <2>1. CASE ShutdownDrains
    <3>1. mpc = "demux" /\ mpc' = "wait" /\ SpawnDrains(InTable(cur))
      BY <2>1 DEF ShutdownDrains
    <3>2. /\ Made' = Made
          /\ \A r \in Made : /\ At(r)'.stage = At(r).stage
                             /\ At(r)'.drains = IF r \in InTable(cur)
                                                THEN At(r).drains + 1 ELSE At(r).drains
                             /\ At(r).drains \in Nat
      BY <3>1, SpawnEffect, MadeType DEF TableInv, Pipelines
    <3>3. lpc = "stopped" /\ rpc = "stopped"
      BY <3>1 DEF Modes
    <3>4. \A r \in Made : r \in InTable(cur) \/ Retiring(r)
      BY <3>1, <3>3 DEF Covered
    <3>5. \A r \in Made' : Retiring(r)'
      BY <3>2, <3>4 DEF Retiring
    <3> QED BY <3>1, <3>5 DEF Covered
  <2>2. CASE ShutdownReturns
    <3>1. /\ mpc = "wait" /\ mpc' = "done" /\ UNCHANGED pipes
          /\ \A r \in Made : At(r).drains = 0 /\ At(r).stage # "closed"
      BY <2>2 DEF ShutdownReturns, routingVars
    <3>2. \A r \in Made : At(r).stage = "drained"
      BY <3>1 DEF Covered, Retiring
    <3>3. Made' = Made /\ \A r : At(r)' = At(r)
      BY <3>1 DEF Made, At
    <3> QED BY <3>1, <3>2, <3>3 DEF Covered
  <2>3. CASE Signal \/ ListenerGone \/ ShutdownCloses
    <3>1. /\ mpc \in {"run", "stopping"} /\ mpc' \in {"stopping", "demux"}
          /\ UNCHANGED pipes
      BY <2>3 DEF Signal, ListenerGone, ShutdownCloses
    <3>2. /\ Made' = Made /\ (\A r : At(r)' = At(r))
          /\ InTable(cur)' = InTable(cur) /\ InTable(rtbl)' = InTable(rtbl)
          /\ InTable(rprev)' = InTable(rprev)
      BY <2>0, <3>1 DEF Made, At, InTable
    <3> QED BY <2>0, <3>1, <3>2 DEF Covered, Retiring
  <2> QED BY <1>6, <2>1, <2>2, <2>3 DEF Maining, Main
<1> QED BY <1>1, <1>2, <1>3, <1>4, <1>5, <1>6 DEF Next

-----------------------------------------------------------------------------
(* A step of neither listener nor demuxer leaves the datagrams in place.   *)
LEMMA PlacedKept ==
  ASSUME Placed, UNCHANGED <<fate, home, sharedQ, lpc, ldg, xpc, xdg>>,
         sharedClosed => sharedClosed',
         mpc' \in {"wait", "done"} => mpc \in {"wait", "done"} \/ xpc = "done"
  PROVE  Placed'
BY DEF Placed

(* Every step keeps Placed: dispatch, the shared queue and the demuxer     *)
(* pass a datagram on, and each is emptied before the next is given up.    *)
LEMMA PlacedStep ==
  ASSUME TableInv, Placed, [Next]_vars
  PROVE  Placed'
<1>a. /\ fate \in [1 .. MaxDatagrams -> Fates] /\ sharedQ \in Seq(Datagrams)
      /\ received \in 0 .. MaxDatagrams
      /\ home = [d \in 1 .. MaxDatagrams |-> home[d]]
  BY DEF TableInv, SharedOK, HoldersOK
<1>1. CASE UNCHANGED vars
  BY <1>1, PlacedKept DEF vars, routingVars, dispatchVars, reloadVars
<1>2. ASSUME NEW w \in Payloads, Receive(w), UNCHANGED mpc
      PROVE  Placed'
  <2>1. /\ lpc = "read" /\ received' = received + 1 /\ received < MaxDatagrams
        /\ UNCHANGED <<sharedQ, sharedClosed, home, xpc, xdg>>
    BY <1>2 DEF Receive
  <2>2. received' \in 1 .. MaxDatagrams
    BY <1>a, <2>1, RoutingAssumption
  <2>3. CASE EarlyDrop(w) # "none"
    <3>1. EarlyDrop(w) \in {"parse_error", "unrouted_unknown", "bad_token"}
      BY <2>3 DEF EarlyDrop
    <3>2. fate' = [fate EXCEPT ![received'] = EarlyDrop(w)] /\ UNCHANGED <<lpc, ldg>>
      BY <1>2, <2>3 DEF Receive, Settle
    <3>3. \A d \in 1 .. MaxDatagrams :
            fate'[d] = IF d = received' THEN EarlyDrop(w) ELSE fate[d]
      BY <1>a, <2>2, <3>2
    <3> QED BY <1>2, <2>1, <3>1, <3>2, <3>3 DEF Placed
  <2>4. CASE EarlyDrop(w) = "none"
    <3>1. fate' = [fate EXCEPT ![received'] = "dispatching"]
          /\ lpc' = "lookup" /\ ldg'.id = received'
      BY <1>2, <2>4 DEF Receive, Settle
    <3>2. \A d \in 1 .. MaxDatagrams :
            fate'[d] = IF d = received' THEN "dispatching" ELSE fate[d]
      BY <1>a, <2>2, <3>1
    <3> QED BY <1>2, <2>1, <3>1, <3>2 DEF Placed
  <2> QED BY <2>3, <2>4
<1>3. ASSUME NEW outcome \in Drops, Return(outcome),
             UNCHANGED <<mpc, sharedQ, sharedClosed, home, xpc, xdg>>
      PROVE  Placed'
  <2>1. \A d \in 1 .. MaxDatagrams :
          fate'[d] = IF d = ldg.id THEN outcome ELSE fate[d]
    BY <1>3, <1>a DEF Return, Settle
  <2>2. outcome \notin {"dispatching", "queued", "demuxing", "handed"}
    BY DEF Drops
  <2>3. \A d \in 1 .. MaxDatagrams : fate[d] = "dispatching" => d = ldg.id
    BY DEF Placed
  <2> QED BY <1>3, <2>1, <2>2, <2>3 DEF Placed
<1>4. ASSUME lpc \notin {"bind", "read", "backoff", "stopped"},
             lpc' \notin {"bind", "read", "backoff", "stopped"},
             UNCHANGED <<fate, ldg, mpc, sharedQ, sharedClosed, home, xpc, xdg>>
      PROVE  Placed'
  BY <1>4 DEF Placed
<1>5. ASSUME DispatchLookup \/ RegisterRecheck \/ RegisterLoad \/ RegisterStore \/ DispatchCheck,
             UNCHANGED mpc
      PROVE  Placed'
  <2>1. UNCHANGED <<sharedQ, sharedClosed, home, xpc, xdg>>
    BY <1>5 DEF DispatchLookup, RegisterRecheck, RegisterLoad, RegisterStore, DispatchCheck
  <2>2. lpc \in {"lookup", "register", "register_load", "register_store", "check"}
    BY <1>5 DEF DispatchLookup, RegisterRecheck, RegisterLoad, RegisterStore, DispatchCheck
  <2>3. \/ \E outcome \in Drops : Return(outcome)
        \/ /\ lpc' \in {"register", "register_load", "register_store", "check", "enqueue"}
           /\ UNCHANGED <<fate, ldg>>
    <3>1. Unrouted(ldg.project) \in Drops /\ "unrouted_unknown" \in Drops
          /\ "missing_token" \in Drops /\ "routing_closed" \in Drops
      BY DEF Unrouted, Drops
    <3> QED BY <1>5, <3>1
          DEF DispatchLookup, RegisterRecheck, RegisterLoad, RegisterStore, DispatchCheck
  <2> QED BY <1>3, <1>4, <1>5, <2>1, <2>2, <2>3
<1>6. ASSUME DispatchEnqueue, UNCHANGED mpc
      PROVE  Placed'
  <2>1. UNCHANGED <<sharedClosed, home, xpc, xdg>>
    BY <1>6 DEF DispatchEnqueue
  <2>2. CASE sharedQ' = sharedQ
    <3>1. Return("routing_closed") \/ Return("queue_full")
      <4>1. sharedQ \in Seq(Datagrams) => Append(sharedQ, ldg) # sharedQ
        OBVIOUS
      <4> QED BY <1>6, <1>a, <2>2, <4>1 DEF DispatchEnqueue
    <3>2. "routing_closed" \in Drops /\ "queue_full" \in Drops
      BY DEF Drops
    <3> QED BY <1>3, <1>6, <2>1, <2>2, <3>1, <3>2
  <2>3. CASE sharedQ' # sharedQ
    <3>1. sharedQ' = Append(sharedQ, ldg) /\ ~sharedClosed /\ Return("queued")
      BY <1>6, <2>3 DEF DispatchEnqueue
    <3>2. lpc' = "read" /\ \A d \in 1 .. MaxDatagrams :
            fate'[d] = IF d = ldg.id THEN "queued" ELSE fate[d]
      BY <1>a, <3>1 DEF Return, Settle
    <3>3. /\ ldg \in Datagrams
          /\ \A i \in DOMAIN sharedQ : i \in DOMAIN sharedQ' /\ sharedQ'[i] = sharedQ[i]
          /\ \E i \in DOMAIN sharedQ' : sharedQ'[i].id = ldg.id
      <4>1. ldg \in Datagrams
        BY DEF TableInv, SharedOK
      <4>2. Len(sharedQ) + 1 \in DOMAIN sharedQ' /\ sharedQ'[Len(sharedQ) + 1] = ldg
        BY <1>a, <3>1, <4>1
      <4> QED BY <1>a, <3>1, <4>1, <4>2
    <3>4. xpc' # "done"
      BY <2>1, <3>1 DEF Placed
    <3>5. \A d \in 1 .. MaxDatagrams : fate'[d] = "queued" =>
            \E i \in DOMAIN sharedQ' : sharedQ'[i].id = d
      BY <3>2, <3>3 DEF Placed
    <3>6. \A d \in 1 .. MaxDatagrams :
            /\ fate'[d] # "dispatching"
            /\ fate'[d] = "demuxing" => xpc' \in {"lookup", "send"} /\ xdg'.id = d
            /\ fate'[d] = "handed" => home'[d] # NoPipe
      BY <2>1, <3>2 DEF Placed
    <3> QED BY <1>6, <2>1, <3>4, <3>5, <3>6 DEF Placed
  <2> QED BY <2>2, <2>3
<1>7. CASE Dispatching
  <2>1. UNCHANGED mpc
    BY <1>7 DEF Dispatching
  <2>2. CASE Listening
    <3>1. /\ lpc \in {"bind", "read", "backoff"}
          /\ UNCHANGED <<fate, home, sharedQ, sharedClosed, ldg, xpc, xdg>>
      BY <2>2 DEF Listening, ListenerBinds, ListenerFails, ListenerStops, ReadFails,
                  ReadResumes, ListenerMoves, routingVars
    <3> QED BY <2>1, <3>1 DEF Placed
  <2> QED BY <1>2, <1>5, <1>6, <1>7, <2>1, <2>2 DEF Dispatching, DispatchRun
<1>8. CASE Demuxing
  <2>0. UNCHANGED <<mpc, lpc, ldg, sharedClosed>>
    BY <1>8 DEF Demuxing, DemuxRun, DemuxReceive, DemuxLookup, DemuxSend, DemuxExit, routingVars
  <2>1. CASE DemuxReceive
    <3> DEFINE dg == Head(sharedQ)
    <3>1. xpc = "recv" /\ sharedQ # <<>> /\ sharedQ' = Tail(sharedQ) /\ UNCHANGED home
      BY <2>1 DEF DemuxReceive
    <3>2. /\ fate' = [fate EXCEPT ![dg.id] = "demuxing"]
          /\ xpc' = "lookup" /\ xdg' = dg
      BY <2>1 DEF DemuxReceive, Settle
    <3>4. \A d \in 1 .. MaxDatagrams :
            fate'[d] = IF d = dg.id THEN "demuxing" ELSE fate[d]
      BY <1>a, <3>2
    <3>5. \A i \in DOMAIN sharedQ :
            i = 1 \/ (i - 1 \in DOMAIN sharedQ' /\ sharedQ'[i - 1] = sharedQ[i])
      BY <1>a, <3>1
    <3>6. \A d \in 1 .. MaxDatagrams : fate'[d] = "queued" =>
            \E i \in DOMAIN sharedQ' : sharedQ'[i].id = d
      <4> SUFFICES ASSUME NEW d \in 1 .. MaxDatagrams, fate'[d] = "queued"
                   PROVE  \E i \in DOMAIN sharedQ' : sharedQ'[i].id = d
        OBVIOUS
      <4>1. fate[d] = "queued" /\ d # dg.id
        BY <3>4
      <4>2. PICK i \in DOMAIN sharedQ : sharedQ[i].id = d
        BY <4>1 DEF Placed
      <4>3. i # 1
        BY <4>1, <4>2, <1>a, <3>1
      <4> QED BY <3>5, <4>2, <4>3
    <3>7. xpc' # "done"
      BY <2>1 DEF DemuxReceive
    <3>8. \A d \in 1 .. MaxDatagrams :
            /\ fate'[d] = "dispatching" => lpc' \notin {"bind", "read", "backoff", "stopped"}
                                           /\ ldg'.id = d
            /\ fate'[d] = "demuxing" => xpc' \in {"lookup", "send"} /\ xdg'.id = d
            /\ fate'[d] = "handed" => home'[d] # NoPipe
      <4> HIDE DEF dg
      <4> QED BY <2>0, <3>1, <3>2, <3>4 DEF Placed
    <3>9. mpc' \notin {"wait", "done"}
      BY <2>0, <3>1 DEF Placed
    <3> QED BY <3>6, <3>7, <3>8, <3>9 DEF Placed
  <2>4. CASE DemuxLookup
    <3>1. xpc = "lookup" /\ xpc' \in {"recv", "send"} /\ UNCHANGED <<sharedQ, home>>
      BY <2>4 DEF DemuxLookup
    <3>2. CASE xpc' = "recv"
      <4>1. fate' = [fate EXCEPT ![xdg.id] = "routing_closed"]
        BY <2>4, <3>2 DEF DemuxLookup, Settle
      <4>2. \A d \in 1 .. MaxDatagrams :
              fate'[d] = IF d = xdg.id THEN "routing_closed" ELSE fate[d]
        BY <1>a, <4>1
      <4> QED BY <2>0, <3>1, <3>2, <4>2 DEF Placed
    <3>3. CASE xpc' = "send"
      <4>1. UNCHANGED <<fate, xdg>>
        BY <2>4, <3>3 DEF DemuxLookup
      <4> QED BY <2>0, <3>1, <3>3, <4>1 DEF Placed
    <3> QED BY <3>1, <3>2, <3>3
  <2>2. CASE DemuxSend
    <3>1. /\ xpc = "send" /\ xpc' = "recv" /\ UNCHANGED sharedQ
          /\ \E o \in {"routing_closed", "handed", "queue_full"} :
               /\ fate' = [fate EXCEPT ![xdg.id] = o]
               /\ o = "handed" => home' = [home EXCEPT ![xdg.id] = xp]
               /\ o # "handed" => home' = home
      BY <2>2 DEF DemuxSend, Settle
    <3>2. PICK o \in {"routing_closed", "handed", "queue_full"} :
               /\ fate' = [fate EXCEPT ![xdg.id] = o]
               /\ o = "handed" => home' = [home EXCEPT ![xdg.id] = xp]
               /\ o # "handed" => home' = home
      BY <3>1
    <3>3. xp # NoPipe
      BY <3>1 DEF TableInv, HoldersOK, IsPipe, NoPipe
    <3>4. \A d \in 1 .. MaxDatagrams :
            /\ fate'[d] = IF d = xdg.id THEN o ELSE fate[d]
            /\ home'[d] = IF d = xdg.id /\ o = "handed" THEN xp ELSE home[d]
      BY <1>a, <3>2
    <3> QED BY <2>0, <3>1, <3>2, <3>3, <3>4 DEF Placed
  <2>3. CASE DemuxExit
    <3>1. /\ xpc = "recv" /\ xpc' = "done" /\ sharedQ = <<>> /\ sharedClosed
          /\ UNCHANGED <<fate, home, sharedQ, xdg>>
      BY <2>3 DEF DemuxExit, routingVars
    <3> QED BY <2>0, <3>1 DEF Placed
  <2> QED BY <1>8, <2>1, <2>2, <2>3, <2>4 DEF Demuxing, DemuxRun
<1>9. CASE Reloading \/ Expiring \/ Draining \/ Environment
  <2>1. UNCHANGED <<fate, home, sharedQ, sharedClosed, mpc, lpc, ldg, xpc, xdg>>
    BY <1>9 DEF Reloading, ReloadStarts, ReloadRun, ReloadLoad, ReloadBuild,
                ReloadStart, ReloadStore, ReloadDrain, ReloadStops, Expiring, ExpireRun,
                ExpireCollect, ExpireStore, ExpireDrain, Draining, DrainCloses, DrainReturns,
                Environment, EditKeysFile, GoesIdle, routingVars, dispatchVars
  <2> QED BY <2>1, PlacedKept
<1>10. CASE Maining
  <2>1. /\ UNCHANGED <<fate, home, sharedQ, lpc, ldg, xpc, xdg>>
        /\ sharedClosed => sharedClosed'
        /\ mpc' \in {"wait", "done"} => mpc = "wait" \/ xpc = "done"
    BY <1>10 DEF Maining, Main, Signal, ListenerGone, ShutdownCloses, ShutdownDrains,
                 ShutdownReturns, dispatchVars, routingVars
  <2> QED BY <2>1, PlacedKept
<1> QED BY <1>1, <1>7, <1>8, <1>9, <1>10 DEF Next

(* At start every pipeline is published and no datagram was sent.          *)
LEMMA InitCovered == Init => Covered /\ Placed
<1> SUFFICES ASSUME Init PROVE Covered /\ Placed
  OBVIOUS
<1>1. /\ mpc = "run" /\ xpc = "recv"
      /\ fate = [d \in 1 .. MaxDatagrams |-> "unsent"]
  BY DEF Init, RoutingInit, DispatchInit
<1> QED BY <1>1, InitReady DEF Covered, Placed

(* With one source of routes and without expiry, main does not return      *)
(* before every datagram is dropped or in a pipeline whose drain has       *)
(* returned (Registry!ShutdownStrandsNothing; routing.go shutdown).        *)
THEOREM NothingStranded ==
  ASSUME OneSource, NoExpiry
  PROVE  Spec => []ShutdownStrandsNothing
<1>1. DrainInv /\ [Next]_vars => DrainInv'
  BY StepTableInv, ModesStep, CurrentStep, UsableStep, OnceStep, CoveredStep, PlacedStep
     DEF DrainInv, UsableInv
<1>2. Init => DrainInv
  BY InitUsableInv, InitOnce, InitCovered DEF DrainInv
<1>3. DrainInv => ShutdownStrandsNothing
  <2> SUFFICES ASSUME DrainInv, mpc = "done", NEW d \in 1 .. MaxDatagrams
               PROVE  /\ fate[d] \in Drops \cup {"unsent", "handed"}
                      /\ fate[d] = "handed" => At(home[d]).stage = "drained"
    BY DEF ShutdownStrandsNothing
  <2>1. fate[d] \in Fates /\ lpc = "stopped"
    BY DEF DrainInv, UsableInv, TableInv, SharedOK, Modes
  <2>2. xpc = "done" /\ sharedQ = <<>>
    BY DEF DrainInv, Placed
  <2>3. fate[d] \notin {"dispatching", "queued", "demuxing"}
    BY <2>1, <2>2 DEF DrainInv, Placed
  <2>4. fate[d] = "handed" => home[d] \in Made
    BY MadeIsPipe DEF DrainInv, Placed, UsableInv, TableInv, HoldersOK
  <2>5. \A r \in Made : At(r).stage = "drained"
    BY DEF DrainInv, Covered
  <2> QED BY <2>1, <2>3, <2>4, <2>5 DEF Fates
<1> QED BY <1>1, <1>2, <1>3, PTL DEF Spec
-----------------------------------------------------------------------------
(* Of the pipelines, the fallback is the only one that is not inline, if   *)
(* there are inline ones.                                                  *)
Kinds ==
  /\ ~InlineTokens => \A r \in Made : ~At(r).inline
  /\ InlineTokens => \A r \in Made :
       ~At(r).inline => r = <<Default, 1>> /\ ApiKey # NoKey

(* Without a token, dispatch lets only what is for the fallback through.   *)
Tokenless(dg) == ApiKey # NoKey /\ dg.project \in {NoProject, Default}

(* The same of the datagrams between the two lookups.                      *)
TokensOK ==
  /\ lpc \in {"check", "enqueue"} => ldg.project \in {NoProject, lp[1]}
  /\ InlineTokens => /\ lpc = "enqueue" /\ ~ldg.token => Tokenless(ldg)
                     /\ \A i \in DOMAIN sharedQ :
                          ~sharedQ[i].token => Tokenless(sharedQ[i])
                     /\ xpc = "lookup" /\ ~xdg.token => Tokenless(xdg)
  /\ NoTokenlessInline

(* The inductive invariant of the credentials.                             *)
TokenInv == TableInv /\ Modes /\ Kinds /\ TokensOK

-----------------------------------------------------------------------------
(* Pipelines that exist keep their kind.                                   *)
LEMMA KindsKept ==
  ASSUME Evolves, NEW r \in Made
  PROVE  At(r)'.inline = At(r).inline
<1>1. PICK p \in Projects : \E g \in DOMAIN pipes[p] : r = <<p, g>>
  BY DEF Made
<1>2. PICK g \in DOMAIN pipes[p] : r = <<p, g>>
  BY <1>1
<1> QED BY <1>1, <1>2 DEF Evolves, Grown, At

(* Under a tag, lookup finds a pipeline of the project asked for; under    *)
(* none, or under Default, it finds the fallback if there is one.          *)
LEMMA LookupProject ==
  ASSUME NEW project \in Projects \cup {NoProject}, TableOK(cur, pipes),
         Lookup(cur, project) # NoPipe
  PROVE  /\ project \in {NoProject, Lookup(cur, project)[1]}
         /\ ApiKey # NoKey /\ project \in {NoProject, Default} =>
              Lookup(cur, project) = <<Default, 1>>
<1>1. CASE project = NoProject
  BY <1>1, RoutingAssumption DEF Lookup, TableOK
<1>2. CASE project # NoProject
  <2>1. project \in DOMAIN cur.map /\ Lookup(cur, project) = cur.map[project]
    BY <1>2 DEF Lookup
  <2>2. PICK g \in DOMAIN pipes[project] : cur.map[project] = <<project, g>>
    BY <2>1 DEF TableOK
  <2> QED BY <1>2, <2>1, <2>2 DEF TableOK
<1> QED BY <1>1, <1>2

(* Every step keeps the kinds: registerInline makes inline pipelines, and  *)
(* only when the feature is on; reload makes others, and only when there   *)
(* is a keys file.                                                         *)
LEMMA KindsStep ==
  ASSUME OneSource, TableInv, Modes, Kinds, [Next]_vars
  PROVE  Kinds'
<1>0. \A r \in Made : At(r)'.inline = At(r).inline
  BY StepTableInv, KindsKept
<1>1. CASE RegisterLoad /\ lpc' # "read"
  <2>1. Made' = Made \cup {lp'} /\ At(lp)'.inline
    BY <1>1, RegisterAdds
  <2>2. InlineTokens
    BY <1>1, RoutingAssumption DEF RegisterLoad, Modes, Registering
  <2>3. \A r \in Made' : r \notin Made => At(r)'.inline
    BY <2>1 DEF At
  <2> QED BY <1>0, <2>2, <2>3 DEF Kinds
<1>2. CASE ReloadBuild /\ rpc' # "idle"
  <2>1. rpc = "build" /\ rpc' = "start"
    BY <1>2 DEF ReloadBuild
  <2>2. PICK new : Made' = Made \cup new /\ \A r \in new : ~At(r)'.inline
    BY <1>2, <2>1, BuildAdds
  <2>3. ~InlineTokens
    BY <2>1, RoutingAssumption, ReloadAssumption DEF Modes, OneSource
  <2> QED BY <1>0, <2>2, <2>3 DEF Kinds
<1>3. CASE ~(RegisterLoad /\ lpc' # "read") /\ ~(ReloadBuild /\ rpc' # "idle")
  <2>1. Made' = Made
    BY <1>3, MadeSteady
  <2> QED BY <1>0, <2>1 DEF Kinds
<1> QED BY <1>1, <1>2, <1>3

(* Every step keeps TokensOK.                                              *)
LEMMA TokensStep ==
  ASSUME TokenInv, [Next]_vars
  PROVE  TokensOK'
<1> USE DEF TokenInv
<1>a. /\ sharedQ \in Seq(Datagrams) /\ ldg \in Datagrams /\ xdg \in Datagrams
      /\ ldg.project \in Projects \cup {NoProject} /\ TableOK(cur, pipes)
  BY DEF TableInv, SharedOK, TablesOK, Datagrams
<1>b. xpc = "send" => xp \in Made
  BY MadeIsPipe DEF TableInv, HoldersOK
<1>c. ASSUME UNCHANGED <<xpc, xdg, xp>>
      PROVE  NoTokenlessInline'
  <2> SUFFICES ASSUME xpc = "send", ~xdg.token
               PROVE  ~At(xp)'.inline
    BY <1>c DEF NoTokenlessInline
  <2>1. PICK r \in Made : r = xp
    BY <1>b
  <2>2. ~At(r).inline
    BY <2>1 DEF TokensOK, NoTokenlessInline
  <2>3. ~At(r)'.inline
    BY <2>2, StepTableInv, KindsKept
  <2> QED BY <1>c, <2>1, <2>3 DEF At
<1>1. CASE UNCHANGED <<lpc, ldg, lp, sharedQ, xpc, xdg, xp>>
  BY <1>1, <1>c DEF TokensOK, Tokenless
<1>2. CASE Dispatching
  <2>0. UNCHANGED <<xpc, xdg, xp>>
    BY <1>2 DEF Dispatching, DispatchRun, DispatchLookup, RegisterRecheck, RegisterLoad,
                RegisterStore, DispatchCheck, DispatchEnqueue, Receive, Listening,
                ListenerBinds, ListenerFails, ListenerStops, ReadFails, ReadResumes,
                ListenerMoves
  <2>1. CASE lpc' \notin {"check", "enqueue"} /\ sharedQ' = sharedQ
    BY <1>c, <2>0, <2>1 DEF TokensOK, Tokenless
  <2>2. CASE lpc' = "check"
    <3>1. DispatchLookup \/ RegisterRecheck \/ RegisterStore
      BY <1>2, <2>2 DEF Dispatching, DispatchRun, RegisterLoad, DispatchCheck, DispatchEnqueue,
                  Return, Receive, Listening, ListenerBinds, ListenerFails, ListenerStops,
                  ReadFails, ReadResumes, ListenerMoves
    <3>2. UNCHANGED <<sharedQ, ldg>>
      BY <2>2, <3>1 DEF DispatchLookup, RegisterRecheck, RegisterStore, Return
    <3>3. ldg.project \in {NoProject, lp'[1]}
      <4>1. CASE RegisterStore
        BY <4>1 DEF RegisterStore, TableInv, HoldersOK
      <4>2. CASE ~RegisterStore
        <5>1. lp' = Lookup(cur, ldg.project) /\ lp' # NoPipe
          BY <2>2, <3>1, <4>2 DEF DispatchLookup, RegisterRecheck, Return
        <5> QED BY <1>a, <5>1, LookupProject
      <4> QED BY <4>1, <4>2
    <3> QED BY <1>c, <2>0, <2>2, <3>2, <3>3 DEF TokensOK, Tokenless
  <2>3. CASE lpc' = "enqueue"
    <3>1. /\ DispatchCheck /\ UNCHANGED <<sharedQ, ldg, lp>> /\ lpc = "check"
          /\ ~(At(lp).inline /\ ~ldg.token)
      BY <1>2, <2>3 DEF Dispatching, DispatchRun, DispatchLookup, RegisterRecheck,
                  RegisterLoad, RegisterStore, DispatchCheck, DispatchEnqueue,
                  Return, Receive, Listening, ListenerBinds, ListenerFails, ListenerStops,
                  ReadFails, ReadResumes, ListenerMoves
    <3>2. InlineTokens /\ ~ldg.token => Tokenless(ldg)
      <4> SUFFICES ASSUME InlineTokens, ~ldg.token PROVE Tokenless(ldg)
        OBVIOUS
      <4>1. lp \in Made /\ ~At(lp).inline
        BY <3>1, MadeIsPipe DEF TableInv, HoldersOK
      <4>2. lp = <<Default, 1>> /\ ApiKey # NoKey
        BY <4>1 DEF Kinds
      <4> QED BY <3>1, <4>2 DEF TokensOK, Tokenless
    <3> QED BY <1>c, <2>0, <2>3, <3>1, <3>2 DEF TokensOK, Tokenless
  <2>4. CASE sharedQ' # sharedQ
    <3>1. lpc = "enqueue" /\ lpc' = "read" /\ sharedQ' = Append(sharedQ, ldg)
      BY <1>2, <2>4 DEF Dispatching, DispatchRun, DispatchLookup, RegisterRecheck,
                  RegisterLoad, RegisterStore, DispatchCheck, DispatchEnqueue,
                  Return, Receive, Listening, ListenerBinds, ListenerFails, ListenerStops,
                  ReadFails, ReadResumes, ListenerMoves, routingVars
    <3>2. \A i \in DOMAIN sharedQ' :
            sharedQ'[i] = ldg \/ (i \in DOMAIN sharedQ /\ sharedQ'[i] = sharedQ[i])
      BY <1>a, <3>1
    <3> QED BY <1>c, <2>0, <3>1, <3>2 DEF TokensOK, Tokenless
  <2> QED BY <2>1, <2>2, <2>3, <2>4
<1>3. CASE Demuxing
  <2>0. UNCHANGED <<lpc, ldg, lp, pipes>>
    BY <1>3 DEF Demuxing, DemuxRun, DemuxReceive, DemuxLookup, DemuxSend, DemuxExit, routingVars
  <2>1. CASE DemuxReceive
    <3> DEFINE dg == Head(sharedQ)
    <3>1. sharedQ # <<>> /\ sharedQ' = Tail(sharedQ) /\ xpc = "recv"
      BY <2>1 DEF DemuxReceive
    <3>2. /\ dg \in Datagrams /\ 1 \in DOMAIN sharedQ /\ dg = sharedQ[1]
          /\ \A i \in DOMAIN sharedQ' : i + 1 \in DOMAIN sharedQ /\ sharedQ'[i] = sharedQ[i + 1]
      BY <1>a, <3>1
    <3>3. xpc' = "lookup" /\ xdg' = dg
      BY <2>1 DEF DemuxReceive
    <3> HIDE DEF dg
    <3>4. InlineTokens /\ ~dg.token => Tokenless(dg)
      BY <3>2 DEF TokensOK
    <3> QED BY <2>0, <3>2, <3>3, <3>4 DEF TokensOK, Tokenless, NoTokenlessInline
  <2>3. CASE DemuxLookup
    <3>1. xpc = "lookup" /\ xpc' # "lookup" /\ UNCHANGED sharedQ
      BY <2>3 DEF DemuxLookup
    <3>2. xpc' = "send" => /\ xdg' = xdg /\ xp' = Lookup(cur, xdg.project)
                           /\ Lookup(cur, xdg.project) # NoPipe
      BY <2>3 DEF DemuxLookup
    <3>3. ASSUME xpc' = "send", ~xdg.token
          PROVE  ~At(Lookup(cur, xdg.project)).inline
      <4>1. CASE InlineTokens
        <5>1. Tokenless(xdg)
          BY <3>1, <3>3, <4>1 DEF TokensOK
        <5>2. Lookup(cur, xdg.project) = <<Default, 1>> /\ ApiKey # NoKey
          BY <1>a, <3>2, <3>3, <5>1, LookupProject, RoutingAssumption DEF Tokenless
        <5> QED BY <5>2 DEF TableInv, FallbackOK, At
      <4>2. CASE ~InlineTokens
        <5>1. xdg.project \in Projects \cup {NoProject}
          BY <1>a DEF Datagrams
        <5>2. Lookup(cur, xdg.project) \in Made
          BY <1>a, <3>2, <3>3, <5>1, LookupFinds, MadeIsPipe
        <5> QED BY <4>2, <5>2 DEF Kinds
      <4> QED BY <4>1, <4>2
    <3>4. NoTokenlessInline'
      BY <2>0, <3>2, <3>3 DEF NoTokenlessInline, At
    <3> QED BY <2>0, <3>1, <3>4 DEF TokensOK, Tokenless
  <2>2. CASE DemuxSend \/ DemuxExit
    <3>1. UNCHANGED sharedQ /\ xpc' \notin {"lookup", "send"}
      BY <2>2 DEF DemuxSend, DemuxExit, routingVars
    <3> QED BY <2>0, <3>1 DEF TokensOK, Tokenless, NoTokenlessInline
  <2> QED BY <1>3, <2>1, <2>2, <2>3 DEF Demuxing, DemuxRun
<1>4. CASE Reloading \/ Expiring \/ Draining \/ Maining \/ Environment \/ UNCHANGED vars
  <2>1. UNCHANGED <<lpc, ldg, lp, sharedQ, xpc, xdg, xp>>
    BY <1>4 DEF Reloading, ReloadStarts, ReloadRun, ReloadLoad, ReloadBuild,
                ReloadStart, ReloadStore, ReloadDrain, ReloadStops, Expiring, ExpireRun,
                ExpireCollect, ExpireStore, ExpireDrain, Draining, DrainCloses, DrainReturns,
                Maining, Main, Signal, ListenerGone, ShutdownCloses, ShutdownDrains,
                ShutdownReturns, Environment, EditKeysFile, GoesIdle, vars, routingVars,
                dispatchVars
  <2> QED BY <1>1, <2>1
<1> QED BY <1>2, <1>3, <1>4 DEF Next

(* install makes pipelines that are not inline; with inline tokens, for    *)
(* MESH0_API_KEY alone.                                                    *)
LEMMA InitTokenInv ==
  ASSUME OneSource, Init
  PROVE  TokenInv
<1>1. PICK f \in KeysFiles :
        /\ IF UseKeysFile THEN LoadKeysFile(f) # Unreadable ELSE LoadKeysFile(f) = NoKeys
        /\ RoutingInit(LoadKeysFile(f))
  BY DEF Init
<1> DEFINE keys == WithApiKey(LoadKeysFile(f))
           first(p) == [NewPipeline(keys[p], FALSE) EXCEPT !.stage = "running"]
<1>2. InlineTokens => DOMAIN keys = IF ApiKey # NoKey THEN {Default} ELSE {}
  BY <1>1, RoutingAssumption, ReloadAssumption DEF OneSource, NoKeys, WithApiKey
<1> HIDE DEF keys
<1>3. pipes = [p \in Projects |-> IF p \in DOMAIN keys THEN <<first(p)>> ELSE <<>>]
  BY <1>1 DEF RoutingInit, keys
<1>4. \A p \in Projects : ~first(p).inline
  BY DEF NewPipeline
<1> HIDE DEF first
<1>5. ASSUME NEW r \in Made
      PROVE  ~At(r).inline /\ \E p \in DOMAIN keys : r = <<p, 1>>
  <2>1. PICK p \in Projects : \E g \in DOMAIN pipes[p] : r = <<p, g>>
    BY DEF Made
  <2>2. PICK g \in DOMAIN pipes[p] : r = <<p, g>>
    BY <2>1
  <2>3. p \in DOMAIN keys
    <3> SUFFICES ASSUME p \notin DOMAIN keys PROVE FALSE
      OBVIOUS
    <3>1. pipes[p] = <<>>
      BY <1>3, <2>1
    <3> QED BY <2>2, <3>1
  <2>4. pipes[p] = <<first(p)>>
    BY <1>3, <2>1, <2>3
  <2>5. g = 1 /\ pipes[p][g] = first(p)
    BY <2>2, <2>4
  <2> QED BY <1>4, <2>1, <2>2, <2>3, <2>5 DEF At
<1>6. Kinds
  BY <1>2, <1>5 DEF Kinds
<1>7. lpc = "bind" /\ xpc = "recv" /\ sharedQ = <<>>
  BY <1>1 DEF Init, DispatchInit, RoutingInit
<1>8. TokensOK
  BY <1>7 DEF TokensOK, NoTokenlessInline
<1> QED BY <1>6, <1>8, InitUsableInv DEF TokenInv, UsableInv

(* With one source of routes, no datagram without a token reaches an       *)
(* inline pipeline, which would POST it under an empty bearer              *)
(* (Registry!NoTokenlessInline; routing.go dispatch, demux).               *)
THEOREM TokenlessKeptOut ==
  ASSUME OneSource
  PROVE  Spec => []NoTokenlessInline
<1>1. TokenInv /\ [Next]_vars => TokenInv'
  BY StepTableInv, ModesStep, KindsStep, TokensStep DEF TokenInv
<1>2. Init => TokenInv
  BY InitTokenInv
<1>3. TokenInv => NoTokenlessInline
  BY DEF TokenInv, TokensOK
<1> QED BY <1>1, <1>2, <1>3, PTL DEF Spec
=============================================================================
