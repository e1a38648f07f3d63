------------------------------- MODULE Reload -------------------------------
(***************************************************************************)
(* The two goroutines that retire pipelines while the agent runs: the one  *)
(* in main that calls reload on SIGHUP and on the poll tick, and           *)
(* runInlineExpiry.  reload holds reloadMu, which nobody else takes;       *)
(* expireInline holds inlineMu, as registerInline does.  Both replace      *)
(* registry.cur by a table computed from an earlier load of it.            *)
(***************************************************************************)
EXTENDS Routing

CONSTANTS
  KeysFiles,   \* what the path MESH0_KEYS_FILE can hold
  Unreadable,  \* the error loadKeysFile returns
  UseKeysFile, \* cfg.KeysFile is set
  InlineIdle,  \* cfg.InlineIdle > 0: idle inline pipelines expire
  MaxEdits     \* bound: writes to the keys file in a behaviour

(* A file: what is at the path (a link stays in its directory or escapes   *)
(* it), its mode, whether it fits keysFileMaxBytes and is a JSON object of *)
(* strings, and its entries.                                               *)
Nodes == {"regular", "link", "escaping_link", "other"}

ASSUME ReloadAssumption ==
  /\ \A f \in KeysFiles :
       /\ f.node \in Nodes
       /\ {f.worldWritable, f.tooLong, f.parses} \subseteq BOOLEAN
       /\ DOMAIN f.entries \subseteq Projects \cup {NoProject}
       /\ IsFiniteSet(DOMAIN f.entries)
  /\ UseKeysFile \in BOOLEAN
  /\ InlineIdle \in BOOLEAN
  /\ MaxEdits \in Nat

(* openKeysFile opens a regular file, or a link that resolves inside the   *)
(* directory of the path.                                                  *)
Opens(f) == f.node \in {"regular", "link", "other"}

(* Mutant of ValidEntries: names with a leading "_" are let through.       *)
NonEmptyEntries(keys) ==
  /\ NoProject \notin DOMAIN keys
  /\ \A p \in DOMAIN keys : keys[p] # NoKey

(* Names are not empty and not reserved by a leading "_", which Default    *)
(* has; keys are not empty.                                                *)
ValidEntries(keys) ==
  /\ DOMAIN keys \subseteq Projects \ {Default}
  /\ \A p \in DOMAIN keys : keys[p] # NoKey

LoadKeysFile(f) ==
  IF /\ Opens(f)
     /\ f.node # "other"
     /\ ~f.worldWritable
     /\ ~f.tooLong
     /\ f.parses
     /\ ValidEntries(f.entries)
  THEN f.entries
  ELSE Unreadable

NoKeys == [p \in {} |-> NoKey]

VARIABLES
  keysFile,  \* what the keys file holds
  edits,     \* writes so far
  rpc,       \* where reload is: "idle", ..., "stopped"
  newKeys,   \* reload's newKeys
  rprev,     \* reload's prev
  rtbl,      \* reload's tbl
  epc,       \* where expireInline is: "idle", "store" or "drain"
  enext,     \* expireInline's next
  retired    \* expireInline's retired

reloadVars == <<keysFile, edits, rpc, newKeys, rprev, rtbl, epc, enext, retired>>

ReloadInit(f) ==
  /\ keysFile = f
  /\ edits = 0
  /\ rpc = "idle"
  /\ newKeys = NoKeys
  /\ rprev = EmptyTable
  /\ rtbl = EmptyTable
  /\ epc = "idle"
  /\ enext = EmptyTable
  /\ retired = {}

(* External: the operator or the kubelet rewrites the file.  A reader that *)
(* overlaps a write sees a file loadKeysFile refuses: one edit more.       *)
EditKeysFile ==
  /\ UseKeysFile
  /\ edits < MaxEdits
  /\ edits' = edits + 1
  /\ keysFile' \in KeysFiles \ {keysFile}
  /\ UNCHANGED <<routingVars, rpc, newKeys, rprev, rtbl, epc, enext, retired>>

(* SIGHUP or a poll tick: reload is called.                                *)
ReloadStarts ==
  /\ UseKeysFile
  /\ rpc = "idle"
  /\ rpc' = "load"
  /\ UNCHANGED <<routingVars, keysFile, edits, newKeys, rprev, rtbl, epc,
                 enext, retired>>

(* loadKeysFile, with one retry, and the cap.  The previous table is kept  *)
(* when the file cannot be read twice or lists too many projects.          *)
ReloadLoad ==
  /\ rpc \in {"load", "retry"}
  /\ LET fileKeys == LoadKeysFile(keysFile)
     IN \/ /\ fileKeys = Unreadable
           /\ rpc' = IF rpc = "load" THEN "retry" ELSE "idle"
           /\ UNCHANGED newKeys
        \/ /\ fileKeys # Unreadable
           /\ TooMany(Cardinality(DOMAIN WithApiKey(fileKeys)))
           /\ rpc' = "idle"
           /\ UNCHANGED newKeys
        \/ /\ fileKeys # Unreadable
           /\ ~TooMany(Cardinality(DOMAIN WithApiKey(fileKeys)))
           /\ rpc' = "build"
           /\ newKeys' = WithApiKey(fileKeys)
  /\ UNCHANGED <<routingVars, keysFile, edits, rprev, rtbl, epc, enext, retired>>

(* prev := r.cur.Load(): stop if it matches the keys, else build the new   *)
(* table with its new pipelines.                                           *)
ReloadBuild ==
  /\ rpc = "build"
  /\ \/ /\ KeysUnchanged(cur, newKeys)
        /\ rpc' = "idle"
        /\ newKeys' = NoKeys
        /\ UNCHANGED <<pipes, rprev, rtbl>>
     \/ /\ ~KeysUnchanged(cur, newKeys)
        /\ rpc' = "start"
        /\ rprev' = cur
        /\ rtbl' = BuildTable(newKeys, cur)
        /\ pipes' = [p \in Projects |->
                       IF p \in Spawned(newKeys, cur)
                       THEN Append(pipes[p], NewPipeline(newKeys[p], FALSE))
                       ELSE pipes[p]]
        /\ UNCHANGED newKeys
  /\ UNCHANGED <<cur, sharedQ, sharedClosed, inlineMu, fate, home, ctxDone, panicked>>
  /\ UNCHANGED <<keysFile, edits, epc, enext, retired>>

(* Mutant of ReloadStart: the new pipelines are not started.               *)
ReloadStartNone ==
  /\ rpc = "start"
  /\ rpc' = "store"
  /\ UNCHANGED <<routingVars, keysFile, edits, newKeys, rprev, rtbl, epc,
                 enext, retired>>

(* p.start() for every pipeline that prev does not have.                   *)
ReloadStart ==
  /\ rpc = "start"
  /\ rpc' = "store"
  /\ SetStage(InTable(rtbl) \ InTable(rprev), "running")
  /\ UNCHANGED <<cur, sharedQ, sharedClosed, inlineMu, fate, home, ctxDone, panicked>>
  /\ UNCHANGED <<keysFile, edits, newKeys, rprev, rtbl, epc, enext, retired>>

(* r.cur.Store(tbl)                                                        *)
ReloadStore ==
  /\ rpc = "store"
  /\ rpc' = "drain"
  /\ cur' = rtbl
  /\ UNCHANGED <<pipes, sharedQ, sharedClosed, inlineMu, fate, home, ctxDone, panicked>>
  /\ UNCHANGED <<keysFile, edits, newKeys, rprev, rtbl, epc, enext, retired>>

(* Mutant of ReloadDrain: everything in prev is drained, the pipelines     *)
(* that tbl reuses included.                                               *)
ReloadDrainAll ==
  /\ rpc = "drain"
  /\ rpc' = "idle"
  /\ SpawnDrains(InTable(rprev))
  /\ newKeys' = NoKeys
  /\ rprev' = EmptyTable
  /\ rtbl' = EmptyTable
  /\ UNCHANGED <<cur, sharedQ, sharedClosed, inlineMu, fate, home, ctxDone, panicked>>
  /\ UNCHANGED <<keysFile, edits, epc, enext, retired>>

(* go old.drain(...) for every pipeline of prev that tbl lacks.            *)
ReloadDrain ==
  /\ rpc = "drain"
  /\ rpc' = "idle"
  /\ SpawnDrains(InTable(rprev) \ InTable(rtbl))
  /\ newKeys' = NoKeys
  /\ rprev' = EmptyTable
  /\ rtbl' = EmptyTable
  /\ UNCHANGED <<cur, sharedQ, sharedClosed, inlineMu, fate, home, ctxDone, panicked>>
  /\ UNCHANGED <<keysFile, edits, epc, enext, retired>>

(* case <-ctx.Done(): the goroutine closes hupDone.                        *)
ReloadStops ==
  /\ rpc = "idle"
  /\ ctxDone
  /\ rpc' = "stopped"
  /\ UNCHANGED <<routingVars, keysFile, edits, newKeys, rprev, rtbl, epc,
                 enext, retired>>

ReloadRun == ReloadLoad \/ ReloadBuild \/ ReloadStart \/ ReloadStore \/ ReloadDrain
-----------------------------------------------------------------------------
(* Time passes: nothing was dispatched to r for longer than InlineIdle.    *)
GoesIdle(r) ==
  /\ InlineIdle
  /\ At(r).inline /\ ~At(r).idle
  /\ pipes' = [pipes EXCEPT ![r[1]][r[2]].idle = TRUE]
  /\ UNCHANGED <<cur, sharedQ, sharedClosed, inlineMu, fate, home, ctxDone, panicked>>
  /\ UNCHANGED reloadVars

Idle(t) == {r \in InTable(t) : At(r).inline /\ At(r).idle}

(* Mutant of ExpireCollect: inlineMu is not taken.                         *)
ExpireCollectUnlocked ==
  /\ InlineTokens /\ InlineIdle
  /\ epc = "idle"
  /\ Idle(cur) # {}
  /\ retired' = Idle(cur)
  /\ enext' = Table(RestrictValues(cur.map, LAMBDA r : r \notin Idle(cur)),
                    cur.hasDefault)
  /\ epc' = "store"
  /\ UNCHANGED <<routingVars, keysFile, edits, rpc, newKeys, rprev, rtbl>>

(* The tick: lock inlineMu, load the table, collect the idle pipelines.    *)
(* Without any, expireInline unlocks and returns: no step here.            *)
ExpireCollect ==
  /\ InlineTokens /\ InlineIdle
  /\ epc = "idle"
  /\ inlineMu = "free"
  /\ Idle(cur) # {}
  /\ inlineMu' = "expiry"
  /\ retired' = Idle(cur)
  /\ enext' = Table(RestrictValues(cur.map, LAMBDA r : r \notin Idle(cur)),
                    cur.hasDefault)
  /\ epc' = "store"
  /\ UNCHANGED <<cur, pipes, sharedQ, sharedClosed, fate, home, ctxDone, panicked>>
  /\ UNCHANGED <<keysFile, edits, rpc, newKeys, rprev, rtbl>>

(* r.cur.Store(next) and unlock.                                           *)
ExpireStore ==
  /\ epc = "store"
  /\ epc' = "drain"
  /\ cur' = enext
  /\ enext' = EmptyTable
  /\ inlineMu' = "free"
  /\ UNCHANGED <<pipes, sharedQ, sharedClosed, fate, home, ctxDone, panicked>>
  /\ UNCHANGED <<keysFile, edits, rpc, newKeys, rprev, rtbl, retired>>

(* go dead.drain(...) for the retired ones, outside the lock.              *)
ExpireDrain ==
  /\ epc = "drain"
  /\ epc' = "idle"
  /\ SpawnDrains(retired)
  /\ retired' = {}
  /\ UNCHANGED <<cur, sharedQ, sharedClosed, inlineMu, fate, home, ctxDone, panicked>>
  /\ UNCHANGED <<keysFile, edits, rpc, newKeys, rprev, rtbl, enext>>

ExpireRun == ExpireCollect \/ ExpireStore \/ ExpireDrain
=============================================================================
