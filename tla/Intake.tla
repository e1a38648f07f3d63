------------------------------- MODULE Intake -------------------------------
(***************************************************************************)
(* What becomes of the bytes of one datagram: a caller composes it, the    *)
(* listener reads it into a buffer one byte longer than the largest event, *)
(* dispatch scans it and cuts the routing fields out, and the batcher of   *)
(* the pipeline it was routed to validates and stamps what is left.        *)
(* Registry says to which pipeline; lengths are counted in lexemes.        *)
(***************************************************************************)
EXTENDS Scanner

CONSTANTS
  Members,       \* the members, [key, value], callers write
  EventCaps,     \* values of cfg.MaxEventBytes
  MaxMembers,    \* bound: members of a well-formed datagram
  MaxDamaged,    \* bound: members of a datagram that is then damaged
  Damage         \* lexemes that damage inserts

ASSUME IntakeAssumption ==
  /\ \A m \in Members : /\ m.key \in Unquotes
                        /\ m.value \in Seq(Lexemes \ {"sp"})
                        /\ Parses(m.value)
  /\ Damage \subseteq Lexemes
  /\ EventCaps \subseteq Nat \ {0}

VARIABLES
  maxBytes,  \* cfg.MaxEventBytes
  inline,    \* cfg.InlineTokens
  written,   \* the members of the object the caller writes
  form,      \* "compact", "spaced", or "damaged": not what written says
  dg,        \* rawDatagram.bytes
  stage,     \* "writing", "sent", "read", "routed" or "done"
  fields,    \* what the scan reported
  outcome,   \* the counter the datagram ended in, or "accepted"
  event      \* the event that joins the batch

vars == <<maxBytes, inline, written, form, dg, stage, fields, outcome, event>>

(* The lexemes of an object with these members.                            *)
Text(m) == <<m.key, ":">> \o m.value
Joined(ms) ==
  LET joined[i \in 0 .. Len(ms)] ==
        IF i = 0 THEN <<>>
        ELSE joined[i - 1] \o (IF i = 1 THEN <<>> ELSE <<",">>) \o Text(ms[i])
  IN joined[Len(ms)]
Object(ms) == <<"{">> \o Joined(ms) \o <<"}">>

Spaced(b) == [i \in 1 .. 2 * Len(b) + 1 |-> IF i % 2 = 1 THEN "sp" ELSE b[i \div 2]]

NoFields == Fields(<<>>, FALSE, "none", "none")

Init ==
  /\ maxBytes \in EventCaps
  /\ inline \in BOOLEAN
  /\ written = <<>>
  /\ form = "compact"
  /\ dg = <<>>
  /\ stage = "writing"
  /\ fields = NoFields
  /\ outcome = "none"
  /\ event = <<>>

(* External: the caller adds a member.                                     *)
WriteMember(m) ==
  /\ stage = "writing"
  /\ Len(written) < MaxMembers
  /\ written' = Append(written, m)
  /\ UNCHANGED <<maxBytes, inline, form, dg, stage, fields, outcome, event>>

(* External: it sends the object, with or without whitespace.              *)
Send ==
  /\ stage = "writing"
  /\ form' \in {"compact", "spaced"}
  /\ dg' = IF form' = "spaced" THEN Spaced(Object(written)) ELSE Object(written)
  /\ stage' = "sent"
  /\ UNCHANGED <<maxBytes, inline, written, fields, outcome, event>>

(* External: it sends something that is one lexeme away from an object.    *)
SendDamaged ==
  /\ stage = "writing"
  /\ Len(written) <= MaxDamaged
  /\ form' = "damaged"
  /\ LET b == Object(written)
     IN \/ \E i \in DOMAIN b : dg' = RemoveAt(b, i)
        \/ \E i \in DOMAIN b, x \in Damage : dg' = ReplaceAt(b, i, x)
        \/ \E i \in 1 .. Len(b) + 1, x \in Damage : dg' = InsertAt(b, i, x)
  /\ stage' = "sent"
  /\ UNCHANGED <<maxBytes, inline, written, fields, outcome, event>>

(* What a lexeme looks like when the buffer ends in it or just after it.   *)
Truncated(x) ==
  CASE x \in Strings -> {x, "open"}
    [] x \in Scalars -> {x, "junk"}
    [] OTHER -> {x}

(* Mutant of ReadBufSize: no room for the one byte more.                   *)
ReadBufSizeTight == maxBytes

(* listen's readBufSize, as main passes it.                                *)
ReadBufSize == maxBytes + 1

(* ReadFrom: the kernel discards what does not fit.                        *)
Read ==
  /\ stage = "sent"
  /\ IF Len(dg) <= ReadBufSize THEN dg' = dg
     ELSE \E x \in Truncated(dg[ReadBufSize]) :
            dg' = Append(SubSeq(dg, 1, ReadBufSize - 1), x)
  /\ stage' = "read"
  /\ UNCHANGED <<maxBytes, inline, written, form, fields, outcome, event>>

(* The drop dispatch makes before it looks the project up.                 *)
EarlyDrop(f) ==
  IF f.malformed THEN "parse_error"
  ELSE IF f.project = "bad" THEN "unrouted_unknown"
  ELSE IF f.token = "bad" /\ inline THEN "bad_token"
  ELSE "none"

Dispatch ==
  /\ stage = "read"
  /\ fields' = ExtractAndStripRouting(dg)
  /\ outcome' = EarlyDrop(fields')
  /\ stage' = IF outcome' = "none" THEN "routed" ELSE "done"
  /\ UNCHANGED <<maxBytes, inline, written, form, dg, event>>

TrimSpace(b) ==
  LET solid == {i \in DOMAIN b : b[i] # "sp"}
  IN IF solid = {} THEN <<>> ELSE SubSeq(b, Min(solid), Max(solid))

(* validateEvent's reason code.                                            *)
ValidateReason(b) ==
  LET trimmed == TrimSpace(b)
  IN IF Len(b) > maxBytes THEN "oversize"
     ELSE IF /\ Len(trimmed) >= 2
             /\ Head(trimmed) = "{" /\ Last(trimmed) = "}"
             /\ JsonValid(trimmed)
     THEN "accepted" ELSE "parse_error"

(* injectTopLevelField with the current time, unless there is a timestamp. *)
Stamp(b) ==
  LET inner == TrimSpace(SubSeq(b, 2, Len(b) - 1))
      member == <<"timestamp", ":", "now">>
  IN IF "timestamp" \in TopLevelKeys(b) THEN b
     ELSE <<"{">> \o member \o (IF inner = <<>> THEN <<>> ELSE <<",">> \o inner)
            \o <<"}">>

(* The batcher's side of validateEvent.                                    *)
Validate ==
  /\ stage = "routed"
  /\ outcome' = ValidateReason(fields.body)
  /\ event' = IF outcome' = "accepted" THEN Stamp(TrimSpace(fields.body)) ELSE <<>>
  /\ stage' = "done"
  /\ UNCHANGED <<maxBytes, inline, written, form, dg, fields>>

Next ==
  \/ \E m \in Members : WriteMember(m)
  \/ Send
  \/ SendDamaged
  \/ Read
  \/ Dispatch
  \/ Validate
  \/ stage = "done" /\ UNCHANGED vars

Spec == Init /\ [][Next]_vars
-----------------------------------------------------------------------------
(* The reference, from what the caller wrote.  A routing field is one that *)
(* is spelled without an escape.                                           *)
Kept == Pick(written, {i \in DOMAIN written : written[i].key \notin RoutingKeys})

Stamped(ms) ==
  IF \E i \in DOMAIN ms : Decoded(ms[i].key) = "timestamp" THEN ms
  ELSE <<[key |-> "timestamp", value |-> <<"now">>]>> \o ms

Wanted(key) ==
  LET given == {i \in DOMAIN written : written[i].key = key}
      value == written[Max(given)].value[1]
  IN IF given = {} THEN "none" ELSE IF value \in Strings THEN Decoded(value) ELSE "bad"

(* Brackets of v nest deeper than the scanner goes.                        *)
TooDeep(v) == ~Nests(v, MaxScanDepth)

(* All of a well-formed object was read.                                   *)
Whole == form # "damaged" /\ Compact(dg) = Object(written)

(* The documented sizes: MaxEventBytes for the datagram, and maxScanDepth  *)
(* for what stands next to a routing field.                                *)
WithinLimits ==
  /\ Len(dg) <= maxBytes
  /\ Tagged(dg) => \A i \in DOMAIN written : ~TooDeep(written[i].value)

(* Every valid object within the limits is accepted, unless a routing      *)
(* field is unusable.  Both routing fields, spelled without an escape, are *)
(* found at the top level only, the last of duplicates wins and is         *)
(* decoded, all of them are cut out, and the event is what the caller      *)
(* wrote otherwise, in its order, with a timestamp in front if it had none *)
(* under any spelling (routing.go extractAndStripFields, events.go         *)
(* validateEvent).                                                         *)
Transparent ==
  stage = "done" /\ Whole /\ JsonValid(dg) /\ WithinLimits =>
    IF Wanted("_project") = "bad" THEN outcome = "unrouted_unknown"
    ELSE IF Wanted("_token") = "bad" /\ inline THEN outcome = "bad_token"
    ELSE /\ fields.project = Wanted("_project")
         /\ fields.token = Wanted("_token")
         /\ outcome = "accepted"
         /\ Compact(event) = Object(Stamped(Kept))

(* Whatever arrived, damaged or cut short, an accepted event is an object  *)
(* that json.Valid takes, so that it does not make the gateway refuse its  *)
(* batch, with a timestamp, and none of its keys is spelled as a routing   *)
(* field (routing.go, "It must not survive this function").  An escaped    *)
(* spelling may remain: see TokenNeverStored.                              *)
AcceptedIsClean ==
  outcome = "accepted" =>
    /\ Head(event) = "{" /\ JsonValid(event)
    /\ "timestamp" \in TopLevelKeys(event)
    /\ KeySpellings(event) \cap RoutingKeys = {}

(* An object the read buffer cut short is never taken for a smaller event, *)
(* and one without a routing field is counted as oversize (listener.go,    *)
(* readBufSize).  For one with a routing field see LargerIsOversize.       *)
CutIsDropped ==
  stage = "done" /\ form # "damaged" /\ ~Whole =>
    /\ outcome # "accepted"
    /\ ~Tagged(dg) => outcome = "oversize"
-----------------------------------------------------------------------------
(* What the documentation says, where the code does otherwise.             *)

(* README, Inline credentials: "`_token` is always stripped from the body".*)
TokenNeverStored == outcome = "accepted" => "_token" \notin TopLevelKeys(event)

(* README, MESH0_MAX_EVENT_BYTES: "Datagrams larger than this are dropped  *)
(* (`drops.oversize`)".  It is said of any object, unless an unusable      *)
(* routing field drops it before.  What the buffer keeps of one that does  *)
(* not fit into it is longer than MaxEventBytes, too.                      *)
LargerIsOversize ==
  stage = "done" /\ form # "damaged" /\ Len(dg) > maxBytes =>
    outcome \in {"oversize", "unrouted_unknown", "bad_token"}
=============================================================================
