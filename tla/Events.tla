------------------------------- MODULE Events -------------------------------
(***************************************************************************)
(* The pure part of events.go: what a raw datagram is, how validateEvent   *)
(* classifies and rewrites it, and how encodeEventBatch sizes the body of  *)
(* a POST.                                                                 *)
(*                                                                         *)
(* A payload is abstracted to a "shape": its length on the wire, the       *)
(* whitespace around the object, whether it is a valid JSON object,        *)
(* whether it already has a top-level "timestamp", the bytes the injection *)
(* of one saves (see EventLen), and the `_token` credential dispatch       *)
(* recovered from it (NoToken is Go's "").                                 *)
(***************************************************************************)
EXTENDS Naturals, Sequences

CONSTANTS
  Shapes,         \* the payload shapes callers send
  NoToken,        \* the empty credential
  MaxEventBytes,  \* cfg.MaxEventBytes
  MaxBatchBytes,  \* the gateway's body limit, 10 MB in the code
  MaxEvents,      \* cfg.MaxBatch
  StampBytes      \* the most an injected "timestamp" member and comma add

ASSUME EventsAssumption ==
  /\ \A s \in Shapes : /\ s.len \in Nat
                       /\ s.pad \in 0 .. s.len
                       /\ s.object \in BOOLEAN
                       /\ s.stamped \in BOOLEAN
                       /\ s.object => s.len - s.pad >= 2
                       /\ s.slack \in Nat
                       /\ s.object => s.slack < s.len - s.pad + StampBytes
  /\ MaxEventBytes \in Nat
  /\ MaxBatchBytes \in Nat
  /\ MaxEvents \in Nat \ {0}
  /\ StampBytes \in Nat

(* validateEvent's reason code.  The size check comes first, so a datagram *)
(* that is both too long and malformed counts as oversize.                 *)
ValidateReason(s) ==
  IF s.len > MaxEventBytes THEN "oversize"
  ELSE IF ~s.object THEN "parse_error"
  ELSE "ok"

(* Length of the event validateEvent returns: trimmed, and longer by the   *)
(* timestamp member when the object had none.  The injection saves s.slack *)
(* bytes: it trims the whitespace just inside the braces, needs no comma   *)
(* in an empty object, and RFC3339Nano leaves out trailing zeros.  The     *)
(* size check above is made before the injection.                          *)
EventLen(s) ==
  IF s.stamped THEN s.len - s.pad ELSE (s.len - s.pad + StampBytes) - s.slack

(* len(eventsPrefix) + len(eventsSuffix), i.e. {"events":[ and ]}.         *)
WrapperLen == 11 + 2

(* Sum of the event lengths of a sequence of datagrams.                    *)
EventBytes(ds) ==
  LET sum[i \in 0 .. Len(ds)] ==
        IF i = 0 THEN 0 ELSE sum[i - 1] + EventLen(ds[i].ev)
  IN sum[Len(ds)]

(* Length of encodeEventBatch's result: the events joined by commas,       *)
(* wrapped as {"events":[...]}.                                            *)
BodyLen(ds) == WrapperLen + EventBytes(ds) + (Len(ds) - 1)
=============================================================================
