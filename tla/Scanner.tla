------------------------------ MODULE Scanner -------------------------------
(***************************************************************************)
(* The hand-written scanner of routing.go that finds `_project` and        *)
(* `_token` in a datagram and cuts them out.  It reads the datagram once   *)
(* from left to right, so it is a state machine that reads lexemes; `at`   *)
(* says where in extractAndStripFields it is.                              *)
(***************************************************************************)
EXTENDS JsonText

CONSTANT MaxScanDepth   \* maxScanDepth

ASSUME ScannerAssumption == MaxScanDepth \in Nat \ {0}

(* The members found so far, the key, the first lexeme of the value and    *)
(* the start of the one being scanned, and scanContainer's stack.          *)
ScanStart == [at |-> "start", ms |-> <<>>, key |-> "none", value |-> "none",
              start |-> 0, stack |-> <<>>]

(* A return with malformed set.                                            *)
Malformed(s) == [s EXCEPT !.at = "malformed"]

ScanKey(s, x, i) ==
  IF x \in Strings THEN [s EXCEPT !.at = "colon", !.key = x, !.start = i]
  ELSE Malformed(s)

(* The value ended with lexeme i.                                          *)
EndMember(s, i) ==
  [s EXCEPT !.at = "next",
            !.ms = Append(@, [key |-> s.key, value |-> s.value,
                              start |-> s.start, end |-> i + 1])]

(* scanValue                                                               *)
ScanValue(s, x, i) ==
  CASE x \in Strings \cup Scalars -> EndMember([s EXCEPT !.value = x], i)
    [] x \in Openers -> [s EXCEPT !.at = "inside", !.value = x, !.stack = <<x>>]
    [] OTHER -> Malformed(s)

(* scanContainer past its first bracket: each bracket is closed by its own *)
(* kind; whatever stands between them is skipped.                          *)
ScanContainer(s, x, i) ==
  CASE x \in Openers ->
         IF Len(s.stack) >= MaxScanDepth THEN Malformed(s)
         ELSE [s EXCEPT !.stack = Append(@, x)]
    [] x \in Closers ->
         IF ~Closes(Last(s.stack), x) THEN Malformed(s)
         ELSE IF Len(s.stack) = 1 THEN EndMember([s EXCEPT !.stack = <<>>], i)
         ELSE [s EXCEPT !.stack = Front(@)]
    [] x = "open" -> Malformed(s)
    [] OTHER -> s

(* Lexeme x at position i; whitespace goes to scanWS or scanContainer.     *)
ScanStep(s, x, i) ==
  IF x = "sp" THEN s
  ELSE CASE s.at = "start" -> [s EXCEPT !.at = IF x = "{" THEN "first" ELSE "other"]
         [] s.at = "first" -> IF x = "}" THEN [s EXCEPT !.at = "empty"]
                              ELSE ScanKey(s, x, i)
         [] s.at = "key" -> ScanKey(s, x, i)
         [] s.at = "colon" -> IF x = ":" THEN [s EXCEPT !.at = "value"]
                              ELSE Malformed(s)
         [] s.at = "value" -> ScanValue(s, x, i)
         [] s.at = "inside" -> ScanContainer(s, x, i)
         [] s.at = "next" -> IF x = "," THEN [s EXCEPT !.at = "key"]
                             ELSE IF x = "}" THEN [s EXCEPT !.at = "done"]
                             ELSE Malformed(s)
         [] OTHER -> s

(* The states of the scan of b.                                            *)
ScanRun(b) ==
  LET run[k \in 0 .. Len(b)] ==
        IF k = 0 THEN ScanStart ELSE ScanStep(run[k - 1], b[k], k)
  IN run
Scan(b) == ScanRun(b)[Len(b)]

(* Mutant of Hits: a duplicate overrides the earlier member in the list of *)
(* members to remove as well.                                              *)
HitsLastOnly(ms) ==
  {k \in DOMAIN ms : /\ ms[k].key \in RoutingKeys
                     /\ \A l \in DOMAIN ms : l > k => ms[l].key # ms[k].key}

(* hits: the routing members, each occurrence of them.  The key is         *)
(* compared byte by byte: an escaped spelling is none of them.             *)
Hits(ms) == {k \in DOMAIN ms : ms[k].key \in RoutingKeys}

(* The text of a value, "bad" if it is not a string or does not decode.    *)
UnquoteJSONString(x) == IF x \in Unquotes THEN Decoded(x) ELSE "bad"

(* The last occurrence wins.                                               *)
FieldValue(ms, key) ==
  LET given == {k \in DOMAIN ms : ms[k].key = key}
  IN IF given = {} THEN "none" ELSE UnquoteJSONString(ms[Max(given)].value)

(* Mutant of Leading: h.idx == 0.                                          *)
LeadingFirst(hits, k) == k = 1

(* h.idx == k: no member that survives comes before this hit.              *)
Leading(hits, k) == Cardinality({h \in hits : h < k}) = k - 1

(* The positions cut out for hit k: the member, with the comma after it if *)
(* it is a leading one and the comma before it if not, and the whitespace  *)
(* up to that comma.                                                       *)
CutOut(b, ms, hits, k) ==
  LET before == CHOOSE i \in 0 .. ms[k].start - 1 :
                  /\ i > 0 => b[i] # "sp"
                  /\ \A j \in i + 1 .. ms[k].start - 1 : b[j] = "sp"
      after == CHOOSE i \in ms[k].end .. Len(b) + 1 :
                  /\ i <= Len(b) => b[i] # "sp"
                  /\ \A j \in ms[k].end .. i - 1 : b[j] = "sp"
      comma(i) == i \in DOMAIN b /\ b[i] = ","
  IN IF Leading(hits, k)
     THEN ms[k].start .. (IF comma(after) THEN after ELSE after - 1)
     ELSE (IF comma(before) THEN before ELSE before + 1) .. ms[k].end - 1

Splice(b, ms, hits) ==
  Pick(b, DOMAIN b \ UNION {CutOut(b, ms, hits, k) : k \in hits})

Fields(b, malformed, project, token) ==
  [body |-> b, malformed |-> malformed, project |-> project, token |-> token]

(* The prefilter: the bytes of a routing key occur in the datagram.        *)
Tagged(b) == \E i \in DOMAIN b : b[i] \in RoutingKeys

(* extractAndStripRouting, i.e. extractAndStripFields with the token.      *)
ExtractAndStripRouting(b) ==
  LET at == Scan(b).at
      ms == Scan(b).ms
  IN IF ~Tagged(b) \/ at \in {"other", "empty"} \/ (at = "done" /\ Hits(ms) = {})
     THEN Fields(b, FALSE, "none", "none")
     ELSE IF at # "done" THEN Fields(b, TRUE, "none", "none")
     ELSE Fields(IF Hits(ms) = DOMAIN ms THEN <<"{", "}">>
                 ELSE Splice(b, ms, Hits(ms)),
                 FALSE, FieldValue(ms, "_project"), FieldValue(ms, "_token"))
=============================================================================
