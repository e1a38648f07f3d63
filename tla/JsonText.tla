------------------------------ MODULE JsonText ------------------------------
(***************************************************************************)
(* Datagrams as sequences of lexemes, and what encoding/json says of them. *)
(*                                                                         *)
(* The lexemes are the six punctuation bytes, a run of whitespace "sp",    *)
(* strings, "null" for every complete literal or number, and bytes that    *)
(* are none of these: "junk", which starts no value, and "open", a quote   *)
(* that scanStringBody finds no end of the string for, because the         *)
(* datagram ends or a byte is refused first.                               *)
(*                                                                         *)
(* A string is named by how it is spelled.  Several spellings may decode   *)
(* to one text: "esc_token" stands for those of "_token" that have an      *)
(* escape in them.  "badesc" has one that JSON does not know, which        *)
(* scanStringBody lets pass.                                               *)
(***************************************************************************)
EXTENDS Naturals, Sequences, FiniteSets, SequencesExt

CONSTANT MaxNestingDepth   \* of encoding/json, 10000

ASSUME JsonAssumption == MaxNestingDepth \in Nat

(* projectKey and tokenKey.                                                *)
RoutingKeys == {"_project", "_token"}

(* External: the strings, those that decode, and what they decode to.      *)
Escaped == {"esc_project", "esc_token", "esc_timestamp"}
Strings == RoutingKeys \cup Escaped \cup {"timestamp", "name", "now", "badesc"}
Unquotes == Strings \ {"badesc"}
Decoded(x) == CASE x = "esc_project" -> "_project"
                [] x = "esc_token" -> "_token"
                [] x = "esc_timestamp" -> "timestamp"
                [] OTHER -> x

(* External: the literals and the numbers, and all lexemes.                *)
Scalars == {"null"}

Lexemes == Strings \cup Scalars
             \cup {"{", "}", "[", "]", ":", ",", "sp", "junk", "open"}

Openers == {"{", "["}
Closers == {"}", "]"}
Closes(open, x) == <<open, x>> \in {<<"{", "}">>, <<"[", "]">>}

(* External: the scanner of encoding/json, which reads a text from left to *)
(* right: what it expects, the brackets that are open, and the keys of the *)
(* outermost object so far, as they are spelled.                           *)
Json(at, stack, keys) == [at |-> at, stack |-> stack, keys |-> keys]
JsonStart == Json("value", <<>>, {})

(* A value is complete, and these brackets are still open.                 *)
AfterValue(stack, keys) ==
  Json(IF stack = <<>> THEN "end" ELSE "next", stack, keys)

(* It reads x: "item" and "member" expect what may follow a bracket, "key" *)
(* and "value" what has to follow a comma.                                 *)
JsonStep(j, x) ==
  IF x = "sp" THEN j
  ELSE CASE j.at \in {"value", "item"} /\ x \in Unquotes \cup Scalars ->
              AfterValue(j.stack, j.keys)
         [] j.at \in {"value", "item"} /\ x \in Openers ->
              Json(IF x = "{" THEN "member" ELSE "item", Append(j.stack, x), j.keys)
         [] \/ j.at = "item" /\ x = "]"
            \/ j.at = "member" /\ x = "}"
            \/ j.at = "next" /\ Closes(Last(j.stack), x) ->
              AfterValue(Front(j.stack), j.keys)
         [] j.at \in {"member", "key"} /\ x \in Unquotes ->
              Json("colon", j.stack,
                   IF Len(j.stack) = 1 THEN j.keys \cup {x} ELSE j.keys)
         [] j.at = "colon" /\ x = ":" -> Json("value", j.stack, j.keys)
         [] j.at = "next" /\ x = "," ->
              Json(IF Last(j.stack) = "{" THEN "key" ELSE "value", j.stack, j.keys)
         [] OTHER -> Json("bad", j.stack, j.keys)

(* Its states from j on, after each lexeme of b, and the last one.         *)
JsonRun(j, b) ==
  LET run[k \in 0 .. Len(b)] == IF k = 0 THEN j ELSE JsonStep(run[k - 1], b[k])
  IN run
JsonEnd(j, b) == JsonRun(j, b)[Len(b)]

(* The brackets of b never nest deeper than this.                          *)
Nests(b, depth) ==
  \A k \in DOMAIN b : Len(JsonRun(JsonStart, b)[k].stack) <= depth

(* External: json.Valid, which takes a JSON text of bounded nesting.       *)
Parses(b) == JsonEnd(JsonStart, b).at = "end"
JsonValid(b) == Parses(b) /\ Nests(b, MaxNestingDepth)

(* The keys of a valid object, as they are spelled, and the ones           *)
(* json.Decoder gives hasTopLevelKey.                                      *)
KeySpellings(b) == JsonEnd(JsonStart, b).keys
TopLevelKeys(b) == {Decoded(x) : x \in KeySpellings(b)}

(* b without the positions outside K.                                      *)
Pick(b, K) ==
  LET kept[i \in 0 .. Len(b)] ==
        IF i = 0 THEN <<>>
        ELSE IF i \in K THEN Append(kept[i - 1], b[i]) ELSE kept[i - 1]
  IN kept[Len(b)]

(* The lexemes that are not whitespace.                                    *)
Compact(b) == Pick(b, {i \in DOMAIN b : b[i] # "sp"})
=============================================================================
