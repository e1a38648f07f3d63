---------------------------- MODULE IntakeProofs ----------------------------
(***************************************************************************)
(* What becomes of the bytes of a datagram, for all values of the          *)
(* constants and objects of any size.                                      *)
(*                                                                         *)
(* IntakeInv ties the bytes to what the caller wrote: unless damaged, they *)
(* are the text of a valid JSON object, or its beginning, one lexeme       *)
(* longer than the largest event.                                          *)
(*                                                                         *)
(* That the event says what the caller wrote takes three facts about the   *)
(* scan: whitespace makes no difference to it (Alike), it passes over a    *)
(* valid value of any nesting as encoding/json does, or refuses it         *)
(* (InValue), and after each member it has found the members so far, and   *)
(* what is left of the text is the text of those it keeps (Scanned).       *)
(*                                                                         *)
(* That it is JSON to the gateway takes a fourth, about the brackets that  *)
(* are open (Below): the timestamp adds none, and what is cut out took no  *)
(* bracket of what is left with it (NestsOfText).                          *)
(***************************************************************************)
EXTENDS Intake, TextProofs
-----------------------------------------------------------------------------
(* TrimSpace takes nothing but whitespace away.                            *)
LEMMA TrimIs ==
  ASSUME NEW b \in Seq(Lexemes)
  PROVE  /\ TrimSpace(b) \in Seq(Lexemes)
         /\ \A j \in JsonStates : JsonEnd(j, TrimSpace(b)) = JsonEnd(j, b)
         /\ TrimSpace(b) # <<>> =>
              \E lo \in 1 .. Len(b) : /\ b[lo] # "sp" /\ TrimSpace(b)[1] = b[lo]
                                      /\ \A k \in 1 .. lo - 1 : b[k] = "sp"
<1> DEFINE n == Len(b)
           solid == {i \in DOMAIN b : b[i] # "sp"}
           lo == Min(solid)
           hi == Max(solid)
           t == TrimSpace(b)
<1>1. n \in Nat /\ DOMAIN b = 1 .. n
  OBVIOUS
<1>2. CASE solid = {}
  <2>1. t = <<>>
    BY <1>2 DEF TrimSpace
  <2>2. b \in Seq({"sp"})
    <3>1. \A k \in 1 .. n : b[k] \in {"sp"}
      BY <1>1, <1>2
    <3> QED BY <3>1
  <2>3. <<>> \in Seq(Lexemes)
    OBVIOUS
  <2> HIDE DEF t
  <2>4. \A j \in JsonStates : JsonEnd(j, t) = JsonEnd(j, b)
    BY <2>1, <2>2, JsonEndBlank, JsonEndEmpty
  <2> QED BY <2>1, <2>3, <2>4 DEF t
<1>3. CASE solid # {}
  <2>1. t = SubSeq(b, lo, hi)
    BY <1>3 DEF TrimSpace
  <2>2. solid \in SUBSET Nat /\ solid \in SUBSET (0 .. n)
    BY <1>1
  <2>3. lo \in solid /\ \A k \in solid : lo <= k
    BY <1>3, <2>2, MinOf
  <2>4. hi \in solid /\ \A k \in solid : k <= hi
    BY <1>1, <1>3, <2>2, MaxOf
  <2> HIDE DEF lo, hi
  <2>5. lo \in 1 .. n /\ hi \in lo .. n /\ b[lo] # "sp"
    BY <1>1, <2>3, <2>4
  <2>6. \A k \in 1 .. lo - 1 : b[k] = "sp"
    <3>1. SUFFICES ASSUME NEW k \in 1 .. lo - 1, b[k] # "sp" PROVE FALSE
      OBVIOUS
    <3>2. k \in 1 .. n /\ k < lo
      BY <1>1, <2>5
    <3>3. k \in solid
      BY <1>1, <3>1, <3>2
    <3> QED BY <2>3, <2>5, <3>2, <3>3
  <2>7. \A k \in hi + 1 .. n : b[k] = "sp"
    <3>1. SUFFICES ASSUME NEW k \in hi + 1 .. n, b[k] # "sp" PROVE FALSE
      OBVIOUS
    <3>2. k \in 1 .. n /\ hi < k
      BY <1>1, <2>5
    <3>3. k \in solid
      BY <1>1, <3>1, <3>2
    <3> QED BY <2>4, <2>5, <3>2, <3>3
  <2>8. lo \in 1 .. n + 1 /\ hi \in lo - 1 .. n
    BY <1>1, <2>5
  <2> HIDE DEF t, solid
  <2>9. \A j \in JsonStates : JsonEnd(j, t) = JsonEnd(j, b)
    BY <2>1, <2>6, <2>7, <2>8, JsonEndPadded
  <2>10. t \in Seq(Lexemes) /\ t[1] = b[lo]
    <3>1. 1 \in 1 .. hi - lo + 1 /\ lo + 1 - 1 = lo
      BY <1>1, <2>5
    <3>2. t \in Seq(Lexemes) /\ \A k \in 1 .. hi - lo + 1 : t[k] = b[lo + k - 1]
      BY <2>1, <2>8, SubSeqIs
    <3> QED BY <3>1, <3>2
  <2> QED BY <2>5, <2>6, <2>9, <2>10 DEF t
<1> QED BY <1>2, <1>3

(* A state with more keys.                                                 *)
LEMMA MoreIs ==
  ASSUME NEW j \in JsonStates, NEW E \in SUBSET Unquotes
  PROVE  /\ More(j, E).at = j.at /\ More(j, E).stack = j.stack
         /\ More(j, E).keys = j.keys \cup E /\ More(j, E) \in JsonStates
         /\ E \subseteq j.keys => More(j, E) = j
<1>1. /\ More(j, E).at = j.at /\ More(j, E).stack = j.stack
      /\ More(j, E).keys = j.keys \cup E
  BY JsonFields DEF More
<1>2. More(j, E) \in JsonStates
  <2>1. j.keys \cup E \in SUBSET Unquotes
    BY JsonStateIs
  <2> QED BY <2>1, JsonStateIs, JsonType DEF More
<1>3. ASSUME E \subseteq j.keys PROVE More(j, E) = j
  <2>1. j.keys \cup E = j.keys
    BY <1>3
  <2> QED BY <2>1, JsonStateIs DEF More
<1> QED BY <1>1, <1>2, <1>3

(* The first lexeme of the trimmed text is the first that is not           *)
(* whitespace.                                                             *)
LEMMA FirstOfTrimmed ==
  ASSUME NEW b \in Seq(Lexemes)
  PROVE  TrimSpace(b) # <<>> /\ TrimSpace(b)[1] = LB => FirstIsBrace(b)
<1>1. SUFFICES ASSUME TrimSpace(b) # <<>>, TrimSpace(b)[1] = LB PROVE FirstIsBrace(b)
  OBVIOUS
<1>2. PICK lo \in 1 .. Len(b) : /\ b[lo] # "sp" /\ TrimSpace(b)[1] = b[lo]
                                /\ \A k \in 1 .. lo - 1 : b[k] = "sp"
  BY <1>1, TrimIs
<1>3. ASSUME NEW i \in 1 .. Len(b), \A k \in 1 .. i - 1 : b[k] = "sp"
      PROVE  b[i] \in {"sp", LB}
  <2>1. CASE i = lo
    BY <1>1, <1>2, <2>1
  <2>2. CASE i < lo
    <3>1. i \in 1 .. lo - 1
      BY <2>2
    <3> QED BY <1>2, <3>1
  <2>3. CASE lo < i
    <3>1. lo \in 1 .. i - 1
      BY <2>3
    <3> QED BY <1>2, <1>3, <3>1
  <2> QED BY <2>1, <2>2, <2>3
<1> QED BY <1>3 DEF FirstIsBrace, LB

(* Head and Last by position.                                              *)
LEMMA HeadLast ==
  ASSUME NEW b \in Seq(Lexemes)
  PROVE  Head(b) = b[1] /\ Last(b) = b[Len(b)]
  BY DEF Last

-----------------------------------------------------------------------------
(* The lexemes that are not whitespace, and what callers write with them.  *)
Solid == Lexemes \ {"sp"}

(* Which lexemes are not whitespace.                                       *)
LEMMA SolidLexemes ==
  /\ LB \in Solid /\ RB \in Solid /\ CM \in Solid /\ ":" \in Solid
  /\ Strings \subseteq Solid /\ Scalars \subseteq Solid
  /\ Solid \subseteq Lexemes /\ "sp" \notin Solid
  /\ \A b \in Seq(Solid) : b \in Seq(Lexemes)
<1>1. LB \in Solid /\ RB \in Solid /\ CM \in Solid
  BY Marks DEF Solid
<1>2. ":" \in Solid /\ Scalars \subseteq Solid /\ Strings \subseteq Solid
  BY DEF Solid, Lexemes, Scalars, Strings, Escaped, RoutingKeys
<1>3. Solid \subseteq Lexemes /\ "sp" \notin Solid
  BY DEF Solid
<1>4. \A b \in Seq(Solid) : b \in Seq(Lexemes)
  BY <1>3
<1> QED BY <1>1, <1>2, <1>3, <1>4

(* What callers and Stamp write.                                           *)
TimeMember == [key |-> "timestamp", value |-> <<"now">>]
Entries == Members \cup {TimeMember}

(* The timestamp that is injected is a value.                              *)
LEMMA NowIsValid == Parses(<<"now">>)
<1>1. "now" \in Lexemes /\ "now" \in Unquotes /\ "now" # "sp"
  BY DEF Lexemes, Unquotes, Strings, Escaped, RoutingKeys
<1>2. JsonEnd(JsonStart, <<"now">>) = JsonStep(JsonStart, "now")
  BY <1>1, JsonStartType, JsonEndOne
<1>3. JsonStart.at = "value" /\ JsonStart.stack = <<>>
  BY JsonFields DEF JsonStart
<1>4. JsonStep(JsonStart, "now") = AfterValue(JsonStart.stack, JsonStart.keys)
  BY <1>1, <1>3, JsonStartType, JsonStepIs
<1>5. AfterValue(JsonStart.stack, JsonStart.keys).at = "end"
  BY <1>3, AfterValueIs, JsonFields
<1> QED BY <1>2, <1>4, <1>5 DEF Parses

(* What a caller's member is made of.                                      *)
LEMMA MemberIs ==
  ASSUME NEW m \in Entries
  PROVE  /\ m.key \in Unquotes /\ m.key \in Solid /\ m.key \in Lexemes
         /\ m.value \in Seq(Solid) /\ m.value \in Seq(Lexemes) /\ Parses(m.value)
<1>1. m.key \in Unquotes /\ m.value \in Seq(Solid) /\ Parses(m.value)
  <2>1. CASE m \in Members
    BY <2>1, IntakeAssumption DEF Solid
  <2>2. CASE m = TimeMember
    <3>1. m.key = "timestamp" /\ m.value = <<"now">>
      BY <2>2 DEF TimeMember
    <3>2. "timestamp" \in Unquotes /\ "now" \in Strings
      BY DEF Unquotes, Strings, Escaped, RoutingKeys
    <3>3. "now" \in Solid
      BY <3>2, SolidLexemes
    <3>4. <<"now">> \in Seq(Solid)
      BY <3>3
    <3> QED BY <3>1, <3>2, <3>4, NowIsValid
  <2> QED BY <2>1, <2>2 DEF Entries
<1>2. m.key \in Strings
  BY <1>1, Kinds
<1> QED BY <1>1, <1>2, SolidLexemes

(* What a caller writes is made of entries.                                *)
LEMMA WrittenEntries ==
  ASSUME NEW ms \in Seq(Members)
  PROVE  ms \in Seq(Entries)
<1>1. Members \subseteq Entries
  BY DEF Entries
<1> QED BY <1>1

(* The text of a member.                                                   *)
LEMMA TextIs ==
  ASSUME NEW m \in Entries
  PROVE  Text(m) \in Seq(Solid) /\ Text(m) # <<>>
<1>1. <<m.key, ":">> \in Seq(Solid)
  <2>1. m.key \in Solid /\ ":" \in Solid
    BY MemberIs, SolidLexemes
  <2> QED BY <2>1
<1> DEFINE u == <<m.key, ":">>
<1>2. u # <<>> /\ u \in Seq(Solid)
  BY <1>1
<1> HIDE DEF u
<1>3. m.value \in Seq(Solid)
  BY MemberIs
<1> DEFINE v == m.value
<1> HIDE DEF v
<1>4. v \in Seq(Solid)
  BY <1>3 DEF v
<1>5. u \o v \in Seq(Solid) /\ u \o v # <<>>
  <2> QED BY <1>2, <1>4
<1> QED BY <1>5 DEF Text, u, v

(* The comma in front of the next member.                                  *)
Sep(ms) == IF Len(ms) = 0 THEN <<>> ELSE <<CM>>

IsJoined(f, ms) ==
  f = [i \in 0 .. Len(ms) |->
         IF i = 0 THEN <<>>
         ELSE f[i - 1] \o (IF i = 1 THEN <<>> ELSE <<CM>>) \o Text(ms[i])]

(* Joined is the last value of a function that can be given.               *)
LEMMA JoinedIs ==
  ASSUME NEW ms \in Seq(Entries)
  PROVE  \E f : /\ Joined(ms) = f[Len(ms)]
                /\ f \in [0 .. Len(ms) -> Seq(Solid)]
                /\ f[0] = <<>>
                /\ \A i \in 1 .. Len(ms) :
                     f[i] = f[i - 1] \o (IF i = 1 THEN <<>> ELSE <<CM>>) \o Text(ms[i])
<1> DEFINE n == Len(ms)
           step(i, s) == s \o (IF i = 1 THEN <<>> ELSE <<CM>>) \o Text(ms[i])
           g == [i \in 1 .. n |-> [s \in Seq(Solid) |-> step(i, s)]]
           r == CHOOSE h : IsJoined(h, ms)
<1>1. n \in Nat /\ \A i \in 1 .. n : ms[i] \in Entries
  OBVIOUS
<1>2. ASSUME NEW i \in 1 .. n, NEW s \in Seq(Solid) PROVE step(i, s) \in Seq(Solid)
  <2>1. Text(ms[i]) \in Seq(Solid)
    BY <1>1, TextIs
  <2> DEFINE u == Text(ms[i])
             w == IF i = 1 THEN <<>> ELSE <<CM>>
  <2>2. w \in Seq(Solid)
    <3>1. <<CM>> \in Seq(Solid) /\ <<>> \in Seq(Solid)
      BY SolidLexemes
    <3> QED BY <3>1
  <2> HIDE DEF u, w
  <2>3. u \in Seq(Solid)
    BY <2>1 DEF u
  <2>4. s \o w \in Seq(Solid)
    BY <2>2, StackOn
  <2>5. s \o w \o u \in Seq(Solid)
    BY <2>3, <2>4, StackOn
  <2> QED BY <2>5 DEF u, w
<1>3. <<>> \in Seq(Solid)
  OBVIOUS
<1>4. Joined(ms) = r[n]
  BY Zenon DEF Joined, IsJoined, CM
<1>5. \A h : IsJoined(h, ms) <=>
              h = [i \in 0 .. n |-> IF i = 0 THEN <<>> ELSE step(i, h[i - 1])]
  BY DEF IsJoined
<1> HIDE DEF n, step
<1>6. PICK f : IsRun(f, Seq(Solid), n, <<>>, g)
  <2>1. g \in [1 .. n -> [Seq(Solid) -> Seq(Solid)]]
    BY <1>2
  <2> HIDE DEF g
  <2> QED BY <1>1, <1>3, <2>1, RunExists
<1>7. f \in [0 .. n -> Seq(Solid)] /\ f[0] = <<>>
  BY <1>6 DEF IsRun
<1>8. ASSUME NEW i \in 1 .. n PROVE f[i] = step(i, f[i - 1])
  <2>1. i - 1 \in 0 .. n
    BY <1>1
  <2> QED BY <1>6, <1>7, <2>1 DEF IsRun
<1>9. f = [i \in 0 .. n |-> IF i = 0 THEN <<>> ELSE step(i, f[i - 1])]
  BY <1>1, <1>7, <1>8
<1>10. IsJoined(r, ms)
  BY <1>5, <1>9
<1> HIDE DEF r, g
<1>11. /\ DOMAIN r = 0 .. n /\ r[0] = <<>> /\ r = [i \in 0 .. n |-> r[i]]
       /\ \A i \in 1 .. n : r[i] = step(i, r[i - 1])
  BY <1>1, <1>5, <1>10
<1>12. \A i \in 0 .. n : r[i] \in Seq(Solid)
  <2> DEFINE T == {i \in 0 .. n : r[i] \in Seq(Solid)}
  <2>1. 0 \in T
    BY <1>1, <1>3, <1>11, SMTT(30)
  <2>2. ASSUME NEW i \in 0 .. n - 1, i \in T PROVE i + 1 \in T
    <3>1. i + 1 \in 1 .. n /\ i + 1 \in 0 .. n /\ (i + 1) - 1 = i
      BY <1>1
    <3>2. r[i + 1] = step(i + 1, r[i])
      BY <1>11, <3>1
    <3> QED BY <1>2, <2>2, <3>1, <3>2
  <2> HIDE DEF T
  <2>3. \A i \in 0 .. n : i \in T
    BY <1>1, <2>1, <2>2, Induction
  <2> QED BY <2>3 DEF T
<1>13. r \in [0 .. n -> Seq(Solid)]
  BY <1>11, <1>12
<1> QED BY <1>4, <1>11, <1>13 DEF n, step

(* The members of an object are a text without whitespace.                 *)
LEMMA JoinedType ==
  ASSUME NEW ms \in Seq(Entries)
  PROVE  Joined(ms) \in Seq(Solid) /\ (Len(ms) = 0 => Joined(ms) = <<>>)
<1>1. Len(ms) \in 0 .. Len(ms)
  OBVIOUS
<1>2. PICK f : /\ Joined(ms) = f[Len(ms)]
               /\ f \in [0 .. Len(ms) -> Seq(Solid)]
               /\ f[0] = <<>>
  BY JoinedIs
<1> QED BY <1>1, <1>2

(* Joined, by the last member.                                             *)
LEMMA JoinedAppend ==
  ASSUME NEW ms \in Seq(Entries), NEW m \in Entries
  PROVE  Joined(Append(ms, m)) = Joined(ms) \o Sep(ms) \o Text(m)
<1> DEFINE c == Append(ms, m)
           n == Len(ms)
           step(i, s, x) == s \o (IF i = 1 THEN <<>> ELSE <<CM>>) \o Text(x)
<1>1. /\ c \in Seq(Entries) /\ n \in Nat /\ Len(c) = n + 1 /\ c[n + 1] = m
      /\ \A k \in 1 .. n : c[k] = ms[k]
  BY AppendIs
<1> HIDE DEF c
<1>2. PICK f : /\ Joined(ms) = f[n] /\ f[0] = <<>>
               /\ \A i \in 1 .. n : f[i] = step(i, f[i - 1], ms[i])
  BY JoinedIs, ZenonT(40)
<1>3. PICK h : /\ Joined(c) = h[Len(c)] /\ h[0] = <<>>
               /\ \A i \in 1 .. Len(c) : h[i] = step(i, h[i - 1], c[i])
  <2>1. c \in Seq(Entries)
    BY <1>1
  <2> QED BY <2>1, JoinedIs, ZenonT(40)
<1>4. step(n + 1, f[n], m) = f[n] \o Sep(ms) \o Text(m)
  <2>1. n + 1 = 1 <=> Len(ms) = 0
    BY <1>1
  <2> QED BY <2>1 DEF Sep
<1> HIDE DEF n, step
<1>5. f[n] = h[n]
  <2> DEFINE T == {i \in 0 .. n : f[i] = h[i]}
  <2>1. 0 \in T
    BY <1>1, <1>2, <1>3
  <2>2. ASSUME NEW i \in 0 .. n - 1, i \in T PROVE i + 1 \in T
    <3>1. i + 1 \in 1 .. n /\ i + 1 \in 0 .. n /\ (i + 1) - 1 = i /\ i + 1 \in 1 .. Len(c)
      BY <1>1
    <3>2. f[i + 1] = step(i + 1, f[i], ms[i + 1])
      BY <1>2, <3>1
    <3>3. h[i + 1] = step(i + 1, h[i], c[i + 1])
      BY <1>3, <3>1
    <3> QED BY <1>1, <2>2, <3>1, <3>2, <3>3
  <2> HIDE DEF T
  <2>3. \A i \in 0 .. n : i \in T
    BY <1>1, <2>1, <2>2, Induction
  <2>4. n \in T
    BY <1>1, <2>3
  <2> QED BY <2>4 DEF T
<1>6. n + 1 \in 1 .. Len(c) /\ (n + 1) - 1 = n
  BY <1>1
<1>7. h[n + 1] = step(n + 1, h[n], m)
  BY <1>1, <1>3, <1>6
<1> QED BY <1>1, <1>2, <1>3, <1>4, <1>5, <1>7 DEF c
-----------------------------------------------------------------------------
(* s reads a value on its own, t the same value of a member of an object   *)
(* with these keys.                                                        *)
Lifted(s, t, K) ==
  \/ s.at = "bad"
  \/ /\ t.stack = On(Outer, s.stack) /\ t.keys = K
     /\ t.at = IF s.at = "end" THEN "next" ELSE s.at

(* When states are Lifted.                                                 *)
LEMMA LiftJson ==
  ASSUME NEW a, NEW b, NEW st, NEW k, NEW K, NEW s, NEW t, s = Json(a, st, k),
         t = Json(b, On(Outer, st), K), b = IF a = "end" THEN "next" ELSE a
  PROVE  Lifted(s, t, K)
  BY JsonFields DEF Lifted

(* A stack inside the outermost object.                                    *)
LEMMA OnOuter ==
  ASSUME NEW st \in Seq(Openers)
  PROVE  /\ On(Outer, st) \in Seq(Openers) /\ On(Outer, st) # <<>>
         /\ Len(On(Outer, st)) = 1 + Len(st) /\ Len(st) \in Nat
         /\ st # <<>> => /\ Last(On(Outer, st)) = Last(st)
                         /\ Front(On(Outer, st)) = On(Outer, Front(st))
                         /\ Len(st) # 0 /\ Front(st) \in Seq(Openers)
<1>1. Outer \in Seq(Openers) /\ Len(Outer) = 1
  BY OuterIs
<1>2. Len(st) \in Nat
  OBVIOUS
<1>3. /\ On(Outer, st) \in Seq(Openers) /\ Len(On(Outer, st)) = Len(Outer) + Len(st)
      /\ st # <<>> => /\ Last(On(Outer, st)) = Last(st)
                      /\ Front(On(Outer, st)) = On(Outer, Front(st))
  BY <1>1, OnIs
<1>4. Len(On(Outer, st)) = 1 + Len(st)
  BY <1>1, <1>3
<1>5. Len(On(Outer, st)) # 0
  BY <1>2, <1>4
<1>6. On(Outer, st) # <<>>
  BY <1>3, <1>5, EmptyStack
<1>7. st # <<>> => Len(st) # 0 /\ Front(st) \in Seq(Openers)
  <2>1. SUFFICES ASSUME st # <<>> PROVE Len(st) # 0 /\ Front(st) \in Seq(Openers)
    OBVIOUS
  <2>2. Front(st) \in Seq(Openers)
    BY <2>1, StackTop
  <2>3. Len(st) # 0
    BY <2>1, EmptyStack
  <2> QED BY <2>2, <2>3
<1> QED BY <1>2, <1>3, <1>4, <1>6, <1>7

(* A lexeme does the same at the top level as on its own.                  *)
LEMMA LiftStep ==
  ASSUME NEW s \in JsonStates, NEW t \in JsonStates, NEW K, NEW x \in Lexemes,
         Lifted(s, t, K)
  PROVE  Lifted(JsonStep(s, x), JsonStep(t, x), K)
<1>1. CASE x = "sp"
  <2>1. JsonStep(s, x) = s /\ JsonStep(t, x) = t
    BY <1>1 DEF JsonStep
  <2> QED BY <2>1
<1>2. CASE JsonStep(s, x).at = "bad"
  BY <1>2 DEF Lifted
<1>3. CASE x # "sp" /\ JsonStep(s, x).at # "bad"
  <2> DEFINE u == JsonStep(s, x)
             v == JsonStep(t, x)
             st == s.stack
             push == Append(st, x)
             pop == Front(st)
             top == Last(st)
  <2>1. s.at \notin {"bad", "end"}
    BY <1>3, JsonStepEnd
  <2>2. t.stack = On(Outer, st) /\ t.keys = K /\ t.at = s.at
    BY <2>1 DEF Lifted
  <2>3. st \in Seq(Openers) /\ Outer \in Seq(Openers) /\ Outer # <<>> /\ Len(Outer) = 1
    BY JsonStateIs, OuterIs
  <2>4. On(Outer, st) # <<>> /\ Len(On(Outer, st)) = 1 + Len(st) /\ Len(st) \in Nat
    BY <2>3, OnOuter
  <2>5. st # <<>> => /\ Last(t.stack) = top /\ Front(t.stack) = On(Outer, pop)
                     /\ Len(st) # 0 /\ pop \in Seq(Openers)
    BY <2>2, <2>3, OnOuter
  <2>6. x \in Openers => Append(t.stack, x) = On(Outer, push)
    BY <2>2, <2>3, OnPush
  <2>7. /\ s.at \in {"member", "key", "item", "next", "colon"} => st # <<>>
        /\ s.at \in JsonModes
    BY JsonStateIs
  <2> HIDE DEF u, v, push, pop, top
  <2>8. CASE s.at \in {"value", "item"} /\ x \in Unquotes \cup Scalars
    <3>1. u = AfterValue(st, s.keys) /\ v = AfterValue(t.stack, t.keys)
      BY <1>3, <2>2, <2>8, JsonStepIs DEF u, v
    <3>2. v = Json("next", On(Outer, st), K)
      BY <2>2, <2>4, <3>1, AfterValueIs
    <3>3. u = Json(IF st = <<>> THEN "end" ELSE "next", st, s.keys)
      BY <3>1 DEF AfterValue
    <3> HIDE DEF st
    <3> QED BY <3>2, <3>3, LiftJson DEF u, v
  <2>9. CASE s.at \in {"value", "item"} /\ x \in Openers
    <3> DEFINE a == IF x = "{" THEN "member" ELSE "item"
    <3>1. u = Json(a, push, s.keys) /\ v = Json(a, Append(t.stack, x), t.keys)
      BY <1>3, <2>2, <2>9, JsonStepIs DEF u, v, push
    <3>2. a \in {"member", "item"}
      BY Zenon
    <3> HIDE DEF a
    <3>3. v = Json(a, On(Outer, push), K)
      BY <2>2, <2>6, <2>9, <3>1
    <3>4. a = IF a = "end" THEN "next" ELSE a
      BY <3>2
    <3> QED BY <3>1, <3>3, <3>4, LiftJson DEF u, v
  <2>10. CASE \/ s.at = "item" /\ x = "]"
              \/ s.at = "member" /\ x = "}"
              \/ s.at = "next" /\ Closes(Last(s.stack), x)
    <3>1. st # <<>>
      BY <2>7, <2>10, Zenon
    <3>2. Last(t.stack) = Last(s.stack) /\ Front(t.stack) = On(Outer, pop) /\ pop \in Seq(Openers)
      BY <2>5, <3>1 DEF top
    <3>3. \/ t.at = "item" /\ x = "]"
          \/ t.at = "member" /\ x = "}"
          \/ t.at = "next" /\ Closes(Last(t.stack), x)
      BY <2>2, <2>10, <3>2, Zenon
    <3>4. u = AfterValue(pop, s.keys)
      BY <1>3, <2>10, JsonStepIs DEF u, pop
    <3>5. v = AfterValue(On(Outer, pop), K)
      BY <1>3, <2>2, <3>2, <3>3, JsonStepIs DEF v
    <3>6. On(Outer, pop) # <<>>
      BY <3>2, OnOuter
    <3>7. v = Json("next", On(Outer, pop), K)
      BY <3>5, <3>6, AfterValueIs
    <3>8. u = Json(IF pop = <<>> THEN "end" ELSE "next", pop, s.keys)
      BY <3>4 DEF AfterValue
    <3> QED BY <3>7, <3>8, LiftJson DEF u, v
  <2>11. CASE s.at \in {"member", "key"} /\ x \in Unquotes
    <3>1. Len(t.stack) # 1 /\ t.at \in {"member", "key"}
      BY <2>2, <2>4, <2>5, <2>7, <2>11
    <3> DEFINE k == IF Len(s.stack) = 1 THEN s.keys \cup {x} ELSE s.keys
    <3>2. u = Json("colon", st, k)
      BY <1>3, <2>11, JsonStepIs DEF u
    <3>3. v = Json("colon", t.stack, t.keys)
      BY <1>3, <2>11, <3>1, JsonStepIs DEF v
    <3> HIDE DEF k
    <3>4. v = Json("colon", On(Outer, st), K)
      BY <2>2, <3>3
    <3> QED BY <3>2, <3>4, LiftJson DEF u, v
  <2>12. CASE s.at = "colon" /\ x = ":"
    <3>1. u = Json("value", st, s.keys) /\ v = Json("value", t.stack, t.keys)
      BY <1>3, <2>2, <2>12, JsonStepIs DEF u, v
    <3>2. v = Json("value", On(Outer, st), K)
      BY <2>2, <3>1
    <3> QED BY <3>1, <3>2, LiftJson DEF u, v
  <2>13. CASE s.at = "next" /\ x = ","
    <3> DEFINE a(o) == IF o = "{" THEN "key" ELSE "value"
    <3>1. /\ u = Json(a(top), st, s.keys)
          /\ v = Json(a(Last(t.stack)), t.stack, t.keys)
      BY <1>3, <2>2, <2>13, JsonStepIs DEF u, v, top
    <3>2. a(top) \in {"key", "value"}
      BY Zenon
    <3> HIDE DEF a
    <3>3. st # <<>>
      BY <2>7, <2>13, Zenon
    <3>4. v = Json(a(top), On(Outer, st), K)
      BY <2>2, <2>5, <3>1, <3>3
    <3>5. a(top) = IF a(top) = "end" THEN "next" ELSE a(top)
      BY <3>2
    <3> DEFINE md == a(top)
    <3> HIDE DEF md
    <3>6. u = Json(md, st, s.keys) /\ v = Json(md, On(Outer, st), K) /\ md = IF md = "end" THEN "next" ELSE md
      BY <3>1, <3>4, <3>5 DEF md
    <3> QED BY <3>6, LiftJson DEF u, v
  <2> QED BY <1>3, <2>8, <2>9, <2>10, <2>11, <2>12, <2>13, JsonStepBad DEF u, v
<1> QED BY <1>1, <1>2, <1>3

(* A valid value is one in the place of a member's, too.                   *)
LEMMA LiftValue ==
  ASSUME NEW v \in Seq(Lexemes), Parses(v), NEW K \in SUBSET Unquotes
  PROVE  JsonEnd(Top("value", K), v) = Top("next", K)
<1> DEFINE T == {p \in JsonStates \X JsonStates : Lifted(p[1], p[2], K)}
           t == Top("value", K)
           e == JsonEnd(JsonStart, v)
           d == JsonEnd(t, v)
<1>1. t \in JsonStates /\ t.at = "value" /\ t.stack = Outer /\ t.keys = K
  BY TopIs
<1>2. JsonStart.at = "value" /\ JsonStart.stack = <<>> /\ JsonStart \in JsonStates
  BY JsonStartType, JsonFields DEF JsonStart
<1> HIDE DEF t
<1>3. Lifted(JsonStart, t, K)
  BY <1>1, <1>2, OnEmpty, OuterIs DEF Lifted
<1>4. <<JsonStart, t>> \in T
  BY <1>1, <1>2, <1>3
<1>5. ASSUME NEW r \in JsonStates, NEW q \in JsonStates, NEW x \in Lexemes, <<r, q>> \in T
      PROVE  <<JsonStep(r, x), JsonStep(q, x)>> \in T
  <2>1. Lifted(r, q, K)
    BY <1>5
  <2>2. Lifted(JsonStep(r, x), JsonStep(q, x), K)
    BY <2>1, LiftStep
  <2>3. JsonStep(r, x) \in JsonStates /\ JsonStep(q, x) \in JsonStates
    BY JsonStepType
  <2> QED BY <2>2, <2>3
<1>6. <<e, d>> \in T
  <2> HIDE DEF T
  <2>1. Lexemes \in SUBSET Lexemes
    OBVIOUS
  <2> QED BY <1>1, <1>2, <1>4, <1>5, <2>1, JsonSimulation
<1>7. Lifted(e, d, K) /\ e \in JsonStates /\ d \in JsonStates
  BY <1>6
<1>8. e.at = "end"
  BY DEF Parses
<1> HIDE DEF e, d
<1>9. e.stack = <<>>
  BY <1>7, <1>8, JsonStateIs
<1>10. d.at = "next" /\ d.stack = Outer /\ d.keys = K
  BY <1>7, <1>8, <1>9, OnEmpty, OuterIs DEF Lifted
<1>11. d = Json(d.at, d.stack, d.keys)
  BY <1>7, JsonStateIs
<1> QED BY <1>10, <1>11 DEF d, t, Top
-----------------------------------------------------------------------------
(* Putting sequences together is associative.                              *)
LEMMA ConcatAssoc ==
  ASSUME NEW S, NEW a \in Seq(S), NEW b \in Seq(S), NEW c \in Seq(S)
  PROVE  a \o (b \o c) = (a \o b) \o c
  OBVIOUS

(* The same for the texts of this module.                                  *)
LEMMA TextAssoc ==
  /\ \A a, b, c \in Seq(Solid) : a \o (b \o c) = (a \o b) \o c
  /\ \A a, b, c \in Seq(Lexemes) : a \o (b \o c) = (a \o b) \o c
<1>1. \A a, b, c \in Seq(Solid) : a \o (b \o c) = (a \o b) \o c
  BY ConcatAssoc
<1>2. \A a, b, c \in Seq(Lexemes) : a \o (b \o c) = (a \o b) \o c
  BY ConcatAssoc
<1> QED BY <1>1, <1>2, Zenon

(* An object without its closing brace.                                    *)
Pre(ms) == <<LB>> \o Joined(ms)
Keys(ms) == {ms[i].key : i \in DOMAIN ms}

(* The separator is a text.                                                *)
LEMMA SepType ==
  ASSUME NEW ms
  PROVE  Sep(ms) \in Seq(Solid)
<1>1. <<CM>> \in Seq(Solid) /\ <<>> \in Seq(Solid)
  BY SolidLexemes
<1> QED BY <1>1 DEF Sep

(* The text of an object is what precedes its last brace, and that.        *)
LEMMA ObjectIs ==
  ASSUME NEW ms \in Seq(Entries)
  PROVE  /\ Pre(ms) \in Seq(Solid) /\ Pre(ms) \in Seq(Lexemes)
         /\ Object(ms) = Append(Pre(ms), RB)
         /\ Object(ms) \in Seq(Solid) /\ Object(ms) \in Seq(Lexemes)
<1> DEFINE p == Pre(ms)
<1>1. p \in Seq(Solid)
  BY JoinedType, SolidLexemes DEF Pre
<1>2. Object(ms) = p \o <<RB>>
  BY Zenon DEF Object, Pre, LB, RB
<1> HIDE DEF p
<1>3. p \o <<RB>> = Append(p, RB) /\ Append(p, RB) \in Seq(Solid)
  BY <1>1, SolidLexemes
<1> QED BY <1>1, <1>2, <1>3, SolidLexemes DEF p

(* The start of an object without members.                                 *)
LEMMA PreEmpty ==
  ASSUME NEW ms \in Seq(Entries), Len(ms) = 0
  PROVE  Pre(ms) = <<LB>>
<1>1. Joined(ms) = <<>>
  BY JoinedType
<1> QED BY <1>1 DEF Pre

(* The start of an object, by the last member.                             *)
LEMMA PreAppend ==
  ASSUME NEW ms \in Seq(Entries), NEW m \in Entries
  PROVE  Pre(Append(ms, m)) = (Pre(ms) \o Sep(ms)) \o Text(m)
<1> DEFINE j == Joined(ms)
           s == Sep(ms)
           t == Text(m)
           l == <<LB>>
<1>1. j \in Seq(Solid) /\ s \in Seq(Solid) /\ t \in Seq(Solid) /\ l \in Seq(Solid)
  BY JoinedType, SepType, TextIs, SolidLexemes
<1>2. Joined(Append(ms, m)) = (j \o s) \o t
  BY JoinedAppend
<1>3. Pre(Append(ms, m)) = l \o ((j \o s) \o t)
  BY <1>2 DEF Pre
<1> HIDE DEF j, s, t, l
<1>4. j \o s \in Seq(Solid)
  BY <1>1, ConcatIs
<1>5. l \o ((j \o s) \o t) = (l \o (j \o s)) \o t
  <2> DEFINE js == j \o s
  <2>1. js \in Seq(Solid)
    BY <1>4
  <2> HIDE DEF js
  <2>2. l \o (js \o t) = (l \o js) \o t
    <3>1. \A x, y, z \in Seq(Solid) : x \o (y \o z) = (x \o y) \o z
      BY ConcatAssoc
    <3>2. l \in Seq(Solid) /\ t \in Seq(Solid)
      BY <1>1
    <3> QED BY <2>1, <3>1, <3>2, SMTT(20)
  <2> QED BY <2>2 DEF js
<1>6. l \o (j \o s) = (l \o j) \o s
  BY <1>1, TextAssoc, Zenon
<1> QED BY <1>3, <1>5, <1>6 DEF Pre, j, s, t, l

(* The keys, by the last member.                                           *)
LEMMA KeysAppend ==
  ASSUME NEW ms \in Seq(Entries), NEW m \in Entries
  PROVE  Keys(Append(ms, m)) = Keys(ms) \cup {m.key} /\ Keys(ms) \in SUBSET Unquotes
<1>1. Keys(ms) \in SUBSET Unquotes
  <2>1. \A i \in DOMAIN ms : ms[i] \in Entries
    OBVIOUS
  <2> QED BY <2>1, MemberIs DEF Keys
<1> DEFINE c == Append(ms, m)
           n == Len(ms)
<1>2. /\ n \in Nat /\ DOMAIN ms = 1 .. n /\ DOMAIN c = 1 .. n + 1 /\ c[n + 1] = m
      /\ \A k \in 1 .. n : c[k] = ms[k]
  OBVIOUS
<1> HIDE DEF c, n
<1>3. Keys(c) = Keys(ms) \cup {m.key}
  <2>1. ASSUME NEW k \in Keys(c) PROVE k \in Keys(ms) \cup {m.key}
    <3>1. PICK i \in 1 .. n + 1 : k = c[i].key
      BY <1>2 DEF Keys
    <3>2. i = n + 1 \/ i \in 1 .. n
      BY <1>2
    <3> QED BY <1>2, <3>1, <3>2 DEF Keys
  <2>2. m.key \in Keys(c)
    <3>1. n + 1 \in 1 .. n + 1
      BY <1>2
    <3> QED BY <1>2, <3>1 DEF Keys
  <2>3. ASSUME NEW k \in Keys(ms) PROVE k \in Keys(c)
    <3>1. PICK i \in 1 .. n : k = ms[i].key
      BY <1>2 DEF Keys
    <3>2. i \in 1 .. n + 1
      BY <1>2
    <3> QED BY <1>2, <3>1, <3>2 DEF Keys
  <2> QED BY <2>1, <2>2, <2>3
<1> QED BY <1>1, <1>3 DEF c

(* What encoding/json expects after these members.                         *)
Expects(ms) == Top(IF Len(ms) = 0 THEN "member" ELSE "next", Keys(ms))

(* What encoding/json makes of a member,                                   *)
LEMMA TextJson ==
  ASSUME NEW m \in Entries, NEW a \in {"member", "key"}, NEW K \in SUBSET Unquotes
  PROVE  JsonEnd(Top(a, K), Text(m)) = Top("next", K \cup {m.key})
<1> DEFINE v == m.value
           k == m.key
           u == <<k, ":">>
           L == K \cup {k}
<1>1. /\ k \in Unquotes /\ k \in Lexemes /\ ":" \in Lexemes
      /\ v \in Seq(Lexemes) /\ Parses(v)
  BY MemberIs, SolidLexemes
<1>2. L \in SUBSET Unquotes
  BY <1>1
<1>3. Top(a, K) \in JsonStates /\ Top("colon", L) \in JsonStates
  BY <1>2, TopIs
<1>4. Text(m) = u \o v
  BY DEF Text
<1> HIDE DEF v, k, L
<1>5. u \in Seq(Lexemes)
  BY <1>1
<1>6. JsonStep(Top(a, K), k) = Top("colon", L)
  BY <1>1, TopStep DEF L
<1>7. JsonStep(Top("colon", L), ":") = Top("value", L)
  BY <1>2, TopStep
<1>8. JsonEnd(Top(a, K), u) = Top("value", L)
  BY <1>1, <1>3, <1>6, <1>7, JsonEndTwo
<1>9. JsonEnd(Top("value", L), v) = Top("next", L)
  BY <1>1, <1>2, LiftValue
<1> HIDE DEF u
<1>10. JsonEnd(Top(a, K), u \o v) = JsonEnd(JsonEnd(Top(a, K), u), v)
  BY <1>1, <1>3, <1>5, JsonEndConcat
<1> QED BY <1>4, <1>8, <1>9, <1>10 DEF L, k

(* of one more member,                                                     *)
LEMMA PreJsonAppend ==
  ASSUME NEW ms \in Seq(Entries), NEW m \in Entries,
         JsonEnd(JsonStart, Pre(ms)) = Expects(ms)
  PROVE  JsonEnd(JsonStart, Pre(Append(ms, m))) = Expects(Append(ms, m))
<1> DEFINE p == Pre(ms)
           s == Sep(ms)
           t == Text(m)
           K == Keys(ms)
<1>1. p \in Seq(Lexemes) /\ s \in Seq(Lexemes) /\ t \in Seq(Lexemes)
  BY ObjectIs, SepType, TextIs, SolidLexemes
<1>2. Pre(Append(ms, m)) = (p \o s) \o t
  BY PreAppend
<1>3. K \in SUBSET Unquotes /\ Keys(Append(ms, m)) = K \cup {m.key}
  BY KeysAppend
<1>4. Expects(Append(ms, m)) = Top("next", K \cup {m.key})
  <2>1. Len(Append(ms, m)) = Len(ms) + 1 /\ Len(ms) \in Nat
    BY AppendIs
  <2>2. Len(Append(ms, m)) # 0
    BY <2>1
  <2> QED BY <1>3, <2>2 DEF Expects
<1> HIDE DEF p, s, t, K
<1>5. p \o s \in Seq(Lexemes)
  BY <1>1, ConcatIs
<1>6. \E a \in {"member", "key"} : JsonEnd(Expects(ms), s) = Top(a, K)
  <2>1. CASE Len(ms) = 0
    <3>1. s = <<>> /\ Expects(ms) = Top("member", K)
      BY <2>1 DEF s, Sep, Expects, K
    <3>2. Top("member", K) \in JsonStates
      BY <1>3, TopIs
    <3>3. JsonEnd(Expects(ms), s) = Top("member", K)
      BY <3>1, <3>2, JsonEndEmpty
    <3> QED BY <3>3
  <2>2. CASE Len(ms) # 0
    <3>1. s = <<CM>> /\ Expects(ms) = Top("next", K)
      BY <2>2 DEF s, Sep, Expects, K
    <3>2. Top("next", K) \in JsonStates
      BY <1>3, TopIs
    <3>3. JsonEnd(Top("next", K), <<CM>>) = JsonStep(Top("next", K), CM)
      BY <3>2, JsonEndOne, Marks
    <3>4. JsonStep(Top("next", K), CM) = Top("key", K)
      BY <1>3, TopStep
    <3> QED BY <3>1, <3>3, <3>4
  <2> QED BY <2>1, <2>2
<1>7. PICK a \in {"member", "key"} : JsonEnd(Expects(ms), s) = Top(a, K)
  BY <1>6
<1>8. JsonEnd(JsonStart, p \o s) = Top(a, K)
  <2>1. JsonEnd(JsonStart, p \o s) = JsonEnd(JsonEnd(JsonStart, p), s)
    BY <1>1, JsonStartType, JsonEndConcat
  <2> QED BY <1>7, <2>1 DEF p
<1>9. JsonEnd(JsonStart, (p \o s) \o t) = JsonEnd(Top(a, K), t)
  <2> DEFINE ps == p \o s
  <2>1. ps \in Seq(Lexemes) /\ JsonEnd(JsonStart, ps) = Top(a, K)
    BY <1>5, <1>8
  <2> HIDE DEF ps
  <2>2. JsonEnd(JsonStart, ps \o t) = JsonEnd(JsonEnd(JsonStart, ps), t)
    BY <1>1, <2>1, JsonStartType, JsonEndConcat
  <2> QED BY <2>1, <2>2 DEF ps
<1>10. JsonEnd(Top(a, K), t) = Top("next", K \cup {m.key})
  BY <1>3, TextJson DEF t
<1> QED BY <1>2, <1>4, <1>9, <1>10

(* and of all of them.                                                     *)
LEMMA PreJson ==
  ASSUME NEW ms \in Seq(Entries)
  PROVE  JsonEnd(JsonStart, Pre(ms)) = Expects(ms)
<1> DEFINE T == {n \in Nat : \A d \in Seq(Entries) :
                   Len(d) = n => JsonEnd(JsonStart, Pre(d)) = Expects(d)}
<1>1. 0 \in T
  <2>1. ASSUME NEW d \in Seq(Entries), Len(d) = 0
        PROVE  JsonEnd(JsonStart, Pre(d)) = Expects(d)
    <3>1. Pre(d) = <<LB>>
      BY <2>1, PreEmpty
    <3>2. Keys(d) = {}
      BY <2>1 DEF Keys
    <3>3. JsonEnd(JsonStart, <<LB>>) = JsonStep(JsonStart, LB)
      BY JsonStartType, JsonEndOne, Marks
    <3>4. JsonStep(JsonStart, LB) = Top("member", {})
      <4>1. {} \in SUBSET Unquotes
        OBVIOUS
      <4> QED BY <4>1, TopStep
    <3>5. Expects(d) = Top("member", {})
      BY <2>1, <3>2 DEF Expects
    <3> QED BY <3>1, <3>3, <3>4, <3>5
  <2> QED BY <2>1
<1>2. ASSUME NEW n \in Nat, n \in T PROVE n + 1 \in T
  <2>1. ASSUME NEW d \in Seq(Entries), Len(d) = n + 1
        PROVE  JsonEnd(JsonStart, Pre(d)) = Expects(d)
    <3>1. PICK c \in Seq(Entries), m \in Entries : d = Append(c, m) /\ Len(c) = n
      BY <2>1, SplitLast
    <3>2. JsonEnd(JsonStart, Pre(c)) = Expects(c)
      BY <1>2, <3>1
    <3> QED BY <3>1, <3>2, PreJsonAppend
  <2> QED BY <2>1
<1> HIDE DEF T
<1>3. \A n \in Nat : n \in T
  BY <1>1, <1>2, InductionNat
<1>4. Len(ms) \in T
  <2>1. Len(ms) \in Nat
    OBVIOUS
  <2> QED BY <1>3, <2>1
<1> QED BY <1>4 DEF T

(* What a caller writes is a JSON object with these keys.                  *)
LEMMA ObjectJson ==
  ASSUME NEW ms \in Seq(Entries)
  PROVE  JsonEnd(JsonStart, Object(ms)) = Json("end", <<>>, Keys(ms))
<1> DEFINE p == Pre(ms)
           K == Keys(ms)
<1>1. p \in Seq(Lexemes) /\ Object(ms) = Append(p, RB)
  BY ObjectIs
<1>2. JsonEnd(JsonStart, p) = Expects(ms)
  BY PreJson
<1>3. K \in SUBSET Unquotes
  <2>1. \A i \in DOMAIN ms : ms[i] \in Entries
    OBVIOUS
  <2> QED BY <2>1, MemberIs DEF Keys
<1> HIDE DEF p, K
<1>4. JsonEnd(JsonStart, Append(p, RB)) = JsonStep(Expects(ms), RB)
  BY <1>1, <1>2, JsonStartType, JsonEndAppend, Marks
<1>5. JsonStep(Expects(ms), RB) = Json("end", <<>>, K)
  <2>1. Expects(ms) \in {Top("member", K), Top("next", K)}
    BY DEF Expects, K
  <2>2. /\ JsonStep(Top("member", K), RB) = Json("end", <<>>, K)
        /\ JsonStep(Top("next", K), RB) = Json("end", <<>>, K)
    BY <1>3, TopStep
  <2> QED BY <2>1, <2>2
<1> QED BY <1>1, <1>4, <1>5 DEF K
-----------------------------------------------------------------------------
(* Pick looks at K only where b has positions.                             *)
LEMMA PickAgree ==
  ASSUME NEW S, NEW b \in Seq(S), NEW K, NEW L, \A i \in 1 .. Len(b) : i \in K <=> i \in L
  PROVE  Pick(b, K) = Pick(b, L)
<1> DEFINE n == Len(b)
<1>1. n \in Nat
  OBVIOUS
<1>2. PICK f : /\ Pick(b, K) = f[n] /\ f[0] = <<>>
               /\ \A i \in 1 .. n :
                    f[i] = IF i \in K THEN Append(f[i - 1], b[i]) ELSE f[i - 1]
  BY PickIs
<1>3. PICK h : /\ Pick(b, L) = h[n] /\ h[0] = <<>>
               /\ \A i \in 1 .. n :
                    h[i] = IF i \in L THEN Append(h[i - 1], b[i]) ELSE h[i - 1]
  BY PickIs
<1>4. \A i \in 1 .. n : i \in K <=> i \in L
  OBVIOUS
<1> HIDE DEF n
<1> DEFINE T == {i \in 0 .. n : f[i] = h[i]}
<1>5. 0 \in T
  BY <1>1, <1>2, <1>3
<1>6. ASSUME NEW i \in 0 .. n - 1, i \in T PROVE i + 1 \in T
  <2>1. i + 1 \in 1 .. n /\ i + 1 \in 0 .. n /\ (i + 1) - 1 = i
    BY <1>1
  <2>2. f[i + 1] = IF i + 1 \in K THEN Append(f[i], b[i + 1]) ELSE f[i]
    BY <1>2, <2>1
  <2>3. h[i + 1] = IF i + 1 \in L THEN Append(h[i], b[i + 1]) ELSE h[i]
    BY <1>3, <2>1
  <2>4. i + 1 \in K <=> i + 1 \in L
    BY <1>4, <2>1
  <2> QED BY <1>6, <2>1, <2>2, <2>3, <2>4
<1> HIDE DEF T
<1>7. \A i \in 0 .. n : i \in T
  BY <1>1, <1>5, <1>6, Induction
<1>8. n \in T
  BY <1>1, <1>7
<1> QED BY <1>2, <1>3, <1>8 DEF T

(* Compact of the empty text.                                              *)
LEMMA CompactEmpty == Compact(<<>>) = <<>>
<1>1. <<>> \in Seq(Lexemes) /\ Len(<<>>) = 0
  OBVIOUS
<1> QED BY <1>1, PickEmpty DEF Compact

(* Compact, by the last lexeme.                                            *)
LEMMA CompactAppend ==
  ASSUME NEW b \in Seq(Lexemes), NEW x \in Lexemes
  PROVE  Compact(Append(b, x)) = IF x = "sp" THEN Compact(b) ELSE Append(Compact(b), x)
<1> DEFINE c == Append(b, x)
           n == Len(b)
           K == {i \in DOMAIN b : b[i] # "sp"}
           L == {i \in DOMAIN c : c[i] # "sp"}
<1>1. /\ n \in Nat /\ DOMAIN b = 1 .. n /\ DOMAIN c = 1 .. n + 1 /\ c[n + 1] = x
      /\ \A k \in 1 .. n : c[k] = b[k]
  OBVIOUS
<1>2. Compact(b) = Pick(b, K) /\ Compact(c) = Pick(c, L)
  BY DEF Compact
<1>3. Pick(c, L) = IF n + 1 \in L THEN Append(Pick(b, L), x) ELSE Pick(b, L)
  BY PickAppend, ZenonT(60)
<1> HIDE DEF c
<1>4. n + 1 \in L <=> x # "sp"
  BY <1>1
<1>5. \A i \in 1 .. n : i \in L <=> i \in K
  BY <1>1
<1> HIDE DEF K, L
<1>6. Pick(b, L) = Pick(b, K)
  BY <1>5, PickAgree
<1> QED BY <1>2, <1>3, <1>4, <1>6 DEF c

(* Compact leaves no whitespace.                                           *)
LEMMA CompactType ==
  ASSUME NEW b \in Seq(Lexemes)
  PROVE  Compact(b) \in Seq(Solid) /\ Compact(b) \in Seq(Lexemes)
<1> DEFINE T == {n \in Nat : \A d \in Seq(Lexemes) : Len(d) = n => Compact(d) \in Seq(Solid)}
<1>1. 0 \in T
  <2>1. ASSUME NEW d \in Seq(Lexemes), Len(d) = 0 PROVE Compact(d) \in Seq(Solid)
    <3>1. d = <<>>
      BY <2>1, EmptyStack
    <3>2. <<>> \in Seq(Solid)
      OBVIOUS
    <3> QED BY <3>1, <3>2, CompactEmpty
  <2> QED BY <2>1
<1>2. ASSUME NEW n \in Nat, n \in T PROVE n + 1 \in T
  <2>1. ASSUME NEW d \in Seq(Lexemes), Len(d) = n + 1 PROVE Compact(d) \in Seq(Solid)
    <3>1. PICK c \in Seq(Lexemes), x \in Lexemes : d = Append(c, x) /\ Len(c) = n
      BY <2>1, SplitLast
    <3>2. Compact(c) \in Seq(Solid)
      BY <1>2, <3>1
    <3>3. x # "sp" => x \in Solid
      BY DEF Solid
    <3>4. x # "sp" => Append(Compact(c), x) \in Seq(Solid)
      BY <3>2, <3>3, AppendIs
    <3> QED BY <3>1, <3>2, <3>4, CompactAppend
  <2> QED BY <2>1
<1> HIDE DEF T
<1>3. \A n \in Nat : n \in T
  BY <1>1, <1>2, InductionNat
<1>4. Len(b) \in T
  <2>1. Len(b) \in Nat
    OBVIOUS
  <2> QED BY <1>3, <2>1
<1>5. Compact(b) \in Seq(Solid)
  BY <1>4 DEF T
<1> QED BY <1>5, SolidLexemes

(* Putting together and appending.                                         *)
LEMMA ConcatAppend ==
  ASSUME NEW S
  PROVE  \A b, e \in Seq(S) : /\ b \o e \in Seq(S)
                             /\ \A x \in S : b \o Append(e, x) = Append(b \o e, x)
<1>1. ASSUME NEW b \in Seq(S), NEW e \in Seq(S), NEW x \in S
      PROVE  b \o Append(e, x) = Append(b \o e, x)
  OBVIOUS
<1>2. ASSUME NEW b \in Seq(S), NEW e \in Seq(S) PROVE b \o e \in Seq(S)
  OBVIOUS
<1> QED BY <1>1, <1>2

(* Compact goes through the parts of a text.                               *)
LEMMA CompactConcat ==
  ASSUME NEW b \in Seq(Lexemes), NEW c \in Seq(Lexemes)
  PROVE  Compact(b \o c) = Compact(b) \o Compact(c)
<1> DEFINE T == {n \in Nat : \A d \in Seq(Lexemes) :
                   Len(d) = n => Compact(b \o d) = Compact(b) \o Compact(d)}
<1>1. 0 \in T
  <2>1. ASSUME NEW d \in Seq(Lexemes), Len(d) = 0
        PROVE  Compact(b \o d) = Compact(b) \o Compact(d)
    <3>1. d = <<>>
      BY <2>1, EmptyStack
    <3>2. b \o <<>> = b
      BY EmptyStack
    <3>3. Compact(b) \o <<>> = Compact(b)
      BY CompactType, EmptyStack
    <3> QED BY <3>1, <3>2, <3>3, CompactEmpty
  <2> QED BY <2>1
<1>2. ASSUME NEW n \in Nat, n \in T PROVE n + 1 \in T
  <2>1. ASSUME NEW d \in Seq(Lexemes), Len(d) = n + 1
        PROVE  Compact(b \o d) = Compact(b) \o Compact(d)
    <3>1. PICK e \in Seq(Lexemes), x \in Lexemes : d = Append(e, x) /\ Len(e) = n
      BY <2>1, SplitLast
    <3>2. Compact(b \o e) = Compact(b) \o Compact(e)
      BY <1>2, <3>1
    <3>3. b \o e \in Seq(Lexemes) /\ b \o Append(e, x) = Append(b \o e, x)
      BY ConcatAppend
    <3> DEFINE be == b \o e
    <3>4. be \in Seq(Lexemes)
      BY <3>3
    <3> HIDE DEF be
    <3>5. Compact(Append(be, x)) = IF x = "sp" THEN Compact(be) ELSE Append(Compact(be), x)
      BY <3>4, CompactAppend
    <3>6. Compact(Append(e, x)) = IF x = "sp" THEN Compact(e) ELSE Append(Compact(e), x)
      BY CompactAppend
    <3>7. Append(Compact(b) \o Compact(e), x) = Compact(b) \o Append(Compact(e), x)
      <4>1. Compact(b) \in Seq(Lexemes) /\ Compact(e) \in Seq(Lexemes)
        BY CompactType
      <4> DEFINE cb == Compact(b)
                 ce == Compact(e)
      <4> HIDE DEF cb, ce
      <4>2. cb \in Seq(Lexemes) /\ ce \in Seq(Lexemes)
        BY <4>1 DEF cb, ce
      <4>3. cb \o Append(ce, x) = Append(cb \o ce, x)
        BY <4>2, ConcatAppend
      <4> QED BY <4>3 DEF cb, ce
    <3>8. Compact(b \o d) = Compact(Append(be, x))
      BY <3>1, <3>3 DEF be
    <3>9. Compact(be) = Compact(b) \o Compact(e)
      BY <3>2 DEF be
    <3> QED BY <3>1, <3>5, <3>6, <3>7, <3>8, <3>9
  <2> QED BY <2>1
<1> HIDE DEF T
<1>3. \A n \in Nat : n \in T
  BY <1>1, <1>2, InductionNat
<1>4. Len(c) \in T
  <2>1. Len(c) \in Nat
    OBVIOUS
  <2> QED BY <1>3, <2>1
<1> QED BY <1>4 DEF T

(* It changes nothing where there is no whitespace.                        *)
LEMMA CompactSolid ==
  ASSUME NEW b \in Seq(Solid)
  PROVE  Compact(b) = b
<1> DEFINE T == {n \in Nat : \A d \in Seq(Solid) : Len(d) = n => Compact(d) = d}
<1>1. 0 \in T
  <2>1. ASSUME NEW d \in Seq(Solid), Len(d) = 0 PROVE Compact(d) = d
    <3>1. d = <<>>
      BY <2>1, EmptyStack
    <3> QED BY <3>1, CompactEmpty
  <2> QED BY <2>1
<1>2. ASSUME NEW n \in Nat, n \in T PROVE n + 1 \in T
  <2>1. ASSUME NEW d \in Seq(Solid), Len(d) = n + 1 PROVE Compact(d) = d
    <3>1. PICK c \in Seq(Solid), x \in Solid : d = Append(c, x) /\ Len(c) = n
      BY <2>1, SplitLast
    <3>2. c \in Seq(Lexemes) /\ x \in Lexemes /\ x # "sp"
      BY SolidLexemes
    <3>3. Compact(c) = c
      BY <1>2, <3>1
    <3> QED BY <3>1, <3>2, <3>3, CompactAppend
  <2> QED BY <2>1
<1> HIDE DEF T
<1>3. \A n \in Nat : n \in T
  BY <1>1, <1>2, InductionNat
<1>4. Len(b) \in T
  <2>1. Len(b) \in Nat
    OBVIOUS
  <2> QED BY <1>3, <2>1
<1> QED BY <1>4 DEF T

(* It leaves nothing of whitespace.                                        *)
LEMMA CompactBlank ==
  ASSUME NEW b \in Seq(Lexemes), \A i \in 1 .. Len(b) : b[i] = "sp"
  PROVE  Compact(b) = <<>>
<1> DEFINE K == {i \in DOMAIN b : b[i] # "sp"}
<1>2. \A i \in 1 .. Len(b) : i \notin K
  OBVIOUS
<1> HIDE DEF K
<1>1. PICK f : /\ Pick(b, K) = f[Len(b)] /\ f[0] = <<>>
               /\ \A i \in 1 .. Len(b) :
                    f[i] = IF i \in K THEN Append(f[i - 1], b[i]) ELSE f[i - 1]
  BY PickIs
<1> DEFINE T == {i \in 0 .. Len(b) : f[i] = <<>>}
<1>3. 0 \in T
  BY <1>1
<1>4. ASSUME NEW i \in 0 .. Len(b) - 1, i \in T PROVE i + 1 \in T
  <2>1. i + 1 \in 1 .. Len(b) /\ i + 1 \in 0 .. Len(b) /\ (i + 1) - 1 = i
    OBVIOUS
  <2>2. f[i + 1] = f[i]
    BY <1>1, <1>2, <2>1
  <2> QED BY <1>4, <2>1, <2>2
<1>5. Len(b) \in T
  <2> HIDE DEF T
  <2>1. Len(b) \in Nat
    OBVIOUS
  <2>2. Len(b) \in 0 .. Len(b)
    BY <2>1
  <2> QED BY <1>3, <1>4, <2>1, <2>2, Induction
<1> QED BY <1>1, <1>5 DEF Compact, K
-----------------------------------------------------------------------------
(* The positions of a spaced text.                                         *)
LEMMA HalfOf ==
  ASSUME NEW n \in Nat, NEW i \in 1 .. 2 * n + 1
  PROVE  /\ i % 2 = 1 \/ (i % 2 = 0 /\ i \div 2 \in 1 .. n)
         /\ (2 * n + 1) % 2 = 1 /\ (2 * n + 2) % 2 = 0 /\ (2 * n + 2) \div 2 = n + 1
         /\ (2 * n + 3) % 2 = 1
  OBVIOUS

(* What Spaced gives.                                                      *)
LEMMA SpacedIs ==
  ASSUME NEW b \in Seq(Lexemes)
  PROVE  /\ Spaced(b) \in Seq(Lexemes) /\ Len(Spaced(b)) = 2 * Len(b) + 1
         /\ \A i \in 1 .. 2 * Len(b) + 1 :
              Spaced(b)[i] = IF i % 2 = 1 THEN "sp" ELSE b[i \div 2]
<1> DEFINE n == Len(b)
           s == Spaced(b)
           f(i) == IF i % 2 = 1 THEN "sp" ELSE b[i \div 2]
<1>1. n \in Nat /\ \A k \in 1 .. n : b[k] \in Lexemes
  OBVIOUS
<1>2. s = [i \in 1 .. 2 * n + 1 |-> f(i)]
  BY DEF Spaced
<1> HIDE DEF s, n
<1>3. "sp" \in Lexemes
  BY DEF Lexemes
<1>4. ASSUME NEW i \in 1 .. 2 * n + 1 PROVE f(i) \in Lexemes
  BY <1>1, <1>3, HalfOf
<1>5. 2 * n + 1 \in Nat
  BY <1>1
<1> HIDE DEF f
<1>6. s \in [1 .. 2 * n + 1 -> Lexemes]
  BY <1>2, <1>4
<1>7. s \in Seq(Lexemes)
  BY <1>5, <1>6
<1>8. Len(s) = 2 * n + 1
  BY <1>5, <1>6, <1>7
<1> QED BY <1>2, <1>7, <1>8 DEF s, n, f

(* Spaced, by the last lexeme.                                             *)
LEMMA SpacedAppend ==
  ASSUME NEW b \in Seq(Lexemes), NEW x \in Lexemes
  PROVE  Spaced(Append(b, x)) = Append(Append(Spaced(b), x), "sp")
<1> DEFINE n == Len(b)
           c == Append(b, x)
           s == Spaced(b)
           t == Spaced(c)
           u == Append(s, x)
           w == Append(u, "sp")
           f(d, i) == IF i % 2 = 1 THEN "sp" ELSE d[i \div 2]
<1>1. /\ c \in Seq(Lexemes) /\ n \in Nat /\ Len(c) = n + 1 /\ c[n + 1] = x
      /\ \A k \in 1 .. n : c[k] = b[k]
  BY AppendIs
<1>2. /\ s \in Seq(Lexemes) /\ Len(s) = 2 * n + 1
      /\ \A i \in 1 .. 2 * n + 1 : s[i] = f(b, i)
  BY SpacedIs
<1> HIDE DEF c
<1>3. /\ t \in Seq(Lexemes) /\ Len(t) = 2 * Len(c) + 1
      /\ \A i \in 1 .. 2 * Len(c) + 1 : t[i] = f(c, i)
  BY <1>1, SpacedIs
<1>4. "sp" \in Lexemes
  BY DEF Lexemes
<1> HIDE DEF s, t
<1>5. /\ u \in Seq(Lexemes) /\ Len(u) = Len(s) + 1 /\ u[Len(s) + 1] = x
      /\ \A k \in 1 .. Len(s) : u[k] = s[k]
  <2>1. s \in Seq(Lexemes)
    BY <1>2
  <2> QED BY <2>1, AppendIs
<1> HIDE DEF u
<1>6. /\ w \in Seq(Lexemes) /\ Len(w) = Len(u) + 1 /\ w[Len(u) + 1] = "sp"
      /\ \A k \in 1 .. Len(u) : w[k] = u[k]
  BY <1>4, <1>5, AppendIs
<1> HIDE DEF w, n
<1>7. Len(t) = 2 * n + 3 /\ Len(w) = 2 * n + 3
  BY <1>1, <1>2, <1>3, <1>5, <1>6
<1>8. ASSUME NEW i \in 1 .. 2 * n + 3 PROVE t[i] = w[i]
  <2>1. t[i] = f(c, i)
    BY <1>1, <1>3
  <2>2. CASE i = 2 * n + 3
    <3>1. i % 2 = 1 /\ i = Len(u) + 1
      BY <1>1, <1>2, <1>5, <2>2, HalfOf
    <3> QED BY <1>6, <2>1, <3>1
  <2>3. CASE i = 2 * n + 2
    <3>1. i % 2 = 0 /\ i \div 2 = n + 1
      BY <1>1, <2>3
    <3>2. i \in 1 .. Len(u) /\ i = Len(s) + 1
      BY <1>1, <1>2, <1>5, <2>3
    <3>3. w[i] = x
      BY <1>5, <1>6, <3>2
    <3> QED BY <1>1, <2>1, <3>1, <3>3
  <2>4. CASE i \in 1 .. 2 * n + 1
    <3>1. i \in 1 .. Len(u) /\ i \in 1 .. Len(s)
      BY <1>1, <1>2, <1>5, <2>4
    <3>2. w[i] = f(b, i)
      BY <1>2, <1>5, <1>6, <2>4, <3>1
    <3>3. i % 2 = 1 \/ (i % 2 = 0 /\ i \div 2 \in 1 .. n)
      BY <1>1, <2>4, HalfOf
    <3>4. f(c, i) = f(b, i)
      BY <1>1, <3>3
    <3> QED BY <2>1, <3>2, <3>4
  <2>5. i = 2 * n + 3 \/ i = 2 * n + 2 \/ i \in 1 .. 2 * n + 1
    BY <1>1
  <2> QED BY <2>2, <2>3, <2>4, <2>5
<1>9. t = w
  BY <1>3, <1>6, <1>7, <1>8, SameSeq
<1> QED BY <1>9 DEF t, w, u, s, c

(* Spaced adds only whitespace.                                            *)
LEMMA CompactSpaced ==
  ASSUME NEW b \in Seq(Solid)
  PROVE  Compact(Spaced(b)) = b
<1> DEFINE T == {n \in Nat : \A d \in Seq(Solid) : Len(d) = n => Compact(Spaced(d)) = d}
<1>0. "sp" \in Lexemes
  BY DEF Lexemes
<1>1. 0 \in T
  <2>1. ASSUME NEW d \in Seq(Solid), Len(d) = 0 PROVE Compact(Spaced(d)) = d
    <3>1. d = <<>> /\ d \in Seq(Lexemes)
      BY <2>1, EmptyStack, SolidLexemes
    <3> DEFINE s == Spaced(d)
    <3>2. s \in Seq(Lexemes) /\ Len(s) = 2 * Len(d) + 1
          /\ \A i \in 1 .. 2 * Len(d) + 1 : s[i] = IF i % 2 = 1 THEN "sp" ELSE d[i \div 2]
      BY <3>1, SpacedIs
    <3> HIDE DEF s
    <3>3. Len(s) = 1 /\ \A i \in 1 .. Len(s) : s[i] = "sp"
      <4>1. 2 * Len(d) + 1 = 1
        BY <2>1
      <4>2. Len(s) = 1 /\ 1 \in 1 .. 2 * Len(d) + 1
        BY <3>2, <4>1
      <4>3. 1 % 2 = 1
        OBVIOUS
      <4>4. s[1] = "sp"
        BY <3>2, <4>2, <4>3
      <4>5. \A i \in 1 .. 1 : i = 1
        OBVIOUS
      <4> QED BY <4>2, <4>4, <4>5
    <3>4. Compact(s) = <<>>
      BY <3>2, <3>3, CompactBlank
    <3> QED BY <3>1, <3>4 DEF s
  <2> QED BY <2>1
<1>2. ASSUME NEW n \in Nat, n \in T PROVE n + 1 \in T
  <2>1. ASSUME NEW d \in Seq(Solid), Len(d) = n + 1 PROVE Compact(Spaced(d)) = d
    <3>1. PICK c \in Seq(Solid), x \in Solid : d = Append(c, x) /\ Len(c) = n
      BY <2>1, SplitLast
    <3>2. c \in Seq(Lexemes) /\ x \in Lexemes /\ x # "sp"
      BY SolidLexemes
    <3>3. Compact(Spaced(c)) = c
      BY <1>2, <3>1
    <3> DEFINE s == Spaced(c)
               u == Append(s, x)
    <3>4. s \in Seq(Lexemes)
      BY <3>2, SpacedIs
    <3>5. Spaced(d) = Append(u, "sp")
      BY <3>1, <3>2, SpacedAppend
    <3> HIDE DEF s
    <3>6. u \in Seq(Lexemes) /\ Compact(u) = Append(Compact(s), x)
      BY <3>2, <3>4, AppendIs, CompactAppend
    <3> HIDE DEF u
    <3>7. Compact(Append(u, "sp")) = Compact(u)
      BY <1>0, <3>6, CompactAppend
    <3> QED BY <3>1, <3>3, <3>5, <3>6, <3>7 DEF s
  <2> QED BY <2>1
<1> HIDE DEF T
<1>3. \A n \in Nat : n \in T
  BY <1>1, <1>2, InductionNat
<1>4. Len(b) \in T
  <2>1. Len(b) \in Nat
    OBVIOUS
  <2> QED BY <1>3, <2>1
<1> QED BY <1>4 DEF T
-----------------------------------------------------------------------------
(* A text that is complete, or no JSON, stays so.                          *)
LEMMA JsonRunEnded ==
  ASSUME NEW b \in Seq(Lexemes), NEW p \in 0 .. Len(b), NEW q \in p .. Len(b)
  PROVE  LET J == JsonRun(JsonStart, b)
         IN /\ J[p].at \in {"end", "bad"} => J[q].at \in {"end", "bad"}
            /\ J[p].at = "bad" => J[q].at = "bad"
<1> DEFINE n == Len(b)
           J == JsonRun(JsonStart, b)
           T == {k \in 0 .. n : k >= p => /\ J[p].at \in {"end", "bad"} => J[k].at \in {"end", "bad"}
                                          /\ J[p].at = "bad" => J[k].at = "bad"}
<1>1. n \in Nat /\ p \in 0 .. n /\ p \in Nat /\ q \in 0 .. n /\ q >= p /\ \A k \in 1 .. n : b[k] \in Lexemes
  OBVIOUS
<1>2. J \in [0 .. n -> JsonStates] /\ \A k \in 1 .. n : J[k] = JsonStep(J[k - 1], b[k])
  BY JsonStartType, JsonRunIs
<1> HIDE DEF n, J
<1>3. 0 \in T
  <2>1. 0 >= p => p = 0
    BY <1>1
  <2> QED BY <1>1, <2>1
<1>4. ASSUME NEW k \in 0 .. n - 1, k \in T PROVE k + 1 \in T
  <2>1. k + 1 \in 1 .. n /\ k + 1 \in 0 .. n /\ (k + 1) - 1 = k /\ k \in 0 .. n
    BY <1>1
  <2>2. J[k + 1] = JsonStep(J[k], b[k + 1]) /\ J[k] \in JsonStates /\ b[k + 1] \in Lexemes
    BY <1>1, <1>2, <2>1
  <2>3. /\ J[k].at \in {"end", "bad"} => J[k + 1].at \in {"end", "bad"}
        /\ J[k].at = "bad" => J[k + 1].at = "bad"
    BY <2>2, JsonStepEnd
  <2>4. CASE k + 1 = p
    BY <2>1, <2>4
  <2>5. CASE k + 1 # p
    <3>1. k + 1 >= p => k >= p
      BY <1>1, <2>5
    <3> QED BY <1>4, <2>1, <2>3, <3>1
  <2> QED BY <2>4, <2>5
<1> HIDE DEF T
<1>5. \A k \in 0 .. n : k \in T
  BY <1>1, <1>3, <1>4, Induction
<1>6. q \in T
  BY <1>1, <1>5
<1> QED BY <1>1, <1>6 DEF T, J

(* Behind the brace that ends the scan a valid text has whitespace only.   *)
LEMMA DoneIsLast ==
  ASSUME NEW b \in Seq(Lexemes), Parses(b), NEW q \in 0 .. Len(b),
         ScanRun(b)[q].at = "done"
  PROVE  \A i \in q + 1 .. Len(b) : b[i] = "sp"
<1> DEFINE n == Len(b)
           J == JsonRun(JsonStart, b)
<1>1. n \in Nat /\ q \in Nat /\ q \in 0 .. n /\ \A k \in 1 .. n : b[k] \in Lexemes
  OBVIOUS
<1>2. J \in [0 .. n -> JsonStates] /\ \A k \in 1 .. n : J[k] = JsonStep(J[k - 1], b[k])
  BY JsonStartType, JsonRunIs
<1>3. J[n].at = "end"
  BY DEF Parses, JsonEnd
<1>4. J[q].at \in {"end", "bad"}
  <2>1. IsCut(b, b, {})
    BY NoCut
  <2>2. Covers({}, b, {})
    BY DEF Covers
  <2>3. InStep(J[q], ScanRun(b)[q], {}, {})
    BY <2>1, <2>2, Lockstep
  <2> HIDE DEF J
  <2> QED BY <2>3 DEF InStep, Follows
<1>5. SUFFICES ASSUME NEW i \in q + 1 .. n, b[i] # "sp" PROVE FALSE
  OBVIOUS
<1>6. i - 1 \in q .. n /\ i \in 1 .. n /\ n \in i .. n /\ i \in 0 .. n /\ i - 1 \in 0 .. n
  BY <1>1
<1>7. J[i - 1].at \in {"end", "bad"}
  BY <1>4, <1>6, JsonRunEnded
<1>8. (J[i].at = "bad") => (J[n].at = "bad")
  BY <1>6, JsonRunEnded
<1> HIDE DEF J, n
<1>9. J[i] = JsonStep(J[i - 1], b[i]) /\ J[i - 1] \in JsonStates /\ b[i] \in Lexemes
  BY <1>1, <1>2, <1>6
<1>10. J[i].at = "bad"
  BY <1>5, <1>7, <1>9, JsonStepEnd
<1> QED BY <1>3, <1>8, <1>10

(* Only a closing brace gets the scan to its end.                          *)
LEMMA StepToDone ==
  ASSUME NEW s \in ScanStates, NEW x \in {"open", "junk"}, NEW i \in Nat
  PROVE  ScanStep(s, x, i).at = "done" => s.at = "done"
<1> DEFINE t == ScanStep(s, x, i)
<1>1. x \in Lexemes /\ x # "sp"
  BY DEF Lexemes
<1>2. s.at \in ScanModes
  BY ScanStateIs
<1>3. CASE s.at = "start"
  BY <1>1, <1>3, StepStart
<1>4. CASE s.at \in {"first", "key"}
  BY <1>1, <1>4, StepKey
<1>5. CASE s.at \in {"colon", "value", "inside"}
  BY <1>1, <1>5, StepMember
<1>6. CASE s.at = "next"
  <2>1. x # "," /\ x # "}"
    BY Zenon
  <2>2. t.at = "malformed"
    BY <1>1, <1>6, <2>1, ScanNextIs
  <2> QED BY <2>2
<1>7. CASE s.at \in {"done", "empty", "other", "malformed"}
  BY <1>7, StepDone
<1> QED BY <1>2, <1>3, <1>4, <1>5, <1>6, <1>7 DEF ScanModes
-----------------------------------------------------------------------------
(* A buffer that ends in a valid text.                                     *)
Ends(d, b, m) == \E x \in Truncated(b[m + 1]) : d = Append(SubSeq(b, 1, m), x)

(* What a truncated lexeme looks like.                                     *)
LEMMA TruncatedIs ==
  ASSUME NEW y \in Lexemes, NEW x \in Truncated(y)
  PROVE  x \in Lexemes /\ (x # y => x \in {"open", "junk"} /\ y # "sp")
<1>1. "open" \in Lexemes /\ "junk" \in Lexemes
  BY DEF Lexemes
<1>2. y \in Strings \cup Scalars => y # "sp"
  BY Kinds
<1>3. Strings \cap Scalars = {}
  BY Kinds
<1>4. \/ y \in Strings /\ x \in {y, "open"}
      \/ y \in Scalars /\ x \in {y, "junk"}
      \/ x = y
  BY <1>3 DEF Truncated
<1> QED BY <1>1, <1>2, <1>4

(* A text that ends in a truncated lexeme is a text.                       *)
LEMMA EndsIs ==
  ASSUME NEW b \in Seq(Lexemes), NEW m \in 0 .. Len(b) - 1, NEW d, Ends(d, b, m)
  PROVE  d \in Seq(Lexemes) /\ Len(d) = m + 1
<1> DEFINE u == SubSeq(b, 1, m)
<1>1. PICK x \in Truncated(b[m + 1]) : d = Append(u, x)
  BY DEF Ends
<1>2. b[m + 1] \in Lexemes /\ u \in Seq(Lexemes) /\ Len(u) = m
  OBVIOUS
<1>3. x \in Lexemes
  BY <1>2, TruncatedIs
<1> HIDE DEF u
<1> QED BY <1>1, <1>2, <1>3, AppendIs

(* When the scan of it comes to an end, nothing but whitespace is missing. *)
LEMMA DoneIsWhole ==
  ASSUME NEW b \in Seq(Lexemes), Parses(b), NEW m \in 0 .. Len(b) - 1,
         NEW d, Ends(d, b, m), Scan(d).at = "done"
  PROVE  Compact(d) = Compact(b)
<1> DEFINE n == Len(b)
           u == SubSeq(b, 1, m)
           y == b[m + 1]
           s == ScanRun(b)[m]
<1>1. PICK x \in Truncated(y) : d = Append(u, x)
  BY DEF Ends
<1>2. /\ y \in Lexemes /\ u \in Seq(Lexemes) /\ Len(u) = m /\ n \in Nat /\ m \in Nat
      /\ m + 1 \in 1 .. n /\ m + 1 \in 0 .. n /\ m \in 0 .. n /\ (m + 1) - 1 = m
      /\ \A k \in 1 .. m : u[k] = b[k]
  OBVIOUS
<1>3. x \in Lexemes /\ (x # y => x \in {"open", "junk"} /\ y # "sp")
  BY <1>2, TruncatedIs
<1>4. b = SubSeq(b, 1, m + 1) \o SubSeq(b, (m + 1) + 1, n)
  BY <1>2, SplitAt
<1>5. SubSeq(b, 1, m + 1) = Append(u, y)
  OBVIOUS
<1>6. \A k \in 0 .. n : ScanRun(b)[k] \in ScanStates
  BY ScanRunIs
<1> HIDE DEF u, y
<1>7. /\ d \in Seq(Lexemes) /\ Len(d) = m + 1 /\ d[m + 1] = x
      /\ \A k \in 1 .. m : d[k] = b[k]
  <2>1. /\ Append(u, x) \in Seq(Lexemes) /\ Len(Append(u, x)) = m + 1
        /\ Append(u, x)[m + 1] = x /\ \A k \in 1 .. m : Append(u, x)[k] = u[k]
    BY <1>2, <1>3, AppendIs
  <2> QED BY <1>1, <1>2, <2>1
<1>8. ScanRun(d)[m] = s /\ ScanRun(d)[m + 1].at = "done"
  <2>1. m <= Len(b) /\ m <= Len(d) /\ m \in 0 .. m
    BY <1>2, <1>7
  <2>2. ScanRun(d)[m] = ScanRun(b)[m]
    BY <1>2, <1>7, <2>1, ScanRunsAgree, SMTT(30)
  <2> QED BY <1>7, <2>2 DEF Scan
<1>9. ScanRun(d)[m + 1] = ScanStep(s, x, m + 1)
  <2>1. \A k \in 1 .. Len(d) : ScanRun(d)[k] = ScanStep(ScanRun(d)[k - 1], d[k], k)
    BY <1>7, ScanRunIs
  <2>2. m + 1 \in 1 .. Len(d)
    BY <1>2, <1>7
  <2> QED BY <1>2, <1>7, <1>8, <2>1, <2>2
<1>10. ScanRun(b)[m + 1] = ScanStep(s, y, m + 1)
  <2>1. \A k \in 1 .. Len(b) : ScanRun(b)[k] = ScanStep(ScanRun(b)[k - 1], b[k], k)
    BY ScanRunIs
  <2> QED BY <1>2, <2>1 DEF y
<1>11. x = y
  <2>1. SUFFICES ASSUME x # y PROVE FALSE
    OBVIOUS
  <2>2. s \in ScanStates /\ m + 1 \in Nat
    BY <1>2, <1>6
  <2>3. s.at = "done"
    BY <1>3, <1>8, <1>9, <2>1, <2>2, StepToDone
  <2>4. \A i \in m + 1 .. n : b[i] = "sp"
    BY <1>2, <2>3, DoneIsLast
  <2>5. y = "sp"
    BY <1>2, <2>4 DEF y
  <2> QED BY <1>3, <2>1, <2>5
<1>12. \A i \in (m + 1) + 1 .. n : b[i] = "sp"
  <2>1. ScanRun(b)[m + 1].at = "done"
    BY <1>8, <1>9, <1>10, <1>11
  <2> QED BY <1>2, <2>1, DoneIsLast
<1> DEFINE r == SubSeq(b, (m + 1) + 1, n)
<1>13. /\ r \in Seq(Lexemes) /\ Len(r) = n - (m + 1)
       /\ \A k \in 1 .. n - (m + 1) : r[k] = b[(m + 1) + k]
  BY <1>2
<1>14. \A k \in 1 .. Len(r) : r[k] = "sp"
  <2> HIDE DEF r
  <2>1. \A k \in 1 .. n - (m + 1) : (m + 1) + k \in (m + 1) + 1 .. n
    BY <1>2
  <2> QED BY <1>12, <1>13, <2>1
<1> HIDE DEF r, n
<1>15. Compact(r) = <<>>
  BY <1>13, <1>14, CompactBlank
<1>16. b = d \o r
  BY <1>1, <1>4, <1>5, <1>11 DEF r
<1>17. Compact(b) = Compact(d) \o <<>>
  BY <1>7, <1>13, <1>15, <1>16, CompactConcat
<1>18. Compact(d) \in Seq(Lexemes)
  BY <1>7, CompactType
<1> QED BY <1>17, <1>18, EmptyStack

(* Damage is made of lexemes.                                              *)
LEMMA DamageIs ==
  ASSUME NEW b \in Seq(Lexemes)
  PROVE  /\ \A i \in DOMAIN b : RemoveAt(b, i) \in Seq(Lexemes)
         /\ \A i \in DOMAIN b, x \in Damage : ReplaceAt(b, i, x) \in Seq(Lexemes)
         /\ \A i \in 1 .. Len(b) + 1, x \in Damage : InsertAt(b, i, x) \in Seq(Lexemes)
<1> DEFINE n == Len(b)
<1>1. n \in Nat /\ DOMAIN b = 1 .. n /\ Damage \subseteq Lexemes
  BY IntakeAssumption
<1>2. ASSUME NEW i \in DOMAIN b PROVE RemoveAt(b, i) \in Seq(Lexemes)
  <2> DEFINE u == SubSeq(b, 1, i - 1)
             v == SubSeq(b, i + 1, Len(b))
  <2>1. u \in Seq(Lexemes) /\ v \in Seq(Lexemes)
    BY <1>1
  <2>2. RemoveAt(b, i) = u \o v
    BY DEF RemoveAt
  <2> HIDE DEF u, v
  <2> QED BY <2>1, <2>2
<1>3. ASSUME NEW i \in DOMAIN b, NEW x \in Damage PROVE ReplaceAt(b, i, x) \in Seq(Lexemes)
  <2>1. x \in Lexemes
    BY <1>1
  <2> QED BY <1>1, <2>1 DEF ReplaceAt
<1>4. ASSUME NEW i \in 1 .. Len(b) + 1, NEW x \in Damage PROVE InsertAt(b, i, x) \in Seq(Lexemes)
  <2> DEFINE u == SubSeq(b, 1, i - 1)
             v == SubSeq(b, i, Len(b))
             e == <<x>>
  <2>1. u \in Seq(Lexemes) /\ v \in Seq(Lexemes) /\ e \in Seq(Lexemes)
    BY <1>1
  <2>2. InsertAt(b, i, x) = (u \o e) \o v
    BY DEF InsertAt
  <2> HIDE DEF u, v, e
  <2>3. u \o e \in Seq(Lexemes)
    BY <2>1, ConcatAppend
  <2> DEFINE w == u \o e
  <2> HIDE DEF w
  <2>4. w \in Seq(Lexemes)
    BY <2>3 DEF w
  <2>5. w \o v \in Seq(Lexemes)
    BY <2>1, <2>4, ConcatAppend
  <2> QED BY <2>2, <2>5 DEF w
<1> QED BY <1>2, <1>3, <1>4
-----------------------------------------------------------------------------
(* The text the caller sent, and the buffer it did not fit into.           *)
SentText == IF form = "spaced" THEN Spaced(Object(written)) ELSE Object(written)
CutShort ==
  /\ maxBytes + 1 < Len(SentText)
  /\ Ends(dg, SentText, maxBytes)

IntakeTypes ==
  /\ maxBytes \in EventCaps /\ inline \in BOOLEAN
  /\ written \in Seq(Members)
  /\ form \in {"compact", "spaced", "damaged"}
  /\ dg \in Seq(Lexemes)
  /\ stage \in {"writing", "sent", "read", "routed", "done"}

(* What was read is what was sent, or the front of it.                     *)
ReadIs ==
  form # "damaged" =>
    /\ stage = "sent" => dg = SentText
    /\ stage \in {"read", "routed", "done"} => dg = SentText \/ CutShort

(* What became of it.                                                      *)
OutcomeIs ==
  /\ stage # "done" => outcome = "none"
  /\ stage \in {"routed", "done"} => fields = ExtractAndStripRouting(dg)
  /\ stage = "routed" => EarlyDrop(fields) = "none"
  /\ stage = "done" =>
       IF EarlyDrop(fields) # "none" THEN outcome = EarlyDrop(fields)
       ELSE /\ outcome = ValidateReason(fields.body)
            /\ outcome = "accepted" => event = Stamp(TrimSpace(fields.body))

IntakeInv == IntakeTypes /\ ReadIs /\ OutcomeIs

(* What the caller sent is a valid object that says what it wrote.         *)
LEMMA SentTextIs ==
  ASSUME written \in Seq(Members)
  PROVE  /\ SentText \in Seq(Lexemes) /\ Parses(SentText)
         /\ Compact(SentText) = Object(written)
<1> DEFINE o == Object(written)
           t == SentText
<1>1. /\ o \in Seq(Solid) /\ o \in Seq(Lexemes)
      /\ JsonEnd(JsonStart, o) = Json("end", <<>>, Keys(written))
  <2>1. written \in Seq(Entries)
    BY WrittenEntries
  <2> QED BY <2>1, ObjectIs, ObjectJson
<1> HIDE DEF o
<1>2. t = IF form = "spaced" THEN Spaced(o) ELSE o
  BY DEF SentText, o
<1>3. Spaced(o) \in Seq(Lexemes) /\ Compact(Spaced(o)) = o /\ Compact(o) = o
  BY <1>1, SpacedIs, CompactSpaced, CompactSolid
<1>4. t \in Seq(Lexemes) /\ Compact(t) = o
  BY <1>1, <1>2, <1>3
<1> HIDE DEF t
<1>5. JsonEnd(JsonStart, t) = JsonEnd(JsonStart, o)
  BY <1>4, JsonStartType, JsonEndCompact
<1>6. Parses(t)
  BY <1>1, <1>5, JsonFields DEF Parses
<1> QED BY <1>4, <1>6 DEF t, o

(* The buffer is full when a text was cut short.                           *)
LEMMA CutShortIs ==
  ASSUME IntakeTypes, CutShort
  PROVE  /\ maxBytes \in 0 .. Len(SentText) - 1 /\ dg \in Seq(Lexemes)
         /\ Len(dg) = maxBytes + 1 /\ maxBytes \in Nat
<1>1. maxBytes \in Nat /\ maxBytes + 1 < Len(SentText) /\ Ends(dg, SentText, maxBytes)
  BY IntakeAssumption DEF IntakeTypes, CutShort
<1>2. SentText \in Seq(Lexemes)
  BY SentTextIs DEF IntakeTypes
<1>3. maxBytes \in 0 .. Len(SentText) - 1
  BY <1>1, <1>2
<1> QED BY <1>1, <1>2, <1>3, EndsIs

(* The invariant holds initially.                                          *)
LEMMA IntakeInit == Init => IntakeInv
<1> SUFFICES ASSUME Init PROVE IntakeInv
  OBVIOUS
<1>1. <<>> \in Seq(Members) /\ <<>> \in Seq(Lexemes)
  OBVIOUS
<1>2. IntakeTypes
  BY <1>1 DEF Init, IntakeTypes
<1>3. ReadIs
  BY DEF Init, ReadIs
<1>4. OutcomeIs
  BY DEF Init, OutcomeIs
<1> QED BY <1>2, <1>3, <1>4 DEF IntakeInv

(* Every step keeps it.                                                    *)
LEMMA IntakeStep ==
  ASSUME IntakeInv, [Next]_vars
  PROVE  IntakeInv'
<1> USE DEF IntakeInv
<1>1. ASSUME NEW m \in Members, WriteMember(m) PROVE IntakeInv'
  <2>1. Append(written, m) \in Seq(Members)
    BY DEF IntakeTypes
  <2>2. IntakeTypes'
    BY <1>1, <2>1 DEF IntakeTypes, WriteMember
  <2>3. ReadIs'
    BY <1>1 DEF ReadIs, WriteMember
  <2>4. OutcomeIs'
    BY <1>1 DEF OutcomeIs, WriteMember
  <2> QED BY <2>2, <2>3, <2>4
<1>2. ASSUME Send PROVE IntakeInv'
  <2>1. Object(written) \in Seq(Lexemes) /\ Spaced(Object(written)) \in Seq(Lexemes)
    BY WrittenEntries, ObjectIs, SpacedIs DEF IntakeTypes
  <2>2. dg' = IF form' = "spaced" THEN Spaced(Object(written)) ELSE Object(written)
    BY <1>2 DEF Send
  <2>3. IntakeTypes'
    <3>1. dg' \in Seq(Lexemes)
      BY <2>1, <2>2
    <3> QED BY <1>2, <3>1 DEF IntakeTypes, Send
  <2>4. ReadIs'
    <3>1. stage' = "sent" /\ written' = written
      BY <1>2 DEF Send
    <3>2. dg' = SentText'
      BY <2>2, <3>1 DEF SentText
    <3> QED BY <3>1, <3>2 DEF ReadIs
  <2>5. OutcomeIs'
    BY <1>2 DEF OutcomeIs, Send
  <2> QED BY <2>3, <2>4, <2>5
<1>3. ASSUME SendDamaged PROVE IntakeInv'
  <2>1. Object(written) \in Seq(Lexemes)
    BY WrittenEntries, ObjectIs DEF IntakeTypes
  <2>2. dg' \in Seq(Lexemes)
    BY <1>3, <2>1, DamageIs DEF SendDamaged
  <2>3. IntakeTypes'
    BY <1>3, <2>2 DEF IntakeTypes, SendDamaged
  <2>4. ReadIs'
    BY <1>3 DEF ReadIs, SendDamaged
  <2>5. OutcomeIs'
    BY <1>3 DEF OutcomeIs, SendDamaged
  <2> QED BY <2>3, <2>4, <2>5
<1>4. ASSUME Read PROVE IntakeInv'
  <2>1. /\ stage = "sent" /\ stage' = "read" /\ outcome' = outcome
        /\ UNCHANGED <<maxBytes, inline, written, form, fields, event>>
    BY <1>4 DEF Read
  <2>2. maxBytes \in Nat /\ dg \in Seq(Lexemes)
    BY IntakeAssumption DEF IntakeTypes
  <2>3. (maxBytes + 1) - 1 = maxBytes
    BY <2>2
  <2>4. \/ Len(dg) <= maxBytes + 1 /\ dg' = dg
        \/ ~(Len(dg) <= maxBytes + 1) /\ Ends(dg', dg, maxBytes)
    BY <1>4, <2>3 DEF Read, ReadBufSize, Ends
  <2>5. dg' \in Seq(Lexemes)
    <3>1. CASE dg' = dg
      BY <2>2, <3>1
    <3>2. CASE ~(Len(dg) <= maxBytes + 1) /\ Ends(dg', dg, maxBytes)
      <4>1. maxBytes \in 0 .. Len(dg) - 1
        BY <2>2, <3>2
      <4> QED BY <2>2, <3>2, <4>1, EndsIs
    <3> QED BY <2>4, <3>1, <3>2
  <2>6. IntakeTypes'
    BY <2>1, <2>5 DEF IntakeTypes
  <2>7. SentText' = SentText
    BY <2>1 DEF SentText
  <2>8. ReadIs'
    <3>1. SUFFICES ASSUME form # "damaged" PROVE dg' = SentText \/ CutShort'
      BY <2>1, <2>7 DEF ReadIs
    <3>2. dg = SentText
      BY <2>1, <3>1 DEF ReadIs
    <3>3. CASE dg' = dg
      BY <3>2, <3>3
    <3>4. CASE ~(Len(dg) <= maxBytes + 1) /\ Ends(dg', dg, maxBytes)
      <4>1. maxBytes + 1 < Len(dg)
        BY <2>2, <3>4
      <4> QED BY <2>1, <2>7, <3>2, <3>4, <4>1 DEF CutShort
    <3> QED BY <2>4, <3>3, <3>4
  <2>9. OutcomeIs'
    BY <2>1 DEF OutcomeIs
  <2> QED BY <2>6, <2>8, <2>9
<1>5. ASSUME Dispatch PROVE IntakeInv'
  <2>1. /\ stage = "read" /\ UNCHANGED <<maxBytes, inline, written, form, dg>>
        /\ stage' = (IF outcome' = "none" THEN "routed" ELSE "done")
        /\ fields' = ExtractAndStripRouting(dg) /\ outcome' = EarlyDrop(fields')
    BY <1>5 DEF Dispatch
  <2>2. IntakeTypes'
    BY <2>1 DEF IntakeTypes
  <2>3. ReadIs'
    <3>1. SentText' = SentText /\ CutShort' = CutShort
      BY <2>1 DEF SentText, CutShort
    <3> QED BY <2>1, <3>1 DEF ReadIs
  <2>4. OutcomeIs'
    <3>1. EarlyDrop(fields)' = outcome'
      BY <2>1 DEF EarlyDrop
    <3>2. ExtractAndStripRouting(dg)' = fields'
      BY <2>1
    <3> QED BY <2>1, <3>1, <3>2 DEF OutcomeIs
  <2> QED BY <2>2, <2>3, <2>4
<1>6. ASSUME Validate PROVE IntakeInv'
  <2>1. /\ stage = "routed" /\ stage' = "done"
        /\ UNCHANGED <<maxBytes, inline, written, form, dg, fields>>
        /\ outcome' = ValidateReason(fields.body)
        /\ event' = IF outcome' = "accepted" THEN Stamp(TrimSpace(fields.body)) ELSE <<>>
    BY <1>6 DEF Validate
  <2>2. IntakeTypes'
    BY <2>1 DEF IntakeTypes
  <2>3. ReadIs'
    <3>1. SentText' = SentText /\ CutShort' = CutShort
      BY <2>1 DEF SentText, CutShort
    <3> QED BY <2>1, <3>1 DEF ReadIs
  <2>4. OutcomeIs'
    <3>1. EarlyDrop(fields)' = EarlyDrop(fields)
      BY <2>1 DEF EarlyDrop
    <3>2. ValidateReason(fields.body)' = ValidateReason(fields.body)
      BY <2>1 DEF ValidateReason
    <3>3. EarlyDrop(fields) = "none" /\ fields = ExtractAndStripRouting(dg)
      BY <2>1 DEF OutcomeIs
    <3> QED BY <2>1, <3>1, <3>2, <3>3 DEF OutcomeIs
  <2> QED BY <2>2, <2>3, <2>4
<1>7. ASSUME UNCHANGED vars PROVE IntakeInv'
  <2>1. UNCHANGED <<maxBytes, inline, written, form, dg, stage, fields, outcome, event>>
    BY <1>7 DEF vars
  <2>2. IntakeTypes'
    BY <2>1 DEF IntakeTypes
  <2>3. ReadIs'
    <3>1. SentText' = SentText /\ CutShort' = CutShort
      BY <2>1 DEF SentText, CutShort
    <3> QED BY <2>1, <3>1 DEF ReadIs
  <2>4. OutcomeIs'
    <3>1. EarlyDrop(fields)' = EarlyDrop(fields)
      BY <2>1 DEF EarlyDrop
    <3>2. ValidateReason(fields.body)' = ValidateReason(fields.body)
      BY <2>1 DEF ValidateReason
    <3> QED BY <2>1, <3>1, <3>2 DEF OutcomeIs
  <2> QED BY <2>2, <2>3, <2>4
<1> QED BY <1>1, <1>2, <1>3, <1>4, <1>5, <1>6, <1>7 DEF Next

(* The inductive invariant.                                                *)
THEOREM IntakeInvariant == Spec => []IntakeInv
<1>1. Init => IntakeInv
  BY IntakeInit
<1>2. IntakeInv /\ [Next]_vars => IntakeInv'
  BY IntakeStep
<1> QED BY <1>1, <1>2, PTL DEF Spec

(* What dispatch makes of a buffer whose scan did not get to its end.      *)
LEMMA OutcomeUnlessDone ==
  ASSUME IntakeInv, stage = "done", Len(dg) > maxBytes,
         Scan(dg).at # "done" \/ ~Tagged(dg)
  PROVE  outcome \in IF Tagged(dg) THEN {"oversize", "parse_error"} ELSE {"oversize"}
<1> DEFINE at == Scan(dg).at
           f == ExtractAndStripRouting(dg)
<1>1. fields = f
  BY DEF IntakeInv, OutcomeIs
<1>2. CASE ~Tagged(dg) \/ at \in {"other", "empty"}
  <2>1. f = Fields(dg, FALSE, "none", "none")
    BY <1>2, Zenon DEF ExtractAndStripRouting
  <2>2. /\ fields.body = dg /\ ~fields.malformed
        /\ fields.project # "bad" /\ fields.token # "bad"
    BY <1>1, <2>1 DEF Fields
  <2>3. EarlyDrop(fields) = "none"
    BY <2>2 DEF EarlyDrop
  <2>4. ValidateReason(dg) = "oversize"
    BY DEF ValidateReason
  <2>5. outcome = "oversize"
    BY <2>2, <2>3, <2>4 DEF IntakeInv, OutcomeIs
  <2> QED BY <2>5
<1>3. CASE Tagged(dg) /\ at \notin {"other", "empty", "done"}
  <2>1. f = Fields(dg, TRUE, "none", "none")
    BY <1>3, Zenon DEF ExtractAndStripRouting
  <2>2. fields.malformed = TRUE
    BY <1>1, <2>1 DEF Fields
  <2>3. EarlyDrop(fields) = "parse_error"
    BY <2>2 DEF EarlyDrop
  <2>4. outcome = "parse_error"
    BY <2>3 DEF IntakeInv, OutcomeIs
  <2> QED BY <1>3, <2>4
<1> QED BY <1>2, <1>3

(* It implies CutIsDropped.                                                *)
LEMMA Cut ==
  ASSUME IntakeInv
  PROVE  CutIsDropped
<1>1. SUFFICES ASSUME stage = "done", form # "damaged", ~Whole
               PROVE  outcome \in IF Tagged(dg) THEN {"oversize", "parse_error"} ELSE {"oversize"}
  BY DEF CutIsDropped
<1>2. /\ SentText \in Seq(Lexemes) /\ Parses(SentText)
      /\ Compact(SentText) = Object(written)
  BY SentTextIs DEF IntakeInv, IntakeTypes
<1>3. CutShort
  BY <1>1, <1>2 DEF IntakeInv, ReadIs, Whole
<1>4. /\ maxBytes \in 0 .. Len(SentText) - 1 /\ Ends(dg, SentText, maxBytes)
      /\ Len(dg) = maxBytes + 1 /\ maxBytes \in Nat
  BY <1>3, CutShortIs DEF CutShort, IntakeInv
<1>5. Scan(dg).at # "done"
  <2>1. SUFFICES ASSUME Scan(dg).at = "done" PROVE FALSE
    OBVIOUS
  <2>2. Compact(dg) = Compact(SentText)
    BY <1>2, <1>4, <2>1, DoneIsWhole
  <2> QED BY <1>1, <1>2, <2>2 DEF Whole
<1>6. Len(dg) > maxBytes
  BY <1>4
<1> QED BY <1>1, <1>5, <1>6, OutcomeUnlessDone

(* CutIsDropped of every reachable state: however long the text, however   *)
(* small the limit, and wherever the buffer ends, no part of an object is  *)
(* taken for an event, and one without a routing field counts as oversize. *)
THEOREM CutDropped == Spec => []CutIsDropped
  BY IntakeInvariant, Cut, PTL
-----------------------------------------------------------------------------
(* The scan of a text, by its last lexeme.                                 *)
LEMMA ScanType ==
  ASSUME NEW b \in Seq(Lexemes)
  PROVE  Scan(b) \in ScanStates
<1>1. ScanRun(b) \in [0 .. Len(b) -> ScanStates] /\ Len(b) \in 0 .. Len(b)
  BY ScanRunIs
<1> QED BY <1>1 DEF Scan

(* Of the empty text,                                                      *)
LEMMA ScanEmpty == Scan(<<>>) = ScanStart
<1>1. <<>> \in Seq(Lexemes) /\ Len(<<>>) = 0
  OBVIOUS
<1>2. ScanRun(<<>>)[0] = ScanStart
  BY <1>1, ScanRunIs
<1> QED BY <1>1, <1>2 DEF Scan

(* and of one more lexeme.                                                 *)
LEMMA ScanAppend ==
  ASSUME NEW b \in Seq(Lexemes), NEW x \in Lexemes
  PROVE  /\ Scan(Append(b, x)) = ScanStep(Scan(b), x, Len(b) + 1)
         /\ \A k \in 0 .. Len(b) : ScanRun(Append(b, x))[k] = ScanRun(b)[k]
<1> DEFINE c == Append(b, x)
           n == Len(b)
<1>1. /\ c \in Seq(Lexemes) /\ n \in Nat /\ Len(c) = n + 1 /\ c[n + 1] = x
      /\ \A k \in 1 .. n : c[k] = b[k]
  BY AppendIs
<1> HIDE DEF c
<1>2. n <= Len(c) /\ n <= Len(b) /\ n + 1 \in 1 .. Len(c) /\ (n + 1) - 1 = n /\ n \in 0 .. n
  BY <1>1
<1>3. \A k \in 0 .. n : ScanRun(c)[k] = ScanRun(b)[k]
  BY <1>1, <1>2, ScanRunsAgree
<1>4. \A k \in 1 .. Len(c) : ScanRun(c)[k] = ScanStep(ScanRun(c)[k - 1], c[k], k)
  BY <1>1, ScanRunIs
<1> HIDE DEF n
<1>5. ScanRun(c)[n + 1] = ScanStep(ScanRun(c)[n], x, n + 1)
  BY <1>1, <1>2, <1>4
<1>6. ScanRun(c)[n] = ScanRun(b)[n]
  BY <1>2, <1>3
<1>7. Scan(c) = ScanStep(Scan(b), x, n + 1)
  BY <1>1, <1>5, <1>6 DEF Scan, n
<1> QED BY <1>3, <1>7 DEF c, n
-----------------------------------------------------------------------------
(* The lexemes that cutting out the members in H leaves.                   *)
RestAt(b, H) ==
  {p \in DOMAIN b : b[p] # "sp" /\ ~CutAt(ScanRun(b)[p - 1], b[p], H)}
Rest(b, H) == Pick(b, RestAt(b, H))

(* Nothing is left of the empty text.                                      *)
LEMMA RestEmpty ==
  ASSUME NEW H
  PROVE  Rest(<<>>, H) = <<>>
<1>1. <<>> \in Seq(Lexemes) /\ Len(<<>>) = 0
  OBVIOUS
<1> QED BY <1>1, PickEmpty DEF Rest

(* What is left is a text.                                                 *)
LEMMA RestType ==
  ASSUME NEW b \in Seq(Lexemes), NEW H
  PROVE  Rest(b, H) \in Seq(Lexemes)
  BY PickType DEF Rest

(* Rest, by the last lexeme.                                               *)
LEMMA RestAppend ==
  ASSUME NEW b \in Seq(Lexemes), NEW x \in Lexemes, NEW H
  PROVE  Rest(Append(b, x), H) =
           IF x = "sp" \/ CutAt(Scan(b), x, H) THEN Rest(b, H) ELSE Append(Rest(b, H), x)
<1> DEFINE c == Append(b, x)
           n == Len(b)
           K == RestAt(b, H)
           L == RestAt(c, H)
<1>1. /\ n \in Nat /\ DOMAIN b = 1 .. n /\ DOMAIN c = 1 .. n + 1 /\ c[n + 1] = x
      /\ \A k \in 1 .. n : c[k] = b[k]
  OBVIOUS
<1>2. \A k \in 0 .. n : ScanRun(c)[k] = ScanRun(b)[k]
  BY ScanAppend
<1>3. Pick(c, L) = IF n + 1 \in L THEN Append(Pick(b, L), x) ELSE Pick(b, L)
  BY PickAppend
<1>4. Scan(b) = ScanRun(b)[n]
  BY DEF Scan
<1> HIDE DEF c, n
<1>5. n + 1 \in L <=> x # "sp" /\ ~CutAt(Scan(b), x, H)
  <2>1. n + 1 \in 1 .. n + 1 /\ (n + 1) - 1 = n /\ n \in 0 .. n
    BY <1>1
  <2>2. ScanRun(c)[n] = Scan(b)
    BY <1>2, <1>4, <2>1
  <2> QED BY <1>1, <2>1, <2>2 DEF RestAt
<1>6. ASSUME NEW i \in 1 .. n PROVE i \in L <=> i \in K
  <2>1. i \in 1 .. n + 1 /\ i - 1 \in 0 .. n
    BY <1>1
  <2>2. ScanRun(c)[i - 1] = ScanRun(b)[i - 1] /\ c[i] = b[i]
    BY <1>1, <1>2, <2>1
  <2> QED BY <1>1, <2>1, <2>2 DEF RestAt
<1> HIDE DEF K, L
<1>7. Pick(b, L) = Pick(b, K)
  <2>1. \A i \in 1 .. Len(b) : i \in L <=> i \in K
    BY <1>6 DEF n
  <2> QED BY <2>1, PickAgree
<1> QED BY <1>3, <1>5, <1>7 DEF Rest, c, K, L
-----------------------------------------------------------------------------
(* Whitespace aside, two scans have found the same.                        *)
SameMembers(a, c) ==
  /\ Len(a) = Len(c)
  /\ \A k \in 1 .. Len(a) : a[k].key = c[k].key /\ a[k].value = c[k].value

Alike(s, t) ==
  /\ s.at = t.at /\ SameMembers(s.ms, t.ms)
  /\ s.at \in {"colon", "value", "inside"} => s.key = t.key
  /\ s.at = "inside" => s.stack = t.stack /\ s.value = t.value

(* One more member of each.                                                *)
LEMMA SameMembersAppend ==
  ASSUME NEW a \in Seq(Spans), NEW c \in Seq(Spans), NEW m \in Spans, NEW p \in Spans,
         SameMembers(a, c), m.key = p.key, m.value = p.value
  PROVE  SameMembers(Append(a, m), Append(c, p))
<1> DEFINE n == Len(a)
           e == Append(a, m)
           f == Append(c, p)
<1>1. n \in Nat /\ Len(c) = n /\ \A k \in 1 .. n : a[k].key = c[k].key /\ a[k].value = c[k].value
  BY DEF SameMembers
<1>2. Len(e) = n + 1 /\ e[n + 1] = m /\ \A k \in 1 .. n : e[k] = a[k]
  BY AppendIs
<1>3. Len(f) = n + 1 /\ f[n + 1] = p /\ \A k \in 1 .. n : f[k] = c[k]
  BY <1>1, AppendIs
<1> HIDE DEF n, e, f
<1>4. \A k \in 1 .. n + 1 : k \in 1 .. n \/ k = n + 1
  BY <1>1
<1>5. \A k \in 1 .. n + 1 : e[k].key = f[k].key /\ e[k].value = f[k].value
  BY <1>1, <1>2, <1>3, <1>4
<1> QED BY <1>2, <1>3, <1>5 DEF SameMembers, e, f

(* A span is made of its parts.                                            *)
LEMMA SpanIs ==
  ASSUME NEW k \in Strings, NEW v \in Lexemes, NEW a \in Nat, NEW i \in Nat
  PROVE  LET m == [key |-> k, value |-> v, start |-> a, end |-> i + 1]
         IN m \in Spans /\ m.key = k /\ m.value = v
<1>1. i + 1 \in Nat
  OBVIOUS
<1> QED BY <1>1 DEF Spans

(* The parts of a state of the scan.                                       *)
LEMMA ScanEnds ==
  ASSUME NEW s \in ScanStates
  PROVE  s.ms \in Seq(Spans) /\ s.start \in Nat
  BY DEF ScanStates, ScanRecords

(* What the scan does with a lexeme.                                       *)
Effect(s, x, i, u) ==
  /\ s.at = "start" => u.at = (IF x = LB THEN "first" ELSE "other") /\ u.ms = s.ms
  /\ s.at = "first" /\ x = RB => u.at = "empty" /\ u.ms = s.ms
  /\ s.at = "key" \/ (s.at = "first" /\ x # RB) =>
       /\ u.ms = s.ms
       /\ x \in Strings => u.at = "colon" /\ u.key = x
       /\ x \notin Strings => u.at = "malformed"
  /\ s.at = "colon" => /\ u.ms = s.ms
                       /\ x = ":" => u.at = "value" /\ u.key = s.key
                       /\ x # ":" => u.at = "malformed"
  /\ s.at = "value" =>
       /\ x \in Strings \cup Scalars => u.at = "next" /\ u.ms = Append(s.ms, Span(s, x, i))
       /\ x \in Openers => /\ u.at = "inside" /\ u.stack = <<x>> /\ u.value = x
                           /\ u.key = s.key /\ u.ms = s.ms
       /\ x \notin Strings \cup Scalars \cup Openers => u.at = "malformed" /\ u.ms = s.ms
  /\ s.at = "inside" =>
       LET closed == x \in Closers /\ Closes(Last(s.stack), x)
           same == u.at = "inside" /\ u.ms = s.ms /\ u.key = s.key /\ u.value = s.value
       IN /\ x \in Openers => IF Len(s.stack) >= MaxScanDepth
                              THEN u.at = "malformed" /\ u.ms = s.ms
                              ELSE same /\ u.stack = Append(s.stack, x)
          /\ closed /\ Len(s.stack) = 1 =>
               u.at = "next" /\ u.ms = Append(s.ms, Span(s, s.value, i))
          /\ closed /\ Len(s.stack) # 1 => same /\ u.stack = Front(s.stack)
          /\ x = "open" \/ (x \in Closers /\ ~closed) => u.at = "malformed" /\ u.ms = s.ms
          /\ x \notin Openers \cup Closers \cup {"open"} => u = s
  /\ s.at = "next" => /\ u.ms = s.ms
                      /\ u.at = IF x = CM THEN "key" ELSE IF x = RB THEN "done" ELSE "malformed"
  /\ s.at \in {"done", "empty", "other", "malformed"} => u = s

(* The scan does what Effect says.                                         *)
LEMMA ScanEffect ==
  ASSUME NEW s \in ScanStates, NEW x \in Lexemes, x # "sp", NEW i \in Nat
  PROVE  Effect(s, x, i, ScanStep(s, x, i))
<1> DEFINE u == ScanStep(s, x, i)
<1>1. s.at = "start" => u.at = (IF x = LB THEN "first" ELSE "other") /\ u.ms = s.ms
  BY StepStart DEF LB
<1>2. s.at = "first" /\ x = RB => u.at = "empty" /\ u.ms = s.ms
  BY ScanStepIs DEF RB
<1>3. s.at = "key" \/ (s.at = "first" /\ x # RB) =>
        /\ u.ms = s.ms
        /\ x \in Strings => u.at = "colon" /\ u.key = x
        /\ x \notin Strings => u.at = "malformed"
  <2>1. SUFFICES ASSUME s.at = "key" \/ (s.at = "first" /\ x # RB)
                 PROVE  /\ u.ms = s.ms
                        /\ x \in Strings => u.at = "colon" /\ u.key = x
                        /\ x \notin Strings => u.at = "malformed"
    OBVIOUS
  <2>2. u = ScanKey(s, x, i)
    BY <2>1, ScanStepIs DEF RB
  <2> QED BY <2>2, ScanKeyIs
<1>4. s.at = "colon" => /\ u.ms = s.ms
                        /\ x = ":" => u.at = "value" /\ u.key = s.key
                        /\ x # ":" => u.at = "malformed"
  BY ScanColonIs
<1>5. s.at = "value" =>
       /\ x \in Strings \cup Scalars => u.at = "next" /\ u.ms = Append(s.ms, Span(s, x, i))
       /\ x \in Openers => /\ u.at = "inside" /\ u.stack = <<x>> /\ u.value = x
                           /\ u.key = s.key /\ u.ms = s.ms
       /\ x \notin Strings \cup Scalars \cup Openers => u.at = "malformed" /\ u.ms = s.ms
  <2>1. SUFFICES ASSUME s.at = "value"
                 PROVE  /\ x \in Strings \cup Scalars => u.at = "next" /\ u.ms = Append(s.ms, Span(s, x, i))
                        /\ x \in Openers => /\ u.at = "inside" /\ u.stack = <<x>> /\ u.value = x
                                            /\ u.key = s.key /\ u.ms = s.ms
                        /\ x \notin Strings \cup Scalars \cup Openers => u.at = "malformed" /\ u.ms = s.ms
    OBVIOUS
  <2>2. u = ScanValue(s, x, i) /\ s.key \in Strings
    BY <2>1, ScanStepIs, ScanStateIs
  <2> QED BY <2>2, ScanValueIs DEF Span
<1>6. s.at = "inside" =>
       LET closed == x \in Closers /\ Closes(Last(s.stack), x)
           same == u.at = "inside" /\ u.ms = s.ms /\ u.key = s.key /\ u.value = s.value
       IN /\ x \in Openers => IF Len(s.stack) >= MaxScanDepth
                              THEN u.at = "malformed" /\ u.ms = s.ms
                              ELSE same /\ u.stack = Append(s.stack, x)
          /\ closed /\ Len(s.stack) = 1 =>
               u.at = "next" /\ u.ms = Append(s.ms, Span(s, s.value, i))
          /\ closed /\ Len(s.stack) # 1 => same /\ u.stack = Front(s.stack)
          /\ x = "open" \/ (x \in Closers /\ ~closed) => u.at = "malformed" /\ u.ms = s.ms
          /\ x \notin Openers \cup Closers \cup {"open"} => u = s
  <2>1. s.at = "inside" => u = ScanContainer(s, x, i)
    BY ScanStepIs
  <2> QED BY <2>1, ScanContainerIs DEF Span
<1>7. s.at = "next" => /\ u.ms = s.ms
                       /\ u.at = IF x = CM THEN "key" ELSE IF x = RB THEN "done" ELSE "malformed"
  BY ScanNextIs DEF CM, RB
<1>8. s.at \in {"done", "empty", "other", "malformed"} => u = s
  BY StepDone
<1> HIDE DEF u
<1>9. Effect(s, x, i, u)
  BY <1>1, <1>2, <1>3, <1>4, <1>5, <1>6, <1>7, <1>8, Zenon DEF Effect
<1> QED BY <1>9 DEF u

(* A member ends for both.                                                 *)
LEMMA SpanAlike ==
  ASSUME NEW s \in ScanStates, NEW t \in ScanStates, NEW v \in Lexemes,
         NEW i \in Nat, NEW k \in Nat, s.key = t.key, s.key \in Strings,
         SameMembers(s.ms, t.ms)
  PROVE  SameMembers(Append(s.ms, Span(s, v, i)), Append(t.ms, Span(t, v, k)))
<1> DEFINE m == Span(s, v, i)
           p == Span(t, v, k)
<1>1. s.ms \in Seq(Spans) /\ t.ms \in Seq(Spans) /\ s.start \in Nat /\ t.start \in Nat
  BY ScanEnds
<1>2. m \in Spans /\ m.key = s.key /\ m.value = v
  BY <1>1, SpanIs DEF Span
<1>3. p \in Spans /\ p.key = t.key /\ p.value = v
  BY <1>1, SpanIs DEF Span
<1> HIDE DEF m, p
<1>4. SameMembers(Append(s.ms, m), Append(t.ms, p))
  BY <1>1, <1>2, <1>3, SameMembersAppend
<1> QED BY <1>4 DEF m, p

(* A lexeme does the same to both.                                         *)
LEMMA AlikeStep ==
  ASSUME NEW s \in ScanStates, NEW t \in ScanStates, NEW x \in Lexemes, x # "sp",
         NEW i \in Nat, NEW k \in Nat, Alike(s, t)
  PROVE  Alike(ScanStep(s, x, i), ScanStep(t, x, k))
<1> DEFINE u == ScanStep(s, x, i)
           v == ScanStep(t, x, k)
<1>1. Effect(s, x, i, u) /\ Effect(t, x, k, v)
  BY ScanEffect
<1>2. s.at = t.at /\ SameMembers(s.ms, t.ms) /\ s.at \in ScanModes
  BY ScanStateIs DEF Alike
<1> HIDE DEF u, v
<1> SUFFICES Alike(u, v)
  BY DEF u, v
<1>3. CASE s.at \in {"start", "first", "key", "next"}
  BY <1>1, <1>2, <1>3 DEF Alike, Effect
<1>4. CASE s.at = "colon"
  <2>1. s.key = t.key
    BY <1>4 DEF Alike
  <2> QED BY <1>1, <1>2, <1>4, <2>1 DEF Alike, Effect
<1>5. CASE s.at = "value"
  <2>1. s.key = t.key /\ s.key \in Strings
    BY <1>5, ScanStateIs DEF Alike
  <2>2. SameMembers(Append(s.ms, Span(s, x, i)), Append(t.ms, Span(t, x, k)))
    BY <1>2, <2>1, SpanAlike
  <2> DEFINE a == Append(s.ms, Span(s, x, i))
             c == Append(t.ms, Span(t, x, k))
  <2>3. x \in Strings \cup Scalars => u.at = "next" /\ u.ms = a /\ v.at = "next" /\ v.ms = c
    BY <1>1, <1>2, <1>5, Zenon DEF Effect
  <2> HIDE DEF a, c
  <2>4. CASE x \in Strings \cup Scalars
    BY <2>2, <2>3, <2>4 DEF Alike, a, c
  <2>5. CASE x \notin Strings \cup Scalars
    BY <1>1, <1>2, <1>5, <2>1, <2>5 DEF Alike, Effect
  <2> QED BY <2>4, <2>5
<1>6. CASE s.at = "inside"
  <2>1. /\ s.key = t.key /\ s.key \in Strings /\ s.stack = t.stack /\ s.value = t.value
        /\ s.value \in Lexemes
    BY <1>6, ScanStateIs DEF Alike
  <2> DEFINE a == Append(s.ms, Span(s, s.value, i))
             c == Append(t.ms, Span(t, t.value, k))
             last == x \in Closers /\ Closes(Last(s.stack), x) /\ Len(s.stack) = 1
  <2>2. SameMembers(a, c)
    <3>1. SameMembers(Append(s.ms, Span(s, s.value, i)), Append(t.ms, Span(t, s.value, k)))
      BY <1>2, <2>1, SpanAlike
    <3> QED BY <2>1, <3>1
  <2>3. last => u.at = "next" /\ u.ms = a /\ v.at = "next" /\ v.ms = c
    BY <1>1, <1>2, <1>6, <2>1, Zenon DEF Effect
  <2>4. CASE last
    <3> HIDE DEF a, c
    <3> QED BY <2>2, <2>3, <2>4 DEF Alike
  <2>5. CASE ~last
    <3> HIDE DEF a, c
    <3> QED BY <1>1, <1>2, <1>6, <2>1, <2>5 DEF Alike, Effect
  <2> QED BY <2>4, <2>5
<1>7. CASE s.at \in {"done", "empty", "other", "malformed"}
  <2>1. u = s /\ v = t
    BY <1>1, <1>2, <1>7 DEF Effect
  <2> QED BY <2>1
<1> QED BY <1>2, <1>3, <1>4, <1>5, <1>6, <1>7 DEF ScanModes
-----------------------------------------------------------------------------
(* Which lexemes are cut out depends on the scan up to Alike.              *)
LEMMA CutAtAlike ==
  ASSUME NEW s \in ScanStates, NEW t \in ScanStates, Alike(s, t), NEW x, NEW H
  PROVE  CutAt(s, x, H) <=> CutAt(t, x, H)
<1>1. s.at = t.at /\ Len(s.ms) = Len(t.ms)
  BY DEF Alike, SameMembers
<1> DEFINE a == s.at
           n == Len(s.ms)
<1>2. t.at = a /\ Len(t.ms) = n
  BY <1>1
<1> QED BY <1>2, Zenon DEF CutAt

(* Whitespace says nothing to the scan.                                    *)
LEMMA SpaceStep ==
  ASSUME NEW s, NEW i
  PROVE  ScanStep(s, "sp", i) = s
  BY DEF ScanStep

(* Every scan is like itself.                                              *)
LEMMA AlikeSelf ==
  ASSUME NEW s \in ScanStates
  PROVE  Alike(s, s)
  BY DEF Alike, SameMembers

(* One lexeme more keeps that a text and its compact form scan alike.      *)
LEMMA CompactScanAppend ==
  ASSUME NEW b \in Seq(Lexemes), NEW x \in Lexemes, NEW H,
         Alike(Scan(b), Scan(Compact(b))), Rest(b, H) = Rest(Compact(b), H)
  PROVE  LET c == Append(b, x)
         IN Alike(Scan(c), Scan(Compact(c))) /\ Rest(c, H) = Rest(Compact(c), H)
<1> DEFINE c == Append(b, x)
           d == Compact(b)
<1>1. d \in Seq(Lexemes)
  BY CompactType
<1>2. Compact(c) = IF x = "sp" THEN d ELSE Append(d, x)
  BY CompactAppend
<1>3. Scan(c) = ScanStep(Scan(b), x, Len(b) + 1)
  BY ScanAppend
<1>4. Rest(c, H) = IF x = "sp" \/ CutAt(Scan(b), x, H) THEN Rest(b, H) ELSE Append(Rest(b, H), x)
  BY RestAppend
<1>5. Alike(Scan(b), Scan(d)) /\ Rest(b, H) = Rest(d, H)
  OBVIOUS
<1> HIDE DEF c, d
<1>6. CASE x = "sp"
  <2>1. Scan(c) = Scan(b)
    BY <1>3, <1>6, SpaceStep
  <2>2. Compact(c) = d /\ Rest(c, H) = Rest(b, H)
    BY <1>2, <1>4, <1>6
  <2>3. Alike(Scan(c), Scan(Compact(c))) /\ Rest(c, H) = Rest(Compact(c), H)
    BY <1>5, <2>1, <2>2
  <2> QED BY <2>3 DEF c
<1>7. CASE x # "sp"
  <2>1. Scan(Append(d, x)) = ScanStep(Scan(d), x, Len(d) + 1)
    BY <1>1, ScanAppend
  <2>2. Rest(Append(d, x), H) =
          IF x = "sp" \/ CutAt(Scan(d), x, H) THEN Rest(d, H) ELSE Append(Rest(d, H), x)
    BY <1>1, RestAppend
  <2>3. Scan(b) \in ScanStates /\ Scan(d) \in ScanStates
    BY <1>1, ScanType
  <2>4. Len(b) + 1 \in Nat /\ Len(d) + 1 \in Nat
    BY <1>1
  <2> DEFINE s == Scan(b)
             t == Scan(d)
             i == Len(b) + 1
             k == Len(d) + 1
  <2>5. Alike(ScanStep(s, x, i), ScanStep(t, x, k))
    <3>1. s \in ScanStates
      BY <2>3
    <3>2. t \in ScanStates
      BY <2>3
    <3>3. i \in Nat
      BY <2>4
    <3>4. k \in Nat
      BY <2>4
    <3>5. Alike(s, t)
      BY <1>5
    <3> HIDE DEF s, t, i, k
    <3> QED BY <1>7, <3>1, <3>2, <3>3, <3>4, <3>5, AlikeStep
  <2>6. CutAt(s, x, H) <=> CutAt(t, x, H)
    BY <1>5, <2>3, CutAtAlike
  <2>7. Compact(c) = Append(d, x)
    BY <1>2, <1>7
  <2> HIDE DEF s, t, i, k
  <2>8. Alike(Scan(c), Scan(Compact(c)))
    BY <1>3, <2>1, <2>5, <2>7 DEF s, t, i, k
  <2>9. Rest(c, H) = Rest(Compact(c), H)
    BY <1>4, <1>5, <1>7, <2>2, <2>6, <2>7 DEF s, t
  <2> QED BY <2>8, <2>9 DEF c
<1> QED BY <1>6, <1>7

(* A text and its compact form scan alike, and the same is left of both.   *)
LEMMA CompactScan ==
  ASSUME NEW b \in Seq(Lexemes), NEW H
  PROVE  Alike(Scan(b), Scan(Compact(b))) /\ Rest(b, H) = Rest(Compact(b), H)
<1> DEFINE G(d) == Alike(Scan(d), Scan(Compact(d))) /\ Rest(d, H) = Rest(Compact(d), H)
           T == {n \in Nat : \A d \in Seq(Lexemes) : Len(d) = n => G(d)}
<1>1. 0 \in T
  <2>1. ASSUME NEW d \in Seq(Lexemes), Len(d) = 0 PROVE G(d)
    <3>1. d = <<>>
      BY <2>1, EmptyStack
    <3>2. Compact(d) = d
      BY <3>1, CompactEmpty
    <3>3. Alike(Scan(d), Scan(d))
      BY ScanType, AlikeSelf
    <3> QED BY <3>2, <3>3
  <2> QED BY <2>1
<1>2. ASSUME NEW n \in Nat, n \in T PROVE n + 1 \in T
  <2>1. ASSUME NEW d \in Seq(Lexemes), Len(d) = n + 1 PROVE G(d)
    <3>1. PICK e \in Seq(Lexemes), x \in Lexemes : d = Append(e, x) /\ Len(e) = n
      BY <2>1, SplitLast
    <3>2. G(e)
      BY <1>2, <3>1
    <3>3. G(Append(e, x))
      BY <3>2, CompactScanAppend
    <3> QED BY <3>1, <3>3
  <2> QED BY <2>1
<1> HIDE DEF T
<1>3. \A n \in Nat : n \in T
  BY <1>1, <1>2, InductionNat
<1>4. Len(b) \in T
  <2>1. Len(b) \in Nat
    OBVIOUS
  <2> QED BY <1>3, <2>1
<1> QED BY <1>4 DEF T
-----------------------------------------------------------------------------
(* Picking and then leaving the whitespace out is picking less.            *)
LEMMA CompactPick ==
  ASSUME NEW b \in Seq(Lexemes), NEW K, NEW L,
         \A i \in 1 .. Len(b) : i \in L <=> i \in K /\ b[i] # "sp"
  PROVE  Compact(Pick(b, K)) = Pick(b, L)
<1> DEFINE P(d) == \A i \in 1 .. Len(d) : i \in L <=> i \in K /\ d[i] # "sp"
           G(d) == P(d) => Compact(Pick(d, K)) = Pick(d, L)
           T == {n \in Nat : \A d \in Seq(Lexemes) : Len(d) = n => G(d)}
<1>1. 0 \in T
  <2>1. ASSUME NEW d \in Seq(Lexemes), Len(d) = 0 PROVE G(d)
    <3>1. Pick(d, K) = <<>> /\ Pick(d, L) = <<>>
      BY <2>1, PickEmpty
    <3> QED BY <3>1, CompactEmpty
  <2> QED BY <2>1
<1>2. ASSUME NEW n \in Nat, n \in T PROVE n + 1 \in T
  <2>1. ASSUME NEW d \in Seq(Lexemes), Len(d) = n + 1, P(d)
        PROVE  Compact(Pick(d, K)) = Pick(d, L)
    <3>1. PICK e \in Seq(Lexemes), x \in Lexemes : d = Append(e, x) /\ Len(e) = n
      BY <2>1, SplitLast
    <3>2. /\ Len(Append(e, x)) = n + 1 /\ Append(e, x)[n + 1] = x
          /\ \A k \in 1 .. n : Append(e, x)[k] = e[k]
      BY <3>1, AppendIs
    <3>3. \A k \in 1 .. n : d[k] = e[k]
      BY <3>1, <3>2
    <3>4. d[n + 1] = x
      BY <3>1, <3>2
    <3>5. n + 1 \in L <=> n + 1 \in K /\ x # "sp"
      BY <2>1, <3>4
    <3>6. P(e)
      BY <2>1, <3>1, <3>3
    <3>7. Compact(Pick(e, K)) = Pick(e, L)
      BY <1>2, <3>1, <3>6
    <3>8. Pick(d, K) = IF n + 1 \in K THEN Append(Pick(e, K), x) ELSE Pick(e, K)
      BY <3>1, PickAppend
    <3>9. Pick(d, L) = IF n + 1 \in L THEN Append(Pick(e, L), x) ELSE Pick(e, L)
      BY <3>1, PickAppend
    <3> DEFINE p == Pick(e, K)
    <3>10. p \in Seq(Lexemes)
      BY PickType
    <3> HIDE DEF p
    <3>11. Compact(Append(p, x)) = IF x = "sp" THEN Compact(p) ELSE Append(Compact(p), x)
      BY <3>10, CompactAppend
    <3> QED BY <3>5, <3>7, <3>8, <3>9, <3>11 DEF p
  <2> QED BY <2>1
<1> HIDE DEF T
<1>3. \A n \in Nat : n \in T
  BY <1>1, <1>2, InductionNat
<1>4. Len(b) \in T
  <2>1. Len(b) \in Nat
    OBVIOUS
  <2> QED BY <1>3, <2>1
<1> QED BY <1>4 DEF T

(* What the code splices together is, but for whitespace, the Rest.        *)
LEMMA SpliceRest ==
  ASSUME NEW b \in Seq(Lexemes), NEW hits \in SUBSET DOMAIN Scan(b).ms
  PROVE  /\ Compact(Splice(b, Scan(b).ms, hits)) = Rest(b, hits)
         /\ Splice(b, Scan(b).ms, hits) \in Seq(Lexemes)
<1> DEFINE U == UNION {CutOut(b, Scan(b).ms, hits, k) : k \in hits}
           K == DOMAIN b \ U
           L == RestAt(b, hits)
<1>1. DOMAIN b = 1 .. Len(b)
  OBVIOUS
<1>2. \A q \in 1 .. Len(b) : b[q] # "sp" => (q \in U <=> CutAt(ScanRun(b)[q - 1], b[q], hits))
  BY CutAtIs
<1> HIDE DEF U
<1>3. \A i \in 1 .. Len(b) : i \in L <=> i \in K /\ b[i] # "sp"
  BY <1>1, <1>2 DEF RestAt
<1> HIDE DEF K, L
<1>4. Compact(Pick(b, K)) = Pick(b, L)
  BY <1>3, CompactPick
<1>5. Splice(b, Scan(b).ms, hits) = Pick(b, K)
  BY DEF Splice, K, U
<1>6. Pick(b, K) \in Seq(Lexemes)
  BY PickType
<1> QED BY <1>4, <1>5, <1>6 DEF Rest, L
-----------------------------------------------------------------------------
(* What encoding/json does with the brackets inside a value.               *)
LEMMA JsonNestedStep ==
  ASSUME NEW j \in JsonStates, NEW x \in Lexemes, x # "sp", j.stack # <<>>,
         JsonStep(j, x).at # "bad"
  PROVE  /\ x \in Openers => JsonStep(j, x).stack = Append(j.stack, x)
         /\ x \in Closers => /\ Closes(Last(j.stack), x)
                             /\ JsonStep(j, x).stack = Front(j.stack)
                             /\ Front(j.stack) = <<>> => JsonStep(j, x).at = "end"
         /\ x \notin Openers \cup Closers => JsonStep(j, x).stack = j.stack /\ x # "open"
<1> DEFINE u == JsonStep(j, x)
           push == Append(j.stack, x)
           pop == Front(j.stack)
           top == Last(j.stack)
           stack == j.stack
<1>1. /\ j.at = "member" => top = "{"
      /\ j.at = "item" => top = "["
      /\ j.at \in JsonModes
      /\ top \in Openers
  BY JsonStateIs, StackTop
<1> SUFFICES /\ x \in Openers => u.stack = push
             /\ x \in Closers => /\ Closes(top, x)
                                 /\ u.stack = pop
                                 /\ pop = <<>> => u.at = "end"
             /\ x \notin Openers \cup Closers => u.stack = stack /\ x # "open"
  OBVIOUS
<1> HIDE DEF u, push, pop, top, stack
<1>9. CASE j.at \in {"value", "item"} /\ x \in Unquotes \cup Scalars
  <2>1. u = Json("next", stack, j.keys)
    BY <1>9, JsonStepIs DEF AfterValue, u, stack
  <2>2. u.stack = stack
    BY <2>1 DEF Json
  <2> QED BY <1>9, <2>2, Kinds
<1>10. CASE j.at \in {"value", "item"} /\ x \in Openers
  <2>1. u = Json(IF x = "{" THEN "member" ELSE "item", push, j.keys)
    BY <1>10, JsonStepIs DEF u, push
  <2>2. u.stack = push
    BY <2>1 DEF Json
  <2> QED BY <1>10, <2>2, Kinds
<1>11. CASE \/ j.at = "item" /\ x = "]"
            \/ j.at = "member" /\ x = "}"
            \/ j.at = "next" /\ Closes(top, x)
  <2>0. u = AfterValue(pop, j.keys)
    BY <1>11, JsonStepIs DEF u, pop, top
  <2>2. u.stack = pop /\ (pop = <<>> => u.at = "end")
    BY <2>0, AfterValueIs, JsonFields
  <2>3. Closes(top, x)
    BY <1>1, <1>11 DEF Closes
  <2>4. x \in Closers /\ x \notin Openers
    BY <1>1, <2>3, Kinds
  <2> QED BY <2>2, <2>3, <2>4
<1>12. CASE j.at \in {"member", "key"} /\ x \in Unquotes
  <2> DEFINE K == IF Len(j.stack) = 1 THEN j.keys \cup {x} ELSE j.keys
  <2>1. u = Json("colon", stack, K)
    BY <1>12, JsonStepIs DEF u, stack
  <2> HIDE DEF K
  <2>2. u.stack = stack
    BY <2>1 DEF Json
  <2> QED BY <1>12, <2>2, Kinds
<1>13. CASE j.at = "colon" /\ x = ":"
  <2>1. u = Json("value", stack, j.keys)
    BY <1>13, JsonStepIs DEF u, stack
  <2>2. u.stack = stack
    BY <2>1 DEF Json
  <2> QED BY <1>13, <2>2, Kinds
<1>14. CASE j.at = "next" /\ x = ","
  <2>1. u = Json(IF top = "{" THEN "key" ELSE "value", stack, j.keys)
    BY <1>14, JsonStepIs DEF u, stack, top
  <2>2. u.stack = stack
    BY <2>1 DEF Json
  <2> QED BY <1>14, <2>2, Kinds
<1>15. u.at # "bad"
  BY DEF u
<1> QED BY <1>9, <1>10, <1>11, <1>12, <1>13, <1>14, <1>15, JsonStepBad DEF u, top

(* What it does with the first lexeme of a value.                          *)
LEMMA JsonFirstStep ==
  ASSUME NEW x \in Lexemes, x # "sp", JsonStep(JsonStart, x).at # "bad"
  PROVE  \/ x \in Unquotes \cup Scalars /\ JsonStep(JsonStart, x) = Json("end", <<>>, {})
         \/ x \in Openers /\ JsonStep(JsonStart, x).stack = <<x>>
<1>1. JsonStart \in JsonStates /\ JsonStart.at = "value" /\ JsonStart.stack = <<>> /\ JsonStart.keys = {}
  BY JsonStartType, JsonFields DEF JsonStart
<1> DEFINE j == JsonStart
<1> HIDE DEF j
<1>2. j \in JsonStates /\ j.at = "value" /\ j.stack = <<>> /\ j.keys = {} /\ JsonStep(j, x).at # "bad"
  BY <1>1 DEF j
<1>3. CASE x \in Unquotes \cup Scalars
  <2>1. JsonStep(j, x) = AfterValue(<<>>, {})
    BY <1>2, <1>3, JsonStepIs
  <2> QED BY <1>3, <2>1, AfterValueIs DEF j
<1>4. CASE x \in Openers
  <2> DEFINE a == IF x = "{" THEN "member" ELSE "item"
  <2>1. JsonStep(j, x) = Json(a, Append(<<>>, x), {})
    BY <1>2, <1>4, JsonStepIs
  <2> HIDE DEF a
  <2>2. Append(<<>>, x) = <<x>>
    OBVIOUS
  <2>3. JsonStep(j, x).stack = <<x>>
    BY <2>1, <2>2, JsonFields
  <2> QED BY <1>4, <2>3 DEF j
<1>5. x \in Unquotes \cup Scalars \/ x \in Openers
  BY <1>2, JsonStepBad
<1> QED BY <1>3, <1>4, <1>5
-----------------------------------------------------------------------------
(* TooDeep, by the last lexeme.                                            *)
LEMMA TooDeepAppend ==
  ASSUME NEW u \in Seq(Lexemes), NEW x \in Lexemes
  PROVE  TooDeep(Append(u, x)) <=>
           TooDeep(u) \/ Len(JsonEnd(JsonStart, Append(u, x)).stack) > MaxScanDepth
<1> DEFINE c == Append(u, x)
           j == JsonEnd(JsonStart, c)
           l == Len(j.stack)
<1>1. c \in Seq(Lexemes) /\ MaxScanDepth \in Nat
  BY AppendIs, ScannerAssumption
<1>2. j = JsonStep(JsonEnd(JsonStart, u), x)
  BY JsonStartType, JsonEndAppend
<1>3. l \in Nat
  <2> HIDE DEF c
  <2>1. j \in JsonStates
    BY <1>1, JsonStartType, JsonEndType
  <2> HIDE DEF j
  <2>2. j.stack \in Seq(Openers)
    BY <2>1, JsonStateIs
  <2> QED BY <2>2
<1> HIDE DEF j
<1>4. Below(JsonStart, c, MaxScanDepth) <=> Below(JsonStart, u, MaxScanDepth) /\ l <= MaxScanDepth
  BY <1>2, JsonStartType, BelowAppend
<1> HIDE DEF c, l
<1>5. Nests(c, MaxScanDepth) <=> Nests(u, MaxScanDepth) /\ l <= MaxScanDepth
  BY <1>1, <1>4, NestsIs
<1>6. ~(l <= MaxScanDepth) <=> l > MaxScanDepth
  BY <1>1, <1>3
<1> QED BY <1>5, <1>6 DEF TooDeep, c, l, j

(* Nothing is too deep in nothing.                                         *)
LEMMA TooDeepEmpty == ~TooDeep(<<>>)
  BY DEF TooDeep, Nests
-----------------------------------------------------------------------------
(* The scan, which was at the start of a value in s0, has read u of it.    *)
Grown(s0, s, v) ==
  \E r \in Spans : s.ms = Append(s0.ms, r) /\ r.key = s0.key /\ r.value = v

Within(s0, s, u, stack) ==
  /\ s.at = "inside" /\ s.stack = stack /\ s.value = u[1]
  /\ s.key = s0.key /\ s.ms = s0.ms

Progress(s0, s, u, j) ==
  IF TooDeep(u) THEN s.at = "malformed"
  ELSE /\ u = <<>> => s = s0
       /\ u # <<>> /\ j.stack # <<>> => Within(s0, s, u, j.stack)
       /\ u # <<>> /\ j.stack = <<>> => j.at = "end" /\ s.at = "next" /\ Grown(s0, s, u[1])

(* A member grows by a span.                                               *)
LEMMA GrownIs ==
  ASSUME NEW s0 \in ScanStates, NEW s \in ScanStates, NEW t, NEW v \in Lexemes, NEW i \in Nat,
         s.key = s0.key, s.key \in Strings, s.ms = s0.ms, t.ms = Append(s.ms, Span(s, v, i))
  PROVE  Grown(s0, t, v)
<1> DEFINE r == Span(s, v, i)
<1>1. s.start \in Nat
  BY ScanEnds
<1>2. r \in Spans /\ r.key = s.key /\ r.value = v
  BY <1>1, SpanIs DEF Span
<1>3. t.ms = Append(s0.ms, r)
  OBVIOUS
<1> HIDE DEF r
<1> QED BY <1>2, <1>3 DEF Grown

(* The first lexeme of a value.                                            *)
LEMMA ProgressFirst ==
  ASSUME NEW s \in ScanStates, s.at = "value", NEW x \in Lexemes, x # "sp", NEW i \in Nat,
         JsonStep(JsonStart, x).at # "bad"
  PROVE  Progress(s, ScanStep(s, x, i), <<x>>, JsonStep(JsonStart, x))
<1> DEFINE t == ScanStep(s, x, i)
           k == JsonStep(JsonStart, x)
           u == <<x>>
<1>1. Effect(s, x, i, t)
  BY ScanEffect
<1>2. u # <<>> /\ u[1] = x /\ u = Append(<<>>, x) /\ <<>> \in Seq(Lexemes)
  OBVIOUS
<1>3. s.key \in Strings
  BY ScanStateIs
<1>4. JsonEnd(JsonStart, u) = k
  BY JsonStartType, JsonEndOne
<1>5. \/ x \in Unquotes \cup Scalars /\ k = Json("end", <<>>, {})
      \/ x \in Openers /\ k.stack = <<x>>
  BY JsonFirstStep
<1> HIDE DEF t, k, u
<1>6. Len(k.stack) <= 1
  <2>1. CASE k = Json("end", <<>>, {})
    <3>1. k.stack = <<>>
      BY <2>1, JsonFields
    <3> QED BY <3>1
  <2>2. CASE k.stack = <<x>>
    BY <2>2
  <2> QED BY <1>5, <2>1, <2>2
<1>7. ~TooDeep(u)
  <2>1. TooDeep(u) <=> TooDeep(<<>>) \/ Len(k.stack) > MaxScanDepth
    <3>1. TooDeep(Append(<<>>, x)) <=>
            TooDeep(<<>>) \/ Len(JsonEnd(JsonStart, Append(<<>>, x)).stack) > MaxScanDepth
      BY <1>2, TooDeepAppend
    <3> QED BY <1>2, <1>4, <3>1
  <2>2. Len(k.stack) \in Nat
    BY <1>4, <1>5, JsonFields
  <2> QED BY <1>6, <2>1, <2>2, TooDeepEmpty, ScannerAssumption
<1>8. CASE x \in Unquotes \cup Scalars /\ k = Json("end", <<>>, {})
  <2>1. k.at = "end" /\ k.stack = <<>>
    BY <1>8, JsonFields
  <2>2. x \in Strings \cup Scalars
    BY <1>8, Kinds
  <2>3. t.at = "next" /\ t.ms = Append(s.ms, Span(s, x, i))
    BY <1>1, <2>2, Zenon DEF Effect
  <2>4. Grown(s, t, x)
    BY <1>3, <2>3, GrownIs
  <2>5. Progress(s, t, u, k)
    BY <1>2, <1>7, <2>1, <2>3, <2>4 DEF Progress
  <2> QED BY <2>5 DEF t, k, u
<1>9. CASE x \in Openers /\ k.stack = <<x>>
  <2>1. t.at = "inside" /\ t.stack = <<x>> /\ t.value = x /\ t.key = s.key /\ t.ms = s.ms
    BY <1>1, <1>9, Zenon DEF Effect
  <2>2. k.stack # <<>>
    BY <1>9
  <2>3. Progress(s, t, u, k)
    BY <1>2, <1>7, <1>9, <2>1, <2>2 DEF Progress, Within
  <2> QED BY <2>3 DEF t, k, u
<1> QED BY <1>5, <1>8, <1>9
-----------------------------------------------------------------------------
(* One lexeme more, inside a value.                                        *)
LEMMA ProgressNested ==
  ASSUME NEW s0 \in ScanStates, NEW s \in ScanStates, NEW u \in Seq(Lexemes), u # <<>>,
         NEW x \in Lexemes, x # "sp", NEW i \in Nat, NEW j \in JsonStates,
         j = JsonEnd(JsonStart, u), JsonStep(j, x).at # "bad", j.stack # <<>>,
         ~TooDeep(u), Within(s0, s, u, j.stack)
  PROVE  Progress(s0, ScanStep(s, x, i), Append(u, x), JsonStep(j, x))
<1> DEFINE t == ScanStep(s, x, i)
           k == JsonStep(j, x)
           w == Append(u, x)
           st == j.stack
<1>1. Effect(s, x, i, t)
  BY ScanEffect
<1>2. w # <<>> /\ w[1] = u[1]
  <2>1. Len(u) > 0 /\ Len(u) \in Nat
    BY EmptyStack
  <2>2. Len(w) = Len(u) + 1 /\ \A q \in 1 .. Len(u) : w[q] = u[q]
    BY AppendIs
  <2> HIDE DEF w
  <2> QED BY <2>1, <2>2
<1>3. s.at = "inside" /\ s.stack = st /\ s.value = u[1] /\ s.key = s0.key /\ s.ms = s0.ms
  BY DEF Within
<1>4. s.key \in Strings /\ s.value \in Lexemes
  BY <1>3, ScanStateIs
<1>5. JsonEnd(JsonStart, w) = k
  BY JsonStartType, JsonEndAppend
<1>6. TooDeep(w) <=> Len(k.stack) > MaxScanDepth
  BY <1>5, TooDeepAppend
<1>7. /\ x \in Openers => k.stack = Append(st, x)
      /\ x \in Closers => /\ Closes(Last(st), x) /\ k.stack = Front(st)
                          /\ Front(st) = <<>> => k.at = "end"
      /\ x \notin Openers \cup Closers => k.stack = st /\ x # "open"
  BY JsonNestedStep
<1>8. /\ st \in Seq(Openers) /\ Len(st) \in Nat /\ Len(st) > 0
      /\ Front(st) \in Seq(Openers) /\ Len(Front(st)) = Len(st) - 1
  <2>1. st \in Seq(Openers)
    BY JsonStateIs
  <2>2. st # <<>>
    OBVIOUS
  <2> HIDE DEF st
  <2> QED BY <2>1, <2>2, StackTop
<1>9. Len(st) <= MaxScanDepth
  <2> DEFINE n == Len(u)
  <2>1. n \in Nat /\ n > 0 /\ DOMAIN u = 1 .. n
    BY EmptyStack
  <2>2. st = JsonRun(JsonStart, u)[n].stack
    BY DEF JsonEnd
  <2>3. n \in DOMAIN u
    BY <2>1
  <2> HIDE DEF n, st
  <2> QED BY <2>2, <2>3 DEF TooDeep, Nests
<1>10. Openers \cap Closers = {} /\ MaxScanDepth \in Nat /\ MaxScanDepth > 0
  <2>1. Openers \cap Closers = {}
    BY Kinds
  <2>2. MaxScanDepth \in Nat /\ MaxScanDepth > 0
    BY ScannerAssumption
  <2> QED BY <2>1, <2>2
<1> HIDE DEF t, k, w, st
<1> SUFFICES Progress(s0, t, w, k)
  BY DEF t, k, w
<1>11. CASE x \in Openers
  <2>1. k.stack = Append(st, x) /\ Append(st, x) # <<>> /\ Len(Append(st, x)) = Len(st) + 1
    BY <1>7, <1>8, <1>11, StackOps, SMTT(20)
  <2>2. CASE Len(st) >= MaxScanDepth
    <3>1. t.at = "malformed"
      BY <1>1, <1>3, <1>11, <2>2, Zenon DEF Effect
    <3>2. TooDeep(w)
      BY <1>6, <1>8, <1>10, <2>1, <2>2
    <3> QED BY <3>1, <3>2 DEF Progress
  <2>3. CASE ~(Len(st) >= MaxScanDepth)
    <3>1. /\ t.at = "inside" /\ t.ms = s.ms /\ t.key = s.key /\ t.value = s.value
          /\ t.stack = Append(s.stack, x)
      BY <1>1, <1>3, <1>11, <2>3, Zenon DEF Effect
    <3>2. ~TooDeep(w)
      BY <1>6, <1>8, <1>10, <2>1, <2>3
    <3>3. Within(s0, t, w, k.stack) /\ k.stack # <<>>
      BY <1>2, <1>3, <2>1, <3>1 DEF Within
    <3> QED BY <1>2, <3>2, <3>3 DEF Progress
  <2> QED BY <2>2, <2>3
<1>12. CASE x \in Closers
  <2>1. Closes(Last(s.stack), x) /\ k.stack = Front(st)
    BY <1>3, <1>7, <1>12
  <2>2. ~TooDeep(w)
    BY <1>6, <1>8, <1>9, <1>10, <2>1
  <2>3. CASE Len(st) = 1
    <3>1. t.at = "next" /\ t.ms = Append(s.ms, Span(s, s.value, i))
      BY <1>1, <1>3, <1>12, <2>1, <2>3, Zenon DEF Effect
    <3>2. k.stack = <<>>
      BY <1>8, <2>1, <2>3, EmptyStack
    <3>3. k.at = "end"
      BY <1>7, <1>12, <2>1, <3>2
    <3>4. Grown(s0, t, s.value)
      BY <1>3, <1>4, <3>1, GrownIs
    <3>5. Grown(s0, t, w[1])
      BY <1>2, <1>3, <3>4
    <3> QED BY <1>2, <2>2, <3>1, <3>2, <3>3, <3>5 DEF Progress
  <2>4. CASE Len(st) # 1
    <3>1. /\ t.at = "inside" /\ t.ms = s.ms /\ t.key = s.key /\ t.value = s.value
          /\ t.stack = Front(s.stack)
      BY <1>1, <1>3, <1>12, <2>1, <2>4, Zenon DEF Effect
    <3>2. k.stack # <<>>
      BY <1>8, <2>1, <2>4, EmptyStack
    <3>3. Within(s0, t, w, k.stack)
      BY <1>2, <1>3, <2>1, <3>1 DEF Within
    <3> QED BY <1>2, <2>2, <3>2, <3>3 DEF Progress
  <2> QED BY <2>3, <2>4
<1>13. CASE x \notin Openers \cup Closers
  <2>1. k.stack = st /\ x # "open"
    BY <1>7, <1>13
  <2>2. x \notin Openers \cup Closers \cup {"open"}
    BY <1>13, <2>1
  <2>3. t = s
    BY <1>1, <1>3, <2>2, Zenon DEF Effect
  <2>4. ~TooDeep(w)
    BY <1>6, <1>8, <1>9, <1>10, <2>1
  <2>5. Within(s0, t, w, k.stack) /\ k.stack # <<>>
    BY <1>2, <1>3, <1>8, <2>1, <2>3, EmptyStack DEF Within
  <2> QED BY <1>2, <2>4, <2>5 DEF Progress
<1> QED BY <1>11, <1>12, <1>13

(* One lexeme more, anywhere in a value.                                   *)
LEMMA ProgressStep ==
  ASSUME NEW s0 \in ScanStates, s0.at = "value", NEW s \in ScanStates,
         NEW u \in Seq(Lexemes), NEW x \in Lexemes, x # "sp", NEW i \in Nat,
         JsonEnd(JsonStart, Append(u, x)).at # "bad",
         Progress(s0, s, u, JsonEnd(JsonStart, u))
  PROVE  /\ Progress(s0, ScanStep(s, x, i), Append(u, x), JsonEnd(JsonStart, Append(u, x)))
         /\ ~TooDeep(u) => s.at \in {"value", "inside"} /\ s.ms = s0.ms
<1> DEFINE j == JsonEnd(JsonStart, u)
           t == ScanStep(s, x, i)
           w == Append(u, x)
<1>1. j \in JsonStates /\ JsonEnd(JsonStart, w) = JsonStep(j, x)
  BY JsonStartType, JsonEndType, JsonEndAppend
<1>2. JsonStep(j, x).at # "bad"
  BY <1>1
<1>3. CASE TooDeep(u)
  <2>1. s.at = "malformed"
    BY <1>3 DEF Progress
  <2>2. t = s
    BY <2>1, StepDone
  <2>3. TooDeep(w)
    BY <1>3, TooDeepAppend
  <2>4. Progress(s0, t, w, JsonEnd(JsonStart, w))
    BY <2>1, <2>2, <2>3 DEF Progress
  <2> QED BY <1>3, <2>4
<1>4. CASE ~TooDeep(u) /\ u = <<>>
  <2>1. s = s0
    BY <1>4 DEF Progress
  <2>2. j = JsonStart /\ w = <<x>>
    BY <1>4, JsonStartType, JsonEndEmpty
  <2>3. Progress(s0, ScanStep(s0, x, i), <<x>>, JsonStep(JsonStart, x))
    BY <1>2, <2>2, ProgressFirst
  <2> HIDE DEF w, j
  <2> QED BY <1>1, <2>1, <2>2, <2>3 DEF w
<1>5. CASE ~TooDeep(u) /\ u # <<>> /\ j.stack = <<>>
  <2>1. j.at = "end"
    BY <1>5 DEF Progress
  <2> HIDE DEF j
  <2>2. JsonStep(j, x).at = "bad"
    BY <1>1, <2>1, JsonStepBad
  <2> QED BY <1>2, <2>2
<1>6. CASE ~TooDeep(u) /\ u # <<>> /\ j.stack # <<>>
  <2>1. Within(s0, s, u, j.stack)
    BY <1>6 DEF Progress
  <2>2. s.at = "inside" /\ s.ms = s0.ms
    BY <2>1 DEF Within
  <2>3. Progress(s0, t, w, JsonStep(j, x))
    BY <1>1, <1>2, <1>6, <2>1, ProgressNested
  <2> HIDE DEF j, t, w
  <2> QED BY <1>1, <2>2, <2>3 DEF t, w
<1> QED BY <1>3, <1>4, <1>5, <1>6
-----------------------------------------------------------------------------
(* The scan of p has come to a value that begins with u.                   *)
InValue(p, u, H) ==
  /\ Progress(Scan(p), Scan(p \o u), u, JsonEnd(JsonStart, u))
  /\ ~TooDeep(u) =>
       Rest(p \o u, H) = IF Len(Scan(p).ms) + 1 \in H THEN Rest(p, H) ELSE Rest(p, H) \o u

(* One lexeme more.                                                        *)
LEMMA InValueAppend ==
  ASSUME NEW p \in Seq(Lexemes), Scan(p).at = "value", NEW H,
         NEW u \in Seq(Lexemes), NEW x \in Lexemes, x # "sp",
         JsonEnd(JsonStart, Append(u, x)).at # "bad", InValue(p, u, H)
  PROVE  InValue(p, Append(u, x), H)
<1> DEFINE c == p \o u
           w == Append(u, x)
           s0 == Scan(p)
           s == Scan(c)
           i == Len(c) + 1
           cut == Len(s0.ms) + 1 \in H
           a == Rest(p, H)
<1>1. c \in Seq(Lexemes) /\ p \o w = Append(c, x)
  BY ConcatAppend
<1>2. s0 \in ScanStates
  BY ScanType
<1>3. w \in Seq(Lexemes)
  BY AppendIs
<1>4. a \in Seq(Lexemes)
  BY RestType
<1>5. /\ Progress(s0, s, u, JsonEnd(JsonStart, u))
      /\ ~TooDeep(u) => Rest(c, H) = IF cut THEN a ELSE a \o u
  BY DEF InValue
<1> HIDE DEF c
<1>6. c \in Seq(Lexemes)
  BY <1>1
<1>7. i \in Nat /\ s \in ScanStates
  BY <1>6, ScanType
<1>8. Scan(Append(c, x)) = ScanStep(s, x, i)
  BY <1>6, ScanAppend
<1>9. Rest(Append(c, x), H) = IF x = "sp" \/ CutAt(s, x, H) THEN Rest(c, H) ELSE Append(Rest(c, H), x)
  BY <1>6, RestAppend
<1>10. s0.at = "value"
  OBVIOUS
<1> HIDE DEF s0, s, i, a
<1>11. /\ Progress(s0, ScanStep(s, x, i), w, JsonEnd(JsonStart, w))
       /\ ~TooDeep(u) => s.at \in {"value", "inside"} /\ s.ms = s0.ms
  BY <1>2, <1>5, <1>7, <1>10, ProgressStep
<1>12. TooDeep(u) => TooDeep(w)
  BY TooDeepAppend
<1>13. ASSUME ~TooDeep(w) PROVE Rest(Append(c, x), H) = IF cut THEN a ELSE a \o w
  <2>1. s.at \in {"value", "inside"} /\ s.ms = s0.ms
    BY <1>11, <1>12, <1>13
  <2>2. CutAt(s, x, H) <=> cut
    BY <2>1 DEF CutAt
  <2>3. Rest(c, H) = IF cut THEN a ELSE a \o u
    BY <1>5, <1>12, <1>13
  <2>4. a \o w = Append(a \o u, x)
    BY <1>4, ConcatAppend
  <2> HIDE DEF cut, w
  <2> QED BY <1>9, <2>2, <2>3, <2>4
<1> HIDE DEF w, cut
<1>14. InValue(p, w, H)
  BY <1>1, <1>8, <1>11, <1>13 DEF InValue, s0, a, cut
<1> QED BY <1>14 DEF w

(* All of it.                                                              *)
LEMMA ValueScan ==
  ASSUME NEW p \in Seq(Lexemes), Scan(p).at = "value", NEW H,
         NEW v \in Seq(Solid), JsonEnd(JsonStart, v).at # "bad"
  PROVE  InValue(p, v, H)
<1> DEFINE G(u) == JsonEnd(JsonStart, u).at # "bad" => InValue(p, u, H)
           T == {n \in Nat : \A u \in Seq(Solid) : Len(u) = n => G(u)}
<1>1. 0 \in T
  <2>1. ASSUME NEW u \in Seq(Solid), Len(u) = 0 PROVE InValue(p, u, H)
    <3>1. u = <<>>
      BY <2>1, EmptyStack
    <3>2. p \o <<>> = p
      BY EmptyStack
    <3>3. Rest(p, H) \o <<>> = Rest(p, H)
      BY RestType, EmptyStack
    <3>4. Progress(Scan(p), Scan(p), <<>>, JsonEnd(JsonStart, <<>>))
      BY TooDeepEmpty DEF Progress
    <3> QED BY <3>1, <3>2, <3>3, <3>4 DEF InValue
  <2> QED BY <2>1
<1>2. ASSUME NEW n \in Nat, n \in T PROVE n + 1 \in T
  <2>1. ASSUME NEW u \in Seq(Solid), Len(u) = n + 1, JsonEnd(JsonStart, u).at # "bad"
        PROVE  InValue(p, u, H)
    <3>1. PICK e \in Seq(Solid), x \in Solid : u = Append(e, x) /\ Len(e) = n
      BY <2>1, SplitLast, ZenonT(40)
    <3>2. e \in Seq(Lexemes)
      BY SolidLexemes
    <3>3. x \in Lexemes /\ x # "sp"
      BY SolidLexemes
    <3>4. JsonEnd(JsonStart, u) = JsonStep(JsonEnd(JsonStart, e), x)
      BY <3>1, <3>2, <3>3, JsonStartType, JsonEndAppend
    <3>5. JsonEnd(JsonStart, e).at # "bad"
      <4>1. JsonEnd(JsonStart, e) \in JsonStates
        BY <3>2, JsonStartType, JsonEndType
      <4> QED BY <2>1, <3>3, <3>4, <4>1, JsonStepEnd
    <3>6. InValue(p, e, H)
      BY <1>2, <3>1, <3>5
    <3>7. InValue(p, Append(e, x), H)
      BY <2>1, <3>1, <3>2, <3>3, <3>6, InValueAppend
    <3> QED BY <3>1, <3>7
  <2> QED BY <2>1
<1> HIDE DEF T
<1>3. \A n \in Nat : n \in T
  BY <1>1, <1>2, InductionNat
<1>4. Len(v) \in T
  <2>1. Len(v) \in Nat
    OBVIOUS
  <2> QED BY <1>3, <2>1
<1> QED BY <1>4 DEF T

(* The value of a member: the scan finds where it ends.                    *)
LEMMA WholeValue ==
  ASSUME NEW p \in Seq(Lexemes), Scan(p).at = "value", NEW H,
         NEW v \in Seq(Solid), Parses(v)
  PROVE  /\ TooDeep(v) => Scan(p \o v).at = "malformed"
         /\ ~TooDeep(v) =>
              /\ Scan(p \o v).at = "next" /\ Grown(Scan(p), Scan(p \o v), v[1])
              /\ Rest(p \o v, H) =
                   IF Len(Scan(p).ms) + 1 \in H THEN Rest(p, H) ELSE Rest(p, H) \o v
<1> DEFINE j == JsonEnd(JsonStart, v)
<1>1. j.at = "end"
  BY DEF Parses
<1>2. v \in Seq(Lexemes)
  BY SolidLexemes
<1>3. j.stack = <<>>
  BY <1>1, <1>2, JsonStartType, JsonEndType, JsonStateIs
<1>4. v # <<>>
  <2>1. SUFFICES ASSUME v = <<>> PROVE FALSE
    OBVIOUS
  <2>2. j = JsonStart
    BY <2>1, JsonStartType, JsonEndEmpty
  <2> QED BY <1>1, <2>2, JsonFields DEF JsonStart
<1>5. InValue(p, v, H)
  BY <1>1, ValueScan
<1> HIDE DEF j
<1>6. Progress(Scan(p), Scan(p \o v), v, j)
  BY <1>5 DEF InValue, j
<1>7. TooDeep(v) => Scan(p \o v).at = "malformed"
  BY <1>6 DEF Progress
<1>8. ~TooDeep(v) => Scan(p \o v).at = "next" /\ Grown(Scan(p), Scan(p \o v), v[1])
  BY <1>3, <1>4, <1>6 DEF Progress
<1> QED BY <1>5, <1>7, <1>8 DEF InValue
-----------------------------------------------------------------------------
(* The text of a member, behind another text.                              *)
LEMMA TextBehind ==
  ASSUME NEW p \in Seq(Lexemes), NEW m \in Entries
  PROVE  p \o Text(m) = Append(Append(p, m.key), ":") \o m.value
<1> DEFINE k == m.key
           v == m.value
           t == <<k, ":">>
<1>1. k \in Lexemes
  BY MemberIs
<1>2. v \in Seq(Lexemes)
  BY MemberIs
<1>3. ":" \in Lexemes
  BY SolidLexemes
<1>4. Text(m) = t \o v
  BY DEF Text
<1> HIDE DEF k, v
<1>5. t \in Seq(Lexemes)
  BY <1>1, <1>3, TwoLexemes
<1>6. p \o t = Append(Append(p, k), ":")
  <2>1. t = Append(Append(<<>>, k), ":") /\ <<>> \in Seq(Lexemes)
    OBVIOUS
  <2> DEFINE one == Append(<<>>, k)
  <2>2. one \in Seq(Lexemes)
    BY <1>1, <2>1, AppendIs
  <2>3. p \o one = Append(p \o <<>>, k)
    BY <1>1, <2>1, ConcatAppend
  <2>4. p \o <<>> = p
    BY EmptyStack
  <2> HIDE DEF one
  <2>5. p \o Append(one, ":") = Append(p \o one, ":")
    BY <1>3, <2>2, ConcatAppend
  <2> QED BY <2>1, <2>3, <2>4, <2>5 DEF one
<1> HIDE DEF t
<1>7. p \o (t \o v) = (p \o t) \o v
  BY <1>2, <1>5, TextAssoc, Zenon
<1> QED BY <1>4, <1>6, <1>7 DEF k, v

(* The scan goes through a member.                                         *)
LEMMA MemberScan ==
  ASSUME NEW p \in Seq(Lexemes), Scan(p).at \in {"first", "key"}, NEW m \in Entries, NEW H
  PROVE  LET q == p \o Text(m)
         IN /\ TooDeep(m.value) => Scan(q).at = "malformed"
            /\ ~TooDeep(m.value) =>
                 /\ Scan(q).at = "next"
                 /\ \E r \in Spans : /\ Scan(q).ms = Append(Scan(p).ms, r)
                                     /\ r.key = m.key /\ r.value = m.value[1]
                 /\ Rest(q, H) = IF Len(Scan(p).ms) + 1 \in H THEN Rest(p, H)
                                 ELSE Rest(p, H) \o Text(m)
<1> DEFINE k == m.key
           v == m.value
           p1 == Append(p, k)
           p2 == Append(p1, ":")
           s == Scan(p)
           s1 == Scan(p1)
           s2 == Scan(p2)
           cut == Len(s.ms) + 1 \in H
           q == p \o Text(m)
           a == Rest(p, H)
<1>1. k \in Lexemes /\ k # "sp" /\ k \in Strings /\ ":" \in Lexemes
  BY MemberIs, SolidLexemes, Kinds
<1>2. v \in Seq(Solid) /\ Parses(v)
  BY MemberIs
<1>3. p1 \in Seq(Lexemes)
  BY <1>1, AppendIs
<1>4. s \in ScanStates
  BY ScanType
<1>5. a \in Seq(Lexemes)
  BY RestType
<1>6. q = p2 \o v
  BY TextBehind
<1>7. a \o Text(m) = Append(Append(a, k), ":") \o v
  BY <1>5, TextBehind
<1>8. s1 = ScanStep(s, k, Len(p) + 1) /\ Len(p) + 1 \in Nat
  BY <1>1, ScanAppend
<1>9. Rest(p1, H) = IF k = "sp" \/ CutAt(s, k, H) THEN a ELSE Append(a, k)
  BY <1>1, RestAppend
<1>10. s.at \in {"first", "key"}
  OBVIOUS
<1> HIDE DEF p1, k, v, q, a, s
<1>11. p2 \in Seq(Lexemes)
  BY <1>1, <1>3, AppendIs
<1>12. s2 = ScanStep(s1, ":", Len(p1) + 1) /\ Len(p1) + 1 \in Nat
  BY <1>1, <1>3, ScanAppend
<1>13. Rest(p2, H) = IF CutAt(s1, ":", H) THEN Rest(p1, H) ELSE Append(Rest(p1, H), ":")
  BY <1>1, <1>3, RestAppend
<1>14. s1 \in ScanStates
  BY <1>3, ScanType
<1> HIDE DEF p2, s1, s2
<1>15. k # RB
  BY <1>1, Marks
<1>16. s1.at = "colon" /\ s1.key = k /\ s1.ms = s.ms
  <2>1. Effect(s, k, Len(p) + 1, s1)
    BY <1>1, <1>4, <1>8, ScanEffect
  <2> QED BY <1>1, <1>10, <1>15, <2>1, Zenon DEF Effect
<1>17. s2.at = "value" /\ s2.key = k /\ s2.ms = s.ms
  <2>1. ":" # "sp"
    OBVIOUS
  <2>2. Effect(s1, ":", Len(p1) + 1, s2)
    BY <1>1, <1>12, <1>14, <2>1, ScanEffect
  <2>3. s2.at = "value" /\ s2.key = s1.key /\ s2.ms = s1.ms
    BY <1>16, <2>2, Zenon DEF Effect
  <2> QED BY <1>16, <2>3
<1>18. CutAt(s, k, H) <=> cut
  BY <1>10, <1>15 DEF CutAt, RB
<1>19. CutAt(s1, ":", H) <=> cut
  BY <1>16 DEF CutAt
<1>20. Rest(p2, H) = IF cut THEN a ELSE Append(Append(a, k), ":")
  BY <1>1, <1>9, <1>13, <1>18, <1>19
<1>21. Scan(p2).at = "value"
  BY <1>17 DEF s2
<1>22. /\ TooDeep(v) => Scan(p2 \o v).at = "malformed"
       /\ ~TooDeep(v) =>
            /\ Scan(p2 \o v).at = "next" /\ Grown(Scan(p2), Scan(p2 \o v), v[1])
            /\ Rest(p2 \o v, H) =
                 IF Len(Scan(p2).ms) + 1 \in H THEN Rest(p2, H) ELSE Rest(p2, H) \o v
  BY <1>2, <1>11, <1>21, WholeValue
<1>23. Len(Scan(p2).ms) + 1 \in H <=> cut
  BY <1>17 DEF s2
<1> HIDE DEF cut
<1>24. ASSUME ~TooDeep(v) PROVE Rest(q, H) = IF cut THEN a ELSE a \o Text(m)
  BY <1>6, <1>7, <1>20, <1>22, <1>23, <1>24
<1>25. ASSUME ~TooDeep(v)
       PROVE  \E r \in Spans : /\ Scan(q).ms = Append(s.ms, r)
                               /\ r.key = k /\ r.value = v[1]
  BY <1>6, <1>17, <1>22, <1>25 DEF Grown, s2
<1> QED BY <1>6, <1>22, <1>24, <1>25 DEF k, v, q, a, s, cut
-----------------------------------------------------------------------------
(* The members the scan has found are those that were written.             *)
Found(sp, ms) ==
  /\ Len(sp) = Len(ms)
  /\ \A i \in 1 .. Len(ms) : sp[i].key = ms[i].key /\ sp[i].value = ms[i].value[1]

(* One member more.                                                        *)
LEMMA FoundAppend ==
  ASSUME NEW sp \in Seq(Spans), NEW ms \in Seq(Entries), Found(sp, ms),
         NEW r \in Spans, NEW m \in Entries, r.key = m.key, r.value = m.value[1]
  PROVE  Found(Append(sp, r), Append(ms, m))
<1> DEFINE n == Len(ms)
           e == Append(sp, r)
           f == Append(ms, m)
<1>1. n \in Nat /\ Len(sp) = n
  BY DEF Found
<1>2. \A i \in 1 .. n : sp[i].key = ms[i].key /\ sp[i].value = ms[i].value[1]
  BY DEF Found
<1>3. Len(e) = n + 1 /\ e[n + 1] = r /\ \A k \in 1 .. n : e[k] = sp[k]
  BY <1>1, AppendIs
<1>4. Len(f) = n + 1 /\ f[n + 1] = m /\ \A k \in 1 .. n : f[k] = ms[k]
  BY AppendIs
<1> HIDE DEF n, e, f
<1>5. \A k \in 1 .. n + 1 : k \in 1 .. n \/ k = n + 1
  BY <1>1
<1>6. \A k \in 1 .. n + 1 : e[k].key = f[k].key /\ e[k].value = f[k].value[1]
  BY <1>2, <1>3, <1>4, <1>5
<1> QED BY <1>3, <1>4, <1>6 DEF Found, e, f

(* The members that are left.                                              *)
Without(ms, H) == Pick(ms, {i \in DOMAIN ms : i \notin H})

(* One member more.                                                        *)
LEMMA WithoutAppend ==
  ASSUME NEW ms \in Seq(Entries), NEW m \in Entries, NEW H
  PROVE  Without(Append(ms, m), H) =
           IF Len(ms) + 1 \in H THEN Without(ms, H) ELSE Append(Without(ms, H), m)
<1> DEFINE c == Append(ms, m)
           n == Len(ms)
           K == {i \in DOMAIN ms : i \notin H}
           L == {i \in DOMAIN c : i \notin H}
<1>1. n \in Nat /\ DOMAIN ms = 1 .. n /\ DOMAIN c = 1 .. n + 1
  OBVIOUS
<1>2. Pick(c, L) = IF n + 1 \in L THEN Append(Pick(ms, L), m) ELSE Pick(ms, L)
  BY PickAppend
<1> HIDE DEF c
<1>3. n + 1 \in L <=> n + 1 \notin H
  BY <1>1
<1>4. \A i \in 1 .. n : i \in K <=> i \in L
  BY <1>1
<1> HIDE DEF K, L
<1>5. Pick(ms, K) = Pick(ms, L)
  BY <1>4, PickAgree DEF n
<1> QED BY <1>2, <1>3, <1>5 DEF Without, c, K, L

(* The members that are left are members, and none if all are in H.        *)
LEMMA WithoutIs ==
  ASSUME NEW ms \in Seq(Entries), NEW H
  PROVE  /\ Without(ms, H) \in Seq(Entries)
         /\ Len(ms) = 0 => Without(ms, H) = <<>>
         /\ Len(Without(ms, H)) = 0 <=> 1 .. Len(ms) \subseteq H
<1> DEFINE G(d) == Len(Without(d, H)) = 0 <=> 1 .. Len(d) \subseteq H
           T == {n \in Nat : \A d \in Seq(Entries) : Len(d) = n => G(d)}
<1>1. \A d \in Seq(Entries) : Without(d, H) \in Seq(Entries)
  BY PickType DEF Without
<1>2. \A d \in Seq(Entries) : Len(d) = 0 => Without(d, H) = <<>>
  BY PickEmpty DEF Without
<1>3. 0 \in T
  <2>1. ASSUME NEW d \in Seq(Entries), Len(d) = 0 PROVE G(d)
    <3>1. Without(d, H) = <<>>
      BY <1>2, <2>1
    <3>2. Len(<<>>) = 0 /\ 1 .. 0 = {}
      OBVIOUS
    <3>3. 1 .. Len(d) \subseteq H
      BY <2>1, <3>2
    <3> QED BY <3>1, <3>2, <3>3
  <2> QED BY <2>1
<1>4. ASSUME NEW n \in Nat, n \in T PROVE n + 1 \in T
  <2>1. ASSUME NEW d \in Seq(Entries), Len(d) = n + 1 PROVE G(d)
    <3>1. PICK e \in Seq(Entries), x \in Entries : d = Append(e, x) /\ Len(e) = n
      BY <2>1, SplitLast
    <3>2. Len(Without(e, H)) = 0 <=> 1 .. n \subseteq H
      BY <1>4, <3>1
    <3>3. Without(d, H) = IF n + 1 \in H THEN Without(e, H) ELSE Append(Without(e, H), x)
      BY <3>1, WithoutAppend
    <3>4. Len(Append(Without(e, H), x)) # 0
      <4> DEFINE w == Without(e, H)
      <4>1. w \in Seq(Entries)
        BY <1>1
      <4> HIDE DEF w
      <4>2. Len(Append(w, x)) = Len(w) + 1 /\ Len(w) \in Nat
        BY <4>1, AppendIs
      <4>3. Len(Append(w, x)) # 0
        BY <4>2
      <4> QED BY <4>3 DEF w
    <3>5. 1 .. n + 1 \subseteq H <=> 1 .. n \subseteq H /\ n + 1 \in H
      <4>1. 1 .. n + 1 = 1 .. n \cup {n + 1}
        OBVIOUS
      <4> QED BY <4>1, Zenon
    <3>6. CASE n + 1 \in H
      BY <2>1, <3>2, <3>3, <3>5, <3>6
    <3>7. CASE n + 1 \notin H
      BY <2>1, <3>3, <3>4, <3>5, <3>7
    <3> QED BY <3>6, <3>7
  <2> QED BY <2>1
<1> HIDE DEF T
<1>5. \A n \in Nat : n \in T
  BY <1>3, <1>4, InductionNat
<1>6. Len(ms) \in T
  <2>1. Len(ms) \in Nat
    OBVIOUS
  <2> QED BY <1>5, <2>1
<1> QED BY <1>1, <1>2, <1>6 DEF T
-----------------------------------------------------------------------------
(* Nothing heals a malformed text.                                         *)
LEMMA MalformedStays ==
  ASSUME NEW p \in Seq(Lexemes), Scan(p).at = "malformed", NEW q \in Seq(Lexemes)
  PROVE  Scan(p \o q).at = "malformed"
<1> DEFINE T == {n \in Nat : \A d \in Seq(Lexemes) : Len(d) = n => Scan(p \o d).at = "malformed"}
<1>1. 0 \in T
  <2>1. ASSUME NEW d \in Seq(Lexemes), Len(d) = 0 PROVE Scan(p \o d).at = "malformed"
    <3>1. d = <<>> /\ p \o <<>> = p
      BY <2>1, EmptyStack
    <3> QED BY <3>1
  <2> QED BY <2>1
<1>2. ASSUME NEW n \in Nat, n \in T PROVE n + 1 \in T
  <2>1. ASSUME NEW d \in Seq(Lexemes), Len(d) = n + 1 PROVE Scan(p \o d).at = "malformed"
    <3>1. PICK e \in Seq(Lexemes), x \in Lexemes : d = Append(e, x) /\ Len(e) = n
      BY <2>1, SplitLast
    <3> DEFINE c == p \o e
    <3>2. c \in Seq(Lexemes) /\ p \o Append(e, x) = Append(c, x)
      BY ConcatAppend
    <3>3. Scan(c).at = "malformed"
      BY <1>2, <3>1
    <3> HIDE DEF c
    <3>4. Scan(Append(c, x)) = ScanStep(Scan(c), x, Len(c) + 1)
      BY <3>2, ScanAppend
    <3>5. Scan(c) \in ScanStates
      BY <3>2, ScanType
    <3>6. ScanStep(Scan(c), x, Len(c) + 1) = Scan(c)
      BY <3>3, <3>5, StepDone
    <3> QED BY <3>1, <3>2, <3>3, <3>4, <3>6
  <2> QED BY <2>1
<1> HIDE DEF T
<1>3. \A n \in Nat : n \in T
  BY <1>1, <1>2, InductionNat
<1>4. Len(q) \in T
  <2>1. Len(q) \in Nat
    OBVIOUS
  <2> QED BY <1>3, <2>1
<1> QED BY <1>4 DEF T
-----------------------------------------------------------------------------
(* What the scan makes of an object, up to its last brace.                 *)
SomeDeep(ms) == \E i \in 1 .. Len(ms) : TooDeep(ms[i].value)

Scanned(ms, H) ==
  /\ Scan(Pre(ms)).at = IF Len(ms) = 0 THEN "first" ELSE "next"
  /\ Found(Scan(Pre(ms)).ms, ms)
  /\ Rest(Pre(ms), H) = Pre(Without(ms, H))

(* SomeDeep, by the last member.                                           *)
LEMMA SomeDeepAppend ==
  ASSUME NEW ms \in Seq(Entries), NEW m \in Entries
  PROVE  SomeDeep(Append(ms, m)) <=> SomeDeep(ms) \/ TooDeep(m.value)
<1> DEFINE n == Len(ms)
           f == Append(ms, m)
           D(e) == TooDeep(e.value)
<1>1. n \in Nat /\ Len(f) = n + 1 /\ f[n + 1] = m /\ \A k \in 1 .. n : f[k] = ms[k]
  BY AppendIs
<1> HIDE DEF n, f, D
<1>2. 1 .. n + 1 = 1 .. n \cup {n + 1}
  BY <1>1
<1>3. (\E i \in 1 .. n + 1 : D(f[i])) <=> (\E i \in 1 .. n : D(ms[i])) \/ D(m)
  BY <1>1, <1>2
<1> QED BY <1>1, <1>3 DEF SomeDeep, n, f, D

(* The comma in front of a member.                                         *)
LEMMA SepScan ==
  ASSUME NEW ms \in Seq(Entries), NEW H, Scanned(ms, H)
  PROVE  LET p == Pre(ms)
             ps == p \o Sep(ms)
             kept == Without(ms, H)
         IN /\ ps \in Seq(Lexemes)
            /\ Scan(ps).at \in {"first", "key"} /\ Scan(ps).ms = Scan(p).ms
            /\ Len(ms) + 1 \in H => Rest(ps, H) = Rest(p, H)
            /\ Len(ms) + 1 \notin H => Rest(ps, H) = Pre(kept) \o Sep(kept)
<1> DEFINE p == Pre(ms)
           ps == p \o Sep(ms)
           kept == Without(ms, H)
           n == Len(ms)
           s == Scan(p)
<1>1. p \in Seq(Lexemes)
  BY ObjectIs
<1>2. kept \in Seq(Entries) /\ (n = 0 => kept = <<>>) /\ (Len(kept) = 0 <=> 1 .. n \subseteq H)
  BY WithoutIs
<1>3. Pre(kept) \in Seq(Lexemes)
  BY <1>2, ObjectIs
<1>4. Rest(p, H) = Pre(kept) /\ s.at = (IF n = 0 THEN "first" ELSE "next") /\ Len(s.ms) = n
  BY DEF Scanned, Found
<1>5. s \in ScanStates
  BY <1>1, ScanType
<1>6. CM \in Lexemes /\ CM # "sp" /\ CM # RB
  BY Marks
<1> DEFINE a == Pre(kept)
<1> HIDE DEF p, kept, n, s, a
<1>7. CASE n = 0
  <2>1. Sep(ms) = <<>> /\ Sep(kept) = <<>>
    <3>1. Len(<<>>) = 0
      OBVIOUS
    <3> QED BY <1>2, <1>7, <3>1 DEF Sep, n
  <2>2. ps = p
    BY <1>1, <2>1, EmptyStack
  <2>3. a \o Sep(kept) = a
    BY <1>3, <2>1, EmptyStack DEF a
  <2> HIDE DEF ps
  <2>4. /\ ps \in Seq(Lexemes)
        /\ Scan(ps).at \in {"first", "key"} /\ Scan(ps).ms = Scan(p).ms
        /\ Rest(ps, H) = Rest(p, H) /\ Rest(ps, H) = a \o Sep(kept)
    BY <1>1, <1>4, <1>7, <2>2, <2>3 DEF s, a
  <2> QED BY <2>4 DEF p, ps, kept, n, a
<1>8. CASE n # 0
  <2>1. Sep(ms) = <<CM>>
    BY <1>8 DEF Sep, n
  <2>2. ps = Append(p, CM)
    BY <1>1, <1>6, <2>1
  <2>3. Append(p, CM) \in Seq(Lexemes)
    BY <1>1, <1>6, AppendIs
  <2>4. Scan(Append(p, CM)) = ScanStep(s, CM, Len(p) + 1) /\ Len(p) + 1 \in Nat
    BY <1>1, <1>6, ScanAppend DEF s
  <2>5. Rest(Append(p, CM), H) =
          IF CM = "sp" \/ CutAt(s, CM, H) THEN Rest(p, H) ELSE Append(Rest(p, H), CM)
    BY <1>1, <1>6, RestAppend DEF s
  <2> HIDE DEF ps
  <2> DEFINE t == Scan(ps)
  <2>6. t.at = "key" /\ t.ms = s.ms
    <3>1. Effect(s, CM, Len(p) + 1, ScanStep(s, CM, Len(p) + 1))
      BY <1>5, <1>6, <2>4, ScanEffect
    <3>2. t = ScanStep(s, CM, Len(p) + 1)
      BY <2>2, <2>4
    <3> HIDE DEF t
    <3>3. Effect(s, CM, Len(p) + 1, t)
      BY <3>1, <3>2
    <3>4. s.at = "next"
      BY <1>4, <1>8
    <3> QED BY <3>3, <3>4, Zenon DEF Effect
  <2>7. CutAt(s, CM, H) <=> 1 .. n \subseteq H \/ n + 1 \in H
    <3>1. s.at = "next" /\ Len(s.ms) = n
      BY <1>4, <1>8
    <3> QED BY <3>1 DEF CutAt, CM
  <2>8. Rest(ps, H) = IF 1 .. n \subseteq H \/ n + 1 \in H THEN a ELSE Append(a, CM)
    BY <1>4, <1>6, <2>2, <2>5, <2>7 DEF a
  <2>9. a \o Sep(kept) = IF 1 .. n \subseteq H THEN a ELSE Append(a, CM)
    <3>1. CASE 1 .. n \subseteq H
      <4>1. Sep(kept) = <<>>
        BY <1>2, <3>1 DEF Sep
      <4> QED BY <1>3, <3>1, <4>1, EmptyStack DEF a
    <3>2. CASE ~(1 .. n \subseteq H)
      <4>1. Sep(kept) = <<CM>>
        BY <1>2, <3>2 DEF Sep
      <4>2. a \in Seq(Lexemes)
        BY <1>3 DEF a
      <4>3. a \o <<CM>> = Append(a, CM)
        BY <1>6, <4>2
      <4> QED BY <3>2, <4>1, <4>3
    <3> QED BY <3>1, <3>2
  <2>10. /\ ps \in Seq(Lexemes)
         /\ Scan(ps).at \in {"first", "key"} /\ Scan(ps).ms = Scan(p).ms
         /\ n + 1 \in H => Rest(ps, H) = Rest(p, H)
         /\ n + 1 \notin H => Rest(ps, H) = a \o Sep(kept)
    BY <1>4, <2>2, <2>3, <2>6, <2>8, <2>9 DEF s, a
  <2> QED BY <2>10 DEF p, ps, kept, n, a
<1> QED BY <1>7, <1>8

(* One member more.                                                        *)
LEMMA ScannedAppend ==
  ASSUME NEW ms \in Seq(Entries), NEW m \in Entries, NEW H, Scanned(ms, H)
  PROVE  /\ TooDeep(m.value) => Scan(Pre(Append(ms, m))).at = "malformed"
         /\ ~TooDeep(m.value) => Scanned(Append(ms, m), H)
<1> DEFINE f == Append(ms, m)
           p == Pre(ms)
           ps == p \o Sep(ms)
           kept == Without(ms, H)
           n == Len(ms)
           q == ps \o Text(m)
           cut == n + 1 \in H
<1>1. Pre(f) = q
  BY PreAppend
<1>2. /\ ps \in Seq(Lexemes)
      /\ Scan(ps).at \in {"first", "key"} /\ Scan(ps).ms = Scan(p).ms
      /\ cut => Rest(ps, H) = Rest(p, H)
      /\ ~cut => Rest(ps, H) = Pre(kept) \o Sep(kept)
  BY SepScan
<1>3. Rest(p, H) = Pre(kept) /\ Found(Scan(p).ms, ms) /\ Len(Scan(p).ms) = n
  BY DEF Scanned, Found
<1>4. p \in Seq(Lexemes)
  BY ObjectIs
<1>5. Scan(p) \in ScanStates
  BY <1>4, ScanType
<1>6. kept \in Seq(Entries)
  BY WithoutIs
<1>7. Without(f, H) = IF cut THEN kept ELSE Append(kept, m)
  BY WithoutAppend
<1> HIDE DEF kept
<1>8. Pre(Append(kept, m)) = (Pre(kept) \o Sep(kept)) \o Text(m)
  BY <1>6, PreAppend
<1>9. Len(f) # 0 /\ n \in Nat
  <2>1. Len(f) = n + 1 /\ n \in Nat
    BY AppendIs
  <2> HIDE DEF f
  <2> QED BY <2>1
<1> HIDE DEF ps
<1>10. ps \in Seq(Lexemes)
  BY <1>2
<1>11. Scan(ps).at \in {"first", "key"}
  BY <1>2
<1>12. /\ TooDeep(m.value) => Scan(q).at = "malformed"
       /\ ~TooDeep(m.value) =>
            /\ Scan(q).at = "next"
            /\ \E r \in Spans : /\ Scan(q).ms = Append(Scan(ps).ms, r)
                                /\ r.key = m.key /\ r.value = m.value[1]
            /\ Rest(q, H) = IF Len(Scan(ps).ms) + 1 \in H THEN Rest(ps, H)
                            ELSE Rest(ps, H) \o Text(m)
  BY <1>10, <1>11, MemberScan
<1> HIDE DEF q, p, f
<1>13. ASSUME ~TooDeep(m.value) PROVE Scanned(f, H)
  <2>1. Scan(q).at = "next"
    BY <1>12, <1>13
  <2>2. PICK r \in Spans : /\ Scan(q).ms = Append(Scan(ps).ms, r)
                           /\ r.key = m.key /\ r.value = m.value[1]
    BY <1>12, <1>13
  <2>3. Found(Scan(q).ms, f)
    <3>1. Scan(p).ms \in Seq(Spans)
      BY <1>5, ScanEnds
    <3>2. Found(Append(Scan(p).ms, r), Append(ms, m))
      BY <1>3, <2>2, <3>1, FoundAppend
    <3> QED BY <1>2, <2>2, <3>2 DEF f
  <2>4. Len(Scan(ps).ms) = n
    BY <1>2, <1>3
  <2>5. Rest(q, H) = IF cut THEN Rest(ps, H) ELSE Rest(ps, H) \o Text(m)
    BY <1>12, <1>13, <2>4
  <2> HIDE DEF cut
  <2>6. Rest(q, H) = Pre(Without(f, H))
    <3>1. CASE cut
      BY <1>2, <1>3, <1>7, <2>5, <3>1
    <3>2. CASE ~cut
      BY <1>2, <1>7, <1>8, <2>5, <3>2
    <3> QED BY <3>1, <3>2
  <2> QED BY <1>1, <1>9, <2>1, <2>3, <2>6 DEF Scanned
<1> QED BY <1>1, <1>12, <1>13 DEF f
-----------------------------------------------------------------------------
(* The scan of an object up to its last brace, for any number of members.  *)
LEMMA PreScan ==
  ASSUME NEW ms \in Seq(Entries), NEW H
  PROVE  IF SomeDeep(ms) THEN Scan(Pre(ms)).at = "malformed" ELSE Scanned(ms, H)
<1> DEFINE G(d) == IF SomeDeep(d) THEN Scan(Pre(d)).at = "malformed" ELSE Scanned(d, H)
           T == {n \in Nat : \A d \in Seq(Entries) : Len(d) = n => G(d)}
<1>1. 0 \in T
  <2>1. ASSUME NEW d \in Seq(Entries), Len(d) = 0 PROVE G(d)
    <3>1. ~SomeDeep(d)
      BY <2>1 DEF SomeDeep
    <3>2. Pre(d) = <<LB>> /\ <<LB>> = Append(<<>>, LB) /\ <<>> \in Seq(Lexemes) /\ Len(<<>>) = 0
      <4>1. Pre(d) = <<LB>>
        BY <2>1, PreEmpty
      <4>2. <<LB>> = Append(<<>>, LB) /\ <<>> \in Seq(Lexemes) /\ Len(<<>>) = 0
        OBVIOUS
      <4> QED BY <4>1, <4>2
    <3>3. LB \in Lexemes /\ LB # "sp"
      BY Marks
    <3>4. Scan(<<>>) = ScanStart /\ ScanStart \in ScanStates /\ ScanStart.at = "start"
      BY ScanEmpty, ScanStartType DEF ScanStart
    <3> DEFINE s == ScanStart
               e == <<>>
               t == Scan(Append(e, LB))
    <3>5. t = ScanStep(Scan(e), LB, Len(e) + 1) /\ Len(e) + 1 \in Nat
      <4>1. e \in Seq(Lexemes)
        BY <3>2
      <4>2. Len(e) + 1 \in Nat
        BY <3>2
      <4> HIDE DEF e
      <4> QED BY <3>3, <4>1, <4>2, ScanAppend
    <3>6. Rest(Append(e, LB), H) =
            IF LB = "sp" \/ CutAt(Scan(e), LB, H) THEN Rest(e, H) ELSE Append(Rest(e, H), LB)
      BY <3>2, <3>3, RestAppend
    <3>7. Rest(e, H) = e
      BY RestEmpty
    <3> HIDE DEF s, e, t
    <3>8. Scan(e) = s /\ s \in ScanStates /\ s.at = "start"
      BY <3>4 DEF s, e
    <3>9. Effect(s, LB, Len(e) + 1, t)
      BY <3>3, <3>5, <3>8, ScanEffect
    <3>10. t.at = "first" /\ t.ms = s.ms
      BY <3>8, <3>9, Zenon DEF Effect
    <3>11. ~CutAt(s, LB, H)
      BY <3>8 DEF CutAt
    <3>12. Rest(Append(e, LB), H) = Append(e, LB)
      BY <3>3, <3>6, <3>7, <3>8, <3>11
    <3>13. Pre(d) = Append(e, LB)
      BY <3>2 DEF e
    <3>14. Found(t.ms, d)
      <4>1. Len(s.ms) = 0
        BY <3>8, ScanStateIs
      <4> QED BY <2>1, <3>10, <4>1 DEF Found
    <3>15. Pre(Without(d, H)) = Pre(d)
      <4>1. Without(d, H) \in Seq(Entries) /\ Without(d, H) = <<>>
        BY <2>1, WithoutIs
      <4>2. Pre(Without(d, H)) = <<LB>>
        BY <3>2, <4>1, PreEmpty
      <4> QED BY <3>2, <4>2
    <3>16. Scanned(d, H)
      BY <2>1, <3>10, <3>12, <3>13, <3>14, <3>15 DEF Scanned, t
    <3> QED BY <3>1, <3>16
  <2> QED BY <2>1
<1>2. ASSUME NEW n \in Nat, n \in T PROVE n + 1 \in T
  <2>1. ASSUME NEW d \in Seq(Entries), Len(d) = n + 1 PROVE G(d)
    <3>1. PICK c \in Seq(Entries), m \in Entries : d = Append(c, m) /\ Len(c) = n
      BY <2>1, SplitLast
    <3>2. G(c)
      BY <1>2, <3>1
    <3>3. SomeDeep(d) <=> SomeDeep(c) \/ TooDeep(m.value)
      BY <3>1, SomeDeepAppend
    <3>4. CASE SomeDeep(c)
      <4> DEFINE p == Pre(c)
                 q == Sep(c) \o Text(m)
      <4>1. Scan(p).at = "malformed"
        BY <3>2, <3>4
      <4>2. p \in Seq(Solid) /\ Sep(c) \in Seq(Solid) /\ Text(m) \in Seq(Solid)
        BY ObjectIs, SepType, TextIs
      <4>3. Pre(d) = (p \o Sep(c)) \o Text(m)
        BY <3>1, PreAppend
      <4> HIDE DEF p
      <4>4. q \in Seq(Solid) /\ Pre(d) = p \o q
        BY <4>2, <4>3, ConcatAssoc, ConcatIs, SMTT(30)
      <4> HIDE DEF q
      <4>5. p \in Seq(Lexemes) /\ q \in Seq(Lexemes)
        BY <4>2, <4>4, SolidLexemes
      <4>6. Scan(p \o q).at = "malformed"
        BY <4>1, <4>5, MalformedStays
      <4> QED BY <3>3, <3>4, <4>4, <4>6
    <3>5. CASE ~SomeDeep(c)
      <4>1. Scanned(c, H)
        BY <3>2, <3>5
      <4>2. /\ TooDeep(m.value) => Scan(Pre(d)).at = "malformed"
            /\ ~TooDeep(m.value) => Scanned(d, H)
        BY <3>1, <4>1, ScannedAppend
      <4> QED BY <3>3, <3>5, <4>2
    <3> QED BY <3>4, <3>5
  <2> QED BY <2>1
<1> HIDE DEF T
<1>3. \A n \in Nat : n \in T
  BY <1>1, <1>2, InductionNat
<1>4. Len(ms) \in T
  <2>1. Len(ms) \in Nat
    OBVIOUS
  <2> QED BY <1>3, <2>1
<1> QED BY <1>4 DEF T

(* The scan of an object: nothing but its depth can go wrong, the members  *)
(* are found, and cutting some out leaves the object of the others.        *)
LEMMA ObjectScan ==
  ASSUME NEW ms \in Seq(Entries), NEW H
  PROVE  /\ SomeDeep(ms) => Scan(Object(ms)).at = "malformed"
         /\ ~SomeDeep(ms) =>
              /\ Scan(Object(ms)).at = IF Len(ms) = 0 THEN "empty" ELSE "done"
              /\ Found(Scan(Object(ms)).ms, ms)
              /\ Rest(Object(ms), H) = Object(Without(ms, H))
<1> DEFINE p == Pre(ms)
           s == Scan(p)
           t == Scan(Append(p, RB))
           i == Len(p) + 1
<1>1. p \in Seq(Lexemes) /\ Object(ms) = Append(p, RB)
  BY ObjectIs
<1>2. RB \in Lexemes /\ RB # "sp" /\ CM # RB
  BY Marks
<1>3. Without(ms, H) \in Seq(Entries)
  BY WithoutIs
<1>4. Object(Without(ms, H)) = Append(Pre(Without(ms, H)), RB)
  BY <1>3, ObjectIs
<1>5. IF SomeDeep(ms) THEN s.at = "malformed" ELSE Scanned(ms, H)
  BY PreScan
<1> HIDE DEF p
<1>6. t = ScanStep(s, RB, i) /\ i \in Nat
  BY <1>1, <1>2, ScanAppend
<1>7. Rest(Append(p, RB), H) =
        IF RB = "sp" \/ CutAt(s, RB, H) THEN Rest(p, H) ELSE Append(Rest(p, H), RB)
  BY <1>1, <1>2, RestAppend
<1>8. s \in ScanStates
  BY <1>1, ScanType
<1> HIDE DEF s, t, i
<1>9. Effect(s, RB, i, t)
  BY <1>2, <1>6, <1>8, ScanEffect
<1>10. CASE SomeDeep(ms)
  <2>1. s.at = "malformed"
    BY <1>5, <1>10
  <2>2. t = s
    BY <1>9, <2>1, Zenon DEF Effect
  <2> QED BY <1>1, <1>10, <2>1, <2>2 DEF t
<1>11. CASE ~SomeDeep(ms)
  <2>1. Scanned(ms, H)
    BY <1>5, <1>11
  <2>2. /\ s.at = (IF Len(ms) = 0 THEN "first" ELSE "next")
        /\ Found(s.ms, ms) /\ Rest(p, H) = Pre(Without(ms, H))
    BY <2>1 DEF Scanned, s, p
  <2>3. t.at = (IF Len(ms) = 0 THEN "empty" ELSE "done") /\ t.ms = s.ms
    <3>1. CASE Len(ms) = 0
      <4>1. s.at = "first"
        BY <2>2, <3>1
      <4>2. t.at = "empty" /\ t.ms = s.ms
        BY <1>9, <4>1, Zenon DEF Effect
      <4> QED BY <3>1, <4>2
    <3>2. CASE Len(ms) # 0
      <4>1. s.at = "next"
        BY <2>2, <3>2
      <4>2. t.ms = s.ms /\ t.at = IF RB = CM THEN "key" ELSE IF RB = RB THEN "done" ELSE "malformed"
        BY <1>9, <4>1, Zenon DEF Effect
      <4>3. t.at = "done"
        BY <1>2, <4>2
      <4> QED BY <3>2, <4>2, <4>3
    <3> QED BY <3>1, <3>2
  <2>4. ~CutAt(s, RB, H)
    BY <1>2, <2>2 DEF CutAt, RB
  <2>5. Rest(Append(p, RB), H) = Append(Pre(Without(ms, H)), RB)
    BY <1>2, <1>7, <2>2, <2>4
  <2> QED BY <1>1, <1>4, <1>11, <2>2, <2>3, <2>5 DEF t
<1> QED BY <1>10, <1>11

(* The same with whitespace.                                               *)
LEMMA WrittenScan ==
  ASSUME NEW ms \in Seq(Entries), NEW H, NEW b \in Seq(Lexemes), Compact(b) = Object(ms)
  PROVE  /\ SomeDeep(ms) => Scan(b).at = "malformed"
         /\ ~SomeDeep(ms) =>
              /\ Scan(b).at = IF Len(ms) = 0 THEN "empty" ELSE "done"
              /\ Found(Scan(b).ms, ms)
              /\ Rest(b, H) = Object(Without(ms, H))
<1> DEFINE s == Scan(b)
           t == Scan(Object(ms))
<1>1. Alike(s, t) /\ Rest(b, H) = Rest(Object(ms), H)
  BY CompactScan
<1>2. s.at = t.at /\ SameMembers(s.ms, t.ms)
  BY <1>1 DEF Alike
<1>3. /\ SomeDeep(ms) => t.at = "malformed"
      /\ ~SomeDeep(ms) => /\ t.at = IF Len(ms) = 0 THEN "empty" ELSE "done"
                          /\ Found(t.ms, ms)
                          /\ Rest(Object(ms), H) = Object(Without(ms, H))
  BY ObjectScan
<1> HIDE DEF s, t
<1>4. Found(t.ms, ms) => Found(s.ms, ms)
  <2>1. SUFFICES ASSUME Found(t.ms, ms) PROVE Found(s.ms, ms)
    OBVIOUS
  <2> DEFINE a == s.ms
             c == t.ms
  <2>2. /\ Len(a) = Len(c) /\ Len(c) = Len(ms)
        /\ \A k \in 1 .. Len(a) : a[k].key = c[k].key /\ a[k].value = c[k].value
        /\ \A k \in 1 .. Len(ms) : c[k].key = ms[k].key /\ c[k].value = ms[k].value[1]
    BY <1>2, <2>1 DEF SameMembers, Found
  <2> HIDE DEF a, c
  <2>3. Found(a, ms)
    BY <2>2 DEF Found
  <2> QED BY <2>3 DEF a
<1> QED BY <1>1, <1>2, <1>3, <1>4 DEF s
-----------------------------------------------------------------------------
(* Picking everything changes nothing.                                     *)
LEMMA PickAll ==
  ASSUME NEW S, NEW b \in Seq(S), NEW K, \A i \in 1 .. Len(b) : i \in K
  PROVE  Pick(b, K) = b
<1> DEFINE P(d) == \A i \in 1 .. Len(d) : i \in K
           T == {n \in Nat : \A d \in Seq(S) : Len(d) = n /\ P(d) => Pick(d, K) = d}
<1>1. 0 \in T
  <2>1. ASSUME NEW d \in Seq(S), Len(d) = 0 PROVE Pick(d, K) = d
    <3>1. d = <<>>
      BY <2>1, EmptyStack
    <3>2. Pick(d, K) = <<>>
      BY <2>1, PickEmpty
    <3> QED BY <3>1, <3>2
  <2> QED BY <2>1
<1>2. ASSUME NEW n \in Nat, n \in T PROVE n + 1 \in T
  <2>1. ASSUME NEW d \in Seq(S), Len(d) = n + 1, P(d) PROVE Pick(d, K) = d
    <3>1. PICK e \in Seq(S), x \in S : d = Append(e, x) /\ Len(e) = n
      BY <2>1, SplitLast, SMTT(30)
    <3>2. P(e) /\ n + 1 \in K
      BY <2>1, <3>1
    <3>3. Pick(e, K) = e
      BY <1>2, <3>1, <3>2
    <3>4. Pick(d, K) = IF n + 1 \in K THEN Append(Pick(e, K), x) ELSE Pick(e, K)
      BY <3>1, PickAppend
    <3> QED BY <3>1, <3>2, <3>3, <3>4
  <2> QED BY <2>1
<1> HIDE DEF T
<1>3. \A n \in Nat : n \in T
  BY <1>1, <1>2, InductionNat
<1>4. Len(b) \in T
  <2>1. Len(b) \in Nat
    OBVIOUS
  <2> QED BY <1>3, <2>1
<1> QED BY <1>4 DEF T

(* A valid value that begins with a string is a JSON string.               *)
LEMMA FirstOfValue ==
  ASSUME NEW v \in Seq(Solid), Parses(v)
  PROVE  /\ v # <<>> /\ v[1] \in Lexemes
         /\ v[1] \in Unquotes <=> v[1] \in Strings
<1> DEFINE j == JsonEnd(JsonStart, v)
           x == v[1]
           t == SubSeq(v, 2, Len(v))
<1>1. j.at = "end"
  BY DEF Parses
<1>2. v # <<>>
  <2>1. SUFFICES ASSUME v = <<>> PROVE FALSE
    OBVIOUS
  <2>2. j = JsonStart
    BY <2>1, JsonStartType, JsonEndEmpty
  <2> QED BY <1>1, <2>2, JsonFields DEF JsonStart
<1>3. Len(v) \in Nat /\ Len(v) > 0
  BY <1>2, EmptyStack
<1>4. x \in Solid
  BY <1>3
<1>5. x \in Lexemes /\ x # "sp"
  BY <1>4, SolidLexemes
<1>6. v = <<x>> \o t /\ t \in Seq(Solid)
  BY <1>2, SplitFirst
<1> HIDE DEF t, x
<1>7. t \in Seq(Lexemes)
  BY <1>6, SolidLexemes
<1>8. j = JsonEnd(JsonStep(JsonStart, x), t)
  BY <1>5, <1>6, <1>7, JsonStartType, JsonEndCons
<1> HIDE DEF j
<1>9. JsonStep(JsonStart, x) \in JsonStates
  BY JsonStartType, JsonStepType
<1>10. JsonStep(JsonStart, x).at # "bad"
  BY <1>1, <1>7, <1>8, <1>9, JsonEnded
<1>11. x \in Unquotes \cup Scalars \/ x \in Openers
  BY <1>5, <1>10, JsonFirstStep
<1>12. x \in Unquotes <=> x \in Strings
  BY <1>11, Kinds
<1> QED BY <1>2, <1>5, <1>12 DEF x

(* The field that is reported is the one that was written last.            *)
LEMMA FieldWanted ==
  ASSUME written \in Seq(Entries), NEW sp, Found(sp, written), DOMAIN sp = 1 .. Len(written),
         NEW key
  PROVE  FieldValue(sp, key) = Wanted(key)
<1> DEFINE n == Len(written)
           given == {k \in DOMAIN sp : sp[k].key = key}
           wanted == {i \in DOMAIN written : written[i].key = key}
           k == Max(given)
<1>1. n \in Nat /\ DOMAIN written = 1 .. n /\ \A i \in 1 .. n : written[i] \in Entries
  OBVIOUS
<1>2. \A i \in 1 .. n : sp[i].key = written[i].key /\ sp[i].value = written[i].value[1]
  BY DEF Found
<1>3. given = wanted
  BY <1>1, <1>2
<1>4. CASE given = {}
  <2>1. FieldValue(sp, key) = "none"
    BY <1>4 DEF FieldValue
  <2>2. Wanted(key) = "none"
    BY <1>3, <1>4 DEF Wanted
  <2> QED BY <2>1, <2>2
<1>5. CASE given # {}
  <2>1. given \in SUBSET (0 .. n)
    BY <1>1
  <2>2. k \in given
    BY <1>1, <1>5, <2>1, MaxOf
  <2>3. k \in 1 .. n
    BY <1>1, <2>2
  <2>4. FieldValue(sp, key) = IF sp[k].value \in Unquotes THEN Decoded(sp[k].value) ELSE "bad"
    BY <1>5, Zenon DEF FieldValue, UnquoteJSONString
  <2>5. Max(wanted) = k
    BY <1>3
  <2> DEFINE value == written[Max(wanted)].value[1]
  <2>6. Wanted(key) = IF value \in Strings THEN Decoded(value) ELSE "bad"
    BY <1>3, <1>5, Zenon DEF Wanted
  <2> HIDE DEF k, wanted
  <2>7. value = sp[k].value
    BY <1>2, <2>3, <2>5
  <2>8. value \in Unquotes <=> value \in Strings
    <3> DEFINE m == written[k]
    <3>1. m \in Entries
      BY <1>1, <2>3
    <3> HIDE DEF m
    <3>2. m.value \in Seq(Solid) /\ Parses(m.value)
      BY <3>1, MemberIs
    <3> DEFINE v == m.value
    <3>3. v \in Seq(Solid) /\ Parses(v)
      BY <3>2
    <3> HIDE DEF v
    <3>4. v[1] \in Unquotes <=> v[1] \in Strings
      BY <3>3, FirstOfValue
    <3> QED BY <2>5, <3>4 DEF m, v
  <2> HIDE DEF value
  <2> QED BY <2>4, <2>6, <2>7, <2>8
<1> QED BY <1>4, <1>5
-----------------------------------------------------------------------------
(* What the scan has to report of what was written, when it refuses        *)
(* nothing.                                                                *)
Reported(f) ==
  /\ f.malformed = FALSE
  /\ f.project = Wanted("_project") /\ f.token = Wanted("_token")
  /\ f.body \in Seq(Lexemes) /\ Compact(f.body) = Object(Kept)

(* A sequence of two.                                                      *)
LEMMA PairIs ==
  ASSUME NEW S, NEW x \in S, NEW y \in S
  PROVE  Append(<<x>>, y) = <<x, y>>
<1> DEFINE o == <<x>>
           a == Append(o, y)
           c == <<x, y>>
<1>1. o \in Seq(S) /\ Len(o) = 1 /\ o[1] = x
  OBVIOUS
<1>2. c \in Seq(S) /\ Len(c) = 2 /\ c[1] = x /\ c[2] = y
  OBVIOUS
<1> HIDE DEF o, c
<1>3. a \in Seq(S) /\ Len(a) = 2 /\ a[1] = x /\ a[2] = y
  <2>1. /\ a \in Seq(S) /\ Len(a) = Len(o) + 1 /\ a[Len(o) + 1] = y
        /\ \A k \in 1 .. Len(o) : a[k] = o[k]
    <3>1. o \in Seq(S)
      BY <1>1
    <3> QED BY <3>1, AppendIs
  <2> HIDE DEF a
  <2>2. 1 \in 1 .. Len(o) /\ Len(o) + 1 = 2
    BY <1>1
  <2> QED BY <1>1, <2>1, <2>2
<1> HIDE DEF a
<1>4. \A k \in 1 .. Len(a) : a[k] = c[k]
  <2>1. SUFFICES ASSUME NEW k \in 1 .. Len(a) PROVE a[k] = c[k]
    OBVIOUS
  <2>2. k = 1 \/ k = 2
    BY <1>3
  <2> QED BY <1>2, <1>3, <2>2
<1>5. a = c
  BY <1>2, <1>3, <1>4, SameSeq
<1> QED BY <1>5 DEF a, c, o

(* Without a routing field, everything is kept.                            *)
LEMMA Unrouted ==
  ASSUME written \in Seq(Entries), \A i \in 1 .. Len(written) : written[i].key \notin RoutingKeys
  PROVE  Wanted("_project") = "none" /\ Wanted("_token") = "none" /\ Kept = written
<1>1. DOMAIN written = 1 .. Len(written)
  OBVIOUS
<1>2. "_project" \in RoutingKeys /\ "_token" \in RoutingKeys
  BY DEF RoutingKeys
<1>3. /\ {i \in DOMAIN written : written[i].key = "_project"} = {}
      /\ {i \in DOMAIN written : written[i].key = "_token"} = {}
  BY <1>1, <1>2
<1>4. Wanted("_project") = "none" /\ Wanted("_token") = "none"
  BY <1>3, Zenon DEF Wanted
<1> DEFINE K == {i \in DOMAIN written : written[i].key \notin RoutingKeys}
<1>5. \A i \in 1 .. Len(written) : i \in K
  BY <1>1
<1> HIDE DEF K
<1>6. Pick(written, K) = written
  BY <1>5, PickAll
<1> QED BY <1>4, <1>6 DEF Kept, K

(* What is reported of a text without routing fields.                      *)
LEMMA PlainText ==
  ASSUME written \in Seq(Entries), NEW b \in Seq(Lexemes), Compact(b) = Object(written),
         NEW f, f = Fields(b, FALSE, "none", "none"),
         \A i \in 1 .. Len(written) : written[i].key \notin RoutingKeys
  PROVE  Reported(f)
<1>1. f.body = b /\ f.malformed = FALSE /\ f.project = "none" /\ f.token = "none"
  BY DEF Fields
<1>2. Wanted("_project") = "none" /\ Wanted("_token") = "none" /\ Kept = written
  BY Unrouted
<1> QED BY <1>1, <1>2 DEF Reported

(* The members that are kept are those outside the hits.                   *)
LEMMA KeptIs ==
  ASSUME written \in Seq(Entries), NEW sp, Found(sp, written), DOMAIN sp = 1 .. Len(written)
  PROVE  /\ Kept = Without(written, Hits(sp))
         /\ \A i \in 1 .. Len(written) : i \in Hits(sp) <=> written[i].key \in RoutingKeys
<1> DEFINE K == {i \in DOMAIN written : written[i].key \notin RoutingKeys}
           L == {i \in DOMAIN written : i \notin Hits(sp)}
<1>1. DOMAIN written = 1 .. Len(written)
  OBVIOUS
<1>2. \A i \in 1 .. Len(written) : sp[i].key = written[i].key
  BY DEF Found
<1>3. \A i \in 1 .. Len(written) : i \in Hits(sp) <=> written[i].key \in RoutingKeys
  BY <1>2 DEF Hits
<1>4. \A i \in 1 .. Len(written) : i \in K <=> i \in L
  BY <1>1, <1>3
<1> HIDE DEF K, L
<1>5. Pick(written, K) = Pick(written, L)
  BY <1>4, PickAgree
<1> QED BY <1>3, <1>5 DEF Kept, Without, K, L

(* What is reported once the members were found.                           *)
LEMMA SplicedText ==
  ASSUME written \in Seq(Entries), NEW b \in Seq(Lexemes), Compact(b) = Object(written),
         Scan(b).at = "done", Tagged(b), Found(Scan(b).ms, written),
         Rest(b, Hits(Scan(b).ms)) = Object(Without(written, Hits(Scan(b).ms))),
         NEW f, f = ExtractAndStripRouting(b)
  PROVE  Reported(f)
<1> DEFINE ms == Scan(b).ms
           hits == Hits(ms)
           body == IF hits = DOMAIN ms THEN <<LB, RB>> ELSE Splice(b, ms, hits)
<1>1. Len(ms) = Len(written)
  BY DEF Found
<1>2. DOMAIN ms = 1 .. Len(written)
  BY <1>1, FoundMembers
<1>3. /\ Kept = Without(written, hits)
      /\ \A i \in 1 .. Len(written) : i \in hits <=> written[i].key \in RoutingKeys
  BY <1>2, KeptIs
<1>4. CASE hits = {}
  <2>1. f = Fields(b, FALSE, "none", "none")
    BY <1>4, Zenon DEF ExtractAndStripRouting
  <2>2. \A i \in 1 .. Len(written) : written[i].key \notin RoutingKeys
    <3> HIDE DEF hits
    <3> QED BY <1>3, <1>4
  <2> QED BY <2>1, <2>2, PlainText
<1>5. CASE hits # {}
  <2>1. f = Fields(body, FALSE, FieldValue(ms, "_project"), FieldValue(ms, "_token"))
    BY <1>5, Zenon DEF ExtractAndStripRouting, LB, RB
  <2>2. FieldValue(ms, "_project") = Wanted("_project")
    <3> DEFINE sp == ms
    <3>1. Found(sp, written) /\ DOMAIN sp = 1 .. Len(written)
      BY <1>2
    <3> HIDE DEF sp
    <3>2. FieldValue(sp, "_project") = Wanted("_project")
      BY <3>1, FieldWanted
    <3> QED BY <3>2 DEF sp
  <2>3. FieldValue(ms, "_token") = Wanted("_token")
    <3> DEFINE sp == ms
    <3>1. Found(sp, written) /\ DOMAIN sp = 1 .. Len(written)
      BY <1>2
    <3> HIDE DEF sp
    <3>2. FieldValue(sp, "_token") = Wanted("_token")
      BY <3>1, FieldWanted
    <3> QED BY <3>2 DEF sp
  <2>4. hits \in SUBSET DOMAIN ms
    BY DEF Hits
  <2>5. /\ body \in Seq(Lexemes) /\ Compact(body) = Object(Kept)
    <3>1. CASE hits = DOMAIN ms
      <4>1. body = <<LB, RB>>
        BY <3>1
      <4>2. 1 .. Len(written) \subseteq hits
        BY <1>2, <3>1
      <4> HIDE DEF hits
      <4>3. /\ Without(written, hits) \in Seq(Entries)
            /\ Len(Without(written, hits)) = 0 <=> 1 .. Len(written) \subseteq hits
        BY WithoutIs
      <4>4. Kept \in Seq(Entries) /\ Len(Kept) = 0
        BY <1>3, <4>2, <4>3
      <4>5. Pre(Kept) = <<LB>>
        BY <4>4, PreEmpty
      <4>6. /\ Object(Kept) = Append(Pre(Kept), RB)
            /\ Object(Kept) \in Seq(Solid) /\ Object(Kept) \in Seq(Lexemes)
        BY <4>4, ObjectIs
      <4>7. Append(<<LB>>, RB) = <<LB, RB>>
        BY SolidLexemes, PairIs
      <4>8. body = Object(Kept)
        BY <4>1, <4>5, <4>6, <4>7
      <4>9. Compact(Object(Kept)) = Object(Kept)
        BY <4>6, CompactSolid
      <4> HIDE DEF body
      <4> QED BY <4>6, <4>8, <4>9
    <3>2. CASE hits # DOMAIN ms
      <4>1. body = Splice(b, ms, hits)
        BY <3>2
      <4>2. Rest(b, hits) = Object(Kept)
        <5> HIDE DEF hits
        <5> QED BY <1>3 DEF hits
      <4>3. /\ Compact(Splice(b, ms, hits)) = Rest(b, hits)
            /\ Splice(b, ms, hits) \in Seq(Lexemes)
        <5> HIDE DEF hits
        <5> QED BY <2>4, SpliceRest
      <4> HIDE DEF body, hits, ms
      <4> QED BY <4>1, <4>2, <4>3
    <3> QED BY <3>1, <3>2
  <2> HIDE DEF body, hits, ms
  <2>6. /\ f.body = body /\ f.malformed = FALSE
        /\ f.project = FieldValue(ms, "_project") /\ f.token = FieldValue(ms, "_token")
    BY <2>1 DEF Fields
  <2> QED BY <2>2, <2>3, <2>5, <2>6 DEF Reported
<1> QED BY <1>4, <1>5

(* The keys of an untagged text are not routing fields.                    *)
LEMMA UntaggedKeys ==
  ASSUME NEW ms \in Seq(Entries), NEW b \in Seq(Lexemes), Compact(b) = Object(ms), ~Tagged(b)
  PROVE  \A i \in 1 .. Len(ms) : ms[i].key \notin RoutingKeys
<1> DEFINE j == JsonEnd(JsonStart, b)
<1>1. j = JsonEnd(JsonStart, Object(ms))
  BY JsonStartType, JsonEndCompact
<1>2. j = Json("end", <<>>, Keys(ms))
  BY <1>1, ObjectJson
<1>3. Clean(j, RoutingKeys)
  BY KeysAreLexemes
<1> HIDE DEF j
<1>4. j.keys = Keys(ms)
  BY <1>2, JsonFields
<1>5. Keys(ms) \cap RoutingKeys = {}
  BY <1>3, <1>4 DEF Clean
<1>6. DOMAIN ms = 1 .. Len(ms)
  OBVIOUS
<1>7. \A i \in 1 .. Len(ms) : ms[i].key \in Keys(ms)
  BY <1>6 DEF Keys
<1> QED BY <1>5, <1>7

(* What extractAndStripRouting makes of a text that says what was written. *)
LEMMA WrittenStripped ==
  ASSUME written \in Seq(Entries), NEW b \in Seq(Lexemes), Compact(b) = Object(written),
         NEW f, f = ExtractAndStripRouting(b)
  PROVE  IF Tagged(b) /\ SomeDeep(written) THEN f.malformed = TRUE ELSE Reported(f)
<1> DEFINE s == Scan(b)
           hits == Hits(s.ms)
<1>1. CASE ~Tagged(b)
  <2>1. f = Fields(b, FALSE, "none", "none")
    BY <1>1, Zenon DEF ExtractAndStripRouting
  <2>2. \A i \in 1 .. Len(written) : written[i].key \notin RoutingKeys
    BY <1>1, UntaggedKeys
  <2>3. Reported(f)
    BY <2>1, <2>2, PlainText
  <2> QED BY <1>1, <2>3
<1>2. /\ SomeDeep(written) => s.at = "malformed"
      /\ ~SomeDeep(written) => /\ s.at = IF Len(written) = 0 THEN "empty" ELSE "done"
                               /\ Found(s.ms, written)
                               /\ Rest(b, hits) = Object(Without(written, hits))
  <2> HIDE DEF hits
  <2> QED BY WrittenScan
<1>3. CASE Tagged(b) /\ SomeDeep(written)
  <2>1. s.at = "malformed"
    BY <1>2, <1>3
  <2>2. f = Fields(b, TRUE, "none", "none")
    BY <1>3, <2>1, Zenon DEF ExtractAndStripRouting
  <2>3. f.malformed = TRUE
    BY <2>2 DEF Fields
  <2> QED BY <1>3, <2>3
<1>4. CASE Tagged(b) /\ ~SomeDeep(written) /\ Len(written) = 0
  <2>1. s.at = "empty"
    BY <1>2, <1>4
  <2>2. f = Fields(b, FALSE, "none", "none")
    BY <2>1, Zenon DEF ExtractAndStripRouting
  <2>3. \A i \in 1 .. Len(written) : written[i].key \notin RoutingKeys
    BY <1>4
  <2>4. Reported(f)
    BY <2>2, <2>3, PlainText
  <2> QED BY <1>4, <2>4
<1>5. CASE Tagged(b) /\ ~SomeDeep(written) /\ Len(written) # 0
  <2>1. /\ s.at = "done" /\ Found(s.ms, written)
        /\ Rest(b, hits) = Object(Without(written, hits))
    BY <1>2, <1>5
  <2>2. Reported(f)
    BY <1>5, <2>1, SplicedText
  <2> QED BY <1>5, <2>2
<1> QED BY <1>1, <1>3, <1>4, <1>5
-----------------------------------------------------------------------------
(* What follows the first member of an object, its other members being ms. *)
Others(ms) == IF Len(ms) = 0 THEN <<>> ELSE <<CM>> \o Joined(ms)

(* It is a text.                                                           *)
LEMMA OthersType ==
  ASSUME NEW ms \in Seq(Entries)
  PROVE  Others(ms) \in Seq(Solid)
<1> DEFINE j == Joined(ms)
           c == <<CM>>
<1>1. j \in Seq(Solid)
  BY JoinedType
<1>2. c \in Seq(Solid)
  BY SolidLexemes
<1>3. <<>> \in Seq(Solid)
  OBVIOUS
<1> HIDE DEF j, c
<1>4. c \o j \in Seq(Solid)
  BY <1>1, <1>2, ConcatIs
<1> QED BY <1>3, <1>4 DEF Others, j, c

(* One member more.                                                        *)
LEMMA OthersAppend ==
  ASSUME NEW ms \in Seq(Entries), NEW m \in Entries
  PROVE  Others(Append(ms, m)) = (Others(ms) \o <<CM>>) \o Text(m)
<1> DEFINE c == <<CM>>
           j == Joined(ms)
           x == Text(m)
           am == Append(ms, m)
<1>1. c \in Seq(Solid) /\ c = <<CM>>
  BY SolidLexemes
<1>2. j \in Seq(Solid) /\ (Len(ms) = 0 => j = <<>>)
  BY JoinedType
<1>3. x \in Seq(Solid)
  BY TextIs
<1>4. Joined(am) = j \o Sep(ms) \o x
  BY JoinedAppend
<1>5. Len(am) # 0
  BY AppendIs
<1>6. Others(am) = c \o (j \o Sep(ms) \o x)
  BY <1>4, <1>5, Zenon DEF Others
<1> HIDE DEF am, c, j, x
<1>7. CASE Len(ms) = 0
  <2>1. Sep(ms) = <<>> /\ Others(ms) = <<>> /\ j = <<>>
    BY <1>2, <1>7 DEF Sep, Others
  <2>2. <<>> \o <<>> = <<>> /\ <<>> \o x = x /\ <<>> \o c = c
    BY <1>1, <1>3, EmptyStack
  <2>3. Others(am) = c \o x
    BY <1>6, <2>1, <2>2
  <2>4. (Others(ms) \o c) \o x = c \o x
    BY <2>1, <2>2
  <2> QED BY <1>1, <2>3, <2>4 DEF x, am
<1>8. CASE Len(ms) # 0
  <2>1. Sep(ms) = c
    BY <1>1, <1>8 DEF Sep
  <2>2. Others(ms) = c \o j
    BY <1>8 DEF Others, c, j
  <2>3. j \o c \in Seq(Solid) /\ c \o j \in Seq(Solid)
    BY <1>1, <1>2, ConcatIs
  <2>4. c \o ((j \o c) \o x) = (c \o (j \o c)) \o x
    <3> DEFINE jc == j \o c
    <3>1. jc \in Seq(Solid)
      BY <2>3
    <3> HIDE DEF jc
    <3>2. c \o (jc \o x) = (c \o jc) \o x
      BY <1>1, <1>3, <3>1, TextAssoc, Zenon
    <3> QED BY <3>2, Zenon DEF jc
  <2>5. c \o (j \o c) = (c \o j) \o c
    BY <1>1, <1>2, TextAssoc, Zenon
  <2>6. Others(am) = (Others(ms) \o c) \o x
    BY <1>6, <2>1, <2>2, <2>4, <2>5
  <2> QED BY <1>1, <2>6 DEF x, am
<1> QED BY <1>7, <1>8

(* Putting a member in front of one and one behind the rest commute.       *)
LEMMA ConsAppend ==
  ASSUME NEW S, NEW e \in S, NEW d \in Seq(S), NEW m \in S
  PROVE  <<e>> \o Append(d, m) = Append(<<e>> \o d, m) /\ <<e>> \o d \in Seq(S)
<1> DEFINE o == <<e>>
<1>1. o \in Seq(S)
  OBVIOUS
<1> HIDE DEF o
<1>2. o \o Append(d, m) = Append(o \o d, m) /\ o \o d \in Seq(S)
  BY <1>1, ConcatAppend
<1> QED BY <1>2 DEF o

(* The text of the members, from the first one.                            *)
LEMMA JoinedCons ==
  ASSUME NEW e \in Entries, NEW ms \in Seq(Entries)
  PROVE  Joined(<<e>> \o ms) = Text(e) \o Others(ms)
<1> DEFINE P(d) == Joined(<<e>> \o d) = Text(e) \o Others(d)
           T == {n \in Nat : \A d \in Seq(Entries) : Len(d) = n => P(d)}
           x == Text(e)
<1>0. x \in Seq(Solid)
  BY TextIs
<1>1. 0 \in T
  <2>1. ASSUME NEW d \in Seq(Entries), Len(d) = 0 PROVE P(d)
    <3> DEFINE o == <<e>>
               z == <<>>
    <3>1. d = z
      BY <2>1, EmptyStack
    <3>2. o \o d = o
      BY <3>1
    <3>3. o = Append(z, e) /\ z \in Seq(Entries) /\ Len(z) = 0
      OBVIOUS
    <3> HIDE DEF o, z, x
    <3>4. Joined(Append(z, e)) = Joined(z) \o Sep(z) \o x
      BY <3>3, JoinedAppend DEF x
    <3>5. Joined(z) = <<>>
      BY <3>3, JoinedType
    <3>6. Sep(z) = <<>> /\ Others(d) = <<>>
      BY <2>1, <3>3 DEF Sep, Others
    <3>7. <<>> \o <<>> = <<>> /\ <<>> \o x = x /\ x \o <<>> = x
      BY <1>0, EmptyStack
    <3>8. Joined(o \o d) = x /\ x \o Others(d) = x
      BY <3>2, <3>3, <3>4, <3>5, <3>6, <3>7
    <3> QED BY <3>8 DEF o, x
  <2> QED BY <2>1
<1>2. ASSUME NEW n \in Nat, n \in T PROVE n + 1 \in T
  <2>1. ASSUME NEW d \in Seq(Entries), Len(d) = n + 1 PROVE P(d)
    <3>1. PICK c \in Seq(Entries), m \in Entries : d = Append(c, m) /\ Len(c) = n
      BY <2>1, SplitLast
    <3> DEFINE a == <<e>> \o c
               k == <<CM>>
               o == Others(c)
               y == Text(m)
    <3>2. <<e>> \o d = Append(a, m)
      BY <3>1, ConsAppend
    <3>3. a \in Seq(Entries)
      BY ConsAppend
    <3>4. Joined(a) = x \o o
      BY <1>2, <3>1
    <3>5. Len(a) # 0
      BY <3>1
    <3> HIDE DEF a
    <3>6. Joined(Append(a, m)) = Joined(a) \o Sep(a) \o y
      BY <3>3, JoinedAppend
    <3>7. Sep(a) = k
      BY <3>5 DEF Sep
    <3>8. Others(d) = (o \o k) \o y
      BY <3>1, OthersAppend
    <3>9. o \in Seq(Solid)
      BY OthersType
    <3>10. y \in Seq(Solid)
      BY TextIs
    <3>11. k \in Seq(Solid)
      BY SolidLexemes
    <3> HIDE DEF o, k, y, x
    <3>12. o \o k \in Seq(Solid)
      BY <3>9, <3>11, ConcatIs
    <3>13. x \o ((o \o k) \o y) = (x \o (o \o k)) \o y
      BY <1>0, <3>10, <3>12, TextAssoc, Zenon
    <3>14. x \o (o \o k) = (x \o o) \o k
      BY <1>0, <3>9, <3>11, TextAssoc, Zenon
    <3>15. Joined(<<e>> \o d) = x \o Others(d)
      BY <3>2, <3>4, <3>6, <3>7, <3>8, <3>13, <3>14
    <3> QED BY <3>15 DEF x
  <2> QED BY <2>1, SMTT(30)
<1> HIDE DEF T
<1>3. \A n \in Nat : n \in T
  BY <1>1, <1>2, InductionNat
<1>4. Len(ms) \in T
  <2>1. Len(ms) \in Nat
    OBVIOUS
  <2> QED BY <1>3, <2>1
<1> QED BY <1>4 DEF T

(* There is text when there are members.                                   *)
LEMMA JoinedSome ==
  ASSUME NEW ms \in Seq(Entries), Len(ms) # 0
  PROVE  Joined(ms) # <<>>
<1> DEFINE n == Len(ms) - 1
<1>1. n \in Nat /\ Len(ms) = n + 1
  OBVIOUS
<1> HIDE DEF n
<1>2. PICK d \in Seq(Entries), m \in Entries : ms = Append(d, m) /\ Len(d) = n
  BY <1>1, SplitLast
<1> DEFINE a == Joined(d) \o Sep(d)
           x == Text(m)
<1>3. Joined(ms) = a \o x
  BY <1>2, JoinedAppend
<1>4. a \in Seq(Solid)
  <2>1. Joined(d) \in Seq(Solid)
    BY JoinedType
  <2>2. Sep(d) \in Seq(Solid)
    BY SepType
  <2> QED BY <2>1, <2>2, ConcatIs
<1>5. x \in Seq(Solid) /\ x # <<>>
  BY TextIs
<1> HIDE DEF a, x
<1>6. a \o x # <<>>
  BY <1>4, <1>5, StackOn
<1> QED BY <1>3, <1>6
-----------------------------------------------------------------------------
(* b neither begins nor ends with whitespace.                              *)
Snug(b) == b # <<>> => b[1] # "sp" /\ b[Len(b)] # "sp"

(* Trimming takes whitespace away and nothing else.                        *)
LEMMA TrimCompact ==
  ASSUME NEW b \in Seq(Lexemes)
  PROVE  Compact(TrimSpace(b)) = Compact(b) /\ Snug(TrimSpace(b))
<1> DEFINE n == Len(b)
           solid == {i \in DOMAIN b : b[i] # "sp"}
           lo == Min(solid)
           hi == Max(solid)
           t == TrimSpace(b)
<1>1. n \in Nat /\ DOMAIN b = 1 .. n
  OBVIOUS
<1>2. CASE solid = {}
  <2>1. t = <<>>
    BY <1>2 DEF TrimSpace
  <2>2. \A i \in 1 .. Len(b) : b[i] = "sp"
    BY <1>1, <1>2
  <2>3. Compact(b) = <<>>
    BY <2>2, CompactBlank
  <2> HIDE DEF t
  <2>4. Compact(t) = Compact(b) /\ Snug(t)
    BY <2>1, <2>3, CompactEmpty DEF Snug
  <2> QED BY <2>4 DEF t
<1>3. CASE solid # {}
  <2>1. t = SubSeq(b, lo, hi)
    BY <1>3 DEF TrimSpace
  <2>2. solid \in SUBSET Nat /\ solid \in SUBSET (0 .. n)
    BY <1>1
  <2>3. lo \in solid /\ \A k \in solid : lo <= k
    BY <1>3, <2>2, MinOf
  <2>4. hi \in solid /\ \A k \in solid : k <= hi
    BY <1>1, <1>3, <2>2, MaxOf
  <2> HIDE DEF lo, hi
  <2>5. lo \in 1 .. n /\ hi \in lo .. n /\ b[lo] # "sp" /\ b[hi] # "sp"
    BY <1>1, <2>3, <2>4
  <2>6. \A k \in 1 .. lo - 1 : b[k] = "sp"
    <3>1. SUFFICES ASSUME NEW k \in 1 .. lo - 1, b[k] # "sp" PROVE FALSE
      OBVIOUS
    <3>2. k \in 1 .. n /\ k < lo
      BY <1>1, <2>5
    <3>3. k \in solid
      BY <1>1, <3>1, <3>2
    <3> QED BY <2>3, <2>5, <3>2, <3>3
  <2>7. \A k \in hi + 1 .. n : b[k] = "sp"
    <3>1. SUFFICES ASSUME NEW k \in hi + 1 .. n, b[k] # "sp" PROVE FALSE
      OBVIOUS
    <3>2. k \in 1 .. n /\ hi < k
      BY <1>1, <2>5
    <3>3. k \in solid
      BY <1>1, <3>1, <3>2
    <3> QED BY <2>4, <2>5, <3>2, <3>3
  <2>8. lo \in 1 .. n + 1 /\ hi \in lo - 1 .. n
    BY <1>1, <2>5
  <2> HIDE DEF t, solid
  <2>9. PICK w \in Seq({"sp"}), v \in Seq({"sp"}) :
          /\ w \in Seq(Lexemes) /\ v \in Seq(Lexemes)
          /\ t \in Seq(Lexemes) /\ b = (w \o t) \o v
    BY <2>1, <2>6, <2>7, <2>8, Padded
  <2>10. Compact(w) = <<>> /\ Compact(v) = <<>>
    <3>1. \A i \in 1 .. Len(w) : w[i] = "sp"
      OBVIOUS
    <3>2. \A i \in 1 .. Len(v) : v[i] = "sp"
      OBVIOUS
    <3> QED BY <2>9, <3>1, <3>2, CompactBlank
  <2>11. Compact(b) = (Compact(w) \o Compact(t)) \o Compact(v)
    <3>1. w \o t \in Seq(Lexemes)
      BY <2>9, ConcatIs
    <3>2. Compact((w \o t) \o v) = Compact(w \o t) \o Compact(v)
      BY <2>9, <3>1, CompactConcat
    <3>3. Compact(w \o t) = Compact(w) \o Compact(t)
      BY <2>9, CompactConcat
    <3> QED BY <2>9, <3>2, <3>3
  <2>12. Compact(t) \in Seq(Solid)
    BY <2>9, CompactType
  <2>13. Compact(b) = Compact(t)
    BY <2>10, <2>11, <2>12, EmptyStack
  <2>14. t[1] = b[lo] /\ t[Len(t)] = b[hi]
    <3>1. Len(t) = hi - lo + 1 /\ \A k \in 1 .. hi - lo + 1 : t[k] = b[lo + k - 1]
      BY <2>1, <2>8, SubSeqIs
    <3>2. /\ 1 \in 1 .. hi - lo + 1 /\ lo + 1 - 1 = lo
          /\ hi - lo + 1 \in 1 .. hi - lo + 1 /\ lo + (hi - lo + 1) - 1 = hi
      BY <1>1, <2>5
    <3> QED BY <3>1, <3>2
  <2> QED BY <2>5, <2>13, <2>14 DEF Snug, t
<1> QED BY <1>2, <1>3

(* Without its whitespace a snug text begins and ends as it did.           *)
LEMMA SnugEnds ==
  ASSUME NEW t \in Seq(Lexemes), t # <<>>, Snug(t)
  PROVE  /\ Compact(t) # <<>> /\ Compact(t)[1] = t[1]
         /\ Compact(t)[Len(Compact(t))] = t[Len(t)]
<1>1. t[1] # "sp" /\ t[Len(t)] # "sp" /\ Len(t) \in Nat /\ Len(t) > 0
  BY EmptyStack DEF Snug
<1> DEFINE x == t[1]
           o == <<x>>
           r == SubSeq(t, 2, Len(t))
           n == Len(t) - 1
           c == Compact(t)
<1>2. x \in Lexemes /\ r \in Seq(Lexemes) /\ t = o \o r
  BY SplitFirst
<1>3. o \in Seq(Solid)
  <2>1. x \in Solid
    BY <1>1, <1>2 DEF Solid
  <2> HIDE DEF x
  <2> QED BY <2>1
<1>4. o[1] = x /\ Len(o) = 1
  OBVIOUS
<1> HIDE DEF r, o
<1>5. o \in Seq(Lexemes)
  BY <1>3, SolidLexemes
<1>6. c = Compact(o) \o Compact(r)
  BY <1>2, <1>5, CompactConcat
<1>7. Compact(o) = o
  BY <1>3, CompactSolid
<1>8. Compact(r) \in Seq(Solid)
  BY <1>2, CompactType
<1> DEFINE cr == Compact(r)
<1> HIDE DEF cr
<1>9. /\ Len(o \o cr) = Len(o) + Len(cr) /\ \A k \in 1 .. Len(o) : (o \o cr)[k] = o[k]
      /\ o \o cr \in Seq(Solid) /\ Len(cr) \in Nat
  <2>1. cr \in Seq(Solid)
    BY <1>8 DEF cr
  <2>2. Len(cr) \in Nat
    BY <2>1
  <2> QED BY <1>3, <2>1, <2>2, ConcatIs
<1>10. c = o \o cr
  BY <1>6, <1>7 DEF cr
<1>11. c # <<>> /\ c[1] = x
  <2>1. 1 \in 1 .. Len(o)
    BY <1>4
  <2>2. Len(c) # 0 /\ c[1] = o[1] /\ c \in Seq(Solid)
    BY <1>4, <1>9, <1>10, <2>1
  <2> HIDE DEF c, x
  <2>3. c # <<>>
    BY <2>2, EmptyStack
  <2> QED BY <1>4, <2>2, <2>3
<1>12. n \in Nat /\ Len(t) = n + 1
  BY <1>1
<1> HIDE DEF n, c, x
<1>13. PICK d \in Seq(Lexemes), y \in Lexemes : t = Append(d, y) /\ Len(d) = n
  BY <1>12, SplitLast
<1>14. y = t[Len(t)]
  BY <1>12, <1>13, AppendIs
<1>15. c = Append(Compact(d), y)
  BY <1>1, <1>13, <1>14, CompactAppend DEF c
<1>16. c[Len(c)] = y
  <2>1. Compact(d) \in Seq(Lexemes)
    BY CompactType
  <2> DEFINE e == Compact(d)
  <2> HIDE DEF e
  <2>2. e \in Seq(Lexemes)
    BY <2>1 DEF e
  <2>3. Len(Append(e, y)) = Len(e) + 1 /\ Append(e, y)[Len(e) + 1] = y
    BY <2>2, AppendIs
  <2> QED BY <1>15, <2>3 DEF e
<1> QED BY <1>11, <1>14, <1>16 DEF c, x

(* What stands in front can be taken from both sides.                      *)
LEMMA ConsCancel ==
  ASSUME NEW S, NEW x \in S, NEW a \in Seq(S), NEW b \in Seq(S), <<x>> \o a = <<x>> \o b
  PROVE  a = b
<1> DEFINE o == <<x>>
<1>1. o \in Seq(S) /\ Len(o) = 1
  OBVIOUS
<1>1a. o \in Seq(S)
  BY <1>1
<1>1b. o \o a = o \o b
  OBVIOUS
<1> HIDE DEF o
<1>2. Len(o \o a) = Len(o) + Len(a) /\ \A k \in 1 .. Len(a) : (o \o a)[Len(o) + k] = a[k]
  BY <1>1a, ConcatIs
<1>3. Len(o \o b) = Len(o) + Len(b) /\ \A k \in 1 .. Len(b) : (o \o b)[Len(o) + k] = b[k]
  BY <1>1a, ConcatIs
<1>4. Len(a) = Len(b)
  BY <1>1, <1>1b, <1>2, <1>3
<1>5. \A k \in 1 .. Len(a) : a[k] = b[k]
  BY <1>1b, <1>2, <1>3, <1>4
<1> QED BY <1>4, <1>5, SameSeq

-----------------------------------------------------------------------------
(* Whitespace opens no bracket.                                            *)
LEMMA BelowCompact ==
  ASSUME NEW j \in JsonStates, NEW b \in Seq(Lexemes), NEW N
  PROVE  Below(j, Compact(b), N) <=> Below(j, b, N)
<1> DEFINE G(d) == Below(j, Compact(d), N) <=> Below(j, d, N)
           T == {n \in Nat : \A d \in Seq(Lexemes) : Len(d) = n => G(d)}
<1>1. 0 \in T
  <2>1. ASSUME NEW d \in Seq(Lexemes), Len(d) = 0 PROVE G(d)
    <3>1. d = <<>>
      BY <2>1, EmptyStack
    <3> QED BY <3>1, CompactEmpty
  <2> QED BY <2>1
<1>2. ASSUME NEW n \in Nat, n \in T PROVE n + 1 \in T
  <2>1. ASSUME NEW d \in Seq(Lexemes), Len(d) = n + 1 PROVE G(d)
    <3>1. PICK c \in Seq(Lexemes), x \in Lexemes : d = Append(c, x) /\ Len(c) = n
      BY <2>1, SplitLast
    <3>2. G(c)
      BY <1>2, <3>1
    <3>3. Compact(d) = IF x = "sp" THEN Compact(c) ELSE Append(Compact(c), x)
      BY <3>1, CompactAppend
    <3>4. Compact(c) \in Seq(Lexemes) /\ JsonEnd(j, Compact(c)) = JsonEnd(j, c)
      BY CompactType, JsonEndCompact
    <3>5. Below(j, d, N) <=> Below(j, c, N) /\ Len(JsonStep(JsonEnd(j, c), x).stack) <= N
      BY <3>1, BelowAppend
    <3>6. CASE x = "sp"
      <4>1. JsonStep(JsonEnd(j, c), x) = JsonEnd(j, c)
        BY <3>6 DEF JsonStep
      <4>2. Below(j, c, N) => Len(JsonEnd(j, c).stack) <= N
        <5>1. Len(c) \in 0 .. Len(c)
          OBVIOUS
        <5> QED BY <5>1 DEF Below, JsonEnd
      <4> QED BY <3>2, <3>3, <3>5, <3>6, <4>1, <4>2
    <3>7. CASE x # "sp"
      <4>1. Below(j, Append(Compact(c), x), N) <=>
              Below(j, Compact(c), N) /\ Len(JsonStep(JsonEnd(j, Compact(c)), x).stack) <= N
        BY <3>4, BelowAppend
      <4> QED BY <3>2, <3>3, <3>4, <3>5, <3>7, <4>1
    <3> QED BY <3>6, <3>7
  <2> QED BY <2>1
<1> HIDE DEF T
<1>3. \A n \in Nat : n \in T
  BY <1>1, <1>2, InductionNat
<1>4. Len(b) \in T
  <2>1. Len(b) \in Nat
    OBVIOUS
  <2> QED BY <1>3, <2>1
<1> QED BY <1>4 DEF T

(* So trimming it away closes none.                                        *)
LEMMA BelowTrim ==
  ASSUME NEW j \in JsonStates, NEW b \in Seq(Lexemes), NEW N
  PROVE  Below(j, TrimSpace(b), N) <=> Below(j, b, N)
<1>1. TrimSpace(b) \in Seq(Lexemes) /\ Compact(TrimSpace(b)) = Compact(b)
  BY TrimIs, TrimCompact
<1>2. Below(j, Compact(TrimSpace(b)), N) <=> Below(j, TrimSpace(b), N)
  BY <1>1, BelowCompact
<1> QED BY <1>1, <1>2, BelowCompact

(* A state at the top level, with more keys.                               *)
LEMMA MoreTop ==
  ASSUME NEW a \in {"member", "key", "colon", "value", "next"}, NEW K \in SUBSET Unquotes, NEW E
  PROVE  More(Top(a, K), E) = Top(a, K \cup E)
<1> DEFINE t == Top(a, K)
<1>1. t.at = a /\ t.stack = Outer /\ t.keys = K
  BY TopIs
<1> HIDE DEF t
<1>2. More(t, E) = Json(a, Outer, K \cup E)
  BY <1>1 DEF More
<1> QED BY <1>2 DEF t, Top

(* A timestamp in front of the members adds its key, and nothing else.     *)
LEMMA StampIs ==
  ASSUME NEW b \in Seq(Lexemes), NEW N \in Nat
  PROVE  Len(b) >= 2 /\ b[1] = LB /\ b[Len(b)] = RB /\ Parses(b) =>
           /\ Stamp(b) \in Seq(Lexemes) /\ Stamp(b) # <<>> /\ Stamp(b)[1] = LB
           /\ JsonEnd(JsonStart, Stamp(b)) =
                IF "timestamp" \in TopLevelKeys(b) THEN JsonEnd(JsonStart, b)
                ELSE More(JsonEnd(JsonStart, b), {"timestamp"})
           /\ Nests(b, N) => Nests(Stamp(b), N)
<1>0. SUFFICES ASSUME Len(b) >= 2, b[1] = LB, b[Len(b)] = RB, Parses(b)
               PROVE  /\ Stamp(b) \in Seq(Lexemes) /\ Stamp(b) # <<>> /\ Stamp(b)[1] = LB
                      /\ JsonEnd(JsonStart, Stamp(b)) =
                           IF "timestamp" \in TopLevelKeys(b) THEN JsonEnd(JsonStart, b)
                           ELSE More(JsonEnd(JsonStart, b), {"timestamp"})
                      /\ Nests(b, N) => Nests(Stamp(b), N)
  OBVIOUS
<1> DEFINE mid == SubSeq(b, 2, Len(b) - 1)
           inner == TrimSpace(mid)
           ts == {"timestamp"}
           e == JsonEnd(Top("member", {}), mid)
           rest == IF inner = <<>> THEN <<>> ELSE <<CM>> \o inner
           member == <<"timestamp", ":", "now">>
           u == <<LB>> \o member
           w == u \o rest
<1>1. mid \in Seq(Lexemes) /\ b = Append(<<LB>> \o mid, RB)
  BY <1>0, Braced
<1>2. /\ inner \in Seq(Lexemes) /\ \A j \in JsonStates : JsonEnd(j, inner) = JsonEnd(j, mid)
      /\ inner # <<>> => inner[1] # "sp"
      /\ \A j \in JsonStates : Below(j, inner, N) <=> Below(j, mid, N)
  <2> HIDE DEF mid
  <2>0. \A j \in JsonStates : Below(j, inner, N) <=> Below(j, mid, N)
    BY <1>1, BelowTrim
  <2>1. /\ inner \in Seq(Lexemes) /\ \A j \in JsonStates : JsonEnd(j, inner) = JsonEnd(j, mid)
        /\ inner # <<>> =>
              \E lo \in 1 .. Len(mid) : mid[lo] # "sp" /\ inner[1] = mid[lo]
    BY <1>1, TrimIs
  <2> HIDE DEF inner
  <2> QED BY <2>0, <2>1
<1>3. Stamp(b) = IF "timestamp" \in TopLevelKeys(b) THEN b ELSE Append(w, RB)
  <2>1. w \o <<"}">> = Append(w, "}")
    <3>1. w \in Seq(Lexemes)
      <4>1. rest \in Seq(Lexemes)
        <5>1. <<>> \in Seq(Lexemes) /\ <<CM>> \o inner \in Seq(Lexemes)
          <6> HIDE DEF inner
          <6> QED BY <1>2, Marks
        <5> HIDE DEF inner
        <5> QED BY <5>1
      <4>2. u \in Seq(Lexemes)
        <5>1. "timestamp" \in Lexemes /\ ":" \in Lexemes /\ "now" \in Lexemes
          BY DEF Lexemes, Strings, Escaped, RoutingKeys
        <5>2. member \in Seq(Lexemes)
          BY <5>1
        <5>3. <<LB>> \in Seq(Lexemes)
          BY Marks
        <5> HIDE DEF member
        <5> QED BY <5>2, <5>3
      <4> HIDE DEF rest, u
      <4> QED BY <4>1, <4>2
    <3> HIDE DEF w
    <3>2. w \o <<RB>> = Append(w, RB)
      BY <3>1, Marks
    <3> QED BY <3>2 DEF RB
  <2> QED BY <2>1 DEF Stamp, LB, RB, CM
<1>4. JsonStart \in JsonStates /\ Top("member", {}) \in JsonStates /\ ts \in SUBSET Unquotes
  <2>1. {} \in SUBSET Unquotes
    OBVIOUS
  <2>2. ts \in SUBSET Unquotes
    BY DEF Unquotes, Strings, Escaped
  <2> QED BY <2>1, <2>2, JsonStartType, TopIs
<1>5. JsonStep(JsonStart, LB) = Top("member", {})
  BY <1>4, TopStep
<1> HIDE DEF mid, inner
<1>6. e \in JsonStates /\ JsonEnd(JsonStart, b) = JsonStep(e, RB)
  <2>1. e \in JsonStates
    BY <1>1, <1>4, JsonEndType
  <2>2. JsonEnd(JsonStart, <<LB>> \o mid) = e
    BY <1>1, <1>4, <1>5, JsonEndCons, Marks
  <2>3. <<LB>> \o mid \in Seq(Lexemes)
    BY <1>1, Marks
  <2>4. JsonEnd(JsonStart, Append(<<LB>> \o mid, RB)) = JsonStep(JsonEnd(JsonStart, <<LB>> \o mid), RB)
    BY <1>4, <2>3, JsonEndAppend, Marks
  <2> QED BY <1>1, <2>1, <2>2, <2>4
<1>7. JsonStep(e, RB).at = "end" /\ e.at # "bad"
  <2>1. JsonStep(e, RB).at = "end"
    BY <1>0, <1>6 DEF Parses
  <2> HIDE DEF e
  <2>2. e.at = "bad" => JsonStep(e, RB).at = "bad"
    BY <1>6, JsonStepEnd, Marks
  <2> QED BY <2>1, <2>2
<1>8. CASE "timestamp" \in TopLevelKeys(b)
  <2>1. Stamp(b) = b
    BY <1>3, <1>8
  <2>2. b # <<>>
    BY <1>0
  <2> QED BY <1>0, <1>8, <2>1, <2>2
<1>9. CASE "timestamp" \notin TopLevelKeys(b)
  <2>1. Stamp(b) = Append(w, RB)
    BY <1>3, <1>9
  <2>2. /\ u \in Seq(Lexemes) /\ u # <<>> /\ u[1] = LB
        /\ JsonEnd(JsonStart, u) = Top("next", ts)
        /\ 1 <= N => Below(JsonStart, u, N)
    <3>1. "timestamp" \in Lexemes /\ ":" \in Lexemes /\ "now" \in Lexemes
      BY DEF Lexemes, Strings, Escaped, RoutingKeys
    <3>2. "timestamp" \in Unquotes /\ "now" \in Unquotes
      BY DEF Unquotes, Strings, Escaped
    <3>3. member \in Seq(Lexemes) /\ <<"timestamp", ":">> \in Seq(Lexemes)
      BY <3>1
    <3>4. u \in Seq(Lexemes) /\ u # <<>> /\ u[1] = LB
      <4> HIDE DEF member
      <4> QED BY <3>3, Marks
    <3>5. JsonEnd(JsonStart, u) = JsonEnd(Top("member", {}), member)
      <4> HIDE DEF member
      <4> QED BY <1>4, <1>5, <3>3, JsonEndCons, Marks
    <3>6. JsonStep(Top("member", {}), "timestamp") = Top("colon", ts)
      <4>1. {} \in SUBSET Unquotes /\ {} \cup {"timestamp"} = ts
        OBVIOUS
      <4>2. JsonStep(Top("member", {}), "timestamp") = Top("colon", {} \cup {"timestamp"})
        BY <3>2, <4>1, TopStep
      <4> QED BY <4>1, <4>2
    <3>7. JsonStep(Top("colon", ts), ":") = Top("value", ts)
      BY <1>4, TopStep
    <3>8. JsonStep(Top("value", ts), "now") = Top("next", ts)
      BY <1>4, <3>2, TopStep
    <3>9. JsonEnd(Top("member", {}), <<"timestamp", ":">>) = Top("value", ts)
      BY <1>4, <3>1, <3>6, <3>7, JsonEndTwo
    <3>10. member = Append(<<"timestamp", ":">>, "now")
      OBVIOUS
    <3>11. JsonEnd(Top("member", {}), member) = JsonStep(JsonEnd(Top("member", {}), <<"timestamp", ":">>), "now")
      BY <1>4, <3>1, <3>3, <3>10, JsonEndAppend, ZenonT(40)
    <3>12. 1 <= N => Below(JsonStart, u, N)
      <4>1. SUFFICES ASSUME 1 <= N PROVE Below(JsonStart, u, N)
        OBVIOUS
      <4> DEFINE m == Top("member", {})
                 two == <<"timestamp", ":">>
      <4>2. /\ \A a \in {"member", "colon", "value", "next"} : Len(Top(a, ts).stack) <= N
            /\ Len(m.stack) <= N /\ Len(JsonStart.stack) <= N
        <5>1. {} \in SUBSET Unquotes /\ Len(Outer) = 1
          BY OuterIs
        <5>2. Len(JsonStart.stack) = 0
          BY JsonFields DEF JsonStart
        <5>3. \A a \in {"member", "colon", "value", "next"} : Top(a, ts).stack = Outer
          BY <1>4, TopIs
        <5>4. m.stack = Outer
          BY <5>1, TopIs
        <5> HIDE DEF m
        <5>5. Len(Outer) <= N /\ Len(JsonStart.stack) <= N
          BY <4>1, <5>1, <5>2
        <5> QED BY <5>3, <5>4, <5>5
      <4>3. two = <<"timestamp">> \o <<":">> /\ <<":">> \in Seq(Lexemes)
            /\ <<":">> = <<":">> \o <<>> /\ <<>> \in Seq(Lexemes)
        BY <3>1
      <4>4. Top("colon", ts) \in JsonStates /\ Top("value", ts) \in JsonStates /\ m \in JsonStates
        BY <1>4, TopIs
      <4> HIDE DEF m, two, member
      <4>5. Below(Top("value", ts), <<>>, N)
        BY <4>2, <4>4, BelowEmpty
      <4>6. Below(Top("colon", ts), <<":">>, N)
        BY <3>1, <3>7, <4>2, <4>3, <4>4, <4>5, BelowCons
      <4>7. Below(m, two, N)
        BY <3>1, <3>6, <4>2, <4>3, <4>4, <4>6, BelowCons DEF m
      <4>8. Below(m, Append(two, "now"), N)
        <5>1. JsonStep(JsonEnd(m, two), "now") = Top("next", ts)
          BY <3>8, <3>9 DEF m, two
        <5> QED BY <3>1, <3>3, <4>2, <4>4, <4>7, <5>1, BelowAppend DEF two
      <4>9. Below(m, member, N)
        BY <3>10, <4>8 DEF two, member
      <4> QED BY <1>4, <1>5, <3>3, <4>2, <4>9, BelowCons, Marks DEF m
    <3> QED BY <3>4, <3>5, <3>8, <3>9, <3>11, <3>12
  <2>3. rest \in Seq(Lexemes) /\ w \in Seq(Lexemes)
    <3>1. rest \in Seq(Lexemes)
      <4>1. <<>> \in Seq(Lexemes) /\ <<CM>> \o inner \in Seq(Lexemes)
        BY <1>2, Marks
      <4> QED BY <4>1
    <3> HIDE DEF rest, u
    <3> QED BY <2>2, <3>1
  <2>4. Top("next", ts) \in JsonStates /\ Top("key", ts) \in JsonStates
    BY <1>4, TopIs
  <2> HIDE DEF u
  <2>5. JsonEnd(JsonStart, w) = JsonEnd(Top("next", ts), rest)
    <3> HIDE DEF rest
    <3> QED BY <1>4, <2>2, <2>3, JsonEndConcat
  <2>6. /\ JsonStep(JsonEnd(Top("next", ts), rest), RB) = More(JsonStep(e, RB), ts)
        /\ Below(Top("member", {}), inner, N) => 1 <= N /\ Below(Top("next", ts), rest, N)
    <3>0. /\ Below(Top("member", {}), inner, N) => 1 <= N
          /\ 1 <= N => Len(Top("next", ts).stack) <= N /\ Len(Top("key", ts).stack) <= N
      <4>1. /\ Top("member", {}).stack = Outer /\ Len(Outer) = 1
            /\ Top("next", ts).stack = Outer /\ Top("key", ts).stack = Outer
        <5>1. {} \in SUBSET Unquotes
          OBVIOUS
        <5> QED BY <1>4, <5>1, TopIs, OuterIs
      <4>2. JsonRun(Top("member", {}), inner)[0] = Top("member", {})
        BY <1>2, <1>4, JsonRunIs
      <4>3. 0 \in 0 .. Len(inner)
        BY <1>2
      <4> QED BY <4>1, <4>2, <4>3 DEF Below
    <3>1. CASE inner = <<>>
      <4>1. rest = <<>>
        BY <3>1
      <4>2. JsonEnd(Top("next", ts), rest) = Top("next", ts)
        BY <2>4, <4>1, JsonEndEmpty
      <4>3. JsonStep(Top("next", ts), RB) = Json("end", <<>>, ts)
        BY <1>4, TopStep
      <4>4. e = Top("member", {})
        BY <1>2, <1>4, <3>1, JsonEndEmpty
      <4>5. JsonStep(e, RB) = Json("end", <<>>, {})
        <5>1. {} \in SUBSET Unquotes
          OBVIOUS
        <5> QED BY <4>4, <5>1, TopStep
      <4>6. More(Json("end", <<>>, {}), ts) = Json("end", <<>>, ts)
        <5>1. /\ Json("end", <<>>, {}).at = "end" /\ Json("end", <<>>, {}).stack = <<>>
              /\ Json("end", <<>>, {}).keys = {}
          BY JsonFields
        <5>2. {} \cup ts = ts
          OBVIOUS
        <5> QED BY <5>1, <5>2 DEF More
      <4>7. 1 <= N => Below(Top("next", ts), rest, N)
        BY <2>4, <3>0, <4>1, BelowEmpty
      <4> QED BY <3>0, <4>2, <4>3, <4>5, <4>6, <4>7
    <3>2. CASE inner # <<>>
      <4> DEFINE y == inner[1]
                 tail == SubSeq(inner, 2, Len(inner))
                 j1 == JsonStep(Top("member", {}), y)
      <4>1. y \in Lexemes /\ y # "sp" /\ tail \in Seq(Lexemes)
        BY <1>2, <3>2
      <4>2. inner = <<y>> \o tail
        BY <1>2, <3>2, SplitFirst
      <4>3. rest = <<CM>> \o inner
        BY <3>2
      <4> HIDE DEF y, tail, rest
      <4>4. e = JsonEnd(j1, tail) /\ j1 \in JsonStates
        <5>1. e = JsonEnd(Top("member", {}), inner)
          BY <1>2, <1>4
        <5>2. j1 \in JsonStates
          BY <1>4, JsonStepType
        <5> QED BY <1>4, <4>1, <4>2, <5>1, <5>2, JsonEndCons
      <4>5. j1.at \notin {"end", "bad"}
        <5>1. SUFFICES ASSUME j1.at \in {"end", "bad"} PROVE FALSE
          OBVIOUS
        <5> HIDE DEF j1
        <5>2. e.at \in {"end", "bad"}
          BY <4>1, <4>4, <5>1, JsonEnded
        <5> HIDE DEF e
        <5>3. JsonStep(e, RB).at = "bad"
          BY <1>6, <5>2, JsonStepEnd, Marks
        <5> QED BY <1>7, <5>3
      <4>6. y \in Unquotes
        <5>1. SUFFICES ASSUME y \notin Unquotes PROVE FALSE
          OBVIOUS
        <5> DEFINE m == Top("member", {})
        <5>2. m \in JsonStates /\ m.at = "member"
          <6>1. {} \in SUBSET Unquotes
            OBVIOUS
          <6> QED BY <6>1, TopIs
        <5>3. CASE y = RB
          <6>1. {} \in SUBSET Unquotes
            OBVIOUS
          <6>2. j1 = Json("end", <<>>, {})
            BY <5>3, <6>1, TopStep
          <6> HIDE DEF j1
          <6> QED BY <4>5, <6>2, JsonFields
        <5>4. CASE y # RB
          <6> HIDE DEF m
          <6>1. JsonStep(m, y).at = "bad"
            BY <4>1, <5>1, <5>2, <5>4, JsonStepBad DEF RB
          <6> QED BY <4>5, <6>1 DEF m
        <5> QED BY <5>3, <5>4
      <4>7. j1 = Top("colon", {y})
        <5>1. {} \in SUBSET Unquotes /\ {} \cup {y} = {y}
          OBVIOUS
        <5>2. j1 = Top("colon", {} \cup {y})
          BY <4>6, <5>1, TopStep
        <5> QED BY <5>1, <5>2
      <4>8. JsonStep(Top("next", ts), CM) = Top("key", ts)
        BY <1>4, TopStep
      <4>9. JsonStep(Top("key", ts), y) = Top("colon", {y} \cup ts)
        <5>1. JsonStep(Top("key", ts), y) = Top("colon", ts \cup {y})
          BY <1>4, <4>6, TopStep
        <5>2. ts \cup {y} = {y} \cup ts
          OBVIOUS
        <5> QED BY <5>1, <5>2
      <4>10. JsonEnd(Top("next", ts), rest) = JsonEnd(Top("key", ts), inner)
        BY <1>2, <2>4, <4>3, <4>8, JsonEndCons, Marks
      <4>11. JsonEnd(Top("key", ts), inner) = JsonEnd(Top("colon", {y} \cup ts), tail)
        BY <2>4, <4>1, <4>2, <4>9, JsonEndCons
      <4>12. Top("colon", {y}) \in JsonStates /\ Top("colon", {y} \cup ts) \in JsonStates
        <5>1. {y} \in SUBSET Unquotes /\ {y} \cup ts \in SUBSET Unquotes
          BY <1>4, <4>6
        <5> QED BY <5>1, TopIs
      <4>13. LET d == JsonEnd(Top("colon", {y}), tail)
             IN d.at = "bad" \/ JsonEnd(Top("colon", {y} \cup ts), tail) = More(d, ts)
        <5>1. Json("colon", Outer, {y}) \in JsonStates
          BY <4>12 DEF Top
        <5>2. Json("colon", Outer, {y} \cup ts) \in JsonStates
          BY <4>12 DEF Top
        <5>3. tail \in Seq(Lexemes)
          BY <4>1
        <5> HIDE DEF ts
        <5> QED BY <5>1, <5>2, <5>3, JsonEndMoreKeys DEF Top
      <4> HIDE DEF e, j1
      <4>14. JsonEnd(Top("next", ts), rest) = More(e, ts)
        BY <1>7, <4>4, <4>7, <4>10, <4>11, <4>13
      <4>15. More(e, ts) \in JsonStates
        BY <1>4, <1>6, MoreIs
      <4>16. JsonStep(e, RB).at = "bad" \/ JsonStep(More(e, ts), RB) = More(JsonStep(e, RB), ts)
        BY <1>6, <4>15, JsonStepMoreKeys, Marks
      <4>17. JsonStep(More(e, ts), RB) = More(JsonStep(e, RB), ts)
        BY <1>7, <4>16
      <4>18. Below(Top("member", {}), inner, N) => Below(Top("next", ts), rest, N)
        <5>1. SUFFICES ASSUME Below(Top("member", {}), inner, N)
                       PROVE  Below(Top("next", ts), rest, N)
          OBVIOUS
        <5>2. Len(Top("next", ts).stack) <= N /\ Len(Top("key", ts).stack) <= N
          BY <3>0, <5>1
        <5>3. Below(Top("colon", {y}), tail, N)
          <6>1. Below(j1, tail, N)
            BY <1>4, <4>1, <4>2, <5>1, BelowCons DEF j1
          <6> QED BY <4>7, <6>1
        <5>4. More(Top("colon", {y}), ts) = Top("colon", {y} \cup ts)
          BY <4>6, MoreTop
        <5>5. JsonEnd(Top("colon", {y}), tail).at # "bad"
          BY <1>7, <4>4, <4>7
        <5>6. Below(Top("colon", {y} \cup ts), tail, N)
          <6> DEFINE i == Top("colon", {y})
          <6>1. i \in JsonStates /\ More(i, ts) \in JsonStates
            BY <4>12, <5>4
          <6>2. Below(i, tail, N) /\ JsonEnd(i, tail).at # "bad" /\ tail \in Seq(Lexemes)
            BY <4>1, <5>3, <5>5
          <6> HIDE DEF i, ts
          <6>3. Below(More(i, ts), tail, N)
            BY <6>1, <6>2, BelowMore
          <6> QED BY <5>4, <6>3 DEF i
        <5>7. Below(Top("key", ts), inner, N)
          BY <2>4, <4>1, <4>2, <4>9, <5>2, <5>6, BelowCons
        <5> QED BY <1>2, <2>4, <4>3, <4>8, <5>2, <5>7, BelowCons, Marks
      <4> QED BY <3>0, <4>14, <4>17, <4>18
    <3> QED BY <3>1, <3>2
  <2>7. w[1] = LB /\ w # <<>>
    <3> HIDE DEF rest
    <3> QED BY <2>2, <2>3
  <2> HIDE DEF w, rest, e
  <2>8. Append(w, RB) \in Seq(Lexemes) /\ Append(w, RB) # <<>> /\ Append(w, RB)[1] = LB
    BY <2>3, <2>7, Marks
  <2>9. JsonEnd(JsonStart, Append(w, RB)) = JsonStep(JsonEnd(JsonStart, w), RB)
    BY <1>4, <2>3, JsonEndAppend, Marks
  <2>10. JsonEnd(JsonStart, Append(w, RB)) = More(JsonEnd(JsonStart, b), ts)
    BY <1>6, <2>5, <2>6, <2>9
  <2>11. ASSUME Nests(b, N) PROVE Nests(Append(w, RB), N)
    <3> DEFINE p == <<LB>> \o mid
    <3>1. p \in Seq(Lexemes) /\ b = Append(p, RB)
      BY <1>1, Marks
    <3>2. JsonEnd(JsonStart, p) = e
      BY <1>1, <1>4, <1>5, JsonEndCons, Marks DEF e
    <3>3. Below(JsonStart, b, N)
      BY <2>11, NestsIs
    <3> HIDE DEF p
    <3>4. Below(JsonStart, p, N) /\ Len(JsonStep(e, RB).stack) <= N
      BY <1>4, <3>1, <3>2, <3>3, BelowAppend, Marks
    <3>5. Below(Top("member", {}), mid, N)
      BY <1>1, <1>4, <1>5, <3>4, BelowCons, Marks DEF p
    <3>6. 1 <= N /\ Below(Top("next", ts), rest, N)
      BY <1>2, <1>4, <2>6, <3>5
    <3>7. Below(JsonStart, w, N)
      BY <1>4, <2>2, <2>3, <3>6, BelowConcat DEF w
    <3>8. JsonStep(JsonEnd(JsonStart, w), RB).stack = JsonStep(e, RB).stack
      BY <2>5, <2>6, JsonFields DEF More
    <3>9. Below(JsonStart, Append(w, RB), N)
      BY <1>4, <2>3, <3>4, <3>7, <3>8, BelowAppend, Marks
    <3> QED BY <2>8, <3>9, NestsIs
  <2> QED BY <1>9, <2>1, <2>8, <2>10, <2>11
<1> QED BY <1>8, <1>9

(* What validateEvent accepts of what the scan hands on.                   *)
LEMMA AcceptedEvent ==
  ASSUME NEW b \in Seq(Lexemes), NEW f, f = ExtractAndStripRouting(b), NEW t, t = TrimSpace(f.body)
  PROVE  ~f.malformed /\ Len(t) >= 2 /\ Head(t) = "{" /\ Last(t) = "}" /\ JsonValid(t) =>
           /\ Head(Stamp(t)) = "{" /\ JsonValid(Stamp(t))
           /\ "timestamp" \in TopLevelKeys(Stamp(t))
           /\ KeySpellings(Stamp(t)) \cap RoutingKeys = {}
<1>1. SUFFICES ASSUME ~f.malformed, Len(t) >= 2, Head(t) = LB, Last(t) = RB, JsonValid(t)
               PROVE  /\ Head(Stamp(t)) = LB /\ JsonValid(Stamp(t))
                      /\ "timestamp" \in TopLevelKeys(Stamp(t))
                      /\ KeySpellings(Stamp(t)) \cap RoutingKeys = {}
  BY DEF LB, RB
<1>2. f.body \in Seq(Lexemes)
  BY BodyIs
<1>3. t \in Seq(Lexemes) /\ \A j \in JsonStates : JsonEnd(j, t) = JsonEnd(j, f.body)
  BY <1>2, TrimIs
<1>4. t # <<>> /\ t[1] = LB /\ t[Len(t)] = RB
  <2>1. t # <<>>
    BY <1>1
  <2> QED BY <1>1, <1>3, <2>1, HeadLast
<1>5. FirstIsBrace(f.body)
  BY <1>2, <1>4, FirstOfTrimmed
<1> DEFINE e == JsonEnd(JsonStart, t)
           s == Stamp(t)
<1>6. e = JsonEnd(JsonStart, f.body) /\ e.at = "end" /\ e \in JsonStates
  BY <1>1, <1>3, JsonStartType, JsonEndType DEF JsonValid, Parses
<1>7. e.keys \cap RoutingKeys = {}
  <2>1. Parses(f.body)
    BY <1>6 DEF Parses
  <2>2. KeySpellings(f.body) \cap RoutingKeys = {}
    BY <1>1, <1>5, <2>1, CleanBody
  <2> QED BY <1>6, <2>2 DEF KeySpellings
<1> DEFINE timed == "timestamp" \in TopLevelKeys(t)
           ts == {"timestamp"}
<1>8. /\ s \in Seq(Lexemes) /\ s # <<>> /\ s[1] = LB
      /\ JsonEnd(JsonStart, s) = IF timed THEN e ELSE More(e, ts)
      /\ Nests(s, MaxNestingDepth)
  BY <1>1, <1>3, <1>4, StampIs, JsonAssumption DEF JsonValid
<1>9. ts \in SUBSET Unquotes /\ ts \cap RoutingKeys = {} /\ Decoded("timestamp") = "timestamp"
  BY DEF Unquotes, Strings, Escaped, RoutingKeys, Decoded
<1>10. TopLevelKeys(t) = {Decoded(x) : x \in e.keys}
  BY DEF TopLevelKeys, KeySpellings
<1> HIDE DEF e, s, timed, ts
<1>11. More(e, ts).at = "end" /\ More(e, ts).keys = e.keys \cup ts
  BY <1>6, <1>9, MoreIs
<1>12. Head(s) = LB
  BY <1>8, HeadLast
<1>13. JsonValid(s)
  BY <1>6, <1>8, <1>11 DEF JsonValid, Parses
<1>14. KeySpellings(s) = IF timed THEN e.keys ELSE e.keys \cup ts
  BY <1>8, <1>11 DEF KeySpellings
<1>15. KeySpellings(s) \cap RoutingKeys = {}
  BY <1>7, <1>9, <1>14
<1>16. "timestamp" \in TopLevelKeys(s)
  <2>1. CASE timed
    BY <1>10, <1>14, <2>1 DEF TopLevelKeys, timed
  <2>2. CASE ~timed
    BY <1>9, <1>14, <2>2 DEF TopLevelKeys, ts
  <2> QED BY <2>1, <2>2
<1> QED BY <1>12, <1>13, <1>15, <1>16 DEF s

(* It implies AcceptedIsClean.                                             *)
LEMMA Accepted ==
  ASSUME IntakeInv
  PROVE  AcceptedIsClean
<1>1. SUFFICES ASSUME outcome = "accepted"
               PROVE  /\ Head(event) = "{" /\ JsonValid(event)
                      /\ "timestamp" \in TopLevelKeys(event)
                      /\ KeySpellings(event) \cap RoutingKeys = {}
  BY DEF AcceptedIsClean
<1> DEFINE t == TrimSpace(fields.body)
<1>2. EarlyDrop(fields) \in {"parse_error", "unrouted_unknown", "bad_token", "none"}
  BY DEF EarlyDrop
<1>3. /\ stage = "done" /\ fields = ExtractAndStripRouting(dg) /\ EarlyDrop(fields) = "none"
      /\ outcome = ValidateReason(fields.body) /\ event = Stamp(t)
  BY <1>1, <1>2 DEF IntakeInv, OutcomeIs
<1>4. ~fields.malformed
  BY <1>3 DEF EarlyDrop
<1>5. /\ Len(t) >= 2 /\ Head(t) = "{" /\ Last(t) = "}" /\ JsonValid(t)
  BY <1>1, <1>3, Zenon DEF ValidateReason
<1>6. dg \in Seq(Lexemes)
  BY DEF IntakeInv, IntakeTypes
<1> HIDE DEF t
<1>7. t = TrimSpace(fields.body)
  BY DEF t
<1>8. /\ Head(Stamp(t)) = "{" /\ JsonValid(Stamp(t))
      /\ "timestamp" \in TopLevelKeys(Stamp(t))
      /\ KeySpellings(Stamp(t)) \cap RoutingKeys = {}
  BY <1>3, <1>4, <1>5, <1>6, <1>7, AcceptedEvent, Zenon
<1> QED BY <1>3, <1>8, Zenon

(* AcceptedIsClean of every reachable state: whatever was sent, and        *)
(* however it was damaged or cut, what validateEvent accepts is a JSON     *)
(* object with a timestamp and no key that is spelled "_project" or        *)
(* "_token".  Of keys that are spelled with an escape and decode to those  *)
(* it says nothing: run intake_escaped_key shows that they are stored.     *)
THEOREM AcceptedClean == Spec => []AcceptedIsClean
  BY IntakeInvariant, Accepted, PTL
-----------------------------------------------------------------------------
(* A snug text that says ms is in braces, and says ms between them.        *)
LEMMA ObjectText ==
  ASSUME NEW ms \in Seq(Entries), NEW t \in Seq(Lexemes), Snug(t), Compact(t) = Object(ms)
  PROVE  /\ Len(t) >= 2 /\ t[1] = LB /\ t[Len(t)] = RB /\ Parses(t)
         /\ KeySpellings(t) = Keys(ms)
         /\ SubSeq(t, 2, Len(t) - 1) \in Seq(Lexemes)
         /\ Compact(SubSeq(t, 2, Len(t) - 1)) = Joined(ms)
<1> DEFINE j == Joined(ms)
           o == <<LB>>
           p == o \o j
           mid == SubSeq(t, 2, Len(t) - 1)
           c == Compact(t)
<1>1. j \in Seq(Solid)
  BY JoinedType
<1>2. o \in Seq(Solid)
  BY SolidLexemes
<1>2a. Len(o) = 1 /\ o[1] = LB
  OBVIOUS
<1>3. c = Append(p, RB)
  BY ObjectIs DEF Pre
<1> HIDE DEF j, o
<1>4. p \in Seq(Solid) /\ Len(p) = 1 + Len(j) /\ p[1] = LB /\ Len(j) \in Nat
  <2>1. Len(j) \in Nat
    BY <1>1
  <2>2. /\ p \in Seq(Solid) /\ Len(p) = Len(o) + Len(j)
        /\ \A k \in 1 .. Len(o) : p[k] = o[k]
    BY <1>1, <1>2, ConcatIs
  <2>3. 1 \in 1 .. Len(o)
    BY <1>2a
  <2> HIDE DEF p
  <2> QED BY <1>2a, <2>1, <2>2, <2>3
<1> HIDE DEF p, c
<1>4a. p \in Seq(Solid)
  BY <1>4
<1>5. Len(c) = Len(p) + 1 /\ c[Len(p) + 1] = RB /\ c[1] = LB
  <2>1. /\ Len(c) = Len(p) + 1 /\ c[Len(p) + 1] = RB
        /\ \A k \in 1 .. Len(p) : c[k] = p[k]
    BY <1>3, <1>4a, SolidLexemes, AppendIs
  <2>2. 1 \in 1 .. Len(p)
    BY <1>4
  <2> QED BY <1>4, <2>1, <2>2
<1>6. t # <<>>
  <2>1. SUFFICES ASSUME t = <<>> PROVE FALSE
    OBVIOUS
  <2>2. c = <<>>
    BY <2>1, CompactEmpty DEF c
  <2>3. Len(c) = 0
    BY <2>2
  <2> QED BY <1>4, <1>5, <2>3
<1>7. t[1] = LB /\ t[Len(t)] = RB
  <2>1. c[1] = t[1] /\ c[Len(c)] = t[Len(t)]
    BY <1>6, SnugEnds DEF c
  <2> QED BY <1>5, <2>1
<1>8. Len(t) >= 2
  <2>1. Len(t) \in Nat /\ Len(t) # 0
    BY <1>6, EmptyStack
  <2>2. Len(t) # 1
    BY <1>7, Marks
  <2> DEFINE n == Len(t)
  <2> HIDE DEF n
  <2>3. n \in Nat /\ n # 0 /\ n # 1
    BY <2>1, <2>2 DEF n
  <2>4. n >= 2
    BY <2>3
  <2> QED BY <2>4 DEF n
<1>9. mid \in Seq(Lexemes) /\ t = Append(<<LB>> \o mid, RB)
  BY <1>7, <1>8, Braced
<1>10. JsonEnd(JsonStart, t) = Json("end", <<>>, Keys(ms))
  <2>1. JsonEnd(JsonStart, t) = JsonEnd(JsonStart, Object(ms))
    BY JsonStartType, JsonEndCompact
  <2> QED BY <2>1, ObjectJson
<1>11. Parses(t) /\ KeySpellings(t) = Keys(ms)
  <2> DEFINE e == JsonEnd(JsonStart, t)
  <2> HIDE DEF e
  <2>1. e = Json("end", <<>>, Keys(ms))
    BY <1>10 DEF e
  <2>2. e.at = "end" /\ e.keys = Keys(ms)
    BY <2>1, JsonFields
  <2> QED BY <2>2 DEF e, Parses, KeySpellings
<1>12. Compact(mid) = j
  <2> HIDE DEF mid
  <2> DEFINE u == o \o mid
             k == Compact(mid)
  <2>1. o \in Seq(Lexemes)
    BY <1>2, SolidLexemes
  <2>1a. mid \in Seq(Lexemes)
    BY <1>9
  <2>2. u \in Seq(Lexemes)
    BY <2>1, <2>1a, ConcatIs
  <2>3. t = Append(u, RB)
    BY <1>9 DEF o
  <2>4. Compact(u) = Compact(o) \o k
    BY <2>1, <2>1a, CompactConcat
  <2>5. Compact(o) = o
    BY <1>2, CompactSolid
  <2>6. k \in Seq(Solid)
    BY <2>1a, CompactType
  <2> HIDE DEF u, k
  <2>7. c = Append(Compact(u), RB)
    BY <2>2, <2>3, CompactAppend, Marks DEF c
  <2>8. o \o k \in Seq(Solid)
    BY <1>2, <2>6, ConcatIs
  <2>9. Front(Append(p, RB)) = p
    BY <1>4a, SolidLexemes, StackOps
  <2>10. Front(Append(o \o k, RB)) = o \o k
    BY <2>8, SolidLexemes, StackOps
  <2>11. o \o k = o \o j
    BY <1>3, <2>4, <2>5, <2>7, <2>9, <2>10 DEF p
  <2>12. <<LB>> \o k = <<LB>> \o j
    BY <2>11 DEF o
  <2>13. k = j
    BY <1>1, <2>6, <2>12, SolidLexemes, ConsCancel
  <2> QED BY <2>13 DEF k
<1> QED BY <1>7, <1>8, <1>9, <1>11, <1>12 DEF j
-----------------------------------------------------------------------------
(* A sequence of three.                                                    *)
LEMMA TripleIs ==
  ASSUME NEW x, NEW y, NEW z
  PROVE  <<x, y>> \o <<z>> = <<x, y, z>>
<1> DEFINE S == {x, y, z}
           p == <<x, y>>
           q == <<z>>
           c == <<x, y, z>>
           a == p \o q
<1>1. x \in S /\ y \in S /\ z \in S
  OBVIOUS
<1> HIDE DEF S
<1>2. p \in Seq(S)
  BY <1>1
<1>3. q \in Seq(S)
  BY <1>1
<1>4. c \in Seq(S)
  BY <1>1
<1>5. Len(p) = 2 /\ p[1] = x /\ p[2] = y
  OBVIOUS
<1>6. Len(q) = 1 /\ q[1] = z
  OBVIOUS
<1>7. Len(c) = 3 /\ c[1] = x /\ c[2] = y /\ c[3] = z
  OBVIOUS
<1> HIDE DEF p, q, c
<1>8. /\ a \in Seq(S) /\ Len(a) = Len(p) + Len(q)
      /\ \A k \in 1 .. Len(p) : a[k] = p[k]
      /\ \A k \in 1 .. Len(q) : a[Len(p) + k] = q[k]
  BY <1>2, <1>3, ConcatIs
<1> HIDE DEF a
<1>9. 1 \in 1 .. Len(p) /\ 2 \in 1 .. Len(p) /\ 1 \in 1 .. Len(q) /\ Len(p) + 1 = 3
  BY <1>5, <1>6
<1>10. a[1] = x /\ a[2] = y /\ a[3] = z /\ Len(a) = 3
  BY <1>5, <1>6, <1>8, <1>9
<1>11. \A k \in 1 .. Len(a) : a[k] = c[k]
  <2>1. SUFFICES ASSUME NEW k \in 1 .. Len(a) PROVE a[k] = c[k]
    OBVIOUS
  <2>2. k = 1 \/ k = 2 \/ k = 3
    BY <1>10
  <2> QED BY <1>7, <1>10, <2>2
<1>12. a = c
  BY <1>4, <1>7, <1>8, <1>10, <1>11, SameSeq
<1> QED BY <1>12 DEF a, c, p, q

(* The timestamp goes in front of the members, unless there is one.        *)
LEMMA StampText ==
  ASSUME NEW ms \in Seq(Entries), NEW t \in Seq(Lexemes), Snug(t), Compact(t) = Object(ms)
  PROVE  Compact(Stamp(t)) = Object(Stamped(ms))
<1> DEFINE mid == SubSeq(t, 2, Len(t) - 1)
           inner == TrimSpace(mid)
           rest == IF inner = <<>> THEN <<>> ELSE <<CM>> \o inner
           member == <<"timestamp", ":", "now">>
           o == <<LB>>
           u == o \o member
           w == u \o rest
           timed == "timestamp" \in TopLevelKeys(t)
<1>1. /\ KeySpellings(t) = Keys(ms) /\ mid \in Seq(Lexemes) /\ Compact(mid) = Joined(ms)
  BY ObjectText
<1>2. timed <=> \E i \in DOMAIN ms : Decoded(ms[i].key) = "timestamp"
  BY <1>1 DEF Keys, TopLevelKeys
<1>3. CASE timed
  <2>1. Stamp(t) = t
    BY <1>3 DEF Stamp
  <2>2. Stamped(ms) = ms
    BY <1>2, <1>3 DEF Stamped
  <2> QED BY <2>1, <2>2
<1>4. CASE ~timed
  <2>1. Stamped(ms) = <<TimeMember>> \o ms
    BY <1>2, <1>4, Zenon DEF Stamped, TimeMember
  <2>2. TimeMember \in Entries
    BY DEF Entries
  <2>3. Text(TimeMember) = member
    <3>1. TimeMember.key = "timestamp" /\ TimeMember.value = <<"now">>
      BY DEF TimeMember
    <3>2. Text(TimeMember) = <<"timestamp", ":">> \o <<"now">>
      BY <3>1 DEF Text
    <3> QED BY <3>2, TripleIs
  <2>4. member \in Seq(Solid)
    BY <2>2, <2>3, TextIs
  <2>5. o \in Seq(Solid)
    BY SolidLexemes
  <2> HIDE DEF mid
  <2>6. inner \in Seq(Lexemes) /\ Compact(inner) = Joined(ms) /\ Snug(inner)
    BY <1>1, TrimIs, TrimCompact
  <2>7. rest \in Seq(Lexemes) /\ Compact(rest) = Others(ms)
    <3> HIDE DEF inner
    <3>1. CASE inner = <<>>
      <4>1. rest = <<>>
        BY <3>1
      <4>2. Joined(ms) = <<>>
        BY <2>6, <3>1, CompactEmpty
      <4>3. Len(ms) = 0
        BY <4>2, JoinedSome
      <4>4. Others(ms) = <<>>
        BY <4>3 DEF Others
      <4>5. <<>> \in Seq(Lexemes)
        OBVIOUS
      <4> HIDE DEF rest
      <4> QED BY <4>1, <4>4, <4>5, CompactEmpty
    <3>2. CASE inner # <<>>
      <4> DEFINE k == <<CM>>
      <4>1. rest = k \o inner
        BY <3>2
      <4>2. Joined(ms) # <<>>
        BY <2>6, <3>2, SnugEnds
      <4>3. Len(ms) # 0
        BY <4>2, JoinedType
      <4>4. Others(ms) = k \o Joined(ms)
        BY <4>3 DEF Others
      <4>5. k \in Seq(Solid)
        BY SolidLexemes
      <4> HIDE DEF k, rest
      <4>6. k \in Seq(Lexemes) /\ Compact(k) = k
        BY <4>5, SolidLexemes, CompactSolid
      <4>7. inner \in Seq(Lexemes)
        BY <2>6
      <4>8. k \o inner \in Seq(Lexemes) /\ Compact(k \o inner) = Compact(k) \o Compact(inner)
        BY <4>6, <4>7, ConcatIs, CompactConcat
      <4> QED BY <2>6, <4>1, <4>4, <4>6, <4>8
    <3> QED BY <3>1, <3>2
  <2> HIDE DEF inner, rest, o, member
  <2>8. u \in Seq(Solid)
    BY <2>4, <2>5, ConcatIs
  <2> HIDE DEF u
  <2>9. u \in Seq(Lexemes) /\ Compact(u) = u
    BY <2>8, SolidLexemes, CompactSolid
  <2>10. rest \in Seq(Lexemes)
    BY <2>7
  <2>11. w \in Seq(Lexemes) /\ Compact(w) = u \o Others(ms)
    <3>1. u \in Seq(Lexemes)
      BY <2>9
    <3>2. w \in Seq(Lexemes)
      BY <2>10, <3>1, ConcatIs
    <3>3. Compact(w) = Compact(u) \o Compact(rest)
      BY <2>10, <3>1, CompactConcat
    <3> QED BY <2>7, <2>9, <3>2, <3>3
  <2>12. Stamp(t) = w \o <<RB>>
    BY <1>4, Zenon DEF Stamp, w, u, o, member, rest, inner, mid, LB, RB, CM
  <2> HIDE DEF w
  <2>13. w \o <<RB>> = Append(w, RB)
    BY <2>11, Marks
  <2>14. Compact(Append(w, RB)) = Append(Compact(w), RB)
    BY <2>11, CompactAppend, Marks
  <2> DEFINE sm == <<TimeMember>> \o ms
  <2>15. sm \in Seq(Entries)
    BY <2>2
  <2>16. Joined(sm) = member \o Others(ms)
    BY <2>2, <2>3, JoinedCons
  <2> HIDE DEF sm
  <2>17. Object(sm) = Append(o \o Joined(sm), RB)
    BY <2>15, ObjectIs DEF Pre, o
  <2>18. Others(ms) \in Seq(Solid)
    BY OthersType
  <2>19. o \o (member \o Others(ms)) = u \o Others(ms)
    BY <2>4, <2>5, <2>18, TextAssoc, Zenon DEF u
  <2>20. Object(sm) = Append(u \o Others(ms), RB)
    BY <2>16, <2>17, <2>19
  <2> QED BY <2>1, <2>11, <2>12, <2>13, <2>14, <2>20 DEF sm
<1> QED BY <1>3, <1>4

-----------------------------------------------------------------------------
(* A sequence over S, by its last element.                                 *)
LEMMA AppendOf ==
  ASSUME NEW S, NEW R, NEW c \in Seq(R), NEW x \in R
  PROVE  Append(c, x) \in Seq(S) <=> c \in Seq(S) /\ x \in S
<1> DEFINE n == Len(c)
           d == Append(c, x)
<1>1. /\ d \in Seq(R) /\ n \in Nat /\ Len(d) = n + 1 /\ d[n + 1] = x
      /\ \A k \in 1 .. n : d[k] = c[k]
  BY AppendIs
<1>2. d \in Seq(S) <=> \A k \in 1 .. n + 1 : d[k] \in S
  <2> HIDE DEF d
  <2> QED BY <1>1
<1>3. c \in Seq(S) <=> \A k \in 1 .. n : c[k] \in S
  OBVIOUS
<1>4. 1 .. n + 1 = 1 .. n \cup {n + 1}
  BY <1>1
<1> HIDE DEF n, d
<1>5. d \in Seq(S) <=> c \in Seq(S) /\ x \in S
  BY <1>1, <1>2, <1>3, <1>4
<1> QED BY <1>5 DEF d

(* Trimming makes no text longer.                                          *)
LEMMA TrimShorter ==
  ASSUME NEW b \in Seq(Lexemes)
  PROVE  Len(TrimSpace(b)) <= Len(b)
<1> DEFINE n == Len(b)
           solid == {i \in DOMAIN b : b[i] # "sp"}
           lo == Min(solid)
           hi == Max(solid)
<1>1. n \in Nat /\ DOMAIN b = 1 .. n
  OBVIOUS
<1>2. CASE solid = {}
  <2>1. TrimSpace(b) = <<>>
    BY <1>2 DEF TrimSpace
  <2> QED BY <1>1, <2>1
<1>3. CASE solid # {}
  <2>1. TrimSpace(b) = SubSeq(b, lo, hi)
    BY <1>3 DEF TrimSpace
  <2>2. solid \in SUBSET Nat /\ solid \in SUBSET (0 .. n)
    BY <1>1
  <2>3. lo \in solid /\ \A k \in solid : lo <= k
    BY <1>3, <2>2, MinOf
  <2>4. hi \in solid
    BY <1>1, <1>3, <2>2, MaxOf
  <2> HIDE DEF lo, hi
  <2>5. lo \in 1 .. n + 1 /\ hi \in lo - 1 .. n
    BY <1>1, <2>3, <2>4
  <2>6. Len(SubSeq(b, lo, hi)) = hi - lo + 1
    BY <2>5, SubSeqIs
  <2> QED BY <1>1, <2>1, <2>5, <2>6
<1> QED BY <1>2, <1>3

(* The members whose values leave the nesting of an object within N.       *)
Shallow(N) == {m \in Entries : Below(Top("value", {}), m.value, N)}

(* At the top level, brackets are opened in the value of a member only,    *)
LEMMA TextBelow ==
  ASSUME NEW m \in Entries, NEW a \in {"member", "key"}, NEW K \in SUBSET Unquotes,
         NEW N \in Nat, 1 <= N
  PROVE  Below(Top(a, K), Text(m), N) <=> m \in Shallow(N)
<1> DEFINE v == m.value
           k == m.key
           colon == <<":">>
           L == K \cup {k}
           t == colon \o v
           val == Top("value", {})
<1>1. /\ k \in Unquotes /\ k \in Lexemes /\ ":" \in Lexemes
      /\ v \in Seq(Lexemes) /\ Parses(v)
  BY MemberIs, SolidLexemes
<1>2. L \in SUBSET Unquotes /\ {} \in SUBSET Unquotes
  BY <1>1
<1>3. /\ Top(a, K) \in JsonStates /\ Top(a, K).stack = Outer
      /\ Top("colon", L) \in JsonStates /\ Top("colon", L).stack = Outer
      /\ val \in JsonStates /\ Top("value", L) \in JsonStates
  BY <1>2, TopIs
<1>4. Len(Outer) <= N
  BY OuterIs
<1>5. JsonStep(Top(a, K), k) = Top("colon", L) /\ JsonStep(Top("colon", L), ":") = Top("value", L)
  BY <1>1, <1>2, TopStep
<1>6. JsonEnd(val, v).at # "bad"
  <2>1. JsonEnd(val, v) = Top("next", {})
    BY <1>1, <1>2, LiftValue
  <2> QED BY <1>2, <2>1, TopIs
<1>7. More(val, L) = Top("value", L)
  <2>1. More(val, L) = Top("value", {} \cup L)
    BY <1>2, MoreTop
  <2>2. {} \cup L = L
    OBVIOUS
  <2> QED BY <2>1, <2>2
<1>8. m \in Shallow(N) <=> Below(val, v, N)
  BY DEF Shallow
<1>9. colon \in Seq(Lexemes)
  BY <1>1
<1> HIDE DEF v, k, L, val
<1>10. Text(m) = <<k>> \o t /\ t \in Seq(Lexemes)
  <2>1. <<k, ":">> = <<k>> \o colon /\ <<k>> \in Seq(Lexemes)
    BY <1>1
  <2> HIDE DEF colon
  <2>2. t \in Seq(Lexemes)
    BY <1>1, <1>9, ConcatIs
  <2>3. <<k>> \o (colon \o v) = (<<k>> \o colon) \o v
    <3> DEFINE o == <<k>>
    <3>1. o \in Seq(Lexemes) /\ colon \in Seq(Lexemes) /\ v \in Seq(Lexemes)
      BY <1>1, <1>9, <2>1
    <3> HIDE DEF o
    <3>2. o \o (colon \o v) = (o \o colon) \o v
      BY <3>1, ConcatAssoc
    <3> QED BY <3>2 DEF o
  <2>4. Text(m) = <<k, ":">> \o v
    BY DEF Text, k, v
  <2> QED BY <2>1, <2>2, <2>3, <2>4
<1>11. Below(Top("value", L), v, N) <=> Below(val, v, N)
  BY <1>1, <1>3, <1>6, <1>7, BelowMore
<1>12. Below(Top("colon", L), t, N) <=> Below(Top("value", L), v, N)
  BY <1>1, <1>3, <1>4, <1>5, BelowCons
<1> HIDE DEF t
<1>13. Below(Top(a, K), <<k>> \o t, N) <=> Below(Top("colon", L), t, N)
  BY <1>1, <1>3, <1>4, <1>5, <1>10, BelowCons
<1> QED BY <1>8, <1>10, <1>11, <1>12, <1>13

(* so that it is up to the values,                                         *)
LEMMA PreBelowAppend ==
  ASSUME NEW ms \in Seq(Entries), NEW m \in Entries, NEW N \in Nat
  PROVE  Below(JsonStart, Pre(Append(ms, m)), N) <=>
           Below(JsonStart, Pre(ms), N) /\ (1 <= N => m \in Shallow(N))
<1> DEFINE p == Pre(ms)
           s == Sep(ms)
           t == Text(m)
           K == Keys(ms)
<1>1. p \in Seq(Lexemes) /\ s \in Seq(Lexemes) /\ t \in Seq(Lexemes)
  BY ObjectIs, SepType, TextIs, SolidLexemes
<1>2. Pre(Append(ms, m)) = (p \o s) \o t
  BY PreAppend
<1>3. K \in SUBSET Unquotes
  BY KeysAppend
<1>4. JsonEnd(JsonStart, p) = Expects(ms)
  BY PreJson
<1> HIDE DEF p, s, t
<1>5. p \o s \in Seq(Lexemes)
  BY <1>1, ConcatIs
<1>6. /\ Expects(ms) \in JsonStates /\ Expects(ms).stack = Outer
      /\ Top("key", K) \in JsonStates /\ Top("key", K).stack = Outer
  <2>1. Expects(ms) \in {Top("member", K), Top("next", K)}
    BY DEF Expects
  <2>2. /\ \A a \in {"member", "key", "next"} : Top(a, K) \in JsonStates /\ Top(a, K).stack = Outer
    BY <1>3, TopIs
  <2> QED BY <2>1, <2>2
<1>7. Below(JsonStart, p, N) => 1 <= N
  <2>1. Len(p) \in 0 .. Len(p)
    BY <1>1
  <2>2. Below(JsonStart, p, N) => Len(Expects(ms).stack) <= N
    BY <1>4, <2>1 DEF Below, JsonEnd
  <2> QED BY <1>6, <2>2, OuterIs
<1>8. /\ 1 <= N => Below(Expects(ms), s, N)
      /\ \E a \in {"member", "key"} : JsonEnd(Expects(ms), s) = Top(a, K)
  <2>0. 1 <= N => Len(Outer) <= N
    BY OuterIs
  <2>1. CASE Len(ms) = 0
    <3>1. s = <<>> /\ Expects(ms) = Top("member", K)
      BY <2>1 DEF s, Sep, Expects
    <3>2. JsonEnd(Expects(ms), s) = Top("member", K)
      BY <1>6, <3>1, JsonEndEmpty
    <3>3. 1 <= N => Below(Expects(ms), s, N)
      BY <1>6, <2>0, <3>1, BelowEmpty
    <3> QED BY <3>2, <3>3
  <2>2. CASE Len(ms) # 0
    <3>1. s = <<CM>> /\ Expects(ms) = Top("next", K)
      BY <2>2 DEF s, Sep, Expects
    <3>2. JsonStep(Expects(ms), CM) = Top("key", K)
      BY <1>3, <3>1, TopStep
    <3>3. JsonEnd(Expects(ms), s) = Top("key", K)
      BY <1>6, <3>1, <3>2, JsonEndOne, Marks
    <3>4. 1 <= N => Below(Expects(ms), s, N)
      <4>1. s = <<CM>> \o <<>> /\ <<>> \in Seq(Lexemes)
        BY <3>1, Marks
      <4>2. Below(Top("key", K), <<>>, N) <=> Len(Outer) <= N
        BY <1>6, BelowEmpty
      <4>3. Below(Expects(ms), <<CM>> \o <<>>, N) <=>
              Len(Expects(ms).stack) <= N /\ Below(Top("key", K), <<>>, N)
        BY <1>6, <3>2, <4>1, BelowCons, Marks
      <4> QED BY <1>6, <2>0, <4>1, <4>2, <4>3
    <3> QED BY <3>3, <3>4
  <2> QED BY <2>1, <2>2
<1>9. PICK a \in {"member", "key"} : JsonEnd(Expects(ms), s) = Top(a, K)
  BY <1>8
<1>10. Below(JsonStart, p \o s, N) <=> Below(JsonStart, p, N) /\ Below(Expects(ms), s, N)
  BY <1>1, <1>4, JsonStartType, BelowConcat
<1>11. JsonEnd(JsonStart, p \o s) = Top(a, K)
  BY <1>1, <1>4, <1>9, JsonStartType, JsonEndConcat
<1> DEFINE q == p \o s
<1>12. q \in Seq(Lexemes) /\ JsonEnd(JsonStart, q) = Top(a, K)
  BY <1>5, <1>11
<1> HIDE DEF q
<1>13. Below(JsonStart, q \o t, N) <=> Below(JsonStart, q, N) /\ Below(Top(a, K), t, N)
  BY <1>1, <1>12, JsonStartType, BelowConcat
<1>14. 1 <= N => (Below(Top(a, K), t, N) <=> m \in Shallow(N))
  BY <1>3, TextBelow DEF t
<1> QED BY <1>2, <1>7, <1>8, <1>10, <1>13, <1>14 DEF q, p

(* of all members.                                                         *)
LEMMA PreBelow ==
  ASSUME NEW ms \in Seq(Entries), NEW N \in Nat
  PROVE  Below(JsonStart, Pre(ms), N) <=> 1 <= N /\ ms \in Seq(Shallow(N))
<1> DEFINE G(d) == Below(JsonStart, Pre(d), N) <=> 1 <= N /\ d \in Seq(Shallow(N))
           T == {n \in Nat : \A d \in Seq(Entries) : Len(d) = n => G(d)}
<1>1. 0 \in T
  <2>1. ASSUME NEW d \in Seq(Entries), Len(d) = 0 PROVE G(d)
    <3>1. Pre(d) = <<LB>>
      BY <2>1, PreEmpty
    <3>2. d = <<>>
      BY <2>1, EmptyStack
    <3>3. d \in Seq(Shallow(N))
      BY <3>2
    <3>4. <<LB>> = <<LB>> \o <<>> /\ <<>> \in Seq(Lexemes)
      BY Marks
    <3> DEFINE m == Top("member", {})
    <3>5. JsonStep(JsonStart, LB) = m /\ m \in JsonStates /\ m.stack = Outer
      <4>1. {} \in SUBSET Unquotes
        OBVIOUS
      <4> QED BY <4>1, TopStep, TopIs
    <3> HIDE DEF m
    <3>6. Below(m, <<>>, N) <=> Len(Outer) <= N
      BY <3>5, BelowEmpty
    <3>7. Below(JsonStart, <<LB>> \o <<>>, N) <=> Len(JsonStart.stack) <= N /\ Below(m, <<>>, N)
      BY <3>4, <3>5, JsonStartType, BelowCons, Marks
    <3>8. Len(JsonStart.stack) = 0
      BY JsonFields DEF JsonStart
    <3>9. Len(Outer) = 1
      BY OuterIs
    <3> QED BY <3>1, <3>3, <3>4, <3>6, <3>7, <3>8, <3>9
  <2> QED BY <2>1
<1>2. ASSUME NEW n \in Nat, n \in T PROVE n + 1 \in T
  <2>1. ASSUME NEW d \in Seq(Entries), Len(d) = n + 1 PROVE G(d)
    <3>1. PICK c \in Seq(Entries), m \in Entries : d = Append(c, m) /\ Len(c) = n
      BY <2>1, SplitLast
    <3>2. G(c)
      BY <1>2, <3>1
    <3>3. Below(JsonStart, Pre(d), N) <=>
            Below(JsonStart, Pre(c), N) /\ (1 <= N => m \in Shallow(N))
      BY <3>1, PreBelowAppend
    <3>4. Append(c, m) \in Seq(Shallow(N)) <=> c \in Seq(Shallow(N)) /\ m \in Shallow(N)
      BY AppendOf
    <3> QED BY <3>1, <3>2, <3>3, <3>4
  <2> QED BY <2>1
<1> HIDE DEF T
<1>3. \A n \in Nat : n \in T
  BY <1>1, <1>2, InductionNat
<1>4. Len(ms) \in T
  <2>1. Len(ms) \in Nat
    OBVIOUS
  <2> QED BY <1>3, <2>1
<1> QED BY <1>4 DEF T

(* The nesting of a text that says ms is up to the members of ms.          *)
LEMMA NestsOfText ==
  ASSUME NEW ms \in Seq(Entries), NEW b \in Seq(Lexemes), Compact(b) = Object(ms), NEW N \in Nat
  PROVE  Nests(b, N) <=> 1 <= N /\ ms \in Seq(Shallow(N))
<1> DEFINE p == Pre(ms)
           o == Object(ms)
           e == JsonEnd(JsonStart, o)
<1>1. p \in Seq(Lexemes) /\ o = Append(p, RB) /\ o \in Seq(Lexemes)
  BY ObjectIs
<1>2. e = Json("end", <<>>, Keys(ms))
  BY ObjectJson
<1>3. Nests(b, N) <=> Below(JsonStart, o, N)
  BY JsonStartType, BelowCompact, NestsIs
<1> HIDE DEF p, o
<1>4. e = JsonStep(JsonEnd(JsonStart, p), RB)
  BY <1>1, JsonStartType, JsonEndAppend, Marks
<1> HIDE DEF e
<1>5. Len(e.stack) <= N
  <2>1. e.stack = <<>>
    BY <1>2, JsonFields
  <2>2. Len(<<>>) <= N
    OBVIOUS
  <2> QED BY <2>1, <2>2
<1>6. Below(JsonStart, o, N) <=> Below(JsonStart, p, N)
  BY <1>1, <1>4, <1>5, JsonStartType, BelowAppend, Marks
<1>7. Below(JsonStart, p, N) <=> 1 <= N /\ ms \in Seq(Shallow(N))
  BY PreBelow DEF p
<1> QED BY <1>3, <1>6, <1>7
-----------------------------------------------------------------------------
(* What is picked is no longer.                                            *)
LEMMA PickShorter ==
  ASSUME NEW b \in Seq(Lexemes), NEW K
  PROVE  Len(Pick(b, K)) <= Len(b)
<1> DEFINE T == {n \in Nat : \A d \in Seq(Lexemes) : Len(d) = n => Len(Pick(d, K)) <= n}
<1>1. 0 \in T
  <2>1. ASSUME NEW d \in Seq(Lexemes), Len(d) = 0 PROVE Len(Pick(d, K)) <= 0
    <3>1. Pick(d, K) = <<>>
      BY <2>1, PickEmpty
    <3> QED BY <3>1
  <2> QED BY <2>1
<1>2. ASSUME NEW n \in Nat, n \in T PROVE n + 1 \in T
  <2>1. ASSUME NEW d \in Seq(Lexemes), Len(d) = n + 1 PROVE Len(Pick(d, K)) <= n + 1
    <3>1. PICK c \in Seq(Lexemes), x \in Lexemes : d = Append(c, x) /\ Len(c) = n
      BY <2>1, SplitLast
    <3> DEFINE p == Pick(c, K)
    <3>2. Len(p) <= n
      BY <1>2, <3>1
    <3>3. Pick(d, K) = IF n + 1 \in K THEN Append(p, x) ELSE p
      BY <3>1, PickAppend
    <3>4. p \in Seq(Lexemes)
      BY PickType
    <3> HIDE DEF p
    <3>5. Len(Append(p, x)) = Len(p) + 1 /\ Len(p) \in Nat
      BY <3>4, AppendIs
    <3>6. Len(Append(p, x)) <= n + 1 /\ Len(p) <= n + 1
      BY <3>2, <3>5
    <3> QED BY <3>3, <3>6
  <2> QED BY <2>1
<1> HIDE DEF T
<1>3. \A n \in Nat : n \in T
  BY <1>1, <1>2, InductionNat
<1>4. Len(b) \in T
  <2>1. Len(b) \in Nat
    OBVIOUS
  <2> QED BY <1>3, <2>1
<1> QED BY <1>4 DEF T

(* Nor is what the scan hands on.                                          *)
LEMMA BodyShorter ==
  ASSUME NEW b \in Seq(Lexemes), Len(b) >= 2
  PROVE  Len(ExtractAndStripRouting(b).body) <= Len(b)
<1> DEFINE c == Splice(b, Scan(b).ms, Hits(Scan(b).ms))
           d == <<"{", "}">>
           body == ExtractAndStripRouting(b).body
<1>1. Len(c) <= Len(b)
  BY PickShorter DEF Splice
<1>2. Len(d) <= Len(b) /\ Len(b) <= Len(b)
  OBVIOUS
<1> HIDE DEF c, d
<1>3. body \in {b, c, d}
  BY DEF ExtractAndStripRouting, Fields, c, d
<1> QED BY <1>1, <1>2, <1>3

(* A text that says ms has its braces.                                     *)
LEMMA TwoBraces ==
  ASSUME NEW ms \in Seq(Entries), NEW b \in Seq(Lexemes), Compact(b) = Object(ms)
  PROVE  Len(b) >= 2
<1> DEFINE t == TrimSpace(b)
           c == Compact(t)
<1>1. t \in Seq(Lexemes) /\ c = Object(ms) /\ Snug(t) /\ c = Compact(b)
  BY TrimIs, TrimCompact
<1> HIDE DEF t
<1>2. Len(t) >= 2 /\ t[1] = LB /\ t[Len(t)] = RB
  BY <1>1, ObjectText
<1>3. Len(t) <= Len(b)
  BY TrimShorter DEF t
<1>4. Len(t) \in Nat /\ Len(b) \in Nat
  BY <1>1
<1> QED BY <1>2, <1>3, <1>4

(* What validateEvent makes of a text that says ms.                        *)
LEMMA ReasonOfText ==
  ASSUME NEW ms \in Seq(Entries), NEW b \in Seq(Lexemes), Compact(b) = Object(ms),
         Nests(b, MaxNestingDepth), maxBytes \in Nat, Len(b) <= maxBytes
  PROVE  /\ ValidateReason(b) = "accepted"
         /\ Compact(Stamp(TrimSpace(b))) = Object(Stamped(ms))
<1> DEFINE t == TrimSpace(b)
<1>1. t \in Seq(Lexemes)
  BY TrimIs
<1>2. Compact(t) = Object(ms) /\ Snug(t)
  BY TrimCompact
<1>3. Nests(t, MaxNestingDepth)
  BY <1>1, JsonAssumption, JsonStartType, BelowTrim, NestsIs
<1> HIDE DEF t
<1>4. Len(t) >= 2 /\ t[1] = LB /\ t[Len(t)] = RB /\ Parses(t)
  BY <1>1, <1>2, ObjectText
<1>5. Head(t) = LB /\ Last(t) = RB
  BY <1>1, <1>4, HeadLast
<1>6. JsonValid(t)
  BY <1>3, <1>4 DEF JsonValid
<1>7. ~(Len(b) > maxBytes)
  OBVIOUS
<1>8. ValidateReason(b) = "accepted"
  BY <1>4, <1>5, <1>6, <1>7, Zenon DEF ValidateReason, t, LB, RB
<1>9. Compact(Stamp(t)) = Object(Stamped(ms))
  BY <1>1, <1>2, StampText
<1> QED BY <1>8, <1>9 DEF t

(* It implies Transparent.                                                 *)
LEMMA SaysWhatWasWritten ==
  ASSUME IntakeInv
  PROVE  Transparent
<1>1. SUFFICES ASSUME stage = "done", Whole, JsonValid(dg), WithinLimits
               PROVE  IF Wanted("_project") = "bad" THEN outcome = "unrouted_unknown"
                      ELSE IF Wanted("_token") = "bad" /\ inline THEN outcome = "bad_token"
                      ELSE /\ fields.project = Wanted("_project")
                           /\ fields.token = Wanted("_token")
                           /\ outcome = "accepted"
                           /\ Compact(event) = Object(Stamped(Kept))
  BY DEF Transparent
<1>2. /\ written \in Seq(Members) /\ dg \in Seq(Lexemes) /\ maxBytes \in Nat
      /\ fields = ExtractAndStripRouting(dg) /\ Compact(dg) = Object(written)
      /\ IF EarlyDrop(fields) # "none" THEN outcome = EarlyDrop(fields)
         ELSE /\ outcome = ValidateReason(fields.body)
              /\ outcome = "accepted" => event = Stamp(TrimSpace(fields.body))
  BY <1>1, IntakeAssumption DEF IntakeInv, IntakeTypes, OutcomeIs, Whole
<1>3. written \in Seq(Entries)
  BY <1>2, WrittenEntries
<1>4. ~(Tagged(dg) /\ SomeDeep(written))
  <2>1. DOMAIN written = 1 .. Len(written)
    BY <1>3
  <2> QED BY <1>1, <2>1 DEF WithinLimits, SomeDeep
<1>5. Reported(fields)
  BY <1>2, <1>3, <1>4, WrittenStripped
<1>6. /\ fields.malformed = FALSE
      /\ fields.project = Wanted("_project") /\ fields.token = Wanted("_token")
  BY <1>5 DEF Reported
<1>7. CASE Wanted("_project") = "bad"
  <2>1. EarlyDrop(fields) = "unrouted_unknown"
    BY <1>6, <1>7 DEF EarlyDrop
  <2>2. outcome = "unrouted_unknown"
    BY <1>2, <2>1
  <2> QED BY <1>7, <2>2
<1>8. CASE Wanted("_project") # "bad" /\ Wanted("_token") = "bad" /\ inline
  <2>1. EarlyDrop(fields) = "bad_token"
    BY <1>6, <1>8 DEF EarlyDrop
  <2>2. outcome = "bad_token"
    BY <1>2, <2>1
  <2> QED BY <1>8, <2>2
<1>9. CASE Wanted("_project") # "bad" /\ ~(Wanted("_token") = "bad" /\ inline)
  <2> DEFINE b == fields.body
             N == MaxNestingDepth
  <2>1. EarlyDrop(fields) = "none"
    BY <1>6, <1>9 DEF EarlyDrop
  <2>2. outcome = ValidateReason(b) /\ (outcome = "accepted" => event = Stamp(TrimSpace(b)))
    BY <1>2, <2>1
  <2>3. b \in Seq(Lexemes) /\ Compact(b) = Object(Kept)
    BY <1>5 DEF Reported
  <2>4. Kept \in Seq(Entries)
    BY <1>3, PickType DEF Kept
  <2>5. Len(b) <= maxBytes
    <3>1. Len(dg) >= 2
      BY <1>2, <1>3, TwoBraces
    <3>2. Len(b) <= Len(dg)
      BY <1>2, <3>1, BodyShorter
    <3> HIDE DEF b
    <3>3. Len(b) \in Nat /\ Len(dg) \in Nat /\ Len(dg) <= maxBytes
      BY <1>1, <1>2, <2>3 DEF WithinLimits
    <3> QED BY <1>2, <3>2, <3>3
  <2> HIDE DEF b
  <2>6. Nests(b, N)
    <3>1. N \in Nat /\ Nests(dg, N)
      BY <1>1, JsonAssumption DEF JsonValid
    <3> HIDE DEF N
    <3>2. 1 <= N /\ written \in Seq(Shallow(N))
      BY <1>2, <1>3, <3>1, NestsOfText
    <3>3. Kept \in Seq(Shallow(N))
      BY <3>2, PickType DEF Kept
    <3> QED BY <2>3, <2>4, <3>1, <3>2, <3>3, NestsOfText
  <2>7. /\ ValidateReason(b) = "accepted"
        /\ Compact(Stamp(TrimSpace(b))) = Object(Stamped(Kept))
    BY <1>2, <2>3, <2>4, <2>5, <2>6, ReasonOfText
  <2> QED BY <1>6, <1>9, <2>2, <2>7
<1> QED BY <1>7, <1>8, <1>9

(* Transparent of every reachable state: for every set of members, every   *)
(* number of them, every whitespace and all limits, a valid object within  *)
(* the limits is accepted, extractAndStripFields reports the routing       *)
(* fields that are spelled without an escape, and the event is the rest.   *)
THEOREM IntakeTransparent == Spec => []Transparent
  BY IntakeInvariant, SaysWhatWasWritten, PTL
=============================================================================
