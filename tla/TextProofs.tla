----------------------------- MODULE TextProofs -----------------------------
(***************************************************************************)
(* Facts about JsonText and Scanner, for texts of any length.  Both read a *)
(* text from left to right by a recursive function of the position, so it  *)
(* is shown once that such functions exist (RunExists), and everything     *)
(* else goes by induction on the position (Induction).                     *)
(*                                                                         *)
(* The central fact is InStep: while the scan goes on, encoding/json reads *)
(* what is left when the lexemes that CutAt names are cut out, and is      *)
(* where the scan is.  Phase is a measure of the scan's progress by which  *)
(* the spans of the members, and the commas next to them, are told apart.  *)
(***************************************************************************)
EXTENDS Scanner, FiniteSetTheorems, WellFoundedInduction, TLAPS
-----------------------------------------------------------------------------
(* The order of the naturals, as a relation.                               *)
Earlier == {p \in Nat \X Nat : p[1] < p[2]}

(* Every set of naturals has a least element.                              *)
LEMMA LeastNumber ==
  ASSUME NEW T \in SUBSET Nat, T # {}
  PROVE  \E m \in T : \A k \in T : m <= k
<1>1. IsWellFoundedOn(Earlier, Nat)
  BY NatLessThanWellFounded DEF OpToRel, Earlier
<1>2. \E m \in T : \A k \in T : <<k, m>> \notin Earlier
  BY <1>1, WFMin
<1>3. PICK m \in T : \A k \in T : <<k, m>> \notin Earlier
  BY <1>2
<1>4. ASSUME NEW k \in T PROVE m <= k
  <2>1. ~(k < m)
    BY <1>3 DEF Earlier
  <2> QED BY <2>1
<1> QED BY <1>4

(* Induction, for a property given as a set.                               *)
LEMMA Induction ==
  ASSUME NEW n \in Nat, NEW T, 0 \in T,
         \A k \in 0 .. n - 1 : k \in T => k + 1 \in T
  PROVE  \A k \in 0 .. n : k \in T
<1> DEFINE F == {k \in 0 .. n : k \notin T}
<1> SUFFICES ASSUME F # {} PROVE FALSE
  OBVIOUS
<1>1. F \in SUBSET Nat
  OBVIOUS
<1>2. PICK m \in F : \A k \in F : m <= k
  BY <1>1, LeastNumber
<1>3. m - 1 \in 0 .. n - 1 /\ m - 1 \notin F
  BY <1>2
<1> QED BY <1>2, <1>3

(* Induction over the naturals, for a set.                                 *)
LEMMA InductionNat ==
  ASSUME NEW T, 0 \in T, \A k \in Nat : k \in T => k + 1 \in T
  PROVE  \A n \in Nat : n \in T
<1> TAKE n \in Nat
<1>1. \A k \in 0 .. n - 1 : k \in T => k + 1 \in T
  OBVIOUS
<1>2. \A k \in 0 .. n : k \in T
  BY <1>1, Induction
<1> QED BY <1>2

(* The largest number of a set.                                            *)
LEMMA MaxOf ==
  ASSUME NEW n \in Nat, NEW T \in SUBSET (0 .. n), T # {}
  PROVE  Max(T) \in T /\ \A k \in T : k <= Max(T)
<1> DEFINE B == {m \in 0 .. n : \A k \in T : k <= m}
<1>1. B \in SUBSET Nat /\ n \in B
  OBVIOUS
<1>2. PICK m \in B : \A k \in B : m <= k
  BY <1>1, LeastNumber
<1>3. m \in T
  <2> SUFFICES ASSUME m \notin T PROVE FALSE
    OBVIOUS
  <2>1. \A k \in T : k \in 0 .. n /\ k <= m /\ k # m
    BY <1>2
  <2>2. PICK t \in T : TRUE
    OBVIOUS
  <2>3. m \in 0 .. n /\ m # 0
    BY <1>2, <2>1, <2>2
  <2>4. m - 1 \in B
    BY <2>1, <2>3
  <2> QED BY <1>2, <2>3, <2>4
<1>4. \E x \in T : \A y \in T : x >= y
  BY <1>2, <1>3
<1> QED BY <1>4 DEF Max

(* The smallest number of a set.                                           *)
LEMMA MinOf ==
  ASSUME NEW T \in SUBSET Nat, T # {}
  PROVE  Min(T) \in T /\ \A k \in T : Min(T) <= k
<1>1. \E x \in T : \A y \in T : x <= y
  BY LeastNumber
<1> QED BY <1>1 DEF Min

(* f is defined by recursion on the position: g[k] is what step k does.    *)
IsRun(f, S, n, s, g) ==
  f \in [0 .. n -> S] /\ f[0] = s /\ \A k \in 1 .. n : f[k] = g[k][f[k - 1]]

(* There is such a function.                                               *)
LEMMA RunExists ==
  ASSUME NEW S, NEW n \in Nat, NEW s \in S, NEW g \in [1 .. n -> [S -> S]]
  PROVE  \E f : IsRun(f, S, n, s, g)
<1> DEFINE Runs(m) == {f \in [0 .. n -> S] :
                         f[0] = s /\ \A k \in 1 .. m : f[k] = g[k][f[k - 1]]}
           T == {m \in 0 .. n : Runs(m) # {}}
<1>1. 0 \in T
  <2>1. [k \in 0 .. n |-> s] \in Runs(0)
    OBVIOUS
  <2> QED BY <2>1
<1>2. ASSUME NEW m \in 0 .. n - 1, m \in T
      PROVE  m + 1 \in T
  <2>1. PICK f \in Runs(m) : TRUE
    BY <1>2
  <2> DEFINE h == [f EXCEPT ![m + 1] = g[m + 1][f[m]]]
  <2>2. f \in [0 .. n -> S] /\ f[0] = s /\ \A k \in 1 .. m : f[k] = g[k][f[k - 1]]
    BY <2>1
  <2>3. g[m + 1][f[m]] \in S
    BY <2>2
  <2>4. h \in [0 .. n -> S] /\ h[0] = s
    BY <2>2, <2>3
  <2>5. ASSUME NEW k \in 1 .. m + 1 PROVE h[k] = g[k][h[k - 1]]
    BY <2>2, <2>3
  <2>6. Runs(m + 1) # {}
    BY <2>4, <2>5
  <2> QED BY <2>6
<1> HIDE DEF T
<1>3. \A k \in 0 .. n : k \in T
  BY <1>1, <1>2, Induction
<1>4. n \in T
  BY <1>3
<1> QED BY <1>4 DEF T, IsRun
-----------------------------------------------------------------------------
(* Sequences as stacks.                                                    *)
LEMMA AppendIs ==
  ASSUME NEW S, NEW s \in Seq(S), NEW x \in S
  PROVE  /\ Append(s, x) \in Seq(S) /\ Len(s) \in Nat
         /\ Len(Append(s, x)) = Len(s) + 1 /\ Append(s, x)[Len(s) + 1] = x
         /\ \A k \in 1 .. Len(s) : Append(s, x)[k] = s[k]
  OBVIOUS

(* What pushing on a stack gives.                                          *)
LEMMA StackOps ==
  ASSUME NEW S, NEW s \in Seq(S), NEW x \in S
  PROVE  /\ Append(s, x) \in Seq(S) /\ Append(s, x) # <<>>
         /\ Len(Append(s, x)) = Len(s) + 1
         /\ Last(Append(s, x)) = x /\ Front(Append(s, x)) = s
  BY DEF Front, Last

(* A stack that is not empty has a top.                                    *)
LEMMA StackTop ==
  ASSUME NEW S, NEW s \in Seq(S), s # <<>>
  PROVE  /\ Front(s) \in Seq(S) /\ Len(Front(s)) = Len(s) - 1
         /\ Last(s) \in S /\ Len(s) > 0
         /\ s = Append(Front(s), Last(s))
<1>1. Len(s) \in Nat /\ Len(s) > 0
  OBVIOUS
<1>2. /\ Front(s) \in Seq(S) /\ Len(Front(s)) = Len(s) - 1
      /\ \A i \in 1 .. Len(s) - 1 : Front(s)[i] = s[i]
      /\ Last(s) \in S
  <2>1. Len(s) - 1 \in Nat /\ 1 \in Nat /\ Len(s) \in 1 .. Len(s)
    BY <1>1
  <2>2. Last(s) \in S
    BY <2>1 DEF Last
  <2>3. Front(s) = [i \in 1 .. Len(s) - 1 |-> s[i]]
    BY <2>1 DEF Front
  <2> QED BY <2>1, <2>2, <2>3
<1> DEFINE t == Append(Front(s), Last(s))
<1>3. t \in Seq(S) /\ Len(t) = Len(s) /\ \A i \in 1 .. Len(s) : t[i] = s[i]
  BY <1>1, <1>2 DEF Last
<1> HIDE DEF t
<1>4. t = s
  BY <1>3
<1> QED BY <1>1, <1>2, <1>4 DEF t

(* A sequence of n + 1 elements ends with one.                             *)
LEMMA SplitLast ==
  ASSUME NEW S, NEW s \in Seq(S), NEW n \in Nat, Len(s) = n + 1
  PROVE  \E t \in Seq(S), x \in S : s = Append(t, x) /\ Len(t) = n
<1>1. s # <<>>
  OBVIOUS
<1>2. Front(s) \in Seq(S) /\ Last(s) \in S /\ s = Append(Front(s), Last(s))
  BY <1>1, StackTop
<1>3. Len(Front(s)) = Len(s) - 1
  BY <1>1, StackTop
<1> QED BY <1>2, <1>3

(* The same with t on top of s.                                            *)
LEMMA StackOn ==
  ASSUME NEW S, NEW s \in Seq(S), NEW t \in Seq(S)
  PROVE  /\ s \o t \in Seq(S) /\ Len(s \o t) = Len(s) + Len(t)
         /\ \A x \in S : Append(s \o t, x) = s \o Append(t, x)
         /\ t # <<>> => /\ Last(s \o t) = Last(t) /\ Front(s \o t) = s \o Front(t)
                        /\ s \o t # <<>>
  BY SMTT(30) DEF Front, Last

(* The empty sequence.                                                     *)
LEMMA EmptyStack ==
  ASSUME NEW S, NEW s \in Seq(S)
  PROVE  /\ s \o <<>> = s /\ <<>> \o s = s
         /\ Len(s) = 0 <=> s = <<>>
         /\ <<>> \in Seq(S)
  OBVIOUS

(* What encoding/json may be in: expecting what, in which bracket.         *)
JsonModes == {"value", "item", "member", "key", "colon", "next", "end", "bad"}
JsonStates ==
  {j \in [at : JsonModes, stack : Seq(Openers), keys : SUBSET Unquotes] :
     /\ j.at \in {"member", "key", "colon"} => j.stack # <<>> /\ Last(j.stack) = "{"
     /\ j.at = "item" => j.stack # <<>> /\ Last(j.stack) = "["
     /\ j.at = "next" => j.stack # <<>>
     /\ j.at = "end" => j.stack = <<>>}

(* The parts of encoding/json's state.                                     *)
LEMMA JsonFields ==
  ASSUME NEW a, NEW t, NEW K
  PROVE  Json(a, t, K).at = a /\ Json(a, t, K).stack = t /\ Json(a, t, K).keys = K
  BY DEF Json

(* When Json(a, t, K) is a state.                                          *)
LEMMA JsonType ==
  ASSUME NEW a \in JsonModes, NEW t \in Seq(Openers), NEW K \in SUBSET Unquotes,
         a \in {"member", "key", "colon"} => t # <<>> /\ Last(t) = "{",
         a = "item" => t # <<>> /\ Last(t) = "[",
         a = "next" => t # <<>>,
         a = "end" => t = <<>>
  PROVE  Json(a, t, K) \in JsonStates
<1> DEFINE j == Json(a, t, K)
<1>1. j \in [at : JsonModes, stack : Seq(Openers), keys : SUBSET Unquotes]
  BY DEF Json
<1>2. j.at = a /\ j.stack = t
  BY DEF Json
<1> HIDE DEF j
<1>3. j \in JsonStates
  BY <1>1, <1>2 DEF JsonStates
<1> QED BY <1>3 DEF j

(* The facts about a state, for the provers.                               *)
LEMMA JsonStateIs ==
  ASSUME NEW j \in JsonStates
  PROVE  /\ j.at \in JsonModes /\ j.stack \in Seq(Openers) /\ j.keys \in SUBSET Unquotes
         /\ j = Json(j.at, j.stack, j.keys)
         /\ j.at \in {"member", "key", "colon"} => j.stack # <<>> /\ Last(j.stack) = "{"
         /\ j.at = "item" => j.stack # <<>> /\ Last(j.stack) = "["
         /\ j.at = "next" => j.stack # <<>>
         /\ j.at = "end" => j.stack = <<>>
  BY DEF JsonStates, Json

(* It starts in a state.                                                   *)
LEMMA JsonStartType == JsonStart \in JsonStates
<1>1. <<>> \in Seq(Openers) /\ {} \in SUBSET Unquotes /\ "value" \in JsonModes
  BY DEF JsonModes
<1> QED BY <1>1, JsonType DEF JsonStart

(* Every lexeme leads from a state to a state.                             *)
LEMMA JsonStepType ==
  ASSUME NEW j \in JsonStates, NEW x
  PROVE  JsonStep(j, x) \in JsonStates
<1> DEFINE push == Append(j.stack, x)
           pop == Front(j.stack)
<1>1. /\ j.at \in JsonModes /\ j.stack \in Seq(Openers) /\ j.keys \in SUBSET Unquotes
      /\ j.at \in {"member", "key", "colon"} => j.stack # <<>> /\ Last(j.stack) = "{"
      /\ j.at = "item" => j.stack # <<>> /\ Last(j.stack) = "["
      /\ j.at = "next" => j.stack # <<>>
      /\ j.at = "end" => j.stack = <<>>
  BY JsonStateIs
<1>2. x \in Openers => push \in Seq(Openers) /\ push # <<>> /\ Last(push) = x
  BY <1>1, StackOps, ZenonT(40)
<1>3. j.stack # <<>> => pop \in Seq(Openers)
  BY <1>1, StackTop
<1> HIDE DEF push, pop
<1>4. CASE x = "sp"
  BY <1>4 DEF JsonStep
<1>5. CASE x # "sp" /\ j.at \in {"value", "item"} /\ x \in Unquotes \cup Scalars
  <2>1. JsonStep(j, x) = AfterValue(j.stack, j.keys)
    BY <1>5 DEF JsonStep, Unquotes, Strings, Escaped, Scalars, RoutingKeys, Openers
  <2> QED BY <1>1, <2>1, JsonType DEF AfterValue, JsonModes
<1>6. CASE x # "sp" /\ j.at \in {"value", "item"} /\ x \in Openers
  <2>1. JsonStep(j, x) = Json(IF x = "{" THEN "member" ELSE "item", push, j.keys)
    BY <1>6 DEF JsonStep, Unquotes, Strings, Escaped, Scalars, RoutingKeys, Openers, push
  <2> QED BY <1>1, <1>2, <1>6, <2>1, JsonType DEF JsonModes, Openers
<1>7. CASE /\ x # "sp"
           /\ \/ j.at = "item" /\ x = "]"
              \/ j.at = "member" /\ x = "}"
              \/ j.at = "next" /\ Closes(Last(j.stack), x)
  <2>1. JsonStep(j, x) = AfterValue(pop, j.keys)
    BY <1>7 DEF JsonStep, Unquotes, Strings, Escaped, Scalars, RoutingKeys, Openers, pop, Closes
  <2> QED BY <1>1, <1>3, <1>7, <2>1, JsonType DEF AfterValue, JsonModes
<1>8. CASE x # "sp" /\ j.at \in {"member", "key"} /\ x \in Unquotes
  <2>1. JsonStep(j, x) = Json("colon", j.stack, IF Len(j.stack) = 1 THEN j.keys \cup {x}
                                                ELSE j.keys)
    BY <1>8 DEF JsonStep, Unquotes, Strings, Escaped, Scalars, RoutingKeys, Openers
  <2> QED BY <1>1, <1>8, <2>1, JsonType DEF JsonModes
<1>9. CASE x # "sp" /\ j.at = "colon" /\ x = ":"
  <2>1. JsonStep(j, x) = Json("value", j.stack, j.keys)
    BY <1>9 DEF JsonStep, Closes
  <2> QED BY <1>1, <2>1, JsonType DEF JsonModes
<1>10. CASE x # "sp" /\ j.at = "next" /\ x = ","
  <2>1. JsonStep(j, x) = Json(IF Last(j.stack) = "{" THEN "key" ELSE "value",
                              j.stack, j.keys)
    BY <1>10 DEF JsonStep, Closes
  <2>2. Last(j.stack) = "{" => Json("key", j.stack, j.keys) \in JsonStates
    BY <1>1, <1>10, JsonType DEF JsonModes
  <2>3. Json("value", j.stack, j.keys) \in JsonStates
    BY <1>1, JsonType DEF JsonModes
  <2> QED BY <2>1, <2>2, <2>3
<1>11. CASE JsonStep(j, x) = Json("bad", j.stack, j.keys)
  BY <1>1, <1>11, JsonType DEF JsonModes
<1> QED BY <1>4, <1>5, <1>6, <1>7, <1>8, <1>9, <1>10, <1>11 DEF JsonStep

(* JsonRun is the recursive function it is meant to be.                    *)
LEMMA JsonRunIs ==
  ASSUME NEW j \in JsonStates, NEW b \in Seq(Lexemes)
  PROVE  /\ JsonRun(j, b) \in [0 .. Len(b) -> JsonStates]
         /\ JsonRun(j, b)[0] = j
         /\ \A k \in 1 .. Len(b) :
              JsonRun(j, b)[k] = JsonStep(JsonRun(j, b)[k - 1], b[k])
<1> DEFINE n == Len(b)
           g == [k \in 1 .. n |-> [s \in JsonStates |-> JsonStep(s, b[k])]]
           Is(f) == f = [k \in 0 .. n |-> IF k = 0 THEN j ELSE JsonStep(f[k - 1], b[k])]
<1>1. n \in Nat
  OBVIOUS
<1>2. g \in [1 .. n -> [JsonStates -> JsonStates]]
  BY JsonStepType
<1>3. \A k \in 1 .. n : \A s \in JsonStates : g[k][s] = JsonStep(s, b[k])
  OBVIOUS
<1> HIDE DEF n, g
<1>4. PICK f : IsRun(f, JsonStates, n, j, g)
  BY <1>1, <1>2, RunExists
<1>5. /\ f \in [0 .. n -> JsonStates]
      /\ \A k \in 0 .. n : f[k] = IF k = 0 THEN j ELSE JsonStep(f[k - 1], b[k])
  <2>1. f \in [0 .. n -> JsonStates] /\ f[0] = j
    BY <1>4 DEF IsRun
  <2>2. ASSUME NEW k \in 1 .. n PROVE f[k] = JsonStep(f[k - 1], b[k])
    <3>1. k - 1 \in 0 .. n
      BY <1>1
    <3> QED BY <1>3, <1>4, <2>1, <3>1 DEF IsRun
  <2> QED BY <1>1, <2>1, <2>2
<1>6. Is(f)
  BY <1>5
<1> DEFINE r == JsonRun(j, b)
<1>7. r = CHOOSE h : Is(h)
  BY DEF JsonRun, n
<1>8. Is(r)
  BY <1>6, <1>7
<1> HIDE DEF r
<1>9. DOMAIN r = 0 .. n /\ r[0] = j /\ r = [k \in 0 .. n |-> r[k]]
  BY <1>1, <1>8
<1>10. \A k \in 1 .. n : r[k] = JsonStep(r[k - 1], b[k])
  BY <1>1, <1>8
<1> HIDE DEF Is
<1>11. \A k \in 0 .. n : r[k] \in JsonStates
  <2> DEFINE T == {k \in 0 .. n : r[k] \in JsonStates}
  <2>1. 0 \in T
    BY <1>1, <1>9
  <2>2. ASSUME NEW k \in 0 .. n - 1, k \in T PROVE k + 1 \in T
    <3>1. k + 1 \in 1 .. n /\ k + 1 \in 0 .. n /\ (k + 1) - 1 = k
      BY <1>1
    <3>2. r[k + 1] = JsonStep(r[k], b[k + 1])
      BY <1>10, <3>1
    <3> QED BY <2>2, <3>1, <3>2, JsonStepType
  <2> HIDE DEF T
  <2>3. \A k \in 0 .. n : k \in T
    BY <1>1, <2>1, <2>2, Induction
  <2> QED BY <2>3 DEF T
<1>12. r \in [0 .. n -> JsonStates]
  BY <1>9, <1>11
<1> QED BY <1>9, <1>10, <1>12 DEF r, n

(* Runs of texts that agree so far agree so far.                           *)
LEMMA JsonRunsAgree ==
  ASSUME NEW j \in JsonStates, NEW b \in Seq(Lexemes), NEW c \in Seq(Lexemes),
         NEW n \in Nat, n <= Len(b), n <= Len(c), \A k \in 1 .. n : b[k] = c[k]
  PROVE  \A k \in 0 .. n : JsonRun(j, b)[k] = JsonRun(j, c)[k]
<1> DEFINE f == JsonRun(j, b)
           h == JsonRun(j, c)
           T == {k \in 0 .. n : f[k] = h[k]}
<1>1. f[0] = h[0] /\ \A k \in 1 .. n : /\ f[k] = JsonStep(f[k - 1], b[k])
                                       /\ h[k] = JsonStep(h[k - 1], c[k])
  BY JsonRunIs
<1> HIDE DEF f, h
<1>2. 0 \in T
  BY <1>1
<1>3. ASSUME NEW k \in 0 .. n - 1, k \in T PROVE k + 1 \in T
  <2>1. k + 1 \in 1 .. n /\ (k + 1) - 1 = k
    OBVIOUS
  <2> QED BY <1>1, <1>3, <2>1
<1> HIDE DEF T
<1>4. \A k \in 0 .. n : k \in T
  BY <1>2, <1>3, Induction
<1> QED BY <1>4 DEF T, f, h

(* So does every text.                                                     *)
LEMMA JsonEndType ==
  ASSUME NEW j \in JsonStates, NEW b \in Seq(Lexemes)
  PROVE  JsonEnd(j, b) \in JsonStates
  BY JsonRunIs DEF JsonEnd

(* The empty text leads nowhere.                                           *)
LEMMA JsonEndEmpty ==
  ASSUME NEW j \in JsonStates
  PROVE  JsonEnd(j, <<>>) = j
<1>1. <<>> \in Seq(Lexemes) /\ Len(<<>>) = 0
  OBVIOUS
<1> QED BY <1>1, JsonRunIs DEF JsonEnd

(* One lexeme more is one step more.                                       *)
LEMMA JsonEndAppend ==
  ASSUME NEW j \in JsonStates, NEW b \in Seq(Lexemes), NEW x \in Lexemes
  PROVE  JsonEnd(j, Append(b, x)) = JsonStep(JsonEnd(j, b), x)
<1> DEFINE c == Append(b, x)
           n == Len(b)
<1>1. /\ c \in Seq(Lexemes) /\ Len(c) = n + 1 /\ c[n + 1] = x /\ n \in Nat
      /\ \A k \in 1 .. n : b[k] = c[k]
  BY AppendIs
<1> HIDE DEF c, n
<1>2. JsonRun(j, b)[n] = JsonRun(j, c)[n]
  <2>1. n \in Nat /\ n <= Len(b) /\ n <= Len(c) /\ n \in 0 .. n
    BY <1>1 DEF n
  <2> QED BY <1>1, <2>1, JsonRunsAgree
<1>3. n + 1 \in 1 .. Len(c) /\ (n + 1) - 1 = n
  BY <1>1
<1>4. JsonRun(j, c)[n + 1] = JsonStep(JsonRun(j, c)[n], x)
  BY <1>1, <1>3, JsonRunIs
<1> QED BY <1>1, <1>2, <1>4 DEF JsonEnd, c, n

(* A text read after another.                                              *)
LEMMA JsonEndConcat ==
  ASSUME NEW j \in JsonStates, NEW b \in Seq(Lexemes), NEW c \in Seq(Lexemes)
  PROVE  JsonEnd(j, b \o c) = JsonEnd(JsonEnd(j, b), c)
<1> DEFINE T == {n \in Nat : \A d \in Seq(Lexemes) : Len(d) = n =>
                   JsonEnd(j, b \o d) = JsonEnd(JsonEnd(j, b), d)}
<1>1. 0 \in T
  <2>1. ASSUME NEW d \in Seq(Lexemes), Len(d) = 0
        PROVE  JsonEnd(j, b \o d) = JsonEnd(JsonEnd(j, b), d)
    <3>1. d = <<>> /\ b \o d = b
      BY <2>1
    <3> QED BY <3>1, JsonEndEmpty, JsonEndType
  <2> QED BY <2>1
<1>2. ASSUME NEW n \in Nat, n \in T PROVE n + 1 \in T
  <2>1. ASSUME NEW d \in Seq(Lexemes), Len(d) = n + 1
        PROVE  JsonEnd(j, b \o d) = JsonEnd(JsonEnd(j, b), d)
    <3>1. PICK e \in Seq(Lexemes), x \in Lexemes : d = Append(e, x) /\ Len(e) = n
      BY <2>1, SplitLast
    <3>2. b \o d = Append(b \o e, x) /\ b \o e \in Seq(Lexemes)
      BY <3>1, StackOn, SMTT(30)
    <3>3. JsonEnd(j, b \o e) = JsonEnd(JsonEnd(j, b), e)
      BY <1>2, <3>1
    <3>4. JsonEnd(j, Append(b \o e, x)) = JsonStep(JsonEnd(j, b \o e), x)
      BY <3>1, <3>2, JsonEndAppend
    <3>5. JsonEnd(JsonEnd(j, b), Append(e, x)) = JsonStep(JsonEnd(JsonEnd(j, b), e), x)
      BY <3>1, JsonEndAppend, JsonEndType
    <3> QED BY <3>1, <3>2, <3>3, <3>4, <3>5
  <2> QED BY <2>1
<1> HIDE DEF T
<1>3. \A n \in Nat : n \in T
  BY <1>1, <1>2, InductionNat
<1>4. Len(c) \in Nat
  OBVIOUS
<1>5. Len(c) \in T
  BY <1>3, <1>4
<1> QED BY <1>5 DEF T
-----------------------------------------------------------------------------
(* Pick, by its last position.                                             *)
IsPick(f, b, K) ==
  f = [i \in 0 .. Len(b) |->
         IF i = 0 THEN <<>>
         ELSE IF i \in K THEN Append(f[i - 1], b[i]) ELSE f[i - 1]]

(* Pick is the last value of a function that can be given.                 *)
LEMMA PickIs ==
  ASSUME NEW S, NEW b \in Seq(S), NEW K
  PROVE  \E f : /\ Pick(b, K) = f[Len(b)]
                /\ f \in [0 .. Len(b) -> Seq(S)]
                /\ f[0] = <<>>
                /\ \A i \in 1 .. Len(b) :
                     f[i] = IF i \in K THEN Append(f[i - 1], b[i]) ELSE f[i - 1]
<1> DEFINE n == Len(b)
           step(i, s) == IF i \in K THEN Append(s, b[i]) ELSE s
           g == [i \in 1 .. n |-> [s \in Seq(S) |-> step(i, s)]]
           r == CHOOSE h : IsPick(h, b, K)
<1>1. n \in Nat /\ \A i \in 1 .. n : b[i] \in S
  OBVIOUS
<1>2. ASSUME NEW i \in 1 .. n, NEW s \in Seq(S) PROVE step(i, s) \in Seq(S)
  BY <1>1, AppendIs
<1>3. <<>> \in Seq(S)
  OBVIOUS
<1>4. Pick(b, K) = r[n]
  BY DEF Pick, IsPick
<1>5. \A h : IsPick(h, b, K) <=>
              h = [i \in 0 .. n |-> IF i = 0 THEN <<>> ELSE step(i, h[i - 1])]
  BY DEF IsPick
<1> HIDE DEF n, step
<1>6. PICK f : IsRun(f, Seq(S), n, <<>>, g)
  <2>1. g \in [1 .. n -> [Seq(S) -> Seq(S)]]
    BY <1>2
  <2> HIDE DEF g
  <2> QED BY <1>1, <1>3, <2>1, RunExists
<1>7. f \in [0 .. n -> Seq(S)] /\ f[0] = <<>>
  BY <1>6 DEF IsRun
<1>8. ASSUME NEW i \in 1 .. n PROVE f[i] = step(i, f[i - 1])
  <2>1. i - 1 \in 0 .. n
    BY <1>1
  <2> QED BY <1>6, <1>7, <2>1 DEF IsRun
<1>9. f = [i \in 0 .. n |-> IF i = 0 THEN <<>> ELSE step(i, f[i - 1])]
  BY <1>1, <1>7, <1>8
<1>10. IsPick(r, b, K)
  BY <1>5, <1>9
<1> HIDE DEF r, g
<1>11. /\ DOMAIN r = 0 .. n /\ r[0] = <<>> /\ r = [i \in 0 .. n |-> r[i]]
       /\ \A i \in 1 .. n : r[i] = step(i, r[i - 1])
  BY <1>1, <1>5, <1>10
<1>12. \A i \in 0 .. n : r[i] \in Seq(S)
  <2> DEFINE T == {i \in 0 .. n : r[i] \in Seq(S)}
  <2>1. 0 \in T
    BY <1>1, <1>3, <1>11
  <2>2. ASSUME NEW i \in 0 .. n - 1, i \in T PROVE i + 1 \in T
    <3>1. i + 1 \in 1 .. n /\ i + 1 \in 0 .. n /\ (i + 1) - 1 = i
      BY <1>1
    <3>2. r[i + 1] = step(i + 1, r[i])
      BY <1>11, <3>1
    <3> QED BY <1>2, <2>2, <3>1, <3>2
  <2> HIDE DEF T
  <2>3. \A i \in 0 .. n : i \in T
    BY <1>1, <2>1, <2>2, Induction
  <2> QED BY <2>3 DEF T
<1>13. r \in [0 .. n -> Seq(S)]
  BY <1>11, <1>12
<1> QED BY <1>4, <1>11, <1>13 DEF n, step

(* Picking keeps the type.                                                 *)
LEMMA PickType ==
  ASSUME NEW S, NEW b \in Seq(S), NEW K
  PROVE  Pick(b, K) \in Seq(S)
<1>1. Len(b) \in 0 .. Len(b)
  OBVIOUS
<1> QED BY <1>1, PickIs

(* There is nothing to pick from the empty sequence.                       *)
LEMMA PickEmpty ==
  ASSUME NEW S, NEW b \in Seq(S), NEW K
  PROVE  Len(b) = 0 => Pick(b, K) = <<>>
<1>1. PICK f : /\ Pick(b, K) = f[Len(b)]
               /\ f[0] = <<>>
               /\ \A i \in 1 .. Len(b) :
                    f[i] = IF i \in K THEN Append(f[i - 1], b[i]) ELSE f[i - 1]
  BY PickIs
<1> QED BY <1>1

(* Pick, by the last element.                                              *)
LEMMA PickAppend ==
  ASSUME NEW S, NEW b \in Seq(S), NEW x \in S, NEW K
  PROVE  Pick(Append(b, x), K) =
           IF Len(b) + 1 \in K THEN Append(Pick(b, K), x) ELSE Pick(b, K)
<1> DEFINE c == Append(b, x)
           n == Len(b)
<1>1. /\ c \in Seq(S) /\ n \in Nat /\ Len(c) = n + 1 /\ c[n + 1] = x
      /\ \A k \in 1 .. n : c[k] = b[k]
  BY AppendIs
<1> HIDE DEF c
<1>2. PICK f : /\ Pick(b, K) = f[n]
               /\ f[0] = <<>>
               /\ \A i \in 1 .. n :
                    f[i] = IF i \in K THEN Append(f[i - 1], b[i]) ELSE f[i - 1]
  BY PickIs
<1>3. PICK h : /\ Pick(c, K) = h[Len(c)]
               /\ h[0] = <<>>
               /\ \A i \in 1 .. Len(c) :
                    h[i] = IF i \in K THEN Append(h[i - 1], c[i]) ELSE h[i - 1]
  BY <1>1, PickIs
<1> HIDE DEF n
<1>4. f[n] = h[n]
  <2> DEFINE T == {i \in 0 .. n : f[i] = h[i]}
  <2>1. 0 \in T
    BY <1>1, <1>2, <1>3
  <2>2. ASSUME NEW i \in 0 .. n - 1, i \in T PROVE i + 1 \in T
    <3>1. i + 1 \in 1 .. n /\ i + 1 \in 0 .. n /\ (i + 1) - 1 = i /\ i + 1 \in 1 .. Len(c)
      BY <1>1
    <3>2. f[i + 1] = IF i + 1 \in K THEN Append(f[i], b[i + 1]) ELSE f[i]
      BY <1>2, <3>1
    <3>3. h[i + 1] = IF i + 1 \in K THEN Append(h[i], c[i + 1]) ELSE h[i]
      BY <1>3, <3>1
    <3> QED BY <1>1, <2>2, <3>1, <3>2, <3>3
  <2> HIDE DEF T
  <2>3. \A i \in 0 .. n : i \in T
    BY <1>1, <2>1, <2>2, Induction
  <2>4. n \in T
    BY <1>1, <2>3
  <2> QED BY <2>4 DEF T
<1>5. n + 1 \in 1 .. Len(c) /\ (n + 1) - 1 = n
  BY <1>1
<1>6. h[n + 1] = IF n + 1 \in K THEN Append(h[n], x) ELSE h[n]
  BY <1>1, <1>3, <1>5
<1> QED BY <1>1, <1>2, <1>3, <1>4, <1>6 DEF c, n

(* e is d with the positions outside K blanked.                            *)
Blanks(d, e, K) ==
  Len(e) = Len(d) /\ \A i \in 1 .. Len(d) : e[i] = IF i \in K THEN d[i] ELSE "sp"

(* Blanks, by the last lexeme.                                             *)
LEMMA BlanksAppend ==
  ASSUME NEW d \in Seq(Lexemes), NEW e \in Seq(Lexemes), NEW K,
         NEW x \in Lexemes, NEW y \in Lexemes, Len(d) = Len(e),
         Blanks(Append(d, x), Append(e, y), K)
  PROVE  Blanks(d, e, K) /\ y = IF Len(d) + 1 \in K THEN x ELSE "sp"
<1> DEFINE d1 == Append(d, x)
           e1 == Append(e, y)
           n == Len(d)
<1>1. n \in Nat /\ Len(d1) = n + 1 /\ d1[n + 1] = x /\ \A k \in 1 .. n : d1[k] = d[k]
  BY AppendIs
<1>2. e1[n + 1] = y /\ \A k \in 1 .. n : e1[k] = e[k]
  BY AppendIs
<1>3. \A i \in 1 .. Len(d1) : e1[i] = IF i \in K THEN d1[i] ELSE "sp"
  BY DEF Blanks
<1> HIDE DEF d1, e1
<1> QED BY <1>1, <1>2, <1>3 DEF Blanks

(* Leaving lexemes out is, for encoding/json, blanking them.               *)
LEMMA JsonEndPick ==
  ASSUME NEW j \in JsonStates, NEW K
  PROVE  \A b \in Seq(Lexemes), c \in Seq(Lexemes) :
           Blanks(b, c, K) => JsonEnd(j, Pick(b, K)) = JsonEnd(j, c)
<1> DEFINE T == {n \in Nat : \A d \in Seq(Lexemes), e \in Seq(Lexemes) :
                   Len(d) = n /\ Len(e) = n /\ Blanks(d, e, K) =>
                     JsonEnd(j, Pick(d, K)) = JsonEnd(j, e)}
<1> HIDE DEF T
<1>1. 0 \in T
  <2>1. ASSUME NEW d \in Seq(Lexemes), NEW e \in Seq(Lexemes), Len(d) = 0, Len(e) = 0
        PROVE  JsonEnd(j, Pick(d, K)) = JsonEnd(j, e)
    <3>1. Pick(d, K) = <<>>
      BY <2>1, PickEmpty
    <3>2. e = <<>>
      BY <2>1, EmptyStack
    <3> QED BY <3>1, <3>2
  <2> QED BY <2>1 DEF T
<1>2. ASSUME NEW n \in Nat, n \in T PROVE n + 1 \in T
  <2>1. ASSUME NEW d \in Seq(Lexemes), NEW e \in Seq(Lexemes),
               Len(d) = n + 1, Len(e) = n + 1, Blanks(d, e, K)
        PROVE  JsonEnd(j, Pick(d, K)) = JsonEnd(j, e)
    <3>1. PICK d1 \in Seq(Lexemes), x \in Lexemes : d = Append(d1, x) /\ Len(d1) = n
      BY <2>1, SplitLast, ZenonT(40)
    <3>2. PICK e1 \in Seq(Lexemes), y \in Lexemes : e = Append(e1, y) /\ Len(e1) = n
      BY <2>1, SplitLast
    <3>4. Blanks(d1, e1, K) /\ y = (IF n + 1 \in K THEN x ELSE "sp")
      BY <2>1, <3>1, <3>2, BlanksAppend
    <3>5. JsonEnd(j, Pick(d1, K)) = JsonEnd(j, e1)
      BY <1>2, <3>1, <3>2, <3>4 DEF T
    <3>6. JsonEnd(j, e) = JsonStep(JsonEnd(j, e1), y)
      BY <3>2, JsonEndAppend
    <3>7. Pick(d, K) = IF n + 1 \in K THEN Append(Pick(d1, K), x) ELSE Pick(d1, K)
      BY <3>1, PickAppend
    <3>8. Pick(d1, K) \in Seq(Lexemes)
      BY PickType
    <3>9. CASE n + 1 \in K
      <4>1. JsonEnd(j, Append(Pick(d1, K), x)) = JsonStep(JsonEnd(j, Pick(d1, K)), x)
        BY <3>8, JsonEndAppend
      <4> QED BY <3>4, <3>5, <3>6, <3>7, <3>9, <4>1
    <3>10. CASE n + 1 \notin K
      <4>1. JsonEnd(j, e) = JsonEnd(j, e1)
        BY <3>4, <3>6, <3>10 DEF JsonStep
      <4> QED BY <3>5, <3>7, <3>10, <4>1
    <3> QED BY <3>9, <3>10
  <2> QED BY <2>1 DEF T
<1>3. \A n \in Nat : n \in T
  BY <1>1, <1>2, InductionNat
<1>4. ASSUME NEW b \in Seq(Lexemes), NEW c \in Seq(Lexemes), Blanks(b, c, K)
      PROVE  JsonEnd(j, Pick(b, K)) = JsonEnd(j, c)
  <2>1. Len(b) \in Nat /\ Len(c) = Len(b)
    BY <1>4 DEF Blanks
  <2>2. Len(b) \in T
    BY <1>3, <2>1
  <2> QED BY <1>4, <2>1, <2>2 DEF T
<1> QED BY <1>4

(* Whitespace says nothing to encoding/json.                               *)
LEMMA JsonEndCompact ==
  ASSUME NEW j \in JsonStates, NEW b \in Seq(Lexemes)
  PROVE  JsonEnd(j, Compact(b)) = JsonEnd(j, b)
<1> DEFINE K == {i \in DOMAIN b : b[i] # "sp"}
<1>1. Blanks(b, b, K)
  BY DEF Blanks
<1> HIDE DEF K
<1>2. JsonEnd(j, Pick(b, K)) = JsonEnd(j, b)
  BY <1>1, JsonEndPick
<1> QED BY <1>2 DEF Compact, K
-----------------------------------------------------------------------------
(* The states of a scan.                                                   *)
ScanModes == {"start", "first", "key", "colon", "value", "inside", "next",
              "done", "empty", "other", "malformed"}
Spans == [key : Strings, value : Lexemes, start : Nat, end : Nat]
ScanRecords == [at : ScanModes, ms : Seq(Spans), key : Strings \cup {"none"},
                value : Lexemes \cup {"none"}, start : Nat, stack : Seq(Openers)]
ScanOK(s) ==
  /\ s.at \in {"colon", "value", "inside"} => s.key \in Strings
  /\ s.at = "inside" => s.stack # <<>> /\ s.value \in Lexemes
  /\ s.at \in {"next", "key", "done"} => s.ms # <<>>
  /\ s.at \in {"start", "first"} => s.ms = <<>>
ScanStates == {s \in ScanRecords : ScanOK(s)}

(* The scan starts in a state.                                             *)
LEMMA ScanStartType == ScanStart \in ScanStates
<1>1. <<>> \in Seq(Spans) /\ <<>> \in Seq(Openers)
  OBVIOUS
<1>2. ScanStart \in ScanRecords
  BY <1>1 DEF ScanStart, ScanRecords, ScanModes
<1> QED BY <1>2 DEF ScanStart, ScanStates, ScanOK

(* A member ends: the fields of the state after it.                        *)
LEMMA EndMemberIs ==
  ASSUME NEW s \in ScanRecords, s.key \in Strings, s.value \in Lexemes, NEW i \in Nat
  PROVE  /\ EndMember(s, i) \in ScanStates
         /\ EndMember(s, i).at = "next"
         /\ EndMember(s, i).stack = s.stack
         /\ EndMember(s, i).ms = Append(s.ms, [key |-> s.key, value |-> s.value,
                                               start |-> s.start, end |-> i + 1])
<1> DEFINE m == [key |-> s.key, value |-> s.value, start |-> s.start, end |-> i + 1]
           ms == Append(s.ms, m)
<1>1. m \in Spans
  BY DEF Spans, ScanRecords
<1>2. s.ms \in Seq(Spans)
  BY DEF ScanRecords
<1> HIDE DEF m
<1>3. ms \in Seq(Spans) /\ ms # <<>>
  BY <1>1, <1>2, StackOps
<1>4. EndMember(s, i) = [s EXCEPT !.at = "next", !.ms = ms]
  BY DEF EndMember, m, ScanRecords
<1> HIDE DEF ms
<1> DEFINE t == [s EXCEPT !.at = "next", !.ms = ms]
<1>5. t \in ScanRecords /\ t.at = "next" /\ t.ms = ms /\ t.stack = s.stack
  BY <1>3 DEF ScanRecords, ScanModes
<1> HIDE DEF t
<1>6. t \in ScanStates
  BY <1>3, <1>5 DEF ScanStates, ScanOK
<1> QED BY <1>4, <1>5, <1>6 DEF t, ms, m

(* What a return with malformed set leaves.                                *)
LEMMA MalformedIs ==
  ASSUME NEW s \in ScanRecords
  PROVE  /\ Malformed(s) \in ScanStates /\ Malformed(s).at = "malformed"
         /\ Malformed(s).ms = s.ms
<1> DEFINE t == [s EXCEPT !.at = "malformed"]
<1>1. t \in ScanRecords /\ t.at = "malformed" /\ t.ms = s.ms
  BY DEF ScanRecords, ScanModes
<1> HIDE DEF t
<1>2. t \in ScanStates
  BY <1>1 DEF ScanStates, ScanOK
<1> QED BY <1>1, <1>2 DEF t, Malformed

(* One step of the scan.  Only positions and members are told apart later, *)
(* so what each mode does with x is stated once here.                      *)
LEMMA ScanKeyIs ==
  ASSUME NEW s \in ScanStates, NEW x \in Lexemes, NEW i \in Nat
  PROVE  /\ ScanKey(s, x, i) \in ScanStates
         /\ x \in Strings => /\ ScanKey(s, x, i).at = "colon"
                             /\ ScanKey(s, x, i).key = x
                             /\ ScanKey(s, x, i).start = i
         /\ x \notin Strings => ScanKey(s, x, i).at = "malformed"
         /\ ScanKey(s, x, i).ms = s.ms
<1>1. s \in ScanRecords
  BY DEF ScanStates
<1>2. CASE x \in Strings
  <2> DEFINE t == [s EXCEPT !.at = "colon", !.key = x, !.start = i]
  <2>1. /\ t \in ScanRecords /\ t.at = "colon" /\ t.key = x /\ t.start = i
        /\ t.ms = s.ms
    BY <1>1, <1>2 DEF ScanRecords, ScanModes
  <2> HIDE DEF t
  <2>2. t \in ScanStates
    BY <1>2, <2>1 DEF ScanStates, ScanOK
  <2> QED BY <1>2, <2>1, <2>2 DEF t, ScanKey
<1>3. CASE x \notin Strings
  BY <1>1, <1>3, MalformedIs DEF ScanKey
<1> QED BY <1>2, <1>3

(* What scanValue does with the first lexeme of a value.                   *)
LEMMA ScanValueIs ==
  ASSUME NEW s \in ScanStates, NEW x \in Lexemes, NEW i \in Nat, s.key \in Strings
  PROVE  LET t == ScanValue(s, x, i)
         IN /\ t \in ScanStates
            /\ x \in Strings \cup Scalars =>
                 /\ t.at = "next"
                 /\ t.ms = Append(s.ms, [key |-> s.key, value |-> x,
                                         start |-> s.start, end |-> i + 1])
            /\ x \in Openers => /\ t.at = "inside" /\ t.stack = <<x>> /\ t.value = x
                                /\ t.key = s.key /\ t.start = s.start /\ t.ms = s.ms
            /\ x \notin Strings \cup Scalars \cup Openers =>
                 t.at = "malformed" /\ t.ms = s.ms
<1>1. s \in ScanRecords
  BY DEF ScanStates
<1>2. CASE x \in Strings \cup Scalars
  <2> DEFINE t == [s EXCEPT !.value = x]
  <2>1. /\ t \in ScanRecords /\ t.key = s.key /\ t.value = x /\ t.start = s.start
        /\ t.ms = s.ms
    BY <1>1 DEF ScanRecords
  <2>2. ScanValue(s, x, i) = EndMember(t, i)
    BY <1>2 DEF ScanValue, Strings, Escaped, Scalars, Openers, RoutingKeys
  <2>3. x \notin Openers
    BY <1>2 DEF Strings, Escaped, Scalars, Openers, RoutingKeys
  <2> HIDE DEF t
  <2> QED BY <1>2, <2>1, <2>2, <2>3, EndMemberIs
<1>3. CASE x \in Openers
  <2> DEFINE t == [s EXCEPT !.at = "inside", !.value = x, !.stack = <<x>>]
  <2>1. <<x>> \in Seq(Openers) /\ <<x>> # <<>>
    BY <1>3
  <2>2. /\ t \in ScanRecords /\ t.at = "inside" /\ t.stack = <<x>> /\ t.value = x
        /\ t.key = s.key /\ t.start = s.start /\ t.ms = s.ms
    BY <1>1, <2>1 DEF ScanRecords, ScanModes
  <2>3. x \notin Strings \cup Scalars
    BY <1>3 DEF Strings, Escaped, Scalars, Openers, RoutingKeys
  <2>4. ScanValue(s, x, i) = t
    BY <1>3, <2>3 DEF ScanValue
  <2> HIDE DEF t
  <2>5. t \in ScanStates
    BY <2>1, <2>2 DEF ScanStates, ScanOK
  <2> QED BY <1>3, <2>2, <2>3, <2>4, <2>5
<1>4. CASE x \notin Strings \cup Scalars \cup Openers
  <2>1. ScanValue(s, x, i) = Malformed(s)
    BY <1>4 DEF ScanValue
  <2> QED BY <1>1, <1>4, <2>1, MalformedIs
<1> QED BY <1>2, <1>3, <1>4

(* What scanContainer does with a lexeme.                                  *)
LEMMA ScanContainerIs ==
  ASSUME NEW s \in ScanStates, NEW x \in Lexemes, NEW i \in Nat, s.at = "inside"
  PROVE  LET t == ScanContainer(s, x, i)
             closed == x \in Closers /\ Closes(Last(s.stack), x)
             same == /\ t.at = "inside" /\ t.ms = s.ms /\ t.key = s.key
                     /\ t.start = s.start /\ t.value = s.value
         IN /\ t \in ScanStates
            /\ x \in Openers => IF Len(s.stack) >= MaxScanDepth
                                THEN t.at = "malformed" /\ t.ms = s.ms
                                ELSE same /\ t.stack = Append(s.stack, x)
            /\ closed /\ Len(s.stack) = 1 =>
                 /\ t.at = "next"
                 /\ t.ms = Append(s.ms, [key |-> s.key, value |-> s.value,
                                         start |-> s.start, end |-> i + 1])
            /\ closed /\ Len(s.stack) # 1 => same /\ t.stack = Front(s.stack)
            /\ x = "open" \/ (x \in Closers /\ ~closed) =>
                 t.at = "malformed" /\ t.ms = s.ms
            /\ x \notin Openers \cup Closers \cup {"open"} => t = s
<1>1. /\ s \in ScanRecords /\ s.stack # <<>> /\ s.key \in Strings
      /\ s.stack \in Seq(Openers) /\ s.value \in Lexemes
  BY DEF ScanStates, ScanOK, ScanRecords
<1>2. Openers \cap Closers = {} /\ "open" \notin Openers \cup Closers
  BY DEF Openers, Closers
<1>3. CASE x \in Openers /\ Len(s.stack) >= MaxScanDepth
  <2>1. ScanContainer(s, x, i) = Malformed(s)
    BY <1>3 DEF ScanContainer, Openers, Closers
  <2> QED BY <1>1, <1>2, <1>3, <2>1, MalformedIs
<1>4. CASE x \in Openers /\ ~(Len(s.stack) >= MaxScanDepth)
  <2> DEFINE u == Append(s.stack, x)
             t == [s EXCEPT !.stack = u]
  <2>1. ScanContainer(s, x, i) = t
    BY <1>4 DEF ScanContainer, Openers, Closers
  <2>2. u \in Seq(Openers) /\ u # <<>>
    BY <1>1, <1>4, StackOps
  <2>3. /\ t \in ScanRecords /\ t.stack = u /\ t.at = "inside" /\ t.ms = s.ms
        /\ t.key = s.key /\ t.start = s.start /\ t.value = s.value
    <3> HIDE DEF u
    <3> QED BY <1>1, <2>2 DEF ScanRecords
  <2> HIDE DEF t
  <2>4. t \in ScanStates
    BY <1>1, <2>2, <2>3 DEF ScanStates, ScanOK
  <2> QED BY <1>2, <1>4, <2>1, <2>3, <2>4
<1>5. CASE x \in Closers /\ Closes(Last(s.stack), x) /\ Len(s.stack) = 1
  <2> DEFINE u == [s EXCEPT !.stack = <<>>]
  <2>1. ScanContainer(s, x, i) = EndMember(u, i)
    BY <1>5 DEF ScanContainer, Openers, Closers
  <2>2. <<>> \in Seq(Openers)
    OBVIOUS
  <2>3. /\ u \in ScanRecords /\ u.key = s.key /\ u.value = s.value
        /\ u.start = s.start /\ u.ms = s.ms
    BY <1>1, <2>2 DEF ScanRecords
  <2> HIDE DEF u
  <2>4. /\ EndMember(u, i) \in ScanStates /\ EndMember(u, i).at = "next"
        /\ EndMember(u, i).ms = Append(s.ms, [key |-> s.key, value |-> s.value,
                                              start |-> s.start, end |-> i + 1])
    BY <1>1, <2>3, EndMemberIs
  <2> QED BY <1>2, <1>5, <2>1, <2>4
<1>6. CASE x \in Closers /\ Closes(Last(s.stack), x) /\ Len(s.stack) # 1
  <2> DEFINE u == Front(s.stack)
             t == [s EXCEPT !.stack = u]
  <2>1. ScanContainer(s, x, i) = t
    BY <1>6 DEF ScanContainer, Openers, Closers
  <2>2. u \in Seq(Openers) /\ u # <<>>
    <3>1. u \in Seq(Openers) /\ Len(u) = Len(s.stack) - 1 /\ Len(s.stack) > 0
      BY <1>1, StackTop
    <3>2. Len(u) # 0
      BY <1>1, <1>6, <3>1
    <3> QED BY <3>1, <3>2, EmptyStack
  <2>3. /\ t \in ScanRecords /\ t.stack = u /\ t.at = "inside" /\ t.ms = s.ms
        /\ t.key = s.key /\ t.start = s.start /\ t.value = s.value
    <3> HIDE DEF u
    <3> QED BY <1>1, <2>2 DEF ScanRecords
  <2> HIDE DEF t
  <2>4. t \in ScanStates
    BY <1>1, <2>2, <2>3 DEF ScanStates, ScanOK
  <2> QED BY <1>2, <1>6, <2>1, <2>3, <2>4
<1>7. CASE x = "open" \/ (x \in Closers /\ ~Closes(Last(s.stack), x))
  <2>1. ScanContainer(s, x, i) = Malformed(s)
    BY <1>7 DEF ScanContainer, Openers, Closers
  <2> QED BY <1>1, <1>2, <1>7, <2>1, MalformedIs
<1>8. CASE x \notin Openers \cup Closers \cup {"open"}
  <2>1. ScanContainer(s, x, i) = s
    BY <1>8 DEF ScanContainer
  <2> QED BY <1>8, <2>1
<1> QED BY <1>3, <1>4, <1>5, <1>6, <1>7, <1>8

(* What each mode of the scan does with a lexeme that is not whitespace.   *)
LEMMA ScanStepIs ==
  ASSUME NEW s \in ScanStates, NEW x \in Lexemes, NEW i \in Nat, x # "sp"
  PROVE  LET t == ScanStep(s, x, i)
         IN /\ s.at = "start" => /\ t.at = (IF x = "{" THEN "first" ELSE "other")
                                 /\ t.ms = s.ms
            /\ s.at = "first" => IF x = "}" THEN t.at = "empty" /\ t.ms = s.ms
                                 ELSE t = ScanKey(s, x, i)
            /\ s.at = "key" => t = ScanKey(s, x, i)
            /\ s.at = "colon" =>
                 /\ t.at = (IF x = ":" THEN "value" ELSE "malformed")
                 /\ t.ms = s.ms
                 /\ x = ":" => t.key = s.key /\ t.start = s.start
            /\ s.at = "value" => t = ScanValue(s, x, i)
            /\ s.at = "inside" => t = ScanContainer(s, x, i)
            /\ s.at = "next" =>
                 /\ t.at = (IF x = "," THEN "key" ELSE IF x = "}" THEN "done"
                            ELSE "malformed")
                 /\ t.ms = s.ms
            /\ s.at \in {"done", "empty", "other", "malformed"} => t = s
<1>1. s \in ScanRecords /\ s.at \in ScanModes
  BY DEF ScanStates, ScanRecords
<1>2. \A a : /\ [s EXCEPT !.at = a].at = a /\ [s EXCEPT !.at = a].ms = s.ms
             /\ [s EXCEPT !.at = a].key = s.key /\ [s EXCEPT !.at = a].start = s.start
  BY <1>1 DEF ScanRecords
<1>3. /\ Malformed(s).at = "malformed" /\ Malformed(s).ms = s.ms
  BY <1>1, MalformedIs
<1>4. CASE s.at = "start"
  BY <1>2, <1>4 DEF ScanStep
<1>5. CASE s.at = "first"
  BY <1>2, <1>5 DEF ScanStep
<1>6. CASE s.at = "key"
  BY <1>6 DEF ScanStep
<1>7. CASE s.at = "colon"
  BY <1>2, <1>3, <1>7 DEF ScanStep
<1>8. CASE s.at = "value"
  BY <1>8 DEF ScanStep
<1>9. CASE s.at = "inside"
  BY <1>9 DEF ScanStep
<1>10. CASE s.at = "next"
  BY <1>2, <1>3, <1>10 DEF ScanStep
<1>11. CASE s.at \in {"done", "empty", "other", "malformed"}
  BY <1>11 DEF ScanStep
<1> QED BY <1>1, <1>4, <1>5, <1>6, <1>7, <1>8, <1>9, <1>10, <1>11 DEF ScanModes

(* Every lexeme leads the scan from a state to a state.                    *)
LEMMA ScanStepType ==
  ASSUME NEW s \in ScanStates, NEW x \in Lexemes, NEW i \in Nat
  PROVE  ScanStep(s, x, i) \in ScanStates
<1>1. /\ s \in ScanRecords /\ s.at \in ScanModes
      /\ s.at \in {"colon", "value", "inside"} => s.key \in Strings
  BY DEF ScanStates, ScanRecords, ScanOK
<1>2. CASE x = "sp"
  BY <1>2 DEF ScanStep
<1>3. CASE x # "sp" /\ s.at \in {"first", "key", "value", "inside", "done", "empty",
                                 "other", "malformed"} /\ ~(s.at = "first" /\ x = "}")
  <2>1. CASE s.at \in {"first", "key"}
    <3>1. ScanStep(s, x, i) = ScanKey(s, x, i)
      BY <1>3, <2>1 DEF ScanStep
    <3> QED BY <3>1, ScanKeyIs
  <2>2. CASE s.at = "value"
    <3>1. ScanStep(s, x, i) = ScanValue(s, x, i)
      BY <1>3, <2>2 DEF ScanStep
    <3> QED BY <1>1, <2>2, <3>1, ScanValueIs, ZenonT(40)
  <2>3. CASE s.at = "inside"
    <3>1. ScanStep(s, x, i) = ScanContainer(s, x, i)
      BY <1>3, <2>3 DEF ScanStep
    <3>2. ScanContainer(s, x, i) \in ScanStates
      BY <2>3, ScanContainerIs, Zenon
    <3> QED BY <3>1, <3>2
  <2>4. CASE s.at \in {"done", "empty", "other", "malformed"}
    BY <2>4 DEF ScanStep
  <2> QED BY <1>3, <2>1, <2>2, <2>3, <2>4
<1>4. CASE x # "sp" /\ (s.at \in {"start", "colon", "next"} \/ (s.at = "first" /\ x = "}"))
  <2> DEFINE a == CASE s.at = "start" -> IF x = "{" THEN "first" ELSE "other"
                    [] s.at = "colon" -> IF x = ":" THEN "value" ELSE "malformed"
                    [] s.at = "next" -> IF x = "," THEN "key" ELSE
                                        IF x = "}" THEN "done" ELSE "malformed"
                    [] s.at = "first" -> "empty"
             t == [s EXCEPT !.at = a]
  <2>1. ScanStep(s, x, i) = t
    BY <1>4 DEF ScanStep, Malformed
  <2>2. /\ a \in ScanModes
        /\ s.at = "start" => a \in {"first", "other"}
        /\ s.at = "colon" => a \in {"value", "malformed"}
        /\ s.at = "next" => a \in {"key", "done", "malformed"}
        /\ s.at = "first" => a = "empty"
    BY <1>4 DEF ScanModes
  <2> HIDE DEF a
  <2>3. t \in ScanRecords /\ t.at = a /\ t.ms = s.ms /\ t.key = s.key
    BY <1>1, <2>2 DEF ScanRecords
  <2> HIDE DEF t
  <2>4. ScanOK(t)
    BY <1>4, <2>2, <2>3 DEF ScanOK, ScanStates
  <2> QED BY <2>1, <2>3, <2>4 DEF ScanStates
<1> QED BY <1>1, <1>2, <1>3, <1>4 DEF ScanModes

(* ScanRun is the recursive function it is meant to be.                    *)
LEMMA ScanRunIs ==
  ASSUME NEW b \in Seq(Lexemes)
  PROVE  /\ ScanRun(b) \in [0 .. Len(b) -> ScanStates]
         /\ ScanRun(b)[0] = ScanStart
         /\ \A k \in 1 .. Len(b) : ScanRun(b)[k] = ScanStep(ScanRun(b)[k - 1], b[k], k)
<1> DEFINE n == Len(b)
           g == [k \in 1 .. n |-> [s \in ScanStates |-> ScanStep(s, b[k], k)]]
           Is(f) == f = [k \in 0 .. n |-> IF k = 0 THEN ScanStart
                                          ELSE ScanStep(f[k - 1], b[k], k)]
<1>1. n \in Nat /\ \A k \in 1 .. n : b[k] \in Lexemes /\ k \in Nat
  OBVIOUS
<1>2. g \in [1 .. n -> [ScanStates -> ScanStates]]
  BY <1>1, ScanStepType
<1>3. \A k \in 1 .. n : \A s \in ScanStates : g[k][s] = ScanStep(s, b[k], k)
  OBVIOUS
<1> HIDE DEF n, g
<1>4. PICK f : IsRun(f, ScanStates, n, ScanStart, g)
  BY <1>1, <1>2, ScanStartType, RunExists
<1>5. /\ f \in [0 .. n -> ScanStates]
      /\ \A k \in 0 .. n : f[k] = IF k = 0 THEN ScanStart ELSE ScanStep(f[k - 1], b[k], k)
  <2>1. f \in [0 .. n -> ScanStates] /\ f[0] = ScanStart
    BY <1>4 DEF IsRun
  <2>2. ASSUME NEW k \in 1 .. n PROVE f[k] = ScanStep(f[k - 1], b[k], k)
    <3>1. k - 1 \in 0 .. n
      BY <1>1
    <3> QED BY <1>3, <1>4, <2>1, <3>1 DEF IsRun
  <2> QED BY <1>1, <2>1, <2>2
<1>6. Is(f)
  BY <1>5
<1> DEFINE r == ScanRun(b)
<1>7. r = CHOOSE h : Is(h)
  BY DEF ScanRun, n
<1>8. Is(r)
  BY <1>6, <1>7
<1> HIDE DEF r
<1>9. DOMAIN r = 0 .. n /\ r[0] = ScanStart /\ r = [k \in 0 .. n |-> r[k]]
  BY <1>1, <1>8
<1>10. \A k \in 1 .. n : r[k] = ScanStep(r[k - 1], b[k], k)
  BY <1>1, <1>8
<1> HIDE DEF Is
<1>11. \A k \in 0 .. n : r[k] \in ScanStates
  <2> DEFINE T == {k \in 0 .. n : r[k] \in ScanStates}
  <2>1. 0 \in T
    BY <1>1, <1>9, ScanStartType
  <2>2. ASSUME NEW k \in 0 .. n - 1, k \in T PROVE k + 1 \in T
    <3>1. k + 1 \in 1 .. n /\ k + 1 \in 0 .. n /\ (k + 1) - 1 = k
      BY <1>1
    <3>2. r[k + 1] = ScanStep(r[k], b[k + 1], k + 1)
      BY <1>10, <3>1
    <3> QED BY <1>1, <2>2, <3>1, <3>2, ScanStepType
  <2> HIDE DEF T
  <2>3. \A k \in 0 .. n : k \in T
    BY <1>1, <2>1, <2>2, Induction
  <2> QED BY <2>3 DEF T
<1>12. r \in [0 .. n -> ScanStates]
  BY <1>9, <1>11
<1> QED BY <1>9, <1>10, <1>12 DEF r, n

(* Scans of texts that agree so far agree so far.                          *)
LEMMA ScanRunsAgree ==
  ASSUME NEW b \in Seq(Lexemes), NEW c \in Seq(Lexemes),
         NEW n \in Nat, n <= Len(b), n <= Len(c), \A k \in 1 .. n : b[k] = c[k]
  PROVE  \A k \in 0 .. n : ScanRun(b)[k] = ScanRun(c)[k]
<1> DEFINE f == ScanRun(b)
           h == ScanRun(c)
           T == {k \in 0 .. n : f[k] = h[k]}
<1>1. f[0] = h[0] /\ \A k \in 1 .. n : /\ f[k] = ScanStep(f[k - 1], b[k], k)
                                       /\ h[k] = ScanStep(h[k - 1], c[k], k)
  BY ScanRunIs
<1> HIDE DEF f, h
<1>2. 0 \in T
  BY <1>1
<1>3. ASSUME NEW k \in 0 .. n - 1, k \in T PROVE k + 1 \in T
  <2>1. k + 1 \in 1 .. n /\ (k + 1) - 1 = k
    OBVIOUS
  <2> QED BY <1>1, <1>3, <2>1
<1> HIDE DEF T
<1>4. \A k \in 0 .. n : k \in T
  BY <1>2, <1>3, Induction
<1> QED BY <1>4 DEF T, f, h
-----------------------------------------------------------------------------
(* What encoding/json does with a lexeme that is not whitespace.           *)
LEMMA JsonStepIs ==
  ASSUME NEW j \in JsonStates, NEW x \in Lexemes, x # "sp"
  PROVE  /\ j.at \in {"value", "item"} /\ x \in Unquotes \cup Scalars =>
              JsonStep(j, x) = AfterValue(j.stack, j.keys)
         /\ j.at \in {"value", "item"} /\ x \in Openers =>
              JsonStep(j, x) = Json(IF x = "{" THEN "member" ELSE "item",
                                    Append(j.stack, x), j.keys)
         /\ (\/ j.at = "item" /\ x = "]"
             \/ j.at = "member" /\ x = "}"
             \/ j.at = "next" /\ Closes(Last(j.stack), x)) =>
              JsonStep(j, x) = AfterValue(Front(j.stack), j.keys)
         /\ j.at \in {"member", "key"} /\ x \in Unquotes =>
              JsonStep(j, x) = Json("colon", j.stack,
                                    IF Len(j.stack) = 1 THEN j.keys \cup {x} ELSE j.keys)
         /\ j.at = "colon" /\ x = ":" => JsonStep(j, x) = Json("value", j.stack, j.keys)
         /\ j.at = "next" /\ x = "," =>
              JsonStep(j, x) = Json(IF Last(j.stack) = "{" THEN "key" ELSE "value",
                                    j.stack, j.keys)
  BY DEF JsonStep, Unquotes, Strings, Escaped, Scalars, RoutingKeys, Openers, Closes

(* And what it does not take.                                              *)
LEMMA JsonStepBad ==
  ASSUME NEW j \in JsonStates, NEW x \in Lexemes, x # "sp",
         j.at \in {"value", "item"} => x \notin Unquotes \cup Scalars \cup Openers,
         j.at = "item" => x # "]",
         j.at \in {"member", "key"} => x \notin Unquotes,
         j.at = "member" => x # "}",
         j.at = "colon" => x # ":",
         j.at = "next" => ~Closes(Last(j.stack), x) /\ x # ","
  PROVE  JsonStep(j, x).at = "bad"
<1> DEFINE u == JsonStep(j, x)
<1>1. u = Json("bad", j.stack, j.keys)
  BY DEF JsonStep
<1> HIDE DEF u
<1>2. Json("bad", j.stack, j.keys).at = "bad"
  BY DEF Json
<1>3. u.at = "bad"
  BY <1>1, <1>2, Zenon
<1> QED BY <1>3 DEF u

(* The kinds of lexemes are disjoint.                                      *)
LEMMA Kinds ==
  /\ RoutingKeys \subseteq Unquotes /\ Unquotes \subseteq Strings
  /\ Strings \subseteq Lexemes
  /\ (Strings \cup Scalars) \cap (Openers \cup Closers) = {}
  /\ Strings \cap Scalars = {}
  /\ "open" \notin Strings \cup Scalars \cup Openers \cup Closers
  /\ "sp" \notin Strings \cup Scalars \cup Openers \cup Closers
  /\ ":" \notin Strings \cup Scalars \cup Openers \cup Closers
  /\ "," \notin Strings \cup Scalars \cup Openers \cup Closers
  /\ Openers \cap Closers = {}
  /\ \A o \in Openers : \A x : Closes(o, x) => x \in Closers
  BY DEF RoutingKeys, Unquotes, Strings, Escaped, Scalars, Lexemes, Openers, Closers, Closes

(* The brackets of t open inside those of s.                               *)
On(s, t) == s \o t

(* A stack on top of another one.                                          *)
LEMMA OnIs ==
  ASSUME NEW S, NEW s \in Seq(S), NEW t \in Seq(S)
  PROVE  /\ On(s, t) \in Seq(S) /\ Len(On(s, t)) = Len(s) + Len(t)
         /\ t # <<>> => /\ Last(On(s, t)) = Last(t) /\ Front(On(s, t)) = On(s, Front(t))
                        /\ On(s, t) # <<>>
  BY StackOn DEF On

(* Pushing goes to the upper one.                                          *)
LEMMA OnPush ==
  ASSUME NEW S, NEW s \in Seq(S), NEW t \in Seq(S), NEW x \in S
  PROVE  Append(On(s, t), x) = On(s, Append(t, x))
  BY DEF On

(* On top of nothing, and nothing on top.                                  *)
LEMMA OnEmpty ==
  ASSUME NEW S, NEW s \in Seq(S)
  PROVE  On(s, <<>>) = s /\ On(<<>>, s) = s
  BY EmptyStack DEF On

(* Inside a value: st is what is open in it.                               *)
LEMMA JsonInsideStep ==
  ASSUME NEW j \in JsonStates, NEW x \in Lexemes, x # "sp",
         NEW base \in Seq(Openers), base # <<>>,
         NEW st \in Seq(Openers), st # <<>>, j.stack = On(base, st),
         JsonStep(j, x).at # "bad"
  PROVE  /\ JsonStep(j, x).keys = j.keys
         /\ x \in Openers => JsonStep(j, x).stack = On(base, Append(st, x))
         /\ x \in Closers => /\ Closes(Last(st), x)
                             /\ JsonStep(j, x).stack = On(base, Front(st))
                             /\ Len(st) = 1 => JsonStep(j, x) = Json("next", base, j.keys)
         /\ x \notin Openers \cup Closers => JsonStep(j, x).stack = j.stack
<1> DEFINE u == JsonStep(j, x)
           push == Append(j.stack, x)
           pop == Front(j.stack)
           top == Last(j.stack)
<1>1. /\ x \in Openers => push = On(base, Append(st, x))
      /\ top = Last(st) /\ pop = On(base, Front(st)) /\ j.stack # <<>>
  BY OnIs, OnPush
<1>2. Len(j.stack) = Len(base) + Len(st)
  BY OnIs
<1>3. /\ Len(base) > 0 /\ Len(st) > 0 /\ Len(base) \in Nat /\ Len(st) \in Nat
  BY StackTop
<1>4. Len(j.stack) # 1
  BY <1>2, <1>3
<1>5. Front(st) \in Seq(Openers) /\ Len(Front(st)) = Len(st) - 1 /\ Last(st) \in Openers
  BY StackTop
<1>6. Len(st) = 1 => pop = base
  <2>1. SUFFICES ASSUME Len(st) = 1 PROVE pop = base
    OBVIOUS
  <2>2. Front(st) = <<>>
    BY <1>5, <2>1, EmptyStack
  <2> QED BY <1>1, <2>2, OnEmpty
<1>7. pop # <<>>
  <2>1. Len(On(base, Front(st))) = Len(base) + Len(Front(st))
    BY <1>5, OnIs
  <2>2. Len(pop) # 0
    BY <1>1, <1>3, <1>5, <2>1
  <2> QED BY <2>2
<1>8. /\ j.at = "member" => top = "{"
      /\ j.at = "item" => top = "["
      /\ j.at \in JsonModes
      /\ top \in Openers
  BY <1>1, <1>5, JsonStateIs
<1> DEFINE stack == j.stack
<1> SUFFICES /\ u.keys = j.keys
             /\ x \in Openers => u.stack = push
             /\ x \in Closers => /\ Closes(top, x)
                                 /\ u.stack = pop
                                 /\ Len(st) = 1 => u = Json("next", pop, j.keys)
             /\ x \notin Openers \cup Closers => u.stack = stack
  BY <1>1, <1>6
<1> HIDE DEF u, push, pop, top, stack
<1>9. CASE j.at \in {"value", "item"} /\ x \in Unquotes \cup Scalars
  <2>1. u = Json("next", stack, j.keys)
    BY <1>1, <1>9, JsonStepIs DEF AfterValue, u, stack
  <2>2. u.stack = stack /\ u.keys = j.keys
    BY <2>1 DEF Json
  <2> QED BY <1>9, <2>2, Kinds
<1>10. CASE j.at \in {"value", "item"} /\ x \in Openers
  <2>1. u = Json(IF x = "{" THEN "member" ELSE "item", push, j.keys)
    BY <1>10, JsonStepIs DEF u, push
  <2>2. u.stack = push /\ u.keys = j.keys
    BY <2>1 DEF Json
  <2> QED BY <1>10, <2>2, Kinds
<1>11. CASE \/ j.at = "item" /\ x = "]"
            \/ j.at = "member" /\ x = "}"
            \/ j.at = "next" /\ Closes(top, x)
  <2>0. u = AfterValue(pop, j.keys)
    BY <1>11, JsonStepIs DEF u, pop, top
  <2>1. u = Json("next", pop, j.keys)
    BY <1>7, <2>0 DEF AfterValue
  <2>2. u.stack = pop /\ u.keys = j.keys
    BY <2>1 DEF Json
  <2>3. Closes(top, x)
    BY <1>8, <1>11 DEF Closes
  <2>4. x \in Closers /\ x \notin Openers
    BY <1>8, <2>3, Kinds
  <2> QED BY <2>1, <2>2, <2>3, <2>4
<1>12. CASE j.at \in {"member", "key"} /\ x \in Unquotes
  <2>1. u = Json("colon", stack, j.keys)
    BY <1>4, <1>12, JsonStepIs DEF u, stack
  <2>2. u.stack = stack /\ u.keys = j.keys
    BY <2>1 DEF Json
  <2> QED BY <1>12, <2>2, Kinds
<1>13. CASE j.at = "colon" /\ x = ":"
  <2>1. u = Json("value", stack, j.keys)
    BY <1>13, JsonStepIs DEF u, stack
  <2>2. u.stack = stack /\ u.keys = j.keys
    BY <2>1 DEF Json
  <2> QED BY <1>13, <2>2, Kinds
<1>14. CASE j.at = "next" /\ x = ","
  <2>1. u = Json(IF top = "{" THEN "key" ELSE "value", stack, j.keys)
    BY <1>14, JsonStepIs DEF u, stack, top
  <2>2. u.stack = stack /\ u.keys = j.keys
    BY <2>1 DEF Json
  <2> QED BY <1>14, <2>2, Kinds
<1>15. u.at # "bad"
  BY DEF u
<1> QED BY <1>9, <1>10, <1>11, <1>12, <1>13, <1>14, <1>15, JsonStepBad DEF u, top

-----------------------------------------------------------------------------
(* The lexemes that cutting out the members in H takes away, told from the *)
(* state the scan reads them in: those of a member in H, and the comma in  *)
(* front of one, or behind one that nothing before it survives.            *)
CutAt(s, x, H) ==
  \/ /\ s.at \in {"first", "key", "colon", "value", "inside"}
     /\ s.at = "first" => x # "}"
     /\ Len(s.ms) + 1 \in H
  \/ /\ s.at = "next" /\ x = ","
     /\ 1 .. Len(s.ms) \subseteq H \/ Len(s.ms) + 1 \in H

(* What encoding/json expects between members, m of them behind it.        *)
Idle(m, H) == IF 1 .. m \subseteq H THEN "member" ELSE "next"
Outer == <<"{">>

(* The state of encoding/json, reading the text without what is cut, for a *)
(* state of the scan.                                                      *)
Follows(j, s, H) ==
  LET m == Len(s.ms)
      cut == m + 1 \in H
  IN /\ s.at = "start" => j.at = "value" /\ j.stack = <<>>
     /\ s.at = "first" => j.at = "member" /\ j.stack = Outer
     /\ s.at = "key" =>
          /\ j.at = IF 1 .. m \subseteq H THEN "member" ELSE IF cut THEN "next" ELSE "key"
          /\ j.stack = Outer
     /\ s.at \in {"colon", "value", "inside"} /\ cut => j.at = Idle(m, H) /\ j.stack = Outer
     /\ s.at \in {"colon", "value"} /\ ~cut => j.at = s.at /\ j.stack = Outer
     /\ s.at = "inside" /\ ~cut => j.stack = On(Outer, s.stack)
     /\ s.at = "next" => j.at = Idle(m, H) /\ j.stack = Outer
     /\ s.at \in {"empty", "done"} => j.at = "end" /\ j.stack = <<>>

Clean(j, R) == j.keys \cap R = {}
InStep(j, s, H, R) ==
  \/ j.at = "bad"
  \/ s.at \in {"malformed", "other"}
  \/ Clean(j, R) /\ Follows(j, s, H)

(* Pushing one bracket.                                                    *)
LEMMA OnOne ==
  ASSUME NEW S, NEW o \in Seq(S), NEW x \in S
  PROVE  Append(o, x) = On(o, <<x>>)
  BY DEF On

(* A stack with one bracket.                                               *)
LEMMA OneOpen ==
  ASSUME NEW S, NEW o \in Seq(S), Len(o) = 1
  PROVE  /\ o # <<>> /\ Last(o) = o[1] /\ Front(o) = <<>>
         /\ \A x \in S : Append(o, x) = On(o, <<x>>)
<1>1. o # <<>>
  OBVIOUS
<1>2. Front(o) \in Seq(S) /\ Len(Front(o)) = Len(o) - 1
  BY <1>1, StackTop
<1>3. Front(o) = <<>>
  BY <1>2
<1>4. Last(o) = o[1]
  BY DEF Last
<1>5. ASSUME NEW x \in S PROVE Append(o, x) = On(o, <<x>>)
  BY OnOne
<1> QED BY <1>1, <1>3, <1>4, <1>5

(* The stack inside the outermost object.                                  *)
LEMMA OuterIs ==
  /\ Outer \in Seq(Openers) /\ Outer # <<>> /\ Len(Outer) = 1
  /\ Last(Outer) = "{" /\ Front(Outer) = <<>>
  /\ \A x \in Openers : Append(Outer, x) = On(Outer, <<x>>)
  /\ Append(<<>>, "{") = Outer
<1>1. Outer \in Seq(Openers) /\ Len(Outer) = 1 /\ Outer[1] = "{"
  BY DEF Outer, Openers
<1>2. Append(<<>>, "{") = Outer
  BY DEF Outer
<1>3. /\ Outer # <<>> /\ Last(Outer) = Outer[1] /\ Front(Outer) = <<>>
      /\ \A x \in Openers : Append(Outer, x) = On(Outer, <<x>>)
  BY <1>1, OneOpen, Zenon
<1> QED BY <1>1, <1>2, <1>3, Zenon

(* The stack with one bracket is a stack.                                  *)
LEMMA PushFirst ==
  ASSUME NEW x \in Openers
  PROVE  <<x>> \in Seq(Openers) /\ <<x>> # <<>> /\ Len(<<x>>) = 1
  OBVIOUS

(* Members behind, with one more of them.                                  *)
LEMMA IdleNext ==
  ASSUME NEW m \in Nat, NEW H
  PROVE  /\ m + 1 \in H => Idle(m + 1, H) = Idle(m, H)
         /\ m + 1 \notin H => Idle(m + 1, H) = "next"
         /\ Idle(0, H) = "member"
         /\ Idle(m, H) \in {"member", "next"}
<1>1. m + 1 \in H => (1 .. m + 1 \subseteq H <=> 1 .. m \subseteq H)
  OBVIOUS
<1>2. m + 1 \notin H => ~(1 .. m + 1 \subseteq H)
  OBVIOUS
<1>3. 1 .. 0 \subseteq H
  OBVIOUS
<1> QED BY <1>1, <1>2, <1>3 DEF Idle

(* The facts about a state of the scan, for the provers.                   *)
LEMMA ScanStateIs ==
  ASSUME NEW s \in ScanStates
  PROVE  /\ s.at \in ScanModes /\ s.ms \in Seq(Spans) /\ Len(s.ms) \in Nat
         /\ s.stack \in Seq(Openers)
         /\ s.at \in {"colon", "value", "inside"} => s.key \in Strings
         /\ s.at = "inside" => s.stack # <<>> /\ s.value \in Lexemes
         /\ s.at \in {"next", "key", "done"} => Len(s.ms) > 0
         /\ s.at \in {"start", "first"} => Len(s.ms) = 0
<1>1. s.ms \in Seq(Spans)
  BY DEF ScanStates, ScanRecords
<1>2. Len(s.ms) \in Nat /\ (s.ms = <<>> <=> Len(s.ms) = 0)
  BY <1>1, EmptyStack
<1> QED BY <1>1, <1>2 DEF ScanStates, ScanRecords, ScanOK

(* Json states by their parts.                                             *)
LEMMA JsonAt ==
  ASSUME NEW j, NEW a, NEW t, NEW K, j = Json(a, t, K)
  PROVE  j.at = a /\ j.stack = t /\ j.keys = K
  BY DEF Json

(* A value has ended, or the text has.                                     *)
LEMMA AfterValueIs ==
  ASSUME NEW t, NEW K
  PROVE  /\ t = <<>> => AfterValue(t, K) = Json("end", t, K)
         /\ t # <<>> => AfterValue(t, K) = Json("next", t, K)
  BY DEF AfterValue

(* A string where a key is expected is the key.                            *)
LEMMA ScanKeyGood ==
  ASSUME NEW s \in ScanStates, NEW x \in Strings, NEW i \in Nat
  PROVE  /\ ScanKey(s, x, i).at = "colon" /\ ScanKey(s, x, i).ms = s.ms
         /\ ScanKey(s, x, i).key = x /\ ScanKey(s, x, i).start = i
<1>1. x \in Lexemes
  BY Kinds
<1> QED BY <1>1, ScanKeyIs

(* What the scan does after a key.                                         *)
LEMMA ScanColonIs ==
  ASSUME NEW s \in ScanStates, NEW x \in Lexemes, x # "sp", NEW i \in Nat, s.at = "colon"
  PROVE  /\ ScanStep(s, x, i).at = IF x = ":" THEN "value" ELSE "malformed"
         /\ ScanStep(s, x, i).ms = s.ms
         /\ x = ":" => /\ ScanStep(s, x, i).key = s.key
                       /\ ScanStep(s, x, i).start = s.start
  BY ScanStepIs

(* What it does after a value.                                             *)
LEMMA ScanNextIs ==
  ASSUME NEW s \in ScanStates, NEW x \in Lexemes, x # "sp", NEW i \in Nat, s.at = "next"
  PROVE  /\ ScanStep(s, x, i).at = IF x = "," THEN "key" ELSE IF x = "}" THEN "done"
                                   ELSE "malformed"
         /\ ScanStep(s, x, i).ms = s.ms
<1>1. s \in ScanRecords
  BY DEF ScanStates
<1>2. \A a : [s EXCEPT !.at = a].at = a /\ [s EXCEPT !.at = a].ms = s.ms
  BY <1>1 DEF ScanRecords
<1>3. /\ Malformed(s).at = "malformed" /\ Malformed(s).ms = s.ms
  BY <1>1, MalformedIs
<1> QED BY <1>2, <1>3 DEF ScanStep

(* What it does inside a container.                                        *)
LEMMA ScanInsideIs ==
  ASSUME NEW s \in ScanStates, NEW x \in Lexemes, x # "sp", NEW i \in Nat, s.at = "inside"
  PROVE  LET t == ScanStep(s, x, i)
             closed == x \in Closers /\ Closes(Last(s.stack), x)
         IN /\ x \in Openers =>
                 \/ t.at = "malformed"
                 \/ t.at = "inside" /\ t.ms = s.ms /\ t.stack = Append(s.stack, x)
            /\ closed /\ Len(s.stack) = 1 => t.at = "next" /\ Len(t.ms) = Len(s.ms) + 1
            /\ closed /\ Len(s.stack) # 1 =>
                 t.at = "inside" /\ t.ms = s.ms /\ t.stack = Front(s.stack)
            /\ x = "open" \/ (x \in Closers /\ ~closed) => t.at = "malformed"
            /\ x \notin Openers \cup Closers \cup {"open"} => t = s
<1> DEFINE t == ScanStep(s, x, i)
           c == ScanContainer(s, x, i)
           closed == x \in Closers /\ Closes(Last(s.stack), x)
           span == [key |-> s.key, value |-> s.value, start |-> s.start, end |-> i + 1]
<1>0. Malformed(s).at = "malformed"
  BY MalformedIs DEF ScanStates
<1>1. t = c
  BY DEF ScanStep
<1>2. x \in Openers => \/ c.at = "malformed"
                       \/ c.at = "inside" /\ c.ms = s.ms /\ c.stack = Append(s.stack, x)
  <2> DEFINE push == Append(s.stack, x)
  <2>1. CASE x \in Openers /\ Len(s.stack) >= MaxScanDepth
    <3>1. c = Malformed(s)
      BY <2>1 DEF ScanContainer, Openers, Closers
    <3> QED BY <1>0, <3>1
  <2>2. CASE x \in Openers /\ ~(Len(s.stack) >= MaxScanDepth)
    <3>1. c.at = "inside" /\ c.ms = s.ms
      BY <2>2, ScanContainerIs
    <3>2. c.stack = push
      BY <2>2, ScanContainerIs
    <3> QED BY <3>1, <3>2
  <2> HIDE DEF push, c
  <2> QED BY <2>1, <2>2
<1>3. closed /\ Len(s.stack) = 1 => c.at = "next" /\ c.ms = Append(s.ms, span)
  BY ScanContainerIs
<1>4. closed /\ Len(s.stack) # 1 =>
        c.at = "inside" /\ c.ms = s.ms /\ c.stack = Front(s.stack)
  BY ScanContainerIs
<1>5. x = "open" \/ (x \in Closers /\ ~closed) => c.at = "malformed"
  <2>1. CASE x = "open" \/ (x \in Closers /\ ~Closes(Last(s.stack), x))
    <3>1. c = Malformed(s)
      BY <2>1 DEF ScanContainer, Openers, Closers
    <3> QED BY <1>0, <3>1
  <2> QED BY <2>1
<1>6. x \notin Openers \cup Closers \cup {"open"} => c = s
  BY ScanContainerIs
<1> HIDE DEF span
<1>7. s.ms \in Seq(Spans)
  BY ScanStateIs
<1>8. Len(Append(s.ms, span)) = Len(s.ms) + 1
  BY <1>7
<1> HIDE DEF c, t, closed
<1> QED BY <1>1, <1>2, <1>3, <1>4, <1>5, <1>6, <1>8 DEF t, closed

(* One lexeme more, in each mode of the scan.                              *)
LEMMA InStepStart ==
  ASSUME NEW s \in ScanStates, NEW j \in JsonStates, NEW x \in Lexemes, x # "sp",
         NEW i \in Nat, NEW H, NEW R, s.at = "start", Clean(j, R), Follows(j, s, H)
  PROVE  InStep(JsonStep(j, x), ScanStep(s, x, i), H, R)
<1> DEFINE t == ScanStep(s, x, i)
           u == JsonStep(j, x)
<1>1. t.at = IF x = "{" THEN "first" ELSE "other"
  BY ScanStepIs
<1>2. j.at = "value" /\ j.stack = <<>>
  BY DEF Follows
<1>3. CASE x = "{"
  <2>1. u = Json("member", Append(j.stack, x), j.keys)
    BY <1>2, <1>3, JsonStepIs DEF Openers
  <2>2. u = Json("member", Outer, j.keys)
    BY <1>2, <1>3, <2>1, OuterIs
  <2> HIDE DEF u, t
  <2>3. u.at = "member" /\ u.stack = Outer /\ u.keys = j.keys
    BY <2>2, JsonAt
  <2>4. Clean(u, R) /\ Follows(u, t, H)
    BY <1>1, <1>3, <2>3 DEF Clean, Follows
  <2> QED BY <2>4 DEF InStep, u, t
<1>4. CASE x # "{"
  BY <1>1, <1>4 DEF InStep
<1> QED BY <1>3, <1>4

(* Scan and encoding/json stay in step where a key is expected,            *)
LEMMA InStepKey ==
  ASSUME NEW s \in ScanStates, NEW j \in JsonStates, NEW x \in Lexemes, x # "sp",
         NEW i \in Nat, NEW H, NEW R, s.at \in {"first", "key"}, Clean(j, R), Follows(j, s, H),
         x \in R => Len(s.ms) + 1 \in H
  PROVE  InStep(IF CutAt(s, x, H) THEN j ELSE JsonStep(j, x), ScanStep(s, x, i), H, R)
<1> DEFINE t == ScanStep(s, x, i)
           u == JsonStep(j, x)
           m == Len(s.ms)
           cut == CutAt(s, x, H)
<1>1. m \in Nat /\ (s.at = "first" => m = 0)
  BY ScanStateIs
<1>2. cut <=> m + 1 \in H /\ (s.at = "first" => x # "}")
  BY DEF CutAt
<1>3. /\ j.stack = Outer
      /\ s.at = "first" => j.at = "member"
      /\ s.at = "key" => j.at = IF 1 .. m \subseteq H THEN "member"
                                ELSE IF m + 1 \in H THEN "next" ELSE "key"
  BY DEF Follows
<1>4. Len(j.stack) = 1 /\ Front(j.stack) = <<>>
  BY <1>3, OuterIs
<1>5. CASE s.at = "first" /\ x = "}"
  <2>1. t.at = "empty"
    BY <1>5, ScanStepIs
  <2>2. u = AfterValue(<<>>, j.keys)
    BY <1>3, <1>4, <1>5, JsonStepIs
  <2>3. u = Json("end", <<>>, j.keys)
    BY <2>2, AfterValueIs
  <2> HIDE DEF u, t, cut
  <2>4. u.at = "end" /\ u.stack = <<>> /\ u.keys = j.keys
    BY <2>3, JsonAt
  <2>5. Clean(u, R) /\ Follows(u, t, H)
    BY <2>1, <2>4 DEF Clean, Follows
  <2>6. ~cut
    BY <1>2, <1>5
  <2> QED BY <2>5, <2>6 DEF InStep, u, t, cut
<1>6. CASE ~(s.at = "first" /\ x = "}") /\ x \in Strings
  <2>1. t = ScanKey(s, x, i)
    BY <1>6, ScanStepIs, ZenonT(40)
  <2>2. t.at = "colon" /\ t.ms = s.ms
    <3> HIDE DEF t, u, m, cut
    <3>1. x \in Strings
      BY <1>6
    <3>2. ScanKey(s, x, i).at = "colon" /\ ScanKey(s, x, i).ms = s.ms
      BY <3>1, ScanKeyGood
    <3> QED BY <2>1, <3>2
  <2>3. CASE m + 1 \in H
    <3>1. j.at = Idle(m, H)
      BY <1>1, <1>3, <2>3, IdleNext DEF Idle
    <3> HIDE DEF t
    <3>2. Follows(j, t, H)
      BY <1>3, <2>2, <2>3, <3>1 DEF Follows
    <3>3. cut
      BY <1>2, <1>6, <2>3
    <3> QED BY <3>2, <3>3 DEF InStep, t
  <2>4. CASE m + 1 \notin H
    <3>1. ~cut
      BY <1>2, <2>4
    <3>2. j.at \in {"member", "key"}
      BY <1>3, <2>4
    <3>3. CASE x \in Unquotes
      <4>1. u = Json("colon", j.stack, j.keys \cup {x})
        BY <1>4, <3>2, <3>3, JsonStepIs
      <4> HIDE DEF u, t, cut
      <4>2. u.at = "colon" /\ u.stack = Outer /\ u.keys = j.keys \cup {x}
        BY <1>3, <4>1, JsonAt
      <4>3. Clean(u, R)
        BY <2>4, <4>2 DEF Clean
      <4>4. Follows(u, t, H)
        BY <2>2, <2>4, <4>2 DEF Follows
      <4> QED BY <3>1, <4>3, <4>4 DEF InStep, u, t, cut
    <3>4. CASE x \notin Unquotes
      <4>1. x # "}"
        BY <1>6, Kinds DEF Closers
      <4>2. u.at = "bad"
        BY <3>2, <3>4, <4>1, JsonStepBad
      <4> QED BY <3>1, <4>2 DEF InStep
    <3> QED BY <3>3, <3>4
  <2> QED BY <2>3, <2>4
<1>7. CASE ~(s.at = "first" /\ x = "}") /\ x \notin Strings
  <2>1. t = ScanKey(s, x, i)
    BY <1>7, ScanStepIs, ZenonT(40)
  <2>2. t.at = "malformed"
    <3>1. ScanKey(s, x, i).at = "malformed"
      BY <1>7, ScanKeyIs
    <3> QED BY <2>1, <3>1
  <2> QED BY <2>2 DEF InStep
<1> QED BY <1>5, <1>6, <1>7

(* up to the first lexeme of the value,                                    *)
LEMMA InStepValue ==
  ASSUME NEW s \in ScanStates, NEW j \in JsonStates, NEW x \in Lexemes, x # "sp",
         NEW i \in Nat, NEW H, NEW R, s.at \in {"colon", "value"}, Clean(j, R), Follows(j, s, H)
  PROVE  InStep(IF CutAt(s, x, H) THEN j ELSE JsonStep(j, x), ScanStep(s, x, i), H, R)
<1> DEFINE t == ScanStep(s, x, i)
           u == JsonStep(j, x)
           m == Len(s.ms)
           cut == CutAt(s, x, H)
<1>1. m \in Nat /\ s.key \in Strings
  BY ScanStateIs
<1>2. cut <=> m + 1 \in H
  BY DEF CutAt
<1>3. /\ j.stack = Outer
      /\ cut => j.at = Idle(m, H)
      /\ ~cut => j.at = s.at
  BY <1>2 DEF Follows
<1> HIDE DEF cut
<1>4. CASE s.at = "colon"
  <2>1. t.at = (IF x = ":" THEN "value" ELSE "malformed") /\ t.ms = s.ms
    BY <1>4, ScanColonIs
  <2>2. CASE x = ":" /\ cut
    <3>1. Follows(j, t, H)
      BY <1>2, <1>3, <2>1, <2>2 DEF Follows
    <3> QED BY <2>2, <3>1 DEF InStep, cut
  <2>3. CASE x = ":" /\ ~cut
    <3>1. u = Json("value", j.stack, j.keys)
      BY <1>3, <1>4, <2>3, JsonStepIs
    <3> HIDE DEF u, t
    <3>2. u.at = "value" /\ u.stack = Outer /\ u.keys = j.keys
      BY <1>3, <3>1, JsonAt
    <3>3. Clean(u, R) /\ Follows(u, t, H)
      BY <1>2, <2>1, <2>3, <3>2 DEF Clean, Follows
    <3> QED BY <2>3, <3>3 DEF InStep, u, t, cut
  <2>4. CASE x # ":"
    BY <2>1, <2>4 DEF InStep
  <2> QED BY <2>2, <2>3, <2>4
<1>5. CASE s.at = "value" /\ x \in Strings \cup Scalars
  <2>1. t = ScanValue(s, x, i)
    BY <1>5, ScanStepIs
  <2>2. t.at = "next" /\ Len(t.ms) = m + 1
    <3> DEFINE span == [key |-> s.key, value |-> x, start |-> s.start, end |-> i + 1]
    <3>1. ScanValue(s, x, i).at = "next" /\ ScanValue(s, x, i).ms = Append(s.ms, span)
      BY <1>1, <1>5, ScanValueIs
    <3> HIDE DEF span
    <3>2. Len(Append(s.ms, span)) = m + 1
      BY ScanStateIs
    <3> QED BY <2>1, <3>1, <3>2
  <2> HIDE DEF t
  <2>3. CASE cut
    <3>1. j.at = Idle(m + 1, H)
      BY <1>1, <1>2, <1>3, <2>3, IdleNext
    <3>2. Follows(j, t, H)
      BY <1>3, <2>2, <3>1 DEF Follows
    <3> QED BY <2>3, <3>2 DEF InStep, t, cut
  <2>4. CASE ~cut /\ x \in Unquotes \cup Scalars
    <3>1. u = AfterValue(Outer, j.keys)
      BY <1>3, <1>5, <2>4, JsonStepIs
    <3>2. u = Json("next", Outer, j.keys)
      BY <3>1, AfterValueIs, OuterIs
    <3> HIDE DEF u
    <3>3. u.at = "next" /\ u.stack = Outer /\ u.keys = j.keys
      BY <3>2, JsonAt
    <3>4. Idle(m + 1, H) = "next"
      BY <1>1, <1>2, <2>4, IdleNext
    <3>5. Clean(u, R) /\ Follows(u, t, H)
      BY <2>2, <3>3, <3>4 DEF Clean, Follows
    <3> QED BY <2>4, <3>5 DEF InStep, u, t, cut
  <2>5. CASE ~cut /\ x \notin Unquotes \cup Scalars
    <3>1. x \notin Openers
      BY <1>5, Kinds
    <3>2. u.at = "bad"
      BY <1>3, <1>5, <2>5, <3>1, JsonStepBad
    <3> QED BY <2>5, <3>2 DEF InStep, cut
  <2> QED BY <2>3, <2>4, <2>5
<1>6. CASE s.at = "value" /\ x \in Openers
  <2>1. t = ScanValue(s, x, i)
    BY <1>6, ScanStepIs
  <2>2. t.at = "inside" /\ t.ms = s.ms /\ t.stack = <<x>>
    <3>1. /\ ScanValue(s, x, i).at = "inside" /\ ScanValue(s, x, i).ms = s.ms
          /\ ScanValue(s, x, i).stack = <<x>>
      BY <1>1, <1>6, ScanValueIs
    <3> QED BY <2>1, <3>1
  <2> HIDE DEF t
  <2>3. CASE cut
    <3>1. Follows(j, t, H)
      BY <1>2, <1>3, <2>2, <2>3 DEF Follows
    <3> QED BY <2>3, <3>1 DEF InStep, t, cut
  <2>4. CASE ~cut
    <3> DEFINE a == IF x = "{" THEN "member" ELSE "item"
    <3>1. u = Json(a, Append(j.stack, x), j.keys)
      BY <1>3, <1>6, <2>4, JsonStepIs
    <3> HIDE DEF u, a
    <3>2. u.stack = Append(Outer, x) /\ u.keys = j.keys
      BY <1>3, <3>1, JsonAt
    <3>3. u.stack = On(Outer, t.stack)
      BY <1>6, <2>2, <3>2, OuterIs
    <3>4. Clean(u, R) /\ Follows(u, t, H)
      BY <1>2, <2>2, <2>4, <3>2, <3>3 DEF Clean, Follows
    <3> QED BY <2>4, <3>4 DEF InStep, u, t, cut
  <2> QED BY <2>3, <2>4
<1>7. CASE s.at = "value" /\ x \notin Strings \cup Scalars \cup Openers
  <2>1. t = ScanValue(s, x, i)
    BY <1>7, ScanStepIs, ZenonT(40)
  <2>2. t.at = "malformed"
    <3>1. ScanValue(s, x, i).at = "malformed"
      BY <1>1, <1>7, ScanValueIs
    <3> QED BY <2>1, <3>1
  <2> QED BY <2>2 DEF InStep
<1> QED BY <1>4, <1>5, <1>6, <1>7

(* inside a container,                                                     *)
LEMMA InStepInside ==
  ASSUME NEW s \in ScanStates, NEW j \in JsonStates, NEW x \in Lexemes, x # "sp",
         NEW i \in Nat, NEW H, NEW R, s.at = "inside", Clean(j, R), Follows(j, s, H)
  PROVE  InStep(IF CutAt(s, x, H) THEN j ELSE JsonStep(j, x), ScanStep(s, x, i), H, R)
<1> DEFINE t == ScanStep(s, x, i)
           u == JsonStep(j, x)
           m == Len(s.ms)
           cut == CutAt(s, x, H)
           closed == x \in Closers /\ Closes(Last(s.stack), x)
<1>1. m \in Nat /\ s.stack \in Seq(Openers) /\ s.stack # <<>>
  BY ScanStateIs
<1>2. cut <=> m + 1 \in H
  BY DEF CutAt
<1>3. /\ cut => j.at = Idle(m, H) /\ j.stack = Outer
      /\ ~cut => j.stack = On(Outer, s.stack)
  BY <1>2 DEF Follows
<1>4. /\ x \in Openers => \/ t.at = "malformed"
                          \/ t.at = "inside" /\ t.ms = s.ms /\ t.stack = Append(s.stack, x)
      /\ closed /\ Len(s.stack) = 1 => t.at = "next" /\ Len(t.ms) = m + 1
      /\ closed /\ Len(s.stack) # 1 => t.at = "inside" /\ t.ms = s.ms /\ t.stack = Front(s.stack)
      /\ x = "open" \/ (x \in Closers /\ ~closed) => t.at = "malformed"
      /\ x \notin Openers \cup Closers \cup {"open"} => t = s
  BY ScanInsideIs DEF closed
<1> HIDE DEF cut, closed, t
<1>5. CASE cut
  <2>1. CASE t.at = "inside" /\ t.ms = s.ms
    <3>1. Follows(j, t, H)
      BY <1>2, <1>3, <1>5, <2>1 DEF Follows
    <3> QED BY <1>5, <3>1 DEF InStep, t, cut
  <2>2. CASE t.at = "next" /\ Len(t.ms) = m + 1
    <3>1. j.at = Idle(m + 1, H)
      BY <1>1, <1>2, <1>3, <1>5, IdleNext
    <3>2. Follows(j, t, H)
      BY <1>3, <1>5, <2>2, <3>1 DEF Follows
    <3> QED BY <1>5, <3>2 DEF InStep, t, cut
  <2>3. CASE t.at = "malformed"
    BY <2>3 DEF InStep, t
  <2> QED BY <1>4, <2>1, <2>2, <2>3 DEF closed
<1>6. CASE ~cut /\ u.at = "bad"
  BY <1>6 DEF InStep, cut
<1>7. CASE ~cut /\ u.at # "bad" /\ t.at # "malformed"
  <2>1. /\ u.keys = j.keys
        /\ x \in Openers => u.stack = On(Outer, Append(s.stack, x))
        /\ x \in Closers => /\ Closes(Last(s.stack), x)
                            /\ u.stack = On(Outer, Front(s.stack))
                            /\ Len(s.stack) = 1 => u = Json("next", Outer, j.keys)
        /\ x \notin Openers \cup Closers => u.stack = On(Outer, s.stack)
    BY <1>1, <1>3, <1>7, OuterIs, JsonInsideStep
  <2> HIDE DEF u
  <2>2. Clean(u, R)
    BY <2>1 DEF Clean
  <2>3. CASE x \in Closers /\ Len(s.stack) = 1
    <3>1. t.at = "next" /\ Len(t.ms) = m + 1
      BY <1>4, <2>1, <2>3 DEF closed
    <3>2. u.at = "next" /\ u.stack = Outer
      BY <2>1, <2>3, JsonAt
    <3>3. Idle(m + 1, H) = "next"
      BY <1>1, <1>2, <1>7, IdleNext
    <3>4. Follows(u, t, H)
      BY <3>1, <3>2, <3>3 DEF Follows
    <3> QED BY <1>7, <2>2, <3>4 DEF InStep, u, t, cut
  <2>4. CASE ~(x \in Closers /\ Len(s.stack) = 1)
    <3>1. t.at = "inside" /\ t.ms = s.ms /\ u.stack = On(Outer, t.stack)
      BY <1>4, <1>7, <2>1, <2>4, Kinds DEF closed
    <3>2. Follows(u, t, H)
      BY <1>2, <1>7, <3>1 DEF Follows
    <3> QED BY <1>7, <2>2, <3>2 DEF InStep, u, t, cut
  <2> QED BY <2>3, <2>4
<1>8. CASE t.at = "malformed"
  BY <1>8 DEF InStep, t
<1> QED BY <1>5, <1>6, <1>7, <1>8

(* after a value,                                                          *)
LEMMA InStepNext ==
  ASSUME NEW s \in ScanStates, NEW j \in JsonStates, NEW x \in Lexemes, x # "sp",
         NEW i \in Nat, NEW H, NEW R, s.at = "next", Clean(j, R), Follows(j, s, H)
  PROVE  InStep(IF CutAt(s, x, H) THEN j ELSE JsonStep(j, x), ScanStep(s, x, i), H, R)
<1> DEFINE t == ScanStep(s, x, i)
           u == JsonStep(j, x)
           m == Len(s.ms)
           cut == CutAt(s, x, H)
<1>1. /\ t.at = (IF x = "," THEN "key" ELSE IF x = "}" THEN "done" ELSE "malformed")
      /\ t.ms = s.ms
  BY ScanNextIs
<1>2. cut <=> x = "," /\ (1 .. m \subseteq H \/ m + 1 \in H)
  BY DEF CutAt
<1>3. j.at = Idle(m, H) /\ j.stack = Outer
  BY DEF Follows
<1>4. Last(j.stack) = "{" /\ Front(j.stack) = <<>>
  BY <1>3, OuterIs
<1> HIDE DEF t, cut
<1>5. CASE cut
  <2>1. Follows(j, t, H)
    BY <1>1, <1>2, <1>3, <1>5 DEF Follows, Idle
  <2> QED BY <1>5, <2>1 DEF InStep, t, cut
<1>6. CASE x = "," /\ ~cut
  <2>1. j.at = "next"
    BY <1>2, <1>3, <1>6 DEF Idle
  <2>2. u = Json("key", j.stack, j.keys)
    BY <1>4, <1>6, <2>1, JsonStepIs
  <2> HIDE DEF u
  <2>3. u.at = "key" /\ u.stack = Outer /\ u.keys = j.keys
    BY <1>3, <2>2, JsonAt
  <2>4. Clean(u, R) /\ Follows(u, t, H)
    BY <1>1, <1>2, <1>6, <2>3 DEF Clean, Follows
  <2> QED BY <1>6, <2>4 DEF InStep, u, t, cut
<1>7. CASE x = "}"
  <2>1. j.at \in {"member", "next"}
    BY <1>3 DEF Idle
  <2>2. Closes(Last(j.stack), x)
    BY <1>4, <1>7 DEF Closes
  <2>3. u = AfterValue(<<>>, j.keys)
    BY <1>4, <1>7, <2>1, <2>2, JsonStepIs
  <2>4. u = Json("end", <<>>, j.keys)
    BY <2>3, AfterValueIs
  <2> HIDE DEF u
  <2>5. u.at = "end" /\ u.stack = <<>> /\ u.keys = j.keys
    BY <2>4, JsonAt
  <2>6. Clean(u, R) /\ Follows(u, t, H)
    BY <1>1, <1>7, <2>5 DEF Clean, Follows
  <2> QED BY <1>2, <1>7, <2>6 DEF InStep, u, t, cut
<1>8. CASE x \notin {",", "}"}
  BY <1>1, <1>8 DEF InStep, t
<1> QED BY <1>5, <1>6, <1>7, <1>8

(* and so everywhere.                                                      *)
LEMMA InStepStep ==
  ASSUME NEW s \in ScanStates, NEW j \in JsonStates, NEW x \in Lexemes, NEW i \in Nat,
         NEW H, NEW R, InStep(j, s, H, R), x # "sp",
         s.at \in {"first", "key"} /\ x \in R => Len(s.ms) + 1 \in H
  PROVE  InStep(IF CutAt(s, x, H) THEN j ELSE JsonStep(j, x), ScanStep(s, x, i), H, R)
<1>1. CASE j.at = "bad"
  <2>1. JsonStep(j, x).at = "bad"
    BY <1>1, JsonStepBad
  <2> QED BY <1>1, <2>1 DEF InStep
<1>2. CASE s.at \in {"malformed", "other"}
  <2>1. ScanStep(s, x, i) = s
    BY <1>2, ScanStepIs
  <2> QED BY <1>2, <2>1 DEF InStep
<1>3. CASE Clean(j, R) /\ Follows(j, s, H) /\ s.at = "start"
  <2>1. ~CutAt(s, x, H)
    BY <1>3 DEF CutAt
  <2>2. InStep(JsonStep(j, x), ScanStep(s, x, i), H, R)
    BY <1>3, InStepStart
  <2> QED BY <2>1, <2>2
<1>4. CASE Clean(j, R) /\ Follows(j, s, H) /\ s.at \in {"first", "key"}
  BY <1>4, InStepKey
<1>5. CASE Clean(j, R) /\ Follows(j, s, H) /\ s.at \in {"colon", "value"}
  BY <1>5, InStepValue
<1>6. CASE Clean(j, R) /\ Follows(j, s, H) /\ s.at = "inside"
  BY <1>6, InStepInside
<1>7. CASE Clean(j, R) /\ Follows(j, s, H) /\ s.at = "next"
  BY <1>7, InStepNext
<1>8. CASE Clean(j, R) /\ Follows(j, s, H) /\ s.at \in {"done", "empty"}
  <2>1. j.at = "end"
    BY <1>8 DEF Follows
  <2>2. JsonStep(j, x).at = "bad"
    BY <2>1, JsonStepBad
  <2>3. ~CutAt(s, x, H)
    BY <1>8 DEF CutAt
  <2> QED BY <2>2, <2>3 DEF InStep
<1>9. s.at \in ScanModes
  BY ScanStateIs
<1> QED BY <1>1, <1>2, <1>3, <1>4, <1>5, <1>6, <1>7, <1>8, <1>9 DEF InStep, ScanModes
-----------------------------------------------------------------------------
(* The text b, with what cutting out the members in H takes away blanked.  *)
IsCut(b, c, H) ==
  /\ Len(c) = Len(b)
  /\ \A p \in 1 .. Len(b) :
       c[p] = IF b[p] = "sp" \/ CutAt(ScanRun(b)[p - 1], b[p], H) THEN "sp" ELSE b[p]

(* The members with a key in R the scan comes by are in H.                 *)
Covers(H, b, R) ==
  \A p \in 1 .. Len(b) :
    /\ ScanRun(b)[p - 1].at \in {"first", "key"}
    /\ b[p] \in R
    => Len(ScanRun(b)[p - 1].ms) + 1 \in H

(* The scan of the text, and encoding/json on what is left of it.          *)
LEMMA Lockstep ==
  ASSUME NEW b \in Seq(Lexemes), NEW c \in Seq(Lexemes), NEW H, NEW R,
         IsCut(b, c, H), Covers(H, b, R)
  PROVE  \A p \in 0 .. Len(b) : InStep(JsonRun(JsonStart, c)[p], ScanRun(b)[p], H, R)
<1> DEFINE S == ScanRun(b)
           J == JsonRun(JsonStart, c)
           n == Len(b)
           T == {p \in 0 .. n : InStep(J[p], S[p], H, R)}
<1>1. /\ n \in Nat /\ Len(c) = n
      /\ \A p \in 1 .. n : b[p] \in Lexemes
      /\ \A p \in 1 .. n :
           c[p] = IF b[p] = "sp" \/ CutAt(S[p - 1], b[p], H) THEN "sp" ELSE b[p]
      /\ \A p \in 1 .. n :
           S[p - 1].at \in {"first", "key"} /\ b[p] \in R
             => Len(S[p - 1].ms) + 1 \in H
  BY DEF IsCut, Covers
<1>2. /\ S[0] = ScanStart /\ \A p \in 0 .. n : S[p] \in ScanStates
      /\ \A p \in 1 .. n : S[p] = ScanStep(S[p - 1], b[p], p)
  BY ScanRunIs
<1>3. /\ J[0] = JsonStart /\ \A p \in 0 .. n : J[p] \in JsonStates
      /\ \A p \in 1 .. n : J[p] = JsonStep(J[p - 1], c[p])
  BY <1>1, JsonStartType, JsonRunIs
<1> HIDE DEF S, J, n
<1>4. 0 \in T
  <2>1. Clean(JsonStart, R) /\ Follows(JsonStart, ScanStart, H)
    BY DEF Clean, Follows, JsonStart, ScanStart, Json
  <2> QED BY <1>1, <1>2, <1>3, <2>1 DEF InStep
<1>5. ASSUME NEW k \in 0 .. n - 1, k \in T PROVE k + 1 \in T
  <2> DEFINE s == S[k]
             j == J[k]
             x == b[k + 1]
             p == k + 1
  <2>1. p \in 1 .. n /\ p \in 0 .. n /\ p - 1 = k /\ p \in Nat /\ k \in 0 .. n
    BY <1>1
  <2>2. s \in ScanStates /\ j \in JsonStates /\ x \in Lexemes /\ InStep(j, s, H, R)
    BY <1>1, <1>2, <1>3, <1>5, <2>1
  <2>3. S[p] = ScanStep(s, x, p)
    BY <1>2, <2>1
  <2>4. J[p] = JsonStep(j, c[p])
    BY <1>3, <2>1
  <2>5. c[p] = IF x = "sp" \/ CutAt(s, x, H) THEN "sp" ELSE x
    BY <1>1, <2>1
  <2>6. s.at \in {"first", "key"} /\ x \in R => Len(s.ms) + 1 \in H
    BY <1>1, <2>1
  <2> HIDE DEF s, j, x, p, T
  <2>7. InStep(J[p], S[p], H, R)
    <3>1. CASE x = "sp"
      <4>1. S[p] = s /\ J[p] = j
        BY <2>3, <2>4, <2>5, <3>1 DEF ScanStep, JsonStep
      <4> QED BY <2>2, <4>1
    <3>2. CASE x # "sp"
      <4>1. InStep(IF CutAt(s, x, H) THEN j ELSE JsonStep(j, x), ScanStep(s, x, p), H, R)
        BY <2>1, <2>2, <2>6, <3>2, InStepStep
      <4>2. CASE CutAt(s, x, H)
        <5>1. J[p] = j
          BY <2>4, <2>5, <4>2 DEF JsonStep
        <5> QED BY <2>3, <4>1, <4>2, <5>1
      <4>3. CASE ~CutAt(s, x, H)
        <5>1. J[p] = JsonStep(j, x)
          BY <2>4, <2>5, <3>2, <4>3
        <5> QED BY <2>3, <4>1, <4>3, <5>1
      <4> QED BY <4>2, <4>3
    <3> QED BY <3>1, <3>2
  <2> QED BY <2>1, <2>7 DEF T, p
<1> HIDE DEF T
<1>6. \A k \in 0 .. n : k \in T
  BY <1>1, <1>4, <1>5, Induction
<1> QED BY <1>6 DEF T, S, J, n
-----------------------------------------------------------------------------
(* How far the scan is, counted so that it never goes back.                *)
Rank(at) ==
  CASE at \in {"start", "next"} -> 0
    [] at = "done" -> 1
    [] at \in {"first", "key"} -> 2
    [] at \in {"colon", "value", "inside"} -> 3
    [] OTHER -> 4
Phase(s) == 4 * Len(s.ms) + Rank(s.at)

(* The order in which the scan passes through a member.                    *)
LEMMA RankIs ==
  ASSUME NEW at
  PROVE  /\ Rank(at) \in 0 .. 4
         /\ at \in {"start", "next"} => Rank(at) = 0
         /\ at = "done" => Rank(at) = 1
         /\ at \in {"first", "key"} <=> Rank(at) = 2
         /\ at \in {"colon", "value", "inside"} <=> Rank(at) = 3
         /\ at \in {"empty", "other", "malformed"} => Rank(at) = 4
  BY DEF Rank

(* What a lexeme does to the members, in each mode.                        *)
LEMMA StepStart ==
  ASSUME NEW s \in ScanStates, NEW x \in Lexemes, x # "sp", NEW i \in Nat, s.at = "start"
  PROVE  /\ ScanStep(s, x, i).at = (IF x = "{" THEN "first" ELSE "other")
         /\ ScanStep(s, x, i).ms = s.ms
  BY ScanStepIs

(* What a lexeme does where a key is expected,                             *)
LEMMA StepKey ==
  ASSUME NEW s \in ScanStates, NEW x \in Lexemes, x # "sp", NEW i \in Nat,
         s.at \in {"first", "key"}
  PROVE  /\ ScanStep(s, x, i).at \in {"colon", "empty", "malformed"}
         /\ ScanStep(s, x, i).ms = s.ms
         /\ ScanStep(s, x, i).at = "colon" <=> x \in Strings
         /\ x \in Strings => ScanStep(s, x, i).key = x /\ ScanStep(s, x, i).start = i
<1> DEFINE t == ScanStep(s, x, i)
           u == ScanKey(s, x, i)
<1>1. "}" \notin Strings
  BY DEF Strings, Escaped, RoutingKeys
<1>2. CASE s.at = "first" /\ x = "}"
  <2>1. t.at = "empty" /\ t.ms = s.ms
    BY <1>2, ScanStepIs, ZenonT(40)
  <2> QED BY <1>1, <1>2, <2>1
<1>3. CASE ~(s.at = "first" /\ x = "}")
  <2>1. t = u
    BY <1>3, ScanStepIs, ZenonT(40)
  <2>2. u.ms = s.ms
    BY ScanKeyIs
  <2>3. CASE x \in Strings
    <3>1. u.at = "colon" /\ u.key = x /\ u.start = i
      BY <2>3, ScanKeyGood
    <3> HIDE DEF t, u
    <3> QED BY <2>1, <2>2, <2>3, <3>1 DEF t
  <2>4. CASE x \notin Strings
    <3>1. u.at = "malformed"
      BY <2>4, ScanKeyIs
    <3> HIDE DEF t, u
    <3> QED BY <2>1, <2>2, <2>4, <3>1 DEF t
  <2> QED BY <2>3, <2>4
<1> QED BY <1>2, <1>3

(* A member with this value, from the scan's state in its last lexeme.     *)
Span(s, v, i) == [key |-> s.key, value |-> v, start |-> s.start, end |-> i + 1]

(* inside a member,                                                        *)
LEMMA StepMember ==
  ASSUME NEW s \in ScanStates, NEW x \in Lexemes, x # "sp", NEW i \in Nat,
         s.at \in {"colon", "value", "inside"}
  PROVE  LET t == ScanStep(s, x, i)
         IN \/ t.at = "malformed" /\ t.ms = s.ms
            \/ /\ t.at \in {"colon", "value", "inside"} /\ t.ms = s.ms
               /\ t.key = s.key /\ t.start = s.start
            \/ t.at = "next" /\ \E v \in Lexemes : t.ms = Append(s.ms, Span(s, v, i))
<1> DEFINE t == ScanStep(s, x, i)
<1>1. s.key \in Strings
  BY ScanStateIs
<1>2. CASE s.at = "colon"
  BY <1>2, ScanColonIs
<1>3. CASE s.at = "value"
  <2> DEFINE u == ScanValue(s, x, i)
  <2>1. t = u
    BY <1>3, ScanStepIs
  <2>2. CASE x \in Strings \cup Scalars
    <3>1. u.at = "next" /\ u.ms = Append(s.ms, Span(s, x, i))
      BY <1>1, <2>2, ScanValueIs DEF Span
    <3> HIDE DEF t, u
    <3> QED BY <2>1, <3>1 DEF t
  <2>3. CASE x \in Openers
    <3>1. u.at = "inside" /\ u.key = s.key /\ u.start = s.start /\ u.ms = s.ms
      BY <1>1, <2>3, ScanValueIs
    <3> HIDE DEF t, u
    <3> QED BY <2>1, <3>1 DEF t
  <2>4. CASE x \notin Strings \cup Scalars \cup Openers
    <3>1. u.at = "malformed" /\ u.ms = s.ms
      BY <1>1, <2>4, ScanValueIs
    <3> HIDE DEF t, u
    <3> QED BY <2>1, <3>1 DEF t
  <2> QED BY <2>2, <2>3, <2>4
<1>4. CASE s.at = "inside"
  <2> DEFINE u == ScanContainer(s, x, i)
             closed == x \in Closers /\ Closes(Last(s.stack), x)
  <2>1. t = u
    BY <1>4, ScanStepIs
  <2>2. CASE closed /\ Len(s.stack) = 1
    <3>1. u.at = "next" /\ u.ms = Append(s.ms, Span(s, s.value, i))
      BY <1>4, <2>2, ScanContainerIs DEF Span
    <3>2. s.value \in Lexemes
      BY <1>4, ScanStateIs
    <3> HIDE DEF t, u
    <3> QED BY <2>1, <3>1, <3>2 DEF t
  <2>3. CASE closed /\ Len(s.stack) # 1
    <3> DEFINE f == Front(s.stack)
    <3>0. u = [s EXCEPT !.stack = f]
      BY <2>3 DEF ScanContainer, Openers, Closers
    <3> HIDE DEF f
    <3>1. u.at = "inside" /\ u.key = s.key /\ u.start = s.start /\ u.ms = s.ms
      BY <1>4, <3>0 DEF ScanStates, ScanRecords
    <3> HIDE DEF t, u
    <3> QED BY <2>1, <3>1 DEF t
  <2>4. CASE x \in Openers /\ ~(Len(s.stack) >= MaxScanDepth)
    <3>1. u.at = "inside" /\ u.key = s.key /\ u.start = s.start /\ u.ms = s.ms
      BY <1>4, <2>4, ScanContainerIs
    <3> HIDE DEF t, u
    <3> QED BY <2>1, <3>1 DEF t
  <2>5. CASE \/ x \in Openers /\ Len(s.stack) >= MaxScanDepth
             \/ x = "open"
             \/ x \in Closers /\ ~Closes(Last(s.stack), x)
    <3>1. u = Malformed(s)
      BY <2>5 DEF ScanContainer, Openers, Closers
    <3>2. Malformed(s).at = "malformed" /\ Malformed(s).ms = s.ms
      BY MalformedIs DEF ScanStates
    <3> HIDE DEF t, u
    <3> QED BY <2>1, <3>1, <3>2 DEF t
  <2>6. CASE x \notin Openers \cup Closers \cup {"open"}
    <3>1. u = s
      BY <2>6 DEF ScanContainer
    <3> HIDE DEF t, u
    <3> QED BY <1>4, <2>1, <3>1 DEF t
  <2> QED BY <2>2, <2>3, <2>4, <2>5, <2>6
<1> QED BY <1>2, <1>3, <1>4

(* and when the scan has returned.                                         *)
LEMMA StepDone ==
  ASSUME NEW s \in ScanStates, NEW x, NEW i,
         s.at \in {"done", "empty", "other", "malformed"}
  PROVE  ScanStep(s, x, i) = s
  BY DEF ScanStep


(* The scan never goes back, and outside a value every lexeme moves it on. *)
LEMMA PhaseStep ==
  ASSUME NEW s \in ScanStates, NEW x \in Lexemes, NEW i \in Nat
  PROVE  /\ Phase(s) \in Nat
         /\ Phase(s) <= Phase(ScanStep(s, x, i))
         /\ x # "sp" /\ s.at \in {"start", "first", "key", "next"} =>
              Phase(s) < Phase(ScanStep(s, x, i))
<1> DEFINE t == ScanStep(s, x, i)
           m == Len(s.ms)
<1>1. m \in Nat /\ s.at \in ScanModes
  BY ScanStateIs
<1>2. \A a : Rank(a) \in 0 .. 4
  BY RankIs
<1>3. Phase(s) = 4 * m + Rank(s.at) /\ Phase(t) = 4 * Len(t.ms) + Rank(t.at)
  BY DEF Phase
<1>4. Phase(s) \in Nat
  BY <1>1, <1>2, <1>3
<1>5. CASE x = "sp"
  <2>1. t = s
    BY <1>5 DEF ScanStep
  <2> QED BY <1>4, <1>5, <2>1
<1>6. CASE x # "sp" /\ s.at = "start"
  <2>0. t.at = (IF x = "{" THEN "first" ELSE "other") /\ t.ms = s.ms
    BY <1>6, StepStart
  <2>1. Rank(s.at) = 0 /\ t.at \in {"first", "other"} /\ t.ms = s.ms
    BY <1>6, <2>0, RankIs
  <2>2. Rank(t.at) \in {2, 4}
    BY <2>1, RankIs
  <2> HIDE DEF t
  <2>3. Phase(s) < Phase(t)
    BY <1>1, <1>3, <2>1, <2>2
  <2> QED BY <1>4, <2>3, <1>2, <1>3, <2>1, <1>1 DEF t
<1>7. CASE x # "sp" /\ s.at \in {"first", "key"}
  <2>1. t.at \in {"colon", "empty", "malformed"} /\ t.ms = s.ms
    BY <1>7, StepKey
  <2>2. Rank(t.at) \in {3, 4} /\ Rank(s.at) = 2
    BY <1>7, <2>1, RankIs
  <2> HIDE DEF t
  <2>3. Phase(s) < Phase(t)
    BY <1>1, <1>3, <2>1, <2>2
  <2> QED BY <1>4, <2>3, <1>2, <1>3, <2>1, <1>1 DEF t
<1>8. CASE x # "sp" /\ s.at \in {"colon", "value", "inside"}
  <2>1. /\ t.at \in {"colon", "value", "inside", "malformed", "next"}
        /\ t.at = "next" => Len(t.ms) = m + 1
        /\ t.at # "next" => Len(t.ms) = m
    <3>1. \/ t.at = "malformed" /\ t.ms = s.ms
          \/ t.at \in {"colon", "value", "inside"} /\ t.ms = s.ms
          \/ t.at = "next" /\ \E v \in Lexemes : t.ms = Append(s.ms, Span(s, v, i))
      BY <1>8, StepMember
    <3>2. s.ms \in Seq(Spans)
      BY ScanStateIs
    <3>3. \A v : Len(Append(s.ms, v)) = m + 1
      BY <3>2
    <3> QED BY <3>1, <3>3
  <2>2. Rank(s.at) = 3
    BY <1>8, RankIs
  <2>3. IF t.at = "next" THEN Rank(t.at) = 0 ELSE Rank(t.at) \in {3, 4}
    BY <2>1, RankIs
  <2> HIDE DEF t
  <2>4. Phase(s) <= Phase(t)
    BY <1>1, <1>3, <2>1, <2>2, <2>3
  <2> QED BY <1>4, <1>8, <2>4 DEF t
<1>9. CASE x # "sp" /\ s.at = "next"
  <2>1. t.at \in {"key", "done", "malformed"} /\ t.ms = s.ms
    BY <1>9, ScanNextIs
  <2>2. Rank(t.at) \in {1, 2, 4} /\ Rank(s.at) = 0
    BY <1>9, <2>1, RankIs
  <2> HIDE DEF t
  <2>3. Phase(s) < Phase(t)
    BY <1>1, <1>3, <2>1, <2>2
  <2> QED BY <1>4, <2>3, <1>2, <1>3, <2>1, <1>1 DEF t
<1>10. CASE s.at \in {"done", "empty", "other", "malformed"}
  <2>1. t = s
    BY <1>10, StepDone
  <2> QED BY <1>4, <1>10, <2>1
<1> QED BY <1>1, <1>5, <1>6, <1>7, <1>8, <1>9, <1>10 DEF ScanModes

(* The measure of progress is a number,                                    *)
LEMMA PhaseNat ==
  ASSUME NEW s \in ScanStates
  PROVE  Phase(s) \in Nat
<1>1. "sp" \in Lexemes /\ 0 \in Nat
  BY DEF Lexemes
<1> QED BY <1>1, PhaseStep

(* and never decreases.                                                    *)
LEMMA PhaseMonotone ==
  ASSUME NEW b \in Seq(Lexemes), NEW p \in 0 .. Len(b), NEW q \in p .. Len(b)
  PROVE  Phase(ScanRun(b)[p]) <= Phase(ScanRun(b)[q])
<1> DEFINE S == ScanRun(b)
           n == Len(b)
           T == {k \in Nat : p + k <= n => Phase(S[p]) <= Phase(S[p + k])}
<1>1. n \in Nat /\ (\A k \in 1 .. n : b[k] \in Lexemes) /\ p \in Nat
  OBVIOUS
<1>2. /\ \A k \in 0 .. n : S[k] \in ScanStates
      /\ \A k \in 1 .. n : S[k] = ScanStep(S[k - 1], b[k], k)
  BY ScanRunIs
<1> HIDE DEF S
<1>3. \A k \in 0 .. n : Phase(S[k]) \in Nat
  BY <1>2, PhaseNat
<1>4. 0 \in T
  BY <1>3
<1>5. ASSUME NEW k \in Nat, k \in T PROVE k + 1 \in T
  <2>1. SUFFICES ASSUME p + (k + 1) <= n PROVE Phase(S[p]) <= Phase(S[p + (k + 1)])
    OBVIOUS
  <2> DEFINE r == p + k
  <2>2. /\ r + 1 \in 1 .. n /\ (r + 1) - 1 = r /\ r \in 0 .. n /\ p + (k + 1) = r + 1
        /\ r <= n /\ r + 1 \in 0 .. n /\ r + 1 \in Nat
    BY <1>1, <2>1
  <2>3. Phase(S[p]) <= Phase(S[r])
    BY <1>5, <2>2
  <2> HIDE DEF r
  <2>4. S[r + 1] = ScanStep(S[r], b[r + 1], r + 1)
    BY <1>2, <2>2
  <2>5. Phase(S[r]) <= Phase(S[r + 1])
    BY <1>1, <1>2, <2>2, <2>4, PhaseStep
  <2>6. Phase(S[p]) <= Phase(S[r + 1])
    BY <1>3, <2>2, <2>3, <2>5
  <2> QED BY <2>2, <2>6
<1> HIDE DEF T
<1>6. \A k \in Nat : k \in T
  BY <1>4, <1>5, InductionNat
<1>7. q - p \in Nat /\ p + (q - p) = q /\ q <= n
  OBVIOUS
<1>8. q - p \in T
  BY <1>6, <1>7
<1> QED BY <1>7, <1>8 DEF T, S
-----------------------------------------------------------------------------
(* The scan reads the key of member k at position q.                       *)
KeyAt(b, k, q) ==
  /\ q \in 1 .. Len(b) /\ b[q] \in Strings
  /\ ScanRun(b)[q - 1].at \in {"first", "key"}
  /\ Len(ScanRun(b)[q - 1].ms) = k - 1
  /\ Phase(ScanRun(b)[q]) = 4 * k - 1

(* It has found member k at m.start .. m.end - 1.                          *)
MemberAt(b, k, m) ==
  /\ KeyAt(b, k, m.start) /\ m.key = b[m.start]
  /\ m.end \in m.start + 1 .. Len(b) + 1
  /\ Phase(ScanRun(b)[m.end - 2]) = 4 * k - 1
  /\ ScanRun(b)[m.end - 1].at = "next"
  /\ Len(ScanRun(b)[m.end - 1].ms) = k

MembersAt(b, p) ==
  LET s == ScanRun(b)[p]
  IN /\ \A k \in 1 .. Len(s.ms) : MemberAt(b, k, s.ms[k])
     /\ s.at \in {"colon", "value", "inside"} =>
          /\ KeyAt(b, Len(s.ms) + 1, s.start)
          /\ s.key = b[s.start] /\ s.start <= p

(* The members the scan has found are where it says they are.              *)
LEMMA ScanMembersAt ==
  ASSUME NEW b \in Seq(Lexemes)
  PROVE  \A p \in 0 .. Len(b) : MembersAt(b, p)
<1> DEFINE S == ScanRun(b)
           n == Len(b)
           T == {p \in 0 .. n : MembersAt(b, p)}
<1>1. n \in Nat /\ (\A k \in 1 .. n : b[k] \in Lexemes)
  OBVIOUS
<1>2. /\ S[0] = ScanStart
      /\ \A k \in 0 .. n : S[k] \in ScanStates
      /\ \A k \in 1 .. n : S[k] = ScanStep(S[k - 1], b[k], k)
  BY ScanRunIs
<1>3. \A p : MembersAt(b, p) <=>
        /\ \A k \in 1 .. Len(S[p].ms) : MemberAt(b, k, S[p].ms[k])
        /\ S[p].at \in {"colon", "value", "inside"} =>
             /\ KeyAt(b, Len(S[p].ms) + 1, S[p].start)
             /\ S[p].key = b[S[p].start] /\ S[p].start <= p
  BY DEF MembersAt
<1> HIDE DEF S, n
<1>4. 0 \in T
  <2>1. Len(S[0].ms) = 0 /\ S[0].at = "start"
    BY <1>2 DEF ScanStart
  <2> QED BY <1>1, <1>3, <2>1
<1>5. ASSUME NEW r \in 0 .. n - 1, r \in T PROVE r + 1 \in T
  <2> DEFINE s == S[r]
             t == S[r + 1]
             x == b[r + 1]
             p == r + 1
             m == Len(s.ms)
             mid == {"colon", "value", "inside"}
  <2>1. p \in 1 .. n /\ p \in 0 .. n /\ p - 1 = r /\ p \in Nat /\ r \in 0 .. n /\ r \in Nat
    BY <1>1
  <2>2. /\ \A k \in 1 .. m : MemberAt(b, k, s.ms[k])
        /\ s.at \in mid => /\ KeyAt(b, m + 1, s.start)
                           /\ s.key = b[s.start] /\ s.start <= r
    BY <1>3, <1>5
  <2>3. s \in ScanStates /\ t \in ScanStates /\ x \in Lexemes /\ t = ScanStep(s, x, p)
    BY <1>1, <1>2, <2>1
  <2>4. SUFFICES /\ \A k \in 1 .. Len(t.ms) : MemberAt(b, k, t.ms[k])
                 /\ t.at \in mid => /\ KeyAt(b, Len(t.ms) + 1, t.start)
                                    /\ t.key = b[t.start] /\ t.start <= p
    BY <1>3, <2>1
  <2>5. m \in Nat /\ s.ms \in Seq(Spans) /\ s.at \in ScanModes
    BY <2>3, ScanStateIs
  <2>15. s.at \in mid => s.start <= p
    <3>1. s.start \in Nat
      BY <2>3 DEF ScanStates, ScanRecords
    <3> QED BY <2>1, <2>2, <3>1
  <2> HIDE DEF s, t, x, T
  <2>6. CASE t.ms = s.ms /\ t.at \notin mid
    BY <2>2, <2>6
  <2>7. CASE t.ms = s.ms /\ t.at \in mid /\ t.key = s.key /\ t.start = s.start /\ s.at \in mid
    BY <2>2, <2>7, <2>15
  <2>8. CASE x # "sp" /\ s.at \in {"first", "key"}
    <3>1. /\ t.at \in {"colon", "empty", "malformed"} /\ t.ms = s.ms
          /\ t.at = "colon" <=> x \in Strings
          /\ x \in Strings => t.key = x /\ t.start = p
      BY <2>1, <2>3, <2>8, StepKey
    <3>2. CASE t.at = "colon"
      <4>1. Phase(t) = 4 * (m + 1) - 1
        <5>1. Rank(t.at) = 3
          BY <3>2, RankIs
        <5> QED BY <2>5, <3>1, <5>1 DEF Phase
      <4>2. KeyAt(b, m + 1, p)
        BY <2>1, <2>5, <2>8, <3>1, <3>2, <4>1 DEF KeyAt, s, t, x, S, n
      <4> QED BY <2>1, <2>2, <3>1, <3>2, <4>2 DEF x
    <3>3. CASE t.at # "colon"
      BY <2>2, <3>1, <3>3
    <3> QED BY <3>2, <3>3
  <2>9. CASE s.at \in mid /\ t.at = "next" /\ \E v \in Lexemes : t.ms = Append(s.ms, Span(s, v, p))
    <3>1. PICK v \in Lexemes : t.ms = Append(s.ms, Span(s, v, p))
      BY <2>9
    <3> DEFINE sp == Span(s, v, p)
    <3>2. sp.start = s.start /\ sp.key = s.key /\ sp.end = p + 1
      BY DEF Span
    <3> HIDE DEF sp
    <3>3. Len(t.ms) = m + 1 /\ t.ms[m + 1] = sp /\ \A k \in 1 .. m : t.ms[k] = s.ms[k]
      BY <2>5, <3>1 DEF sp
    <3>4. Phase(s) = 4 * (m + 1) - 1
      <4>1. Rank(s.at) = 3
        BY <2>9, RankIs
      <4> QED BY <2>5, <4>1 DEF Phase
    <3>5. MemberAt(b, m + 1, sp)
      <4>1. /\ (p + 1) - 2 = r /\ (p + 1) - 1 = r + 1
            /\ p + 1 \in s.start + 1 .. n + 1
        <5>1. s.start \in 1 .. n
          BY <2>2, <2>9 DEF KeyAt, n
        <5> QED BY <1>1, <2>1, <2>2, <2>9, <5>1, SMTT(20)
      <4>2. KeyAt(b, m + 1, sp.start) /\ sp.key = b[sp.start]
        BY <2>2, <2>9, <3>2
      <4> QED BY <2>9, <3>2, <3>3, <3>4, <4>1, <4>2 DEF MemberAt, s, t, S, n
    <3>6. \A k \in 1 .. m + 1 : k \in 1 .. m \/ k = m + 1
      BY <2>5
    <3> QED BY <2>2, <2>9, <3>3, <3>5, <3>6
  <2>10. CASE x = "sp"
    <3>1. t = s
      BY <2>3, <2>10 DEF ScanStep
    <3> QED BY <2>2, <2>15, <3>1
  <2>11. CASE x # "sp" /\ s.at = "start"
    <3>1. t.ms = s.ms /\ t.at \notin mid
      BY <2>1, <2>3, <2>11, StepStart
    <3> QED BY <2>6, <3>1
  <2>12. CASE x # "sp" /\ s.at \in mid
    <3>1. \/ t.at = "malformed" /\ t.ms = s.ms
          \/ t.at \in mid /\ t.ms = s.ms /\ t.key = s.key /\ t.start = s.start
          \/ t.at = "next" /\ \E v \in Lexemes : t.ms = Append(s.ms, Span(s, v, p))
      BY <2>1, <2>3, <2>12, StepMember
    <3> QED BY <2>6, <2>7, <2>9, <2>12, <3>1
  <2>13. CASE x # "sp" /\ s.at = "next"
    <3>1. /\ t.at = IF x = "," THEN "key" ELSE IF x = "}" THEN "done" ELSE "malformed"
          /\ t.ms = s.ms
      BY <2>1, <2>3, <2>13, ScanNextIs, ZenonT(40)
    <3>2. t.at \notin mid
      BY <3>1
    <3> QED BY <2>6, <3>1, <3>2
  <2>14. CASE s.at \in {"done", "empty", "other", "malformed"}
    <3>1. t = s
      BY <2>3, <2>14, StepDone
    <3> QED BY <2>2, <2>14, <3>1
  <2> QED BY <2>5, <2>8, <2>10, <2>11, <2>12, <2>13, <2>14 DEF ScanModes
<1> HIDE DEF T
<1>6. \A p \in 0 .. n : p \in T
  BY <1>1, <1>4, <1>5, Induction
<1> QED BY <1>6 DEF T, n
-----------------------------------------------------------------------------
(* Whitespace leaves the scan where it is.                                 *)
LEMMA BlankStretch ==
  ASSUME NEW b \in Seq(Lexemes), NEW p \in 0 .. Len(b), NEW q \in p .. Len(b),
         \A i \in p + 1 .. q : b[i] = "sp"
  PROVE  ScanRun(b)[q] = ScanRun(b)[p]
<1> DEFINE S == ScanRun(b)
           T == {k \in Nat : p + k <= q => S[p + k] = S[p]}
<1>1. Len(b) \in Nat /\ p \in Nat /\ q \in Nat /\ q <= Len(b)
  OBVIOUS
<1>2. \A k \in 1 .. Len(b) : S[k] = ScanStep(S[k - 1], b[k], k)
  BY ScanRunIs
<1> HIDE DEF S
<1>3. 0 \in T
  BY <1>1
<1>4. ASSUME NEW k \in Nat, k \in T PROVE k + 1 \in T
  <2>1. SUFFICES ASSUME p + (k + 1) <= q PROVE S[p + (k + 1)] = S[p]
    OBVIOUS
  <2> DEFINE r == p + k
  <2>2. /\ r + 1 \in 1 .. Len(b) /\ (r + 1) - 1 = r /\ p + (k + 1) = r + 1
        /\ r + 1 \in p + 1 .. q /\ p + k <= q
    BY <1>1, <2>1
  <2>3. S[r] = S[p]
    BY <1>4, <2>2
  <2> HIDE DEF r
  <2>4. S[r + 1] = ScanStep(S[r], b[r + 1], r + 1) /\ b[r + 1] = "sp"
    BY <1>2, <2>2
  <2>5. S[r + 1] = S[r]
    BY <2>4 DEF ScanStep
  <2> QED BY <2>2, <2>3, <2>5
<1> HIDE DEF T
<1>5. \A k \in Nat : k \in T
  BY <1>3, <1>4, InductionNat
<1>6. q - p \in Nat /\ p + (q - p) = q
  BY <1>1
<1>7. q - p \in T
  BY <1>5, <1>6
<1> QED BY <1>1, <1>6, <1>7 DEF T, S

(* A hit is a leading one when everything in front of it is a hit.         *)
LEMMA LeadingIs ==
  ASSUME NEW n \in Nat, NEW hits \in SUBSET (1 .. n), NEW k \in 1 .. n
  PROVE  Leading(hits, k) <=> 1 .. k - 1 \subseteq hits
<1> DEFINE A == {h \in hits : h < k}
           B == 1 .. k - 1
<1>0. ASSUME NEW h \in hits, h < k PROVE h \in B
  <2>1. h \in 1 .. n
    OBVIOUS
  <2> QED BY <1>0, <2>1
<1>1. A \subseteq B
  BY <1>0
<1>2. IsFiniteSet(B) /\ Cardinality(B) = k - 1
  <2>1. 1 \in Int /\ k - 1 \in Int
    OBVIOUS
  <2>2. Cardinality(1 .. k - 1) = IF 1 > k - 1 THEN 0 ELSE (k - 1) - 1 + 1
    BY <2>1, FS_Interval
  <2>3. IsFiniteSet(1 .. k - 1)
    BY <2>1, FS_Interval
  <2> QED BY <2>2, <2>3
<1>3. Leading(hits, k) <=> Cardinality(A) = k - 1
  BY DEF Leading
<1>4. B \subseteq hits <=> A = B
  <2>1. \A h : h \in B <=> h \in Nat /\ h >= 1 /\ h < k
    OBVIOUS
  <2>2. \A h : h \in A <=> h \in hits /\ h < k
    OBVIOUS
  <2>3. ASSUME B \subseteq hits PROVE A = B
    BY <1>1, <2>1, <2>2, <2>3
  <2>4. ASSUME A = B PROVE B \subseteq hits
    BY <2>2, <2>4
  <2> QED BY <2>3, <2>4
<1>5. Cardinality(A) = Cardinality(B) => A = B
  BY <1>1, <1>2, FS_Subset
<1> HIDE DEF A, B
<1>6. Leading(hits, k) <=> A = B
  BY <1>2, <1>3, <1>5
<1> QED BY <1>4, <1>6 DEF B

(* The nearest lexeme in front of a position, and behind one.              *)
IsBefore(b, p, i) ==
  /\ i \in 0 .. p - 1
  /\ i > 0 => b[i] # "sp"
  /\ \A j \in i + 1 .. p - 1 : b[j] = "sp"
IsAfter(b, p, i) ==
  /\ i \in p .. Len(b) + 1
  /\ i <= Len(b) => b[i] # "sp"
  /\ \A j \in p .. i - 1 : b[j] = "sp"

(* There is a last lexeme before p that is not whitespace, or none.        *)
LEMMA BeforeExists ==
  ASSUME NEW b \in Seq(Lexemes), NEW p \in 1 .. Len(b)
  PROVE  \E i : IsBefore(b, p, i)
<1> DEFINE solid == {i \in 0 .. p - 1 : i = 0 \/ b[i] # "sp"}
           i == Max(solid)
<1>1. p - 1 \in Nat /\ solid \in SUBSET (0 .. p - 1) /\ 0 \in solid
  OBVIOUS
<1>2. i \in solid /\ \A k \in solid : k <= i
  BY <1>1, MaxOf
<1> HIDE DEF i
<1>3. IsBefore(b, p, i)
  BY <1>2 DEF IsBefore
<1> QED BY <1>3

(* There is a next lexeme from p on that is not whitespace, or none.       *)
LEMMA AfterExists ==
  ASSUME NEW b \in Seq(Lexemes), NEW p \in 1 .. Len(b) + 1
  PROVE  \E i : IsAfter(b, p, i)
<1> DEFINE solid == {i \in p .. Len(b) + 1 : i = Len(b) + 1 \/ b[i] # "sp"}
           i == Min(solid)
<1>1. Len(b) \in Nat /\ solid \in SUBSET Nat /\ Len(b) + 1 \in solid
  OBVIOUS
<1>2. i \in solid /\ \A k \in solid : i <= k
  BY <1>1, MinOf
<1> HIDE DEF i
<1>3. IsAfter(b, p, i)
  BY <1>1, <1>2 DEF IsAfter
<1> QED BY <1>3

(* The lexemes cut out for hit k, told from the state they are read in:    *)
(* the member, and one of the commas around it.                            *)
CommaAt(b, q, m) ==
  b[q] = "," /\ ScanRun(b)[q - 1].at = "next" /\ Len(ScanRun(b)[q - 1].ms) = m

(* The comma the code looks for behind member k is the one that ends it.   *)
LEMMA CommaBehind ==
  ASSUME NEW b \in Seq(Lexemes), NEW k \in Nat, NEW m, MemberAt(b, k, m),
         m.end \in Nat, m.start \in Nat,
         NEW i, IsAfter(b, m.end, i), NEW q \in 1 .. Len(b)
  PROVE  CommaAt(b, q, k) <=> q = i /\ b[q] = ","
<1> DEFINE S == ScanRun(b)
           e == m.end
           n == Len(b)
<1>1. /\ n \in Nat /\ e \in 2 .. n + 1 /\ e - 1 \in 0 .. n /\ e - 2 \in 0 .. n
      /\ \A p \in 1 .. n : b[p] \in Lexemes
  <2>1. m.start \in 1 .. n /\ e \in m.start + 1 .. n + 1
    BY DEF MemberAt, KeyAt
  <2>2. n \in Nat /\ \A p \in 1 .. n : b[p] \in Lexemes
    OBVIOUS
  <2> HIDE DEF e, n
  <2> QED BY <2>1, <2>2
<1>2. /\ S[e - 1].at = "next" /\ Len(S[e - 1].ms) = k
      /\ Phase(S[e - 2]) = 4 * k - 1
  BY DEF MemberAt
<1>3. /\ \A p \in 0 .. n : S[p] \in ScanStates /\ Phase(S[p]) \in Nat
      /\ \A p \in 1 .. n : S[p] = ScanStep(S[p - 1], b[p], p)
      /\ \A p \in 0 .. n : \A r \in p .. n : Phase(S[p]) <= Phase(S[r])
  BY ScanRunIs, PhaseNat, PhaseMonotone
<1>4. \A p \in e - 1 .. i - 1 : p <= n => S[p] = S[e - 1]
  <2>1. SUFFICES ASSUME NEW p \in e - 1 .. i - 1, p <= n PROVE S[p] = S[e - 1]
    OBVIOUS
  <2>2. /\ e - 1 \in 0 .. n /\ p \in e - 1 .. n
        /\ \A r \in (e - 1) + 1 .. p : b[r] = "sp"
    BY <1>1, <2>1 DEF IsAfter
  <2> QED BY <2>2, BlankStretch
<1>5. i \in e .. n + 1 /\ (i <= n => b[i] # "sp") /\ (\A j \in e .. i - 1 : b[j] = "sp")
  BY DEF IsAfter
<1> HIDE DEF S, e, n
<1>6. ASSUME q = i, b[q] = "," PROVE CommaAt(b, q, k)
  <2>0. q \in Nat /\ q >= 1 /\ q <= n
    BY DEF n
  <2>1. q - 1 \in e - 1 .. i - 1 /\ q - 1 <= n
    <3>1. e \in Nat /\ n \in Nat /\ i \in e .. n + 1
      BY <1>1, <1>5
    <3>2. q \in e .. n + 1
      BY <1>6, <3>1
    <3>3. q - 1 \in e - 1 .. q - 1 /\ q - 1 <= n
      BY <2>0, <3>1, <3>2
    <3> QED BY <1>6, <3>3
  <2>2. S[q - 1] = S[e - 1]
    BY <1>4, <2>1
  <2> QED BY <1>2, <1>6, <2>2 DEF CommaAt, S
<1>7. ASSUME CommaAt(b, q, k) PROVE q = i /\ b[q] = ","
  <2>1. b[q] = "," /\ S[q - 1].at = "next" /\ Len(S[q - 1].ms) = k
    BY <1>7 DEF CommaAt, S
  <2>2. Phase(S[q - 1]) = 4 * k
    <3>1. Rank("next") = 0
      BY RankIs
    <3> DEFINE s == S[q - 1]
    <3>2. s.at = "next" /\ Len(s.ms) = k
      BY <2>1
    <3> HIDE DEF s
    <3>3. Phase(s) = 4 * k
      BY <3>1, <3>2 DEF Phase
    <3> QED BY <3>3 DEF s
  <2>3. Phase(S[e - 1]) = 4 * k
    <3>1. Rank("next") = 0
      BY RankIs
    <3> QED BY <1>2, <3>1 DEF Phase
  <2>4. q \in Nat /\ q >= 1 /\ q <= n
    BY DEF n
  <2>5. q >= e
    <3>1. SUFFICES ASSUME ~(q >= e) PROVE FALSE
      OBVIOUS
    <3>2. q - 1 \in 0 .. n /\ e - 2 \in q - 1 .. n
      BY <1>1, <2>4, <3>1
    <3>3. Phase(S[q - 1]) <= Phase(S[e - 2])
      BY <1>3, <3>2
    <3> QED BY <1>2, <2>2, <3>3
  <2>6. i <= q
    <3>1. SUFFICES ASSUME ~(i <= q) PROVE FALSE
      OBVIOUS
    <3>2. q \in e .. i - 1
      BY <1>1, <1>5, <2>4, <2>5, <3>1
    <3> QED BY <1>5, <2>1, <3>2
  <2>7. ~(i < q)
    <3>1. SUFFICES ASSUME i < q PROVE FALSE
      OBVIOUS
    <3>2. /\ i \in 1 .. n /\ i - 1 \in 0 .. n /\ i - 1 \in e - 1 .. i - 1 /\ i - 1 <= n
          /\ i \in 0 .. n /\ q - 1 \in i .. n /\ i \in Nat
      BY <1>1, <1>5, <2>4, <3>1
    <3>3. S[i - 1] = S[e - 1]
      BY <1>4, <3>2
    <3>4. S[i] = ScanStep(S[i - 1], b[i], i) /\ b[i] # "sp" /\ b[i] \in Lexemes
      BY <1>1, <1>3, <1>5, <3>2
    <3>5. S[i - 1] \in ScanStates /\ S[i - 1].at = "next"
      BY <1>2, <1>3, <3>2, <3>3
    <3>6. Phase(S[i - 1]) < Phase(S[i])
      BY <3>2, <3>4, <3>5, PhaseStep
    <3>7. Phase(S[i]) <= Phase(S[q - 1])
      BY <1>3, <3>2
    <3>8. Phase(S[i]) \in Nat
      BY <1>3, <3>2
    <3> QED BY <2>2, <2>3, <3>3, <3>6, <3>7, <3>8
  <2>8. q = i
    BY <1>1, <1>5, <2>4, <2>6, <2>7
  <2> QED BY <2>1, <2>8
<1> QED BY <1>6, <1>7

(* The comma it looks for in front of a member is the one before it.       *)
LEMMA CommaInFront ==
  ASSUME NEW b \in Seq(Lexemes), NEW k \in Nat, NEW st \in Nat, KeyAt(b, k, st),
         NEW i, IsBefore(b, st, i), NEW q \in 1 .. Len(b)
  PROVE  CommaAt(b, q, k - 1) <=> q = i /\ b[q] = ","
<1> DEFINE S == ScanRun(b)
           n == Len(b)
<1>1. /\ n \in Nat /\ st \in 1 .. n /\ st - 1 \in 0 .. n
      /\ \A p \in 1 .. n : b[p] \in Lexemes
  BY DEF KeyAt
<1>2. /\ S[st - 1].at \in {"first", "key"} /\ Len(S[st - 1].ms) = k - 1
  BY DEF KeyAt
<1>3. /\ \A p \in 0 .. n : S[p] \in ScanStates /\ Phase(S[p]) \in Nat
      /\ \A p \in 1 .. n : S[p] = ScanStep(S[p - 1], b[p], p)
      /\ \A p \in 0 .. n : \A r \in p .. n : Phase(S[p]) <= Phase(S[r])
  BY ScanRunIs, PhaseNat, PhaseMonotone
<1>4. i \in 0 .. st - 1 /\ (i > 0 => b[i] # "sp") /\ (\A j \in i + 1 .. st - 1 : b[j] = "sp")
  BY DEF IsBefore
<1>5. S[st - 1] = S[i]
  <2>1. i \in 0 .. n /\ st - 1 \in i .. n
    BY <1>1, <1>4
  <2> QED BY <1>4, <2>1, BlankStretch
<1>6. Phase(S[st - 1]) = 4 * k - 2
  <2> DEFINE s == S[st - 1]
  <2>1. s.at \in {"first", "key"} /\ Len(s.ms) = k - 1
    BY <1>2
  <2> HIDE DEF s
  <2>2. Rank(s.at) = 2
    BY <2>1, RankIs
  <2>3. Phase(s) = 4 * k - 2
    BY <2>1, <2>2 DEF Phase
  <2> QED BY <2>3 DEF s
<1>7. q \in Nat /\ q >= 1 /\ q <= n /\ q - 1 \in 0 .. n /\ q \in 0 .. n
  OBVIOUS
<1> HIDE DEF S, n
<1>8. ASSUME q = i, b[q] = "," PROVE CommaAt(b, q, k - 1)
  <2> DEFINE s == S[q - 1]
             t == S[q]
             x == b[q]
  <2>1. s \in ScanStates /\ t = ScanStep(s, x, q) /\ x \in Lexemes /\ x # "sp" /\ x = ","
    BY <1>1, <1>3, <1>7, <1>8 DEF n
  <2>2. t.at \in {"first", "key"} /\ Len(t.ms) = k - 1
    BY <1>2, <1>5, <1>8
  <2> HIDE DEF s, t, x
  <2>3. s.at \in ScanModes
    BY <2>1, ScanStateIs
  <2>4. s.at # "start"
    <3>1. SUFFICES ASSUME s.at = "start" PROVE FALSE
      OBVIOUS
    <3>2. t.at = IF x = "{" THEN "first" ELSE "other"
      BY <1>7, <2>1, <3>1, StepStart
    <3>3. t.at = "other"
      BY <2>1, <3>2
    <3> QED BY <2>2, <3>3
  <2>5. s.at \notin {"first", "key"}
    <3>1. SUFFICES ASSUME s.at \in {"first", "key"} PROVE FALSE
      OBVIOUS
    <3>2. t.at \in {"colon", "empty", "malformed"}
      BY <1>7, <2>1, <3>1, StepKey
    <3> QED BY <2>2, <3>2
  <2>6. s.at \notin {"colon", "value", "inside"}
    <3>1. SUFFICES ASSUME s.at \in {"colon", "value", "inside"} PROVE FALSE
      OBVIOUS
    <3>2. t.at \in {"malformed", "colon", "value", "inside", "next"}
      BY <1>7, <2>1, <3>1, StepMember
    <3> QED BY <2>2, <3>2
  <2>7. s.at \notin {"done", "empty", "other", "malformed"}
    <3>1. SUFFICES ASSUME s.at \in {"done", "empty", "other", "malformed"} PROVE FALSE
      OBVIOUS
    <3>2. ScanStep(s, x, q) = s
      BY <3>1 DEF ScanStep
    <3>3. t.at = s.at
      BY <2>1, <3>2
    <3> QED BY <2>2, <3>1, <3>3
  <2>8. s.at = "next"
    BY <2>3, <2>4, <2>5, <2>6, <2>7 DEF ScanModes
  <2>9. t.ms = s.ms
    BY <1>7, <2>1, <2>8, ScanNextIs
  <2> QED BY <1>8, <2>2, <2>8, <2>9 DEF CommaAt, s, S
<1>9. ASSUME CommaAt(b, q, k - 1) PROVE q = i /\ b[q] = ","
  <2> DEFINE s == S[q - 1]
             t == S[q]
             x == b[q]
  <2>1. x = "," /\ s.at = "next" /\ Len(s.ms) = k - 1
    BY <1>9 DEF CommaAt, S
  <2>2. s \in ScanStates /\ t = ScanStep(s, x, q) /\ x \in Lexemes
    BY <1>1, <1>3, <1>7 DEF n
  <2> HIDE DEF s, t, x
  <2>3. Phase(s) = 4 * k - 4
    <3>1. Rank(s.at) = 0
      BY <2>1, RankIs
    <3>2. Phase(s) = 4 * Len(s.ms) + Rank(s.at)
      BY DEF Phase
    <3>3. Phase(s) = 4 * (k - 1) + 0
      BY <2>1, <3>1, <3>2
    <3> QED BY <3>3
  <2>4. t.at = "key" /\ t.ms = s.ms
    BY <1>7, <2>1, <2>2, ScanNextIs
  <2>5. Phase(t) = 4 * k - 2
    <3>1. Rank(t.at) = 2
      BY <2>4, RankIs
    <3>2. Phase(t) = 4 * Len(t.ms) + Rank(t.at)
      BY DEF Phase
    <3>3. Phase(t) = 4 * (k - 1) + 2
      BY <2>1, <2>4, <3>1, <3>2
    <3> QED BY <3>3
  <2>6. q < st
    <3>1. SUFFICES ASSUME ~(q < st) PROVE FALSE
      OBVIOUS
    <3>2. q - 1 \in st - 1 .. n
      BY <1>1, <1>7, <3>1
    <3>3. Phase(S[st - 1]) <= Phase(s)
      BY <1>1, <1>3, <3>2 DEF s
    <3> QED BY <1>6, <2>3, <3>3
  <2>7. q <= i
    <3>1. SUFFICES ASSUME ~(q <= i) PROVE FALSE
      OBVIOUS
    <3>2. q \in i + 1 .. st - 1
      BY <1>1, <1>4, <1>7, <2>6, <3>1
    <3> QED BY <1>4, <2>1, <3>2 DEF x
  <2>8. ~(q < i)
    <3>1. SUFFICES ASSUME q < i PROVE FALSE
      OBVIOUS
    <3>2. /\ i \in 1 .. n /\ i - 1 \in 0 .. n /\ i - 1 \in q .. n /\ i \in Nat /\ i > 0
      BY <1>1, <1>4, <1>7, <3>1
    <3> DEFINE u == S[i - 1]
               v == S[i]
    <3>3. u \in ScanStates /\ v = ScanStep(u, b[i], i) /\ b[i] \in Lexemes /\ b[i] # "sp"
      BY <1>1, <1>3, <1>4, <3>2
    <3>4. Phase(t) <= Phase(u) /\ Phase(u) <= Phase(v) /\ Phase(u) \in Nat
      <4>1. i \in i - 1 .. n
        BY <3>2
      <4> QED BY <1>3, <1>7, <3>2, <4>1 DEF t
    <3>5. Phase(v) = 4 * k - 2
      BY <1>5, <1>6
    <3> HIDE DEF u, v
    <3>6. Phase(u) = 4 * k - 2
      BY <2>5, <3>4, <3>5
    <3>7. u.at \in {"first", "key"}
      <4>1. Len(u.ms) \in Nat
        BY <3>3, ScanStateIs
      <4>2. Rank(u.at) \in 0 .. 4
        BY RankIs
      <4>3. 4 * Len(u.ms) + Rank(u.at) = 4 * k - 2
        BY <3>6 DEF Phase
      <4>4. Rank(u.at) = 2
        BY <4>1, <4>2, <4>3
      <4> QED BY <4>4, RankIs
    <3>8. Phase(u) < Phase(v)
      BY <3>2, <3>3, <3>7, PhaseStep
    <3> QED BY <3>5, <3>6, <3>8
  <2>9. q = i
    BY <1>1, <1>4, <1>7, <2>7, <2>8
  <2> QED BY <2>1, <2>9 DEF x
<1> QED BY <1>8, <1>9
-----------------------------------------------------------------------------
(* What the measure says of the state.                                     *)
LEMMA PhaseAt ==
  ASSUME NEW s \in ScanStates, NEW k \in Nat
  PROVE  /\ Len(s.ms) + 1 = k /\ s.at \in {"first", "key"} => Phase(s) = 4 * k - 2
         /\ Phase(s) = 4 * k - 1 <=>
              Len(s.ms) + 1 = k /\ s.at \in {"colon", "value", "inside"}
         /\ Len(s.ms) = k /\ s.at = "next" => Phase(s) = 4 * k
<1> DEFINE m == Len(s.ms)
           g == Rank(s.at)
<1>1. m \in Nat
  BY ScanStateIs
<1>2. /\ g \in 0 .. 4
      /\ s.at = "next" => g = 0
      /\ s.at \in {"first", "key"} <=> g = 2
      /\ s.at \in {"colon", "value", "inside"} <=> g = 3
  BY RankIs
<1>3. Phase(s) = 4 * m + g
  BY DEF Phase
<1> HIDE DEF m, g
<1>4. m + 1 = k /\ g = 2 => Phase(s) = 4 * k - 2
  BY <1>1, <1>3
<1>5. Phase(s) = 4 * k - 1 <=> m + 1 = k /\ g = 3
  BY <1>1, <1>2, <1>3
<1>6. m = k /\ g = 0 => Phase(s) = 4 * k
  BY <1>1, <1>3
<1> QED BY <1>2, <1>4, <1>5, <1>6 DEF m

(* The lexemes of member k are those read in its key and after it.         *)
LEMMA MemberSpan ==
  ASSUME NEW b \in Seq(Lexemes), NEW k \in Nat, NEW m, MemberAt(b, k, m),
         m.end \in Nat, m.start \in Nat, NEW q \in 1 .. Len(b), b[q] # "sp"
  PROVE  /\ q \in m.start .. m.end - 1 <=>
              /\ ScanRun(b)[q - 1].at \in {"first", "key", "colon", "value", "inside"}
              /\ Len(ScanRun(b)[q - 1].ms) + 1 = k
         /\ ScanRun(b)[q - 1].at \in {"first", "key"} /\ Len(ScanRun(b)[q - 1].ms) + 1 = k
              => q = m.start
<1> DEFINE S == ScanRun(b)
           n == Len(b)
           st == m.start
           e == m.end
           s == S[q - 1]
           t == S[q]
<1>1. /\ n \in Nat /\ st \in 1 .. n /\ e \in st + 1 .. n + 1 /\ st \in Nat /\ e \in Nat
      /\ S[st - 1].at \in {"first", "key"} /\ Len(S[st - 1].ms) = k - 1
      /\ Phase(S[st]) = 4 * k - 1 /\ Phase(S[e - 2]) = 4 * k - 1
      /\ S[e - 1].at = "next" /\ Len(S[e - 1].ms) = k
  BY DEF MemberAt, KeyAt
<1>2. /\ \A p \in 0 .. n : S[p] \in ScanStates /\ Phase(S[p]) \in Nat
      /\ \A p \in 1 .. n : S[p] = ScanStep(S[p - 1], b[p], p)
      /\ \A p \in 0 .. n : \A r \in p .. n : Phase(S[p]) <= Phase(S[r])
  BY ScanRunIs, PhaseNat, PhaseMonotone
<1>3. q \in Nat /\ q >= 1 /\ q <= n /\ b[q] \in Lexemes
  OBVIOUS
<1> HIDE DEF S, n, st, e
<1>4. st - 1 \in 0 .. n /\ e - 1 \in 0 .. n /\ e - 2 \in 0 .. n /\ q - 1 \in 0 .. n /\ q \in 0 .. n
      /\ st \in 0 .. n /\ q \in 1 .. n
  <2>1. n \in Nat /\ st \in 1 .. n /\ e \in st + 1 .. n + 1
    BY <1>1
  <2>2. st - 1 \in 0 .. n /\ st \in 0 .. n /\ e - 1 \in 0 .. n /\ e - 2 \in 0 .. n
    BY <2>1
  <2>3. q - 1 \in 0 .. n /\ q \in 0 .. n /\ q \in 1 .. n
    BY <1>3, <2>1
  <2> QED BY <2>2, <2>3
<1>5. Phase(S[st - 1]) = 4 * k - 2
  <2>1. Len(S[st - 1].ms) + 1 = k
    BY <1>1
  <2>2. S[st - 1] \in ScanStates
    BY <1>2, <1>4
  <2> QED BY <1>1, <2>1, <2>2, PhaseAt
<1>6. Phase(S[e - 1]) = 4 * k
  <2>2. S[e - 1] \in ScanStates
    BY <1>2, <1>4
  <2> QED BY <1>1, <2>2, PhaseAt
<1>7. s \in ScanStates /\ t \in ScanStates /\ t = ScanStep(s, b[q], q) /\ Phase(s) \in Nat /\ Phase(t) \in Nat
  BY <1>2, <1>4
<1>8. \A p \in 0 .. n : \A r \in p .. n : Phase(S[p]) <= Phase(S[r])
  BY <1>2
<1>9. ASSUME q \in st .. e - 1
      PROVE  s.at \in {"first", "key", "colon", "value", "inside"} /\ Len(s.ms) + 1 = k
  <2>1. CASE q = st
    BY <1>1, <2>1
  <2>2. CASE q # st
    <3>1. q - 1 \in st .. n /\ e - 2 \in q - 1 .. n
      BY <1>1, <1>3, <1>9, <2>2
    <3>2. Phase(S[st]) <= Phase(s) /\ Phase(s) <= Phase(S[e - 2])
      BY <1>4, <1>8, <3>1
    <3> HIDE DEF s
    <3>3. Phase(s) = 4 * k - 1
      BY <1>1, <1>7, <3>2, SMTT(20)
    <3> QED BY <1>7, <3>3, PhaseAt
  <2> QED BY <2>1, <2>2
<1>10. ASSUME s.at \in {"first", "key"}, Len(s.ms) + 1 = k
       PROVE  q = st /\ q \in st .. e - 1
  <2>1. Phase(s) = 4 * k - 2
    <3> HIDE DEF s
    <3> QED BY <1>7, <1>10, PhaseAt
  <2>2. Phase(s) < Phase(t)
    <3> HIDE DEF s, t
    <3> QED BY <1>3, <1>7, <1>10, PhaseStep
  <2>3. ~(q - 1 >= st)
    <3>1. SUFFICES ASSUME q - 1 >= st PROVE FALSE
      OBVIOUS
    <3>2. q - 1 \in st .. n
      BY <1>1, <1>3, <3>1
    <3>3. Phase(S[st]) <= Phase(s)
      BY <1>4, <1>8, <3>2
    <3> QED BY <1>1, <2>1, <3>3
  <2>4. ~(q <= st - 1)
    <3>1. SUFFICES ASSUME q <= st - 1 PROVE FALSE
      OBVIOUS
    <3>2. st - 1 \in q .. n
      BY <1>1, <1>3, <3>1, SMTT(30)
    <3>3. Phase(t) <= Phase(S[st - 1])
      BY <1>4, <1>8, <3>2
    <3> HIDE DEF s, t
    <3> QED BY <1>5, <1>7, <2>1, <2>2, <3>3
  <2> QED BY <1>1, <1>3, <2>3, <2>4, SMTT(30)
<1>11. ASSUME s.at \in {"colon", "value", "inside"}, Len(s.ms) + 1 = k PROVE q \in st .. e - 1
  <2>1. Phase(s) = 4 * k - 1
    <3> HIDE DEF s
    <3> QED BY <1>7, <1>11, PhaseAt
  <2>3. ~(q - 1 < st)
    <3>1. SUFFICES ASSUME q - 1 < st PROVE FALSE
      OBVIOUS
    <3>2. st - 1 \in q - 1 .. n
      BY <1>1, <1>3, <3>1
    <3>3. Phase(s) <= Phase(S[st - 1])
      BY <1>4, <1>8, <3>2
    <3> QED BY <1>5, <2>1, <3>3
  <2>4. ~(q - 1 >= e - 1)
    <3>1. SUFFICES ASSUME q - 1 >= e - 1 PROVE FALSE
      OBVIOUS
    <3>2. q - 1 \in e - 1 .. n
      BY <1>1, <1>3, <3>1
    <3>3. Phase(S[e - 1]) <= Phase(s)
      BY <1>4, <1>8, <3>2
    <3> QED BY <1>6, <2>1, <3>3
  <2> QED BY <1>1, <1>3, <2>3, <2>4
<1> QED BY <1>9, <1>10, <1>11 DEF s, S, st, e

(* What is cut out for hit k.                                              *)
LEMMA CutOutIs ==
  ASSUME NEW b \in Seq(Lexemes), NEW ms, ms = Scan(b).ms, NEW hits \in SUBSET DOMAIN ms,
         NEW k \in hits, NEW q \in 1 .. Len(b), b[q] # "sp"
  PROVE  q \in CutOut(b, ms, hits, k) <=>
           \/ /\ ScanRun(b)[q - 1].at \in {"first", "key", "colon", "value", "inside"}
              /\ Len(ScanRun(b)[q - 1].ms) + 1 = k
           \/ CommaAt(b, q, k) /\ 1 .. k - 1 \subseteq hits
           \/ CommaAt(b, q, k - 1) /\ ~(1 .. k - 1 \subseteq hits)
<1> DEFINE n == Len(b)
           m == ms[k]
           st == m.start
           e == m.end
           before == CHOOSE i \in 0 .. st - 1 :
                       /\ i > 0 => b[i] # "sp"
                       /\ \A j \in i + 1 .. st - 1 : b[j] = "sp"
           after == CHOOSE i \in e .. Len(b) + 1 :
                       /\ i <= Len(b) => b[i] # "sp"
                       /\ \A j \in e .. i - 1 : b[j] = "sp"
           comma(i) == i \in DOMAIN b /\ b[i] = ","
<1>1. /\ ms \in Seq(Spans) /\ n \in Nat /\ DOMAIN ms = 1 .. Len(ms) /\ Len(ms) \in Nat
      /\ MembersAt(b, n)
  <2>1. n \in Nat /\ n \in 0 .. n
    OBVIOUS
  <2>2. Scan(b) \in ScanStates
    BY <2>1, ScanRunIs DEF Scan
  <2> HIDE DEF n
  <2>3. ms \in Seq(Spans)
    BY <2>2, ScanStateIs
  <2>4. MembersAt(b, n)
    BY <2>1, ScanMembersAt DEF n
  <2>5. DOMAIN ms = 1 .. Len(ms) /\ Len(ms) \in Nat
    BY <2>3
  <2> QED BY <2>1, <2>3, <2>4, <2>5
<1>2. k \in 1 .. Len(ms) /\ k \in Nat /\ m \in Spans
  BY <1>1
<1>3. st \in Nat /\ e \in Nat
  BY <1>2 DEF Spans
<1>4. MemberAt(b, k, m)
  <2>1. Scan(b) = ScanRun(b)[n]
    BY DEF Scan
  <2> QED BY <1>1, <1>2, <2>1 DEF MembersAt
<1>5. KeyAt(b, k, st) /\ st \in 1 .. n /\ e \in st + 1 .. n + 1
  BY <1>4 DEF MemberAt, KeyAt
<1> HIDE DEF m
<1>6. IsBefore(b, st, before)
  <2>1. \E i : IsBefore(b, st, i)
    BY <1>5, BeforeExists
  <2> QED BY <2>1 DEF IsBefore
<1>7. IsAfter(b, e, after)
  <2>1. e \in 1 .. n + 1
    BY <1>1, <1>3, <1>5
  <2>2. \E i : IsAfter(b, e, i)
    BY <2>1, AfterExists
  <2> QED BY <2>2 DEF IsAfter
<1>8. CutOut(b, ms, hits, k) =
        IF Leading(hits, k)
        THEN st .. (IF comma(after) THEN after ELSE after - 1)
        ELSE (IF comma(before) THEN before ELSE before + 1) .. e - 1
  BY DEF CutOut, m
<1>9. Leading(hits, k) <=> 1 .. k - 1 \subseteq hits
  BY <1>1, <1>2, LeadingIs
<1>10. CommaAt(b, q, k) <=> q = after /\ b[q] = ","
  <2> HIDE DEF after
  <2> QED BY <1>2, <1>3, <1>4, <1>7, CommaBehind
<1>11. CommaAt(b, q, k - 1) <=> q = before /\ b[q] = ","
  <2> HIDE DEF before
  <2> QED BY <1>2, <1>3, <1>5, <1>6, CommaInFront
<1>12. q \in st .. e - 1 <=>
         /\ ScanRun(b)[q - 1].at \in {"first", "key", "colon", "value", "inside"}
         /\ Len(ScanRun(b)[q - 1].ms) + 1 = k
  BY <1>2, <1>3, <1>4, MemberSpan
<1>13. /\ after \in e .. n + 1 /\ \A j \in e .. after - 1 : b[j] = "sp"
       /\ before \in 0 .. st - 1 /\ \A j \in before + 1 .. st - 1 : b[j] = "sp"
  BY <1>6, <1>7 DEF IsBefore, IsAfter
<1> HIDE DEF after, before, st, e
<1>18. DOMAIN b = 1 .. n
  OBVIOUS
<1>14. \A i : comma(i) <=> i \in 1 .. n /\ b[i] = ","
  BY <1>18
<1>15. q \in 1 .. n
  OBVIOUS
<1> HIDE DEF comma, n
<1>16. q \in st .. (IF comma(after) THEN after ELSE after - 1) <=>
         q \in st .. e - 1 \/ (q = after /\ b[q] = ",")
  <2>1. q \in e .. after - 1 => FALSE
    BY <1>13
  <2>2. /\ n \in Nat /\ st \in Nat /\ e \in Nat /\ after \in e .. n + 1 /\ st < e
        /\ q \in Nat /\ q <= n
    BY <1>1, <1>3, <1>5, <1>13, <1>15
  <2>3. CASE comma(after)
    <3>1. b[after] = ","
      BY <1>14, <2>3
    <3>2. q \in st .. after <=> q \in st .. e - 1 \/ q = after
      BY <2>1, <2>2
    <3> QED BY <2>3, <3>1, <3>2
  <2>4. CASE ~comma(after)
    <3>1. ~(q = after /\ b[q] = ",")
      BY <1>14, <1>15, <2>4
    <3>2. q \in st .. after - 1 <=> q \in st .. e - 1
      BY <2>1, <2>2
    <3> QED BY <2>4, <3>1, <3>2
  <2> QED BY <2>3, <2>4
<1>17. q \in (IF comma(before) THEN before ELSE before + 1) .. e - 1 <=>
         q \in st .. e - 1 \/ (q = before /\ b[q] = ",")
  <2>1. q \in before + 1 .. st - 1 => FALSE
    BY <1>13
  <2>2. /\ n \in Nat /\ st \in Nat /\ e \in Nat /\ before \in 0 .. st - 1 /\ st < e
        /\ q \in Nat /\ q <= n /\ before \in Nat
    BY <1>1, <1>3, <1>5, <1>13, <1>15
  <2>3. CASE comma(before)
    <3>1. b[before] = ","
      BY <1>14, <2>3
    <3>2. q \in before .. e - 1 <=> q \in st .. e - 1 \/ q = before
      BY <2>1, <2>2
    <3> QED BY <2>3, <3>1, <3>2
  <2>4. CASE ~comma(before)
    <3>1. ~(q = before /\ b[q] = ",")
      BY <1>14, <1>15, <2>4
    <3>2. q \in before + 1 .. e - 1 <=> q \in st .. e - 1
      BY <2>1, <2>2
    <3> QED BY <2>4, <3>1, <3>2
  <2> QED BY <2>3, <2>4
<1> QED BY <1>8, <1>9, <1>10, <1>11, <1>12, <1>16, <1>17

(* The members found are where their spans say.                            *)
LEMMA FoundMembers ==
  ASSUME NEW b \in Seq(Lexemes)
  PROVE  /\ Scan(b).ms \in Seq(Spans) /\ Len(Scan(b).ms) \in Nat
         /\ DOMAIN Scan(b).ms = 1 .. Len(Scan(b).ms)
         /\ \A k \in DOMAIN Scan(b).ms :
              /\ MemberAt(b, k, Scan(b).ms[k]) /\ k \in Nat /\ k >= 1
              /\ Scan(b).ms[k].start \in Nat /\ Scan(b).ms[k].end \in Nat
<1> DEFINE ms == Scan(b).ms
           n == Len(b)
<1>1. n \in Nat /\ n \in 0 .. n
  OBVIOUS
<1>2. Scan(b) \in ScanStates
  BY <1>1, ScanRunIs DEF Scan
<1>3. ms \in Seq(Spans)
  BY <1>2, ScanStateIs
<1>4. MembersAt(b, n)
  BY <1>1, ScanMembersAt
<1> HIDE DEF ms
<1>5. DOMAIN ms = 1 .. Len(ms) /\ Len(ms) \in Nat /\ \A k \in DOMAIN ms : ms[k] \in Spans
  BY <1>3
<1>6. \A k \in DOMAIN ms : ms[k].start \in Nat /\ ms[k].end \in Nat
  BY <1>5 DEF Spans
<1>7. Scan(b) = ScanRun(b)[n]
  BY DEF Scan
<1>8. \A k \in 1 .. Len(ms) : MemberAt(b, k, ms[k])
  BY <1>4, <1>7 DEF MembersAt, ms
<1> QED BY <1>3, <1>5, <1>6, <1>8 DEF ms

(* All that is cut out, told from the state it is read in.                 *)
LEMMA CutAtIs ==
  ASSUME NEW b \in Seq(Lexemes), NEW hits \in SUBSET DOMAIN Scan(b).ms,
         NEW q \in 1 .. Len(b), b[q] # "sp"
  PROVE  q \in UNION {CutOut(b, Scan(b).ms, hits, k) : k \in hits} <=>
           CutAt(ScanRun(b)[q - 1], b[q], hits)
<1> DEFINE ms == Scan(b).ms
           s == ScanRun(b)[q - 1]
           x == b[q]
           l == Len(s.ms)
           ins == {"first", "key", "colon", "value", "inside"}
           in(k) == s.at \in ins /\ l + 1 = k
           all(k) == 1 .. k - 1 \subseteq hits
<1>1. \A k \in hits : q \in CutOut(b, ms, hits, k) <=>
        \/ in(k)
        \/ CommaAt(b, q, k) /\ all(k)
        \/ CommaAt(b, q, k - 1) /\ ~all(k)
  BY CutOutIs
<1>2. s \in ScanStates
  <2>1. q - 1 \in 0 .. Len(b)
    OBVIOUS
  <2> QED BY <2>1, ScanRunIs
<1>3. l \in Nat /\ (s.at = "next" => l > 0)
  BY <1>2, ScanStateIs
<1>4. \A k \in hits : k \in Nat /\ k >= 1
  BY FoundMembers
<1>5. s.at = "first" /\ l + 1 \in hits => x # "}"
  <2>1. SUFFICES ASSUME s.at = "first", l + 1 \in hits PROVE x # "}"
    OBVIOUS
  <2> DEFINE m == ms[l + 1]
  <2>2. MemberAt(b, l + 1, m) /\ m.start \in Nat /\ m.end \in Nat /\ l + 1 \in Nat
    BY <2>1, FoundMembers
  <2> HIDE DEF m
  <2>3. q = m.start
    BY <2>1, <2>2, MemberSpan
  <2>4. b[m.start] \in Strings
    BY <2>2 DEF MemberAt, KeyAt
  <2> QED BY <2>3, <2>4 DEF Strings, Escaped, RoutingKeys
<1>6. \A k : CommaAt(b, q, k) <=> x = "," /\ s.at = "next" /\ l = k
  BY DEF CommaAt
<1>7. CutAt(s, x, hits) <=>
        \/ s.at \in ins /\ (s.at = "first" => x # "}") /\ l + 1 \in hits
        \/ s.at = "next" /\ x = "," /\ (1 .. l \subseteq hits \/ l + 1 \in hits)
  BY DEF CutAt
<1>8. q \in UNION {CutOut(b, ms, hits, k) : k \in hits} <=>
        \E k \in hits : q \in CutOut(b, ms, hits, k)
  OBVIOUS
<1>11. /\ l > 0 /\ 1 .. l \subseteq hits => l \in hits /\ 1 .. l - 1 \subseteq hits
       /\ l \in hits /\ 1 .. l - 1 \subseteq hits => 1 .. l \subseteq hits
  <2> HIDE DEF l
  <2>1. l > 0 => l \in 1 .. l /\ 1 .. l - 1 \subseteq 1 .. l /\ \A i \in 1 .. l : i = l \/ i \in 1 .. l - 1
    BY <1>3
  <2>2. l \in hits => l > 0
    BY <1>3, <1>4
  <2> QED BY <2>1, <2>2
<1> HIDE DEF ms, s, x, l
<1>9. ASSUME NEW k \in hits, q \in CutOut(b, ms, hits, k) PROVE CutAt(s, x, hits)
  <2>1. CASE in(k)
    BY <1>5, <1>7, <2>1
  <2>2. CASE CommaAt(b, q, k) /\ all(k)
    <3>1. x = "," /\ s.at = "next" /\ l = k
      BY <1>6, <2>2
    <3>2. 1 .. l \subseteq hits
      BY <1>9, <1>11, <2>2, <3>1
    <3> QED BY <1>7, <3>1, <3>2
  <2>3. CASE CommaAt(b, q, k - 1)
    <3>1. x = "," /\ s.at = "next" /\ l = k - 1
      BY <1>6, <2>3
    <3>0. k \in Nat
      BY <1>4
    <3>4. (k - 1) + 1 = k
      BY <3>0
    <3>2. l + 1 = k
      BY <3>1, <3>4, Zenon
    <3> QED BY <1>7, <3>1, <3>2
  <2> QED BY <1>1, <1>9, <2>1, <2>2, <2>3
<1>10. ASSUME CutAt(s, x, hits) PROVE \E k \in hits : q \in CutOut(b, ms, hits, k)
  <2>1. CASE s.at \in ins /\ l + 1 \in hits
    BY <1>1, <2>1
  <2>2. CASE s.at = "next" /\ x = "," /\ 1 .. l \subseteq hits
    <3>1. l \in hits /\ all(l)
      BY <1>3, <1>11, <2>2
    <3> QED BY <1>1, <1>6, <2>2, <3>1
  <2>3. CASE s.at = "next" /\ x = "," /\ ~(1 .. l \subseteq hits) /\ l + 1 \in hits
    <3>1. (l + 1) - 1 = l
      BY <1>3
    <3>2. CommaAt(b, q, (l + 1) - 1) /\ ~all(l + 1)
      BY <1>6, <2>3, <3>1
    <3> QED BY <1>1, <2>3, <3>2
  <2> QED BY <1>7, <1>10, <2>1, <2>2, <2>3
<1> QED BY <1>8, <1>9, <1>10 DEF ms, s, x

(* A scan that ends well has come by every routing key.                    *)
LEMMA HitsCover ==
  ASSUME NEW b \in Seq(Lexemes), Scan(b).at = "done"
  PROVE  Covers(Hits(Scan(b).ms), b, RoutingKeys)
<1> DEFINE ms == Scan(b).ms
           n == Len(b)
           S == ScanRun(b)
<1>1. SUFFICES ASSUME NEW q \in 1 .. n, S[q - 1].at \in {"first", "key"}, b[q] \in RoutingKeys
               PROVE  Len(S[q - 1].ms) + 1 \in Hits(ms)
  BY DEF Covers
<1> DEFINE s == S[q - 1]
           t == S[q]
           k == Len(s.ms) + 1
<1>2. n \in Nat /\ q - 1 \in 0 .. n /\ q \in 0 .. n /\ n \in 0 .. n /\ n \in q .. n /\ q \in Nat
  OBVIOUS
<1>3. s \in ScanStates /\ t \in ScanStates /\ t = ScanStep(s, b[q], q) /\ Scan(b) \in ScanStates
  BY <1>2, ScanRunIs DEF Scan
<1>4. b[q] \in Lexemes /\ b[q] \in Strings /\ b[q] # "sp"
  BY <1>1, Kinds
<1>5. Phase(t) <= Phase(Scan(b))
  BY <1>2, PhaseMonotone DEF Scan
<1>6. DOMAIN ms = 1 .. Len(ms) /\ Len(ms) \in Nat
  BY FoundMembers
<1>7. Phase(Scan(b)) = 4 * Len(ms) + 1
  <2>1. Rank(Scan(b).at) = 1
    BY RankIs
  <2> QED BY <2>1 DEF Phase
<1>8. k \in Nat
  BY <1>3, ScanStateIs
<1> HIDE DEF ms, n, S
<1>9. t.at = "colon" /\ t.ms = s.ms
  <2> HIDE DEF s, t
  <2>1. /\ ScanStep(s, b[q], q).at = "colon" <=> b[q] \in Strings
        /\ ScanStep(s, b[q], q).ms = s.ms
    BY <1>1, <1>2, <1>3, <1>4, StepKey DEF s
  <2> QED BY <1>3, <1>4, <2>1
<1>10. Phase(t) = 4 * k - 1
  <2>1. Len(t.ms) + 1 = k
    BY <1>9
  <2> HIDE DEF t, k
  <2> QED BY <1>3, <1>8, <1>9, <2>1, PhaseAt
<1> HIDE DEF t, k
<1>11. k \in 1 .. Len(ms)
  <2>1. k >= 1
    <3>1. Len(s.ms) \in Nat
      BY <1>3, ScanStateIs
    <3> QED BY <3>1 DEF k
  <2> QED BY <1>5, <1>6, <1>7, <1>8, <1>10, <2>1
<1>12. MemberAt(b, k, ms[k]) /\ ms[k].start \in Nat /\ ms[k].end \in Nat
  BY <1>6, <1>11, FoundMembers DEF ms
<1>13. q = ms[k].start
  BY <1>1, <1>4, <1>8, <1>12, MemberSpan, SMTT(20) DEF k, S, n
<1>14. ms[k].key = b[q]
  BY <1>12, <1>13 DEF MemberAt
<1> QED BY <1>1, <1>6, <1>11, <1>14 DEF Hits, k
-----------------------------------------------------------------------------
(* Splicing the hits out gives the text without the lexemes of CutAt.      *)
LEMMA SpliceIs ==
  ASSUME NEW b \in Seq(Lexemes), NEW hits \in SUBSET DOMAIN Scan(b).ms
  PROVE  \E c \in Seq(Lexemes) :
           /\ IsCut(b, c, hits)
           /\ JsonEnd(JsonStart, Splice(b, Scan(b).ms, hits)) = JsonEnd(JsonStart, c)
<1> DEFINE n == Len(b)
           U == UNION {CutOut(b, Scan(b).ms, hits, k) : k \in hits}
           K == DOMAIN b \ U
           cut(p) == b[p] = "sp" \/ CutAt(ScanRun(b)[p - 1], b[p], hits)
           c == [p \in 1 .. n |-> IF cut(p) THEN "sp" ELSE b[p]]
<1>1. n \in Nat /\ DOMAIN b = 1 .. n /\ "sp" \in Lexemes /\ \A p \in 1 .. n : b[p] \in Lexemes
  <2>1. "sp" \in Lexemes
    BY DEF Lexemes
  <2> QED BY <2>1
<1>2. \A p \in 1 .. n : b[p] # "sp" => (p \in U <=> CutAt(ScanRun(b)[p - 1], b[p], hits))
  BY CutAtIs
<1> HIDE DEF U, n
<1>3. c \in Seq(Lexemes) /\ Len(c) = n /\ \A p \in 1 .. n : c[p] = IF cut(p) THEN "sp" ELSE b[p]
  <2> HIDE DEF cut
  <2>1. c \in [1 .. n -> Lexemes]
    BY <1>1
  <2> QED BY <1>1, <2>1
<1> HIDE DEF c
<1>4. IsCut(b, c, hits)
  BY <1>3 DEF IsCut, n
<1>5. Blanks(b, c, K)
  <2>1. ASSUME NEW p \in 1 .. n PROVE c[p] = IF p \in K THEN b[p] ELSE "sp"
    <3>1. CASE b[p] = "sp"
      BY <1>3, <3>1
    <3>2. CASE b[p] # "sp"
      BY <1>1, <1>2, <1>3, <3>2
    <3> QED BY <3>1, <3>2
  <2> QED BY <1>3, <2>1 DEF Blanks, n
<1>6. JsonEnd(JsonStart, Pick(b, K)) = JsonEnd(JsonStart, c)
  <2> HIDE DEF K
  <2> QED BY <1>3, <1>5, JsonStartType, JsonEndPick
<1>7. Splice(b, Scan(b).ms, hits) = Pick(b, K)
  BY DEF Splice, U
<1> QED BY <1>3, <1>4, <1>6, <1>7

(* Nothing is cut out of a text without hits.                              *)
LEMMA NoCut ==
  ASSUME NEW b \in Seq(Lexemes)
  PROVE  IsCut(b, b, {})
<1>1. SUFFICES ASSUME NEW p \in 1 .. Len(b) PROVE ~CutAt(ScanRun(b)[p - 1], b[p], {})
  BY DEF IsCut
<1> DEFINE s == ScanRun(b)[p - 1]
<1>2. s \in ScanStates
  <2>1. p - 1 \in 0 .. Len(b)
    OBVIOUS
  <2> QED BY <2>1, ScanRunIs
<1> HIDE DEF s
<1>3. Len(s.ms) \in Nat /\ (s.at = "next" => Len(s.ms) > 0)
  BY <1>2, ScanStateIs
<1>4. s.at = "next" => ~(1 .. Len(s.ms) \subseteq {})
  BY <1>3
<1> QED BY <1>4 DEF CutAt, s
-----------------------------------------------------------------------------
(* What every lexeme of X keeps true, a text of X keeps true; the same for *)
(* a relation between two states.                                          *)
LEMMA JsonInvariant ==
  ASSUME NEW T, NEW X \in SUBSET Lexemes, NEW j \in JsonStates, j \in T,
         \A s \in JsonStates, x \in X : s \in T => JsonStep(s, x) \in T,
         NEW b \in Seq(X)
  PROVE  JsonEnd(j, b) \in T /\ \A k \in 0 .. Len(b) : JsonRun(j, b)[k] \in T
<1> DEFINE n == Len(b)
           J == JsonRun(j, b)
           P == {k \in 0 .. n : J[k] \in T}
<1>1. n \in Nat /\ b \in Seq(Lexemes) /\ n \in 0 .. n /\ \A k \in 1 .. n : b[k] \in X
  OBVIOUS
<1>2. /\ J[0] = j /\ \A k \in 0 .. n : J[k] \in JsonStates
      /\ \A k \in 1 .. n : J[k] = JsonStep(J[k - 1], b[k])
  BY <1>1, JsonRunIs
<1> HIDE DEF J, n
<1>3. 0 \in P
  BY <1>1, <1>2
<1>4. ASSUME NEW k \in 0 .. n - 1, k \in P PROVE k + 1 \in P
  <2>1. k + 1 \in 1 .. n /\ (k + 1) - 1 = k /\ k \in 0 .. n /\ k + 1 \in 0 .. n
    BY <1>1
  <2>2. J[k + 1] = JsonStep(J[k], b[k + 1]) /\ b[k + 1] \in X /\ J[k] \in JsonStates
    BY <1>1, <1>2, <2>1
  <2> QED BY <1>4, <2>1, <2>2
<1> HIDE DEF P
<1>5. \A k \in 0 .. n : k \in P
  BY <1>1, <1>3, <1>4, Induction
<1> QED BY <1>1, <1>5 DEF P, J, n, JsonEnd

(* A relation every lexeme keeps is kept by every text.                    *)
LEMMA JsonSimulation ==
  ASSUME NEW T, NEW X \in SUBSET Lexemes,
         NEW i \in JsonStates, NEW j \in JsonStates, <<i, j>> \in T,
         \A s \in JsonStates, t \in JsonStates, x \in X :
           <<s, t>> \in T => <<JsonStep(s, x), JsonStep(t, x)>> \in T,
         NEW b \in Seq(X)
  PROVE  <<JsonEnd(i, b), JsonEnd(j, b)>> \in T
<1> DEFINE n == Len(b)
           I == JsonRun(i, b)
           J == JsonRun(j, b)
           P == {k \in 0 .. n : <<I[k], J[k]>> \in T}
<1>1. n \in Nat /\ b \in Seq(Lexemes) /\ n \in 0 .. n /\ \A k \in 1 .. n : b[k] \in X
  OBVIOUS
<1>2. /\ J[0] = j /\ \A k \in 0 .. n : J[k] \in JsonStates
      /\ \A k \in 1 .. n : J[k] = JsonStep(J[k - 1], b[k])
  BY <1>1, JsonRunIs
<1>3. /\ I[0] = i /\ \A k \in 0 .. n : I[k] \in JsonStates
      /\ \A k \in 1 .. n : I[k] = JsonStep(I[k - 1], b[k])
  BY <1>1, JsonRunIs
<1> HIDE DEF I, J, n
<1>4. 0 \in P
  BY <1>1, <1>2, <1>3
<1>5. ASSUME NEW k \in 0 .. n - 1, k \in P PROVE k + 1 \in P
  <2>1. k + 1 \in 1 .. n /\ (k + 1) - 1 = k /\ k \in 0 .. n /\ k + 1 \in 0 .. n
    BY <1>1
  <2>2. J[k + 1] = JsonStep(J[k], b[k + 1]) /\ b[k + 1] \in X /\ J[k] \in JsonStates
    BY <1>1, <1>2, <2>1
  <2>3. I[k + 1] = JsonStep(I[k], b[k + 1]) /\ I[k] \in JsonStates
    BY <1>3, <2>1
  <2> QED BY <1>5, <2>1, <2>2, <2>3
<1> HIDE DEF P
<1>6. \A k \in 0 .. n : k \in P
  BY <1>1, <1>4, <1>5, Induction
<1> QED BY <1>1, <1>6 DEF P, I, J, n, JsonEnd

(* A text that ended stays ended or turns bad; a bad one stays bad.        *)
LEMMA JsonStepEnd ==
  ASSUME NEW j \in JsonStates, NEW x \in Lexemes, j.at \in {"end", "bad"}
  PROVE  /\ JsonStep(j, x).at \in {"end", "bad"}
         /\ x # "sp" \/ j.at = "bad" => JsonStep(j, x).at = "bad"
<1>1. CASE x = "sp"
  <2>1. JsonStep(j, x) = j
    BY <1>1 DEF JsonStep
  <2> QED BY <1>1, <2>1
<1>2. CASE x # "sp"
  <2>1. JsonStep(j, x).at = "bad"
    BY <1>2, JsonStepBad
  <2> QED BY <2>1
<1> QED BY <1>1, <1>2

(* Nothing but whitespace follows a value, and no text heals a bad one.    *)
LEMMA JsonEnded ==
  ASSUME NEW j \in JsonStates, NEW b \in Seq(Lexemes)
  PROVE  /\ j.at = "bad" => JsonEnd(j, b).at = "bad"
         /\ j.at \in {"end", "bad"} => JsonEnd(j, b).at \in {"end", "bad"}
<1> DEFINE T == {s \in JsonStates : s.at = "bad"}
           U == {s \in JsonStates : s.at \in {"end", "bad"}}
<1>1. ASSUME j.at = "bad" PROVE JsonEnd(j, b) \in T
  <2>1. j \in T /\ \A s \in JsonStates, x \in Lexemes : s \in T => JsonStep(s, x) \in T
    BY <1>1, JsonStepEnd, JsonStepType
  <2> HIDE DEF T
  <2> QED BY <2>1, JsonInvariant
<1>2. ASSUME j.at \in {"end", "bad"} PROVE JsonEnd(j, b) \in U
  <2>1. j \in U /\ \A s \in JsonStates, x \in Lexemes : s \in U => JsonStep(s, x) \in U
    BY <1>2, JsonStepEnd, JsonStepType
  <2> HIDE DEF U
  <2> QED BY <2>1, JsonInvariant
<1> QED BY <1>1, <1>2

(* The keys of a text are lexemes of it.                                   *)
LEMMA JsonStepKeys ==
  ASSUME NEW j \in JsonStates, NEW x \in Lexemes
  PROVE  JsonStep(j, x).keys \in {j.keys, j.keys \cup {x}}
<1> DEFINE push == Append(j.stack, x)
           pop == Front(j.stack)
<1> HIDE DEF push, pop
<1>1. JsonStep(j, x).keys \in {j.keys, j.keys \cup {x}}
  BY DEF JsonStep, AfterValue, Json
<1> QED BY <1>1

(* A text without a routing key among its lexemes has none as a key.       *)
LEMMA KeysAreLexemes ==
  ASSUME NEW b \in Seq(Lexemes), ~Tagged(b)
  PROVE  Clean(JsonEnd(JsonStart, b), RoutingKeys)
<1> DEFINE X == Lexemes \ RoutingKeys
           T == {s \in JsonStates : Clean(s, RoutingKeys)}
<1>1. b \in Seq(X)
  <2>1. \A k \in 1 .. Len(b) : b[k] \in Lexemes \ RoutingKeys
    BY DEF Tagged
  <2> HIDE DEF X
  <2>2. \A k \in 1 .. Len(b) : b[k] \in X
    BY <2>1 DEF X
  <2> QED BY <2>2
<1>2. JsonStart \in T
  BY JsonStartType DEF Clean, JsonStart, Json
<1>3. ASSUME NEW s \in JsonStates, NEW x \in X, s \in T PROVE JsonStep(s, x) \in T
  <2>1. JsonStep(s, x).keys \in {s.keys, s.keys \cup {x}}
    BY JsonStepKeys
  <2>2. JsonStep(s, x) \in JsonStates
    BY JsonStepType
  <2> QED BY <1>3, <2>1, <2>2 DEF Clean
<1> HIDE DEF T, X
<1>4. X \in SUBSET Lexemes
  BY DEF X
<1>5. JsonEnd(JsonStart, b) \in T
  BY <1>1, <1>2, <1>3, <1>4, JsonStartType, JsonInvariant
<1> QED BY <1>5 DEF T

(* How a scan starts: what it has read so far, and where encoding/json is. *)
Opening(b, p) ==
  LET s == ScanRun(b)[p]
      j == JsonRun(JsonStart, b)[p]
  IN /\ s.at = "start" => j = JsonStart /\ \A k \in 1 .. p : b[k] = "sp"
     /\ s.at = "first" => j = Json("member", Outer, {})
     /\ s.at = "empty" => j.at = "bad" \/ j = Json("end", <<>>, {})
     /\ s.at = "other" =>
          \E i \in 1 .. p : b[i] \notin {"sp", "{"} /\ \A k \in 1 .. i - 1 : b[k] = "sp"

(* The first and the last lexeme of an empty object.                       *)
LEMMA OpeningLexemes ==
  /\ JsonStep(JsonStart, "{") = Json("member", Outer, {})
  /\ JsonStep(Json("member", Outer, {}), "}") = Json("end", <<>>, {})
  /\ Json("member", Outer, {}) \in JsonStates /\ Json("end", <<>>, {}) \in JsonStates
<1> DEFINE m == Json("member", Outer, {})
<1>1. JsonStart.at = "value" /\ JsonStart.stack = <<>> /\ JsonStart.keys = {}
  BY DEF JsonStart, Json
<1>2. "{" \in Lexemes /\ "}" \in Lexemes /\ "{" \in Openers
  BY DEF Lexemes, Openers
<1>3. JsonStep(JsonStart, "{") = Json("member", Append(<<>>, "{"), {})
  BY <1>1, <1>2, JsonStartType, JsonStepIs
<1>4. JsonStep(JsonStart, "{") = m
  BY <1>3, OuterIs
<1>5. m \in JsonStates
  BY <1>4, JsonStartType, JsonStepType
<1>6. m.at = "member" /\ m.stack = Outer /\ m.keys = {}
  BY JsonFields
<1> HIDE DEF m
<1>7. JsonStep(m, "}") = AfterValue(Front(Outer), {})
  BY <1>2, <1>5, <1>6, JsonStepIs
<1>8. AfterValue(<<>>, {}) = Json("end", <<>>, {})
  BY AfterValueIs
<1>9. JsonStep(m, "}") = Json("end", <<>>, {})
  BY <1>7, <1>8, OuterIs
<1>10. Json("end", <<>>, {}) \in JsonStates
  BY <1>5, <1>9, JsonStepType
<1> QED BY <1>4, <1>5, <1>9, <1>10 DEF m

(* How the scan and encoding/json begin.                                   *)
LEMMA OpeningIs ==
  ASSUME NEW b \in Seq(Lexemes)
  PROVE  \A p \in 0 .. Len(b) : Opening(b, p)
<1> DEFINE S == ScanRun(b)
           J == JsonRun(JsonStart, b)
           n == Len(b)
           T == {p \in 0 .. n : Opening(b, p)}
           member == Json("member", Outer, {})
           ended == Json("end", <<>>, {})
           Other(p) == \E i \in 1 .. p : /\ b[i] \notin {"sp", "{"}
                                         /\ \A k \in 1 .. i - 1 : b[k] = "sp"
<1>1. n \in Nat /\ (\A k \in 1 .. n : b[k] \in Lexemes)
  OBVIOUS
<1>2. /\ S[0] = ScanStart /\ \A k \in 0 .. n : S[k] \in ScanStates
      /\ \A k \in 1 .. n : S[k] = ScanStep(S[k - 1], b[k], k)
  BY ScanRunIs
<1>3. /\ J[0] = JsonStart /\ \A k \in 0 .. n : J[k] \in JsonStates
      /\ \A k \in 1 .. n : J[k] = JsonStep(J[k - 1], b[k])
  BY JsonStartType, JsonRunIs
<1>4. \A p : Opening(b, p) <=>
        /\ S[p].at = "start" => J[p] = JsonStart /\ \A k \in 1 .. p : b[k] = "sp"
        /\ S[p].at = "first" => J[p] = member
        /\ S[p].at = "empty" => J[p].at = "bad" \/ J[p] = ended
        /\ S[p].at = "other" => Other(p)
  BY DEF Opening
<1>5. JsonStep(JsonStart, "{") = member /\ JsonStep(member, "}") = ended /\ ended.at = "end"
  <2>1. ended.at = "end"
    BY JsonFields
  <2> HIDE DEF S, J, n, T
  <2> QED BY <2>1, OpeningLexemes
<1> HIDE DEF S, J, n, member, ended
<1>6. 0 \in T
  <2>1. S[0].at = "start"
    BY <1>2 DEF ScanStart
  <2>2. 0 \in 0 .. n /\ \A k \in 1 .. 0 : b[k] = "sp"
    BY <1>1
  <2>3. Opening(b, 0)
    <3> HIDE DEF Other
    <3> QED BY <1>3, <1>4, <2>1, <2>2
  <2> QED BY <2>2, <2>3
<1>7. ASSUME NEW r \in 0 .. n - 1, r \in T PROVE r + 1 \in T
  <2> DEFINE p == r + 1
             s == S[r]
             t == S[p]
             i == J[r]
             j == J[p]
             x == b[p]
  <2>1. p \in 1 .. n /\ p \in 0 .. n /\ p - 1 = r /\ p \in Nat /\ r \in 0 .. n /\ r \in Nat
    BY <1>1
  <2>2. /\ s \in ScanStates /\ t \in ScanStates /\ x \in Lexemes /\ t = ScanStep(s, x, p)
        /\ i \in JsonStates /\ j = JsonStep(i, x)
    BY <1>1, <1>2, <1>3, <2>1
  <2>3. /\ s.at = "start" => i = JsonStart /\ \A k \in 1 .. r : b[k] = "sp"
        /\ s.at = "first" => i = member
        /\ s.at = "empty" => i.at = "bad" \/ i = ended
        /\ s.at = "other" => Other(r)
    BY <1>4, <1>7
  <2>4. SUFFICES /\ t.at = "start" => j = JsonStart /\ \A k \in 1 .. p : b[k] = "sp"
                 /\ t.at = "first" => j = member
                 /\ t.at = "empty" => j.at = "bad" \/ j = ended
                 /\ t.at = "other" => Other(p)
    BY <1>4, <2>1
  <2>5. \A k \in 1 .. p : k \in 1 .. r \/ k = p
    BY <2>1
  <2>6. 1 .. r \subseteq 1 .. p /\ 1 .. p - 1 = 1 .. r /\ p \in 1 .. p
    BY <2>1
  <2>14. Other(r) => Other(p)
    BY <2>6
  <2>15. x = b[p]
    OBVIOUS
  <2> HIDE DEF s, t, i, j, x, p
  <2>7. CASE x = "sp"
    <3>1. t = s /\ j = i
      BY <2>2, <2>7 DEF ScanStep, JsonStep
    <3> QED BY <2>3, <2>5, <2>7, <2>14, <2>15, <3>1
  <2>8. CASE x # "sp" /\ s.at = "start"
    <3>1. t.at = IF x = "{" THEN "first" ELSE "other"
      BY <2>1, <2>2, <2>8, StepStart
    <3>2. CASE x = "{"
      BY <1>5, <2>2, <2>3, <2>8, <3>1, <3>2
    <3>3. CASE x # "{"
      <4>1. Other(p)
        BY <2>3, <2>6, <2>8, <2>15, <3>3
      <4>2. t.at = "other"
        BY <3>1, <3>3
      <4> QED BY <4>1, <4>2
    <3> QED BY <3>2, <3>3
  <2>9. CASE x # "sp" /\ s.at \in {"first", "key"}
    <3>1. t.at \in {"colon", "empty", "malformed"}
      BY <2>1, <2>2, <2>9, StepKey
    <3>2. t.at = "empty" => s.at = "first" /\ x = "}"
      <4>1. SUFFICES ASSUME ~(s.at = "first" /\ x = "}") PROVE t.at # "empty"
        OBVIOUS
      <4>2. t = ScanKey(s, x, p)
        BY <2>2, <2>9, <4>1 DEF ScanStep
      <4>3. t.at \in {"colon", "malformed"}
        BY <2>1, <2>2, <4>2, ScanKeyIs
      <4> QED BY <4>3
    <3>3. t.at = "empty" => j = ended
      BY <1>5, <2>2, <2>3, <3>2
    <3> QED BY <3>1, <3>3
  <2>10. CASE x # "sp" /\ s.at \in {"colon", "value", "inside"}
    <3>1. t.at \in {"malformed", "colon", "value", "inside", "next"}
      BY <2>1, <2>2, <2>10, StepMember
    <3> QED BY <3>1
  <2>11. CASE x # "sp" /\ s.at = "next"
    <3>1. t.at = IF x = "," THEN "key" ELSE IF x = "}" THEN "done" ELSE "malformed"
      BY <2>1, <2>2, <2>11, ScanNextIs, ZenonT(40)
    <3> QED BY <3>1
  <2>12. CASE x # "sp" /\ s.at \in {"done", "empty", "other", "malformed"}
    <3>1. t = s
      BY <2>2, <2>12 DEF ScanStep
    <3>2. s.at = "empty" => j.at = "bad"
      <4>1. SUFFICES ASSUME s.at = "empty" PROVE j.at = "bad"
        OBVIOUS
      <4>2. i.at \in {"end", "bad"}
        BY <1>5, <2>3, <4>1
      <4> QED BY <2>2, <2>12, <4>2, JsonStepEnd
    <3> QED BY <2>3, <2>12, <2>14, <3>1, <3>2
  <2>13. s.at \in ScanModes
    BY <2>2, ScanStateIs
  <2> QED BY <2>7, <2>8, <2>9, <2>10, <2>11, <2>12, <2>13 DEF ScanModes
<1> HIDE DEF T
<1>8. \A p \in 0 .. n : p \in T
  BY <1>1, <1>6, <1>7, Induction
<1> QED BY <1>8 DEF T, n
-----------------------------------------------------------------------------
(* A text of one lexeme.                                                   *)
LEMMA JsonEndOne ==
  ASSUME NEW j \in JsonStates, NEW x \in Lexemes
  PROVE  JsonEnd(j, <<x>>) = JsonStep(j, x)
<1>1. <<x>> = Append(<<>>, x) /\ <<>> \in Seq(Lexemes)
  OBVIOUS
<1>2. JsonEnd(j, Append(<<>>, x)) = JsonStep(JsonEnd(j, <<>>), x)
  BY <1>1, JsonEndAppend
<1> QED BY <1>1, <1>2, JsonEndEmpty

(* A text by its first lexeme.                                             *)
LEMMA JsonEndCons ==
  ASSUME NEW j \in JsonStates, NEW x \in Lexemes, NEW b \in Seq(Lexemes)
  PROVE  JsonEnd(j, <<x>> \o b) = JsonEnd(JsonStep(j, x), b)
<1>1. <<x>> \in Seq(Lexemes)
  OBVIOUS
<1> QED BY <1>1, JsonEndOne, JsonEndConcat, ZenonT(60)

(* A text of two lexemes.                                                  *)
LEMMA JsonEndTwo ==
  ASSUME NEW j \in JsonStates, NEW x \in Lexemes, NEW y \in Lexemes
  PROVE  JsonEnd(j, <<x, y>>) = JsonStep(JsonStep(j, x), y)
<1>1. <<x, y>> = Append(<<x>>, y) /\ <<x>> \in Seq(Lexemes)
  OBVIOUS
<1>2. JsonEnd(j, Append(<<x>>, y)) = JsonStep(JsonEnd(j, <<x>>), y)
  BY <1>1, JsonEndAppend
<1> QED BY <1>1, <1>2, JsonEndOne

(* Whitespace says nothing.                                                *)
LEMMA JsonEndBlank ==
  ASSUME NEW j \in JsonStates, NEW u \in Seq({"sp"})
  PROVE  JsonEnd(j, u) = j
<1>1. {"sp"} \in SUBSET Lexemes
  BY DEF Lexemes
<1>2. \A s \in JsonStates, x \in {"sp"} : s \in {j} => JsonStep(s, x) \in {j}
  BY DEF JsonStep
<1>3. JsonEnd(j, u) \in {j}
  BY <1>1, <1>2, JsonInvariant
<1> QED BY <1>3

(* The elements of a part of a sequence.                                   *)
LEMMA SubSeqIs ==
  ASSUME NEW S, NEW b \in Seq(S), NEW lo \in 1 .. Len(b) + 1, NEW hi \in lo - 1 .. Len(b)
  PROVE  /\ SubSeq(b, lo, hi) \in Seq(S) /\ Len(SubSeq(b, lo, hi)) = hi - lo + 1
         /\ \A k \in 1 .. hi - lo + 1 : SubSeq(b, lo, hi)[k] = b[lo + k - 1]
  OBVIOUS

(* Sequences with the same elements are the same.                          *)
LEMMA SameSeq ==
  ASSUME NEW S, NEW b \in Seq(S), NEW c \in Seq(S), Len(b) = Len(c),
         \A k \in 1 .. Len(b) : b[k] = c[k]
  PROVE  b = c
  OBVIOUS

(* The elements of two sequences put together.                             *)
LEMMA ConcatIs ==
  ASSUME NEW S, NEW b \in Seq(S), NEW c \in Seq(S)
  PROVE  /\ b \o c \in Seq(S) /\ Len(b \o c) = Len(b) + Len(c)
         /\ \A k \in 1 .. Len(b) : (b \o c)[k] = b[k]
         /\ \A k \in 1 .. Len(c) : (b \o c)[Len(b) + k] = c[k]
  OBVIOUS

(* A sequence is its two parts put together.                               *)
LEMMA SplitAt ==
  ASSUME NEW S, NEW b \in Seq(S), NEW k \in 0 .. Len(b)
  PROVE  b = SubSeq(b, 1, k) \o SubSeq(b, k + 1, Len(b))
<1> DEFINE n == Len(b)
           u == SubSeq(b, 1, k)
           v == SubSeq(b, k + 1, n)
           w == u \o v
<1>1. n \in Nat /\ k \in Nat /\ k <= n
  OBVIOUS
<1>2. u \in Seq(S) /\ Len(u) = k /\ \A i \in 1 .. k : u[i] = b[i]
  <2>1. 1 \in 1 .. Len(b) + 1 /\ k \in 1 - 1 .. Len(b) /\ k - 1 + 1 = k
    OBVIOUS
  <2>2. u \in Seq(S) /\ Len(u) = k - 1 + 1 /\ \A i \in 1 .. k - 1 + 1 : u[i] = b[1 + i - 1]
    BY <2>1, SubSeqIs
  <2>3. \A i \in 1 .. k : 1 + i - 1 = i
    BY SMTT(40)
  <2> QED BY <2>1, <2>2, <2>3
<1>3. v \in Seq(S) /\ Len(v) = n - k /\ \A i \in 1 .. n - k : v[i] = b[k + i]
  <2>1. k + 1 \in 1 .. Len(b) + 1 /\ n \in (k + 1) - 1 .. Len(b) /\ n - (k + 1) + 1 = n - k
    BY SMTT(30)
  <2>2. /\ v \in Seq(S) /\ Len(v) = n - (k + 1) + 1
        /\ \A i \in 1 .. n - (k + 1) + 1 : v[i] = b[(k + 1) + i - 1]
    BY <2>1, SubSeqIs
  <2>3. \A i \in 1 .. n - k : (k + 1) + i - 1 = k + i
    OBVIOUS
  <2> QED BY <2>1, <2>2, <2>3
<1> HIDE DEF u, v, n
<1>4. /\ w \in Seq(S) /\ Len(w) = Len(u) + Len(v)
      /\ \A i \in 1 .. Len(u) : w[i] = u[i]
      /\ \A i \in 1 .. Len(v) : w[Len(u) + i] = v[i]
  <2>1. u \in Seq(S) /\ v \in Seq(S)
    BY <1>2, <1>3
  <2> QED BY <2>1
<1> HIDE DEF w
<1>5. Len(w) = n
  BY <1>1, <1>2, <1>3, <1>4
<1>6. ASSUME NEW i \in 1 .. n PROVE b[i] = w[i]
  <2>1. CASE i <= k
    BY <1>1, <1>2, <1>4, <2>1
  <2>2. CASE i > k
    <3>1. i - k \in 1 .. n - k /\ k + (i - k) = i
      BY <1>1, <2>2
    <3>2. w[k + (i - k)] = v[i - k] /\ v[i - k] = b[k + (i - k)]
      BY <1>2, <1>3, <1>4, <3>1
    <3> QED BY <3>1, <3>2
  <2> QED BY <1>1, <2>1, <2>2
<1> QED BY <1>4, <1>5, <1>6, SameSeq DEF n, u, v, w

(* A text that begins and ends with whitespace, and what is in between.    *)
LEMMA Padded ==
  ASSUME NEW b \in Seq(Lexemes), NEW lo \in 1 .. Len(b) + 1,
         NEW hi \in lo - 1 .. Len(b),
         \A k \in 1 .. lo - 1 : b[k] = "sp", \A k \in hi + 1 .. Len(b) : b[k] = "sp"
  PROVE  \E w \in Seq({"sp"}), v \in Seq({"sp"}) :
           /\ w \in Seq(Lexemes) /\ v \in Seq(Lexemes)
           /\ SubSeq(b, lo, hi) \in Seq(Lexemes) /\ b = (w \o SubSeq(b, lo, hi)) \o v
<1> DEFINE n == Len(b)
           u == SubSeq(b, 1, hi)
           v == SubSeq(b, hi + 1, n)
           w == SubSeq(u, 1, lo - 1)
           c == SubSeq(u, lo, hi)
           d == SubSeq(b, lo, hi)
<1>1. n \in Nat /\ hi \in 0 .. n /\ hi \in Nat /\ lo \in Nat /\ lo >= 1 /\ lo - 1 \in 0 .. hi
  OBVIOUS
<1>2. u \in Seq(Lexemes) /\ Len(u) = hi /\ \A i \in 1 .. hi : u[i] = b[i]
  OBVIOUS
<1>3. v \in Seq(Lexemes) /\ Len(v) = n - hi /\ \A i \in 1 .. n - hi : v[i] = b[hi + i]
  OBVIOUS
<1>4. b = u \o v
  BY <1>1, SplitAt
<1>5. d \in Seq(Lexemes) /\ Len(d) = hi - lo + 1 /\ \A i \in 1 .. hi - lo + 1 : d[i] = b[lo + i - 1]
  BY SubSeqIs
<1>6. v \in Seq({"sp"})
  <2>1. \A i \in 1 .. n - hi : hi + i \in hi + 1 .. n
    BY <1>1
  <2>2. \A i \in 1 .. Len(v) : v[i] \in {"sp"}
    <3> HIDE DEF v, n
    <3> QED BY <1>3, <2>1 DEF n
  <2> HIDE DEF v
  <2> QED BY <1>3, <2>2
<1> HIDE DEF u, v, n, d
<1>7. u = SubSeq(u, 1, lo - 1) \o SubSeq(u, (lo - 1) + 1, Len(u))
  BY <1>1, <1>2, SplitAt
<1>8. /\ lo \in 1 .. Len(u) + 1 /\ hi \in lo - 1 .. Len(u)
      /\ 1 \in 1 .. Len(u) + 1 /\ lo - 1 \in 1 - 1 .. Len(u)
      /\ (lo - 1) + 1 = lo /\ (lo - 1) - 1 + 1 = lo - 1
  BY <1>1, <1>2
<1>9. c \in Seq(Lexemes) /\ Len(c) = hi - lo + 1 /\ \A i \in 1 .. hi - lo + 1 : c[i] = u[lo + i - 1]
  BY <1>2, <1>8, SubSeqIs
<1>10. w \in Seq(Lexemes) /\ Len(w) = lo - 1 /\ \A i \in 1 .. lo - 1 : w[i] = u[1 + i - 1]
  BY <1>2, <1>8, SubSeqIs
<1>11. u = w \o c
  BY <1>2, <1>7, <1>8
<1> HIDE DEF c, w
<1>12. c = d
  <2>1. \A i \in 1 .. hi - lo + 1 : lo + i - 1 \in 1 .. hi
    BY <1>1
  <2>2. \A i \in 1 .. Len(c) : c[i] = d[i]
    BY <1>2, <1>5, <1>9, <2>1
  <2> QED BY <1>5, <1>9, <2>2, SameSeq
<1>13. w \in Seq({"sp"})
  <2>1. \A i \in 1 .. lo - 1 : 1 + i - 1 = i /\ i \in 1 .. hi
    BY <1>1
  <2>2. \A i \in 1 .. Len(w) : w[i] \in {"sp"}
    BY <1>2, <1>10, <2>1
  <2> QED BY <1>10, <2>2
<1>14. b = (w \o d) \o v
  BY <1>4, <1>11, <1>12
<1> QED BY <1>3, <1>5, <1>6, <1>10, <1>13, <1>14 DEF d

(* b with whitespace around it says what b says.                           *)
LEMMA JsonEndPadded ==
  ASSUME NEW j \in JsonStates, NEW b \in Seq(Lexemes), NEW lo \in 1 .. Len(b) + 1,
         NEW hi \in lo - 1 .. Len(b),
         \A k \in 1 .. lo - 1 : b[k] = "sp", \A k \in hi + 1 .. Len(b) : b[k] = "sp"
  PROVE  JsonEnd(j, SubSeq(b, lo, hi)) = JsonEnd(j, b)
<1> DEFINE d == SubSeq(b, lo, hi)
<1>1. PICK w \in Seq({"sp"}), v \in Seq({"sp"}) :
        /\ w \in Seq(Lexemes) /\ v \in Seq(Lexemes) /\ d \in Seq(Lexemes)
        /\ b = (w \o d) \o v
  BY Padded
<1> HIDE DEF d
<1> DEFINE u == w \o d
<1>2. u \in Seq(Lexemes)
  BY <1>1, ConcatIs
<1>3. JsonEnd(j, u) = JsonEnd(JsonEnd(j, w), d)
  BY <1>1, JsonEndConcat
<1>4. JsonEnd(j, w) = j
  BY JsonEndBlank
<1>5. b = u \o v
  BY <1>1
<1> HIDE DEF u
<1>6. JsonEnd(j, b) = JsonEnd(JsonEnd(j, u), v)
  BY <1>1, <1>2, <1>5, JsonEndConcat
<1>7. JsonEnd(j, u) \in JsonStates
  BY <1>2, JsonEndType
<1>8. JsonEnd(JsonEnd(j, u), v) = JsonEnd(j, u)
  BY <1>7, JsonEndBlank
<1> QED BY <1>3, <1>4, <1>6, <1>8 DEF d

(* More keys in front change nothing but the keys.                         *)
More(s, E) == Json(s.at, s.stack, s.keys \cup E)

(* A lexeme does the same whatever keys there have been,                   *)
LEMMA JsonStepMoreKeys ==
  ASSUME NEW i \in JsonStates, NEW j \in JsonStates, NEW E, NEW x \in Lexemes,
         j = More(i, E)
  PROVE  JsonStep(i, x).at = "bad" \/ JsonStep(j, x) = More(JsonStep(i, x), E)
<1> DEFINE push == Append(i.stack, x)
           pop == Front(i.stack)
           top == Last(i.stack)
           l == Len(i.stack)
           a == i.at
           st == i.stack
           K == i.keys
           more(s) == More(s, E)
           u == JsonStep(i, x)
           v == JsonStep(j, x)
           brace == IF x = "{" THEN "member" ELSE "item"
           comma == IF top = "{" THEN "key" ELSE "value"
           close == \/ a = "item" /\ x = "]"
                    \/ a = "member" /\ x = "}"
                    \/ a = "next" /\ Closes(top, x)
<1>1. \A a1, t1, K1 : more(Json(a1, t1, K1)) = Json(a1, t1, K1 \cup E)
  BY DEF Json, More
<1>2. j.at = a /\ j.stack = st /\ j.keys = K \cup E
  BY JsonAt DEF More
<1>3. (K \cup E) \cup {x} = (K \cup {x}) \cup E
  OBVIOUS
<1>4. \A t : more(AfterValue(t, K)) = AfterValue(t, K \cup E)
  <2> HIDE DEF K
  <2>1. ASSUME NEW t PROVE more(AfterValue(t, K)) = AfterValue(t, K \cup E)
    <3> DEFINE b == IF t = <<>> THEN "end" ELSE "next"
    <3>1. AfterValue(t, K) = Json(b, t, K) /\ AfterValue(t, K \cup E) = Json(b, t, K \cup E)
      BY DEF AfterValue
    <3> HIDE DEF b, more
    <3> QED BY <1>1, <3>1
  <2> QED BY <2>1
<1> SUFFICES u.at = "bad" \/ v = more(u)
  OBVIOUS
<1>5. CASE x = "sp"
  <2>1. u = i /\ v = j
    BY <1>5 DEF JsonStep
  <2> HIDE DEF u, v
  <2> QED BY <2>1
<1>6. CASE x # "sp"
  <2>1. /\ a \in {"value", "item"} /\ x \in Unquotes \cup Scalars => u = AfterValue(st, K)
        /\ a \in {"value", "item"} /\ x \in Openers => u = Json(brace, push, K)
        /\ close => u = AfterValue(pop, K)
        /\ a \in {"member", "key"} /\ x \in Unquotes =>
             u = Json("colon", st, IF l = 1 THEN K \cup {x} ELSE K)
        /\ a = "colon" /\ x = ":" => u = Json("value", st, K)
        /\ a = "next" /\ x = "," => u = Json(comma, st, K)
    BY <1>6, JsonStepIs
  <2>2. /\ a \in {"value", "item"} /\ x \in Unquotes \cup Scalars => v = AfterValue(st, K \cup E)
        /\ a \in {"value", "item"} /\ x \in Openers => v = Json(brace, push, K \cup E)
        /\ close => v = AfterValue(pop, K \cup E)
        /\ a \in {"member", "key"} /\ x \in Unquotes =>
             v = Json("colon", st, IF l = 1 THEN (K \cup E) \cup {x} ELSE K \cup E)
        /\ a = "colon" /\ x = ":" => v = Json("value", st, K \cup E)
        /\ a = "next" /\ x = "," => v = Json(comma, st, K \cup E)
    <3>1. /\ j.at \in {"value", "item"} /\ x \in Unquotes \cup Scalars => v = AfterValue(j.stack, j.keys)
          /\ j.at \in {"value", "item"} /\ x \in Openers =>
               v = Json(brace, Append(j.stack, x), j.keys)
          /\ (\/ j.at = "item" /\ x = "]"
              \/ j.at = "member" /\ x = "}"
              \/ j.at = "next" /\ Closes(Last(j.stack), x)) => v = AfterValue(Front(j.stack), j.keys)
          /\ j.at \in {"member", "key"} /\ x \in Unquotes =>
               v = Json("colon", j.stack, IF Len(j.stack) = 1 THEN j.keys \cup {x} ELSE j.keys)
          /\ j.at = "colon" /\ x = ":" => v = Json("value", j.stack, j.keys)
          /\ j.at = "next" /\ x = "," =>
               v = Json(IF Last(j.stack) = "{" THEN "key" ELSE "value", j.stack, j.keys)
      BY <1>6, JsonStepIs
    <3> HIDE DEF v, brace, a, K
    <3> QED BY <1>2, <3>1
  <2>3. \/ a \in {"value", "item"} /\ x \in Unquotes \cup Scalars
        \/ a \in {"value", "item"} /\ x \in Openers
        \/ close
        \/ a \in {"member", "key"} /\ x \in Unquotes
        \/ a = "colon" /\ x = ":"
        \/ a = "next" /\ x = ","
        \/ u.at = "bad"
    BY <1>6, JsonStepBad
  <2> HIDE DEF u, v, a, st, K, push, pop, top, l, brace, comma, close, more
  <2>4. CASE a \in {"value", "item"} /\ x \in Unquotes \cup Scalars
    BY <1>4, <2>1, <2>2, <2>4
  <2>5. CASE a \in {"value", "item"} /\ x \in Openers
    <3>1. u = Json(brace, push, K) /\ v = Json(brace, push, K \cup E)
      BY <2>1, <2>2, <2>5
    <3>2. more(Json(brace, push, K)) = Json(brace, push, K \cup E)
      BY <1>1
    <3> QED BY <3>1, <3>2
  <2>6. CASE close
    BY <1>4, <2>1, <2>2, <2>6
  <2>7. CASE a \in {"member", "key"} /\ x \in Unquotes
    <3> DEFINE K1 == IF l = 1 THEN K \cup {x} ELSE K
    <3>1. u = Json("colon", st, K1)
      BY <2>1, <2>7
    <3>2. v = Json("colon", st, IF l = 1 THEN (K \cup E) \cup {x} ELSE K \cup E)
      BY <2>2, <2>7
    <3>3. K1 \cup E = IF l = 1 THEN (K \cup E) \cup {x} ELSE K \cup E
      BY <1>3
    <3> HIDE DEF K1
    <3>4. more(Json("colon", st, K1)) = Json("colon", st, K1 \cup E)
      BY <1>1
    <3> QED BY <3>1, <3>2, <3>3, <3>4
  <2>8. CASE a = "colon" /\ x = ":"
    BY <1>1, <2>1, <2>2, <2>8
  <2>9. CASE a = "next" /\ x = ","
    <3>1. u = Json(comma, st, K) /\ v = Json(comma, st, K \cup E)
      BY <2>1, <2>2, <2>9
    <3>2. more(Json(comma, st, K)) = Json(comma, st, K \cup E)
      BY <1>1
    <3> QED BY <3>1, <3>2
  <2> QED BY <2>3, <2>4, <2>5, <2>6, <2>7, <2>8, <2>9
<1> QED BY <1>5, <1>6

(* and so does a text.                                                     *)
LEMMA JsonEndMoreKeys ==
  ASSUME NEW a, NEW st, NEW K, NEW E, NEW b \in Seq(Lexemes),
         Json(a, st, K) \in JsonStates, Json(a, st, K \cup E) \in JsonStates
  PROVE  LET e == JsonEnd(Json(a, st, K), b)
         IN \/ e.at = "bad"
            \/ JsonEnd(Json(a, st, K \cup E), b) = More(e, E)
<1> DEFINE T == {p \in JsonStates \X JsonStates :
                   \/ p[1].at = "bad"
                   \/ p[2] = More(p[1], E)}
           i == Json(a, st, K)
           j == Json(a, st, K \cup E)
<1>1. <<i, j>> \in T
  <2>1. i.at = a /\ i.stack = st /\ i.keys = K
    BY JsonFields
  <2> HIDE DEF i
  <2>2. j = More(i, E)
    BY <2>1 DEF More
  <2> QED BY <2>2 DEF i
<1>2. ASSUME NEW s \in JsonStates, NEW t \in JsonStates, NEW x \in Lexemes, <<s, t>> \in T
      PROVE  <<JsonStep(s, x), JsonStep(t, x)>> \in T
  <2>1. s.at = "bad" \/ t = More(s, E)
    BY <1>2
  <2>2. \/ JsonStep(s, x).at = "bad"
        \/ JsonStep(t, x) = More(JsonStep(s, x), E)
    <3>1. CASE s.at = "bad"
      BY <3>1, JsonStepEnd
    <3>2. CASE t = More(s, E)
      <4> HIDE DEF T
      <4> QED BY <3>2, JsonStepMoreKeys
    <3> QED BY <2>1, <3>1, <3>2
  <2>3. JsonStep(s, x) \in JsonStates /\ JsonStep(t, x) \in JsonStates
    BY JsonStepType
  <2> QED BY <2>2, <2>3
<1> HIDE DEF T, i, j
<1>3. <<JsonEnd(i, b), JsonEnd(j, b)>> \in T
  <2>1. i \in JsonStates /\ j \in JsonStates
    BY DEF i, j
  <2>2. Lexemes \in SUBSET Lexemes
    OBVIOUS
  <2> QED BY <1>1, <1>2, <2>1, <2>2, JsonSimulation
<1>4. \/ JsonEnd(i, b).at = "bad"
      \/ JsonEnd(j, b) = More(JsonEnd(i, b), E)
  BY <1>3 DEF T
<1> QED BY <1>4 DEF i, j

(* Two lexemes are a text.                                                 *)
LEMMA TwoLexemes ==
  ASSUME NEW x \in Lexemes, NEW y \in Lexemes
  PROVE  <<x, y>> \in Seq(Lexemes)
  OBVIOUS

(* What the scan hands on, if that is an object.                           *)
LEMMA BodyIs ==
  ASSUME NEW b \in Seq(Lexemes)
  PROVE  ExtractAndStripRouting(b).body \in Seq(Lexemes)
<1> DEFINE c == Splice(b, Scan(b).ms, Hits(Scan(b).ms))
           d == <<"{", "}">>
           body == ExtractAndStripRouting(b).body
<1>1. c \in Seq(Lexemes)
  BY PickType DEF Splice
<1>2. d \in Seq(Lexemes)
  <2>1. "{" \in Lexemes /\ "}" \in Lexemes
    BY DEF Lexemes
  <2> QED BY <2>1, TwoLexemes
<1> HIDE DEF c, d
<1>3. body \in {b, c, d}
  BY DEF ExtractAndStripRouting, Fields, c, d
<1> QED BY <1>1, <1>2, <1>3

FirstIsBrace(b) ==
  \A i \in 1 .. Len(b) : (\A k \in 1 .. i - 1 : b[k] = "sp") => b[i] \in {"sp", "{"}

(* What dispatch passes on has no routing key at its top level, if it is a *)
(* valid object.                                                           *)
LEMMA CleanBody ==
  ASSUME NEW b \in Seq(Lexemes), NEW f, f = ExtractAndStripRouting(b), ~f.malformed,
         Parses(f.body), FirstIsBrace(f.body)
  PROVE  KeySpellings(f.body) \cap RoutingKeys = {}
<1> DEFINE n == Len(b)
           at == Scan(b).at
           ms == Scan(b).ms
           hits == Hits(ms)
           untouched == ~Tagged(b) \/ at \in {"other", "empty"} \/ (at = "done" /\ hits = {})
<1>1. n \in Nat /\ n \in 0 .. n
  OBVIOUS
<1>2. f.body = IF untouched THEN b
               ELSE IF at # "done" THEN b
               ELSE IF hits = DOMAIN ms THEN <<"{", "}">> ELSE Splice(b, ms, hits)
  BY DEF ExtractAndStripRouting, Fields
<1>3. untouched \/ at = "done"
  BY DEF ExtractAndStripRouting, Fields
<1>4. hits \in SUBSET DOMAIN ms
  BY DEF Hits
<1>5. SUFFICES Clean(JsonEnd(JsonStart, f.body), RoutingKeys)
  BY DEF Clean, KeySpellings
<1>6. JsonEnd(JsonStart, f.body).at = "end"
  BY DEF Parses
<1>7. \A i \in 1 .. Len(f.body) :
        (\A k \in 1 .. i - 1 : f.body[k] = "sp") => f.body[i] \in {"sp", "{"}
  BY DEF FirstIsBrace
<1>14. Scan(b) = ScanRun(b)[n]
  BY DEF Scan
<1> HIDE DEF n, at, ms, hits, untouched
<1>8. CASE ~Tagged(b)
  BY <1>2, <1>8, KeysAreLexemes DEF untouched
<1>9. CASE Tagged(b) /\ at = "other"
  <2>1. Opening(b, n)
    BY <1>1, OpeningIs DEF n
  <2>2. \E i \in 1 .. n : b[i] \notin {"sp", "{"} /\ \A k \in 1 .. i - 1 : b[k] = "sp"
    BY <1>9, <1>14, <2>1 DEF Opening, at
  <2>3. f.body = b
    BY <1>2, <1>9 DEF untouched
  <2> QED BY <1>7, <2>2, <2>3 DEF n
<1>10. CASE Tagged(b) /\ at = "empty"
  <2>1. Opening(b, n)
    BY <1>1, OpeningIs DEF n
  <2> DEFINE j == JsonRun(JsonStart, b)[n]
  <2>2. j.at = "bad" \/ j = Json("end", <<>>, {})
    BY <1>10, <1>14, <2>1 DEF Opening, at
  <2>3. f.body = b
    BY <1>2, <1>10 DEF untouched
  <2>4. JsonEnd(JsonStart, f.body) = j
    BY <2>3 DEF JsonEnd, n
  <2> HIDE DEF j
  <2>5. j = Json("end", <<>>, {})
    BY <1>6, <2>2, <2>4
  <2>6. j.keys = {}
    BY <2>5, JsonFields
  <2> QED BY <2>4, <2>6 DEF Clean
<1>11. ASSUME at = "done", NEW c \in Seq(Lexemes), IsCut(b, c, hits),
              JsonEnd(JsonStart, f.body) = JsonEnd(JsonStart, c)
       PROVE  Clean(JsonEnd(JsonStart, f.body), RoutingKeys)
  <2>1. Covers(hits, b, RoutingKeys)
    BY <1>11, HitsCover DEF at, ms, hits
  <2>2. InStep(JsonRun(JsonStart, c)[n], ScanRun(b)[n], hits, RoutingKeys)
    BY <1>1, <1>11, <2>1, Lockstep DEF n
  <2>3. Len(c) = n
    BY <1>11 DEF IsCut, n
  <2>4. InStep(JsonEnd(JsonStart, f.body), Scan(b), hits, RoutingKeys)
    BY <1>11, <1>14, <2>2, <2>3 DEF JsonEnd
  <2> QED BY <1>6, <1>11, <2>4 DEF InStep, at
<1>12. CASE at = "done" /\ hits = {}
  <2>1. f.body = b
    BY <1>2, <1>12 DEF untouched
  <2>2. IsCut(b, b, hits)
    BY <1>12, NoCut
  <2> QED BY <1>11, <1>12, <2>1, <2>2
<1>13. CASE Tagged(b) /\ at = "done" /\ hits # {}
  <2>1. CASE hits = DOMAIN ms
    <3>1. f.body = <<"{", "}">>
      BY <1>2, <1>13, <2>1 DEF untouched
    <3>2. JsonEnd(JsonStart, <<"{", "}">>) = JsonStep(JsonStep(JsonStart, "{"), "}")
      <4>1. "{" \in Lexemes /\ "}" \in Lexemes
        BY DEF Lexemes
      <4> QED BY <4>1, JsonEndTwo, JsonStartType
    <3>3. JsonEnd(JsonStart, <<"{", "}">>) = Json("end", <<>>, {})
      BY <3>2, OpeningLexemes
    <3>4. Json("end", <<>>, {}).keys = {}
      BY JsonFields
    <3> QED BY <3>1, <3>3, <3>4 DEF Clean
  <2>2. CASE hits # DOMAIN ms
    <3>1. f.body = Splice(b, ms, hits)
      BY <1>2, <1>13, <2>2 DEF untouched
    <3>2. PICK c \in Seq(Lexemes) :
            IsCut(b, c, hits) /\ JsonEnd(JsonStart, Splice(b, ms, hits)) = JsonEnd(JsonStart, c)
      BY <1>4, SpliceIs DEF ms
    <3> QED BY <1>11, <1>13, <3>1, <3>2
  <2> QED BY <2>1, <2>2
<1> QED BY <1>3, <1>8, <1>9, <1>10, <1>12, <1>13 DEF untouched

LB == "{"
RB == "}"
CM == ","

(* The lexemes of an object.                                               *)
LEMMA Marks ==
  /\ LB \in Lexemes /\ RB \in Lexemes /\ CM \in Lexemes
  /\ LB # "sp" /\ RB # "sp" /\ CM # "sp"
  /\ LB \in Openers /\ RB \in Closers /\ Closes(LB, RB)
  /\ LB # RB /\ CM # RB /\ LB # CM
  /\ {LB, RB, CM} \cap (Strings \cup Scalars) = {}
  BY DEF LB, RB, CM, Lexemes, Openers, Closers, Closes, Strings, Escaped, Scalars, RoutingKeys

(* A text between braces.                                                  *)
LEMMA Braced ==
  ASSUME NEW b \in Seq(Lexemes)
  PROVE  Len(b) >= 2 /\ b[1] = LB /\ b[Len(b)] = RB =>
           LET mid == SubSeq(b, 2, Len(b) - 1)
           IN mid \in Seq(Lexemes) /\ b = Append(<<LB>> \o mid, RB)
<1>0. SUFFICES ASSUME Len(b) >= 2, b[1] = LB, b[Len(b)] = RB
               PROVE  LET mid == SubSeq(b, 2, Len(b) - 1)
                      IN mid \in Seq(Lexemes) /\ b = Append(<<LB>> \o mid, RB)
  OBVIOUS
<1> DEFINE n == Len(b)
           mid == SubSeq(b, 2, n - 1)
           c == <<LB>> \o mid
           d == Append(c, RB)
<1>1. n \in Nat /\ n >= 2 /\ LB \in Lexemes /\ RB \in Lexemes
  <2>1. LB \in Lexemes /\ RB \in Lexemes
    BY Marks
  <2> QED BY <1>0, <2>1
<1>2. mid \in Seq(Lexemes) /\ Len(mid) = n - 2 /\ \A k \in 1 .. n - 2 : mid[k] = b[k + 1]
  <2>1. 2 \in 1 .. n + 1 /\ n - 1 \in 2 - 1 .. n /\ (n - 1) - 2 + 1 = n - 2
    BY <1>1
  <2>2. /\ mid \in Seq(Lexemes) /\ Len(mid) = (n - 1) - 2 + 1
        /\ \A k \in 1 .. (n - 1) - 2 + 1 : mid[k] = b[2 + k - 1]
    BY <2>1, SubSeqIs
  <2>3. \A k \in 1 .. n - 2 : 2 + k - 1 = k + 1
    OBVIOUS
  <2> QED BY <2>1, <2>2, <2>3
<1> HIDE DEF mid
<1>3. /\ c \in Seq(Lexemes) /\ Len(c) = n - 1 /\ c[1] = LB
      /\ \A k \in 1 .. n - 2 : c[1 + k] = mid[k]
  <2>1. <<LB>> \in Seq(Lexemes) /\ Len(<<LB>>) = 1
    BY <1>1
  <2> DEFINE o == <<LB>>
  <2>2. o[1] = LB
    OBVIOUS
  <2>3. /\ o \o mid \in Seq(Lexemes) /\ Len(o \o mid) = Len(o) + Len(mid)
        /\ \A k \in 1 .. Len(o) : (o \o mid)[k] = o[k]
        /\ \A k \in 1 .. Len(mid) : (o \o mid)[Len(o) + k] = mid[k]
    <3>1. o \in Seq(Lexemes) /\ mid \in Seq(Lexemes)
      BY <1>2, <2>1
    <3> HIDE DEF o
    <3> QED BY <3>1
  <2> HIDE DEF o
  <2>4. Len(o) = 1 /\ 1 \in 1 .. Len(o)
    BY <2>1 DEF o
  <2>5. 1 + (n - 2) = n - 1
    BY <1>1
  <2> QED BY <1>2, <2>2, <2>3, <2>4, <2>5 DEF o
<1> HIDE DEF c
<1>4. /\ d \in Seq(Lexemes) /\ Len(d) = n /\ d[n] = RB /\ \A k \in 1 .. n - 1 : d[k] = c[k]
  <2>1. /\ d \in Seq(Lexemes) /\ Len(d) = (n - 1) + 1 /\ d[(n - 1) + 1] = RB
        /\ \A k \in 1 .. n - 1 : d[k] = c[k]
    BY <1>1, <1>3, AppendIs
  <2>2. (n - 1) + 1 = n
    BY <1>1
  <2> QED BY <2>1, <2>2
<1> HIDE DEF d, n
<1>5. ASSUME NEW k \in 1 .. n PROVE b[k] = d[k]
  <2>1. CASE k = 1
    BY <1>0, <1>1, <1>3, <1>4, <2>1
  <2>2. CASE k = n
    BY <1>0, <1>4, <2>2 DEF n
  <2>3. CASE k # 1 /\ k # n
    <3>1. k - 1 \in 1 .. n - 2 /\ 1 + (k - 1) = k /\ (k - 1) + 1 = k /\ k \in 1 .. n - 1
      BY <1>1, <2>3
    <3>2. mid[k - 1] = b[k]
      BY <1>2, <3>1
    <3>3. c[k] = mid[k - 1]
      BY <1>3, <3>1
    <3> QED BY <1>4, <3>1, <3>2, <3>3
  <2> QED BY <2>1, <2>2, <2>3
<1>6. b = d
  BY <1>4, <1>5, SameSeq DEF n
<1> QED BY <1>2, <1>6 DEF n, mid, c, d

(* encoding/json at the top level of an object.                            *)
Top(a, K) == Json(a, Outer, K)

(* States at the top level of the outermost object.                        *)
LEMMA TopIs ==
  ASSUME NEW a \in {"member", "key", "colon", "value", "next"}, NEW K \in SUBSET Unquotes
  PROVE  /\ Top(a, K) \in JsonStates
         /\ Top(a, K).at = a /\ Top(a, K).stack = Outer /\ Top(a, K).keys = K
<1>1. Top(a, K).at = a /\ Top(a, K).stack = Outer /\ Top(a, K).keys = K
  BY JsonFields DEF Top
<1>2. a \in JsonModes /\ a # "item" /\ a # "end"
  BY DEF JsonModes
<1>3. Top(a, K) \in JsonStates
  BY <1>2, OuterIs, JsonType DEF Top
<1> QED BY <1>1, <1>3

(* The outermost object is open.                                           *)
LEMMA OuterMarks ==
  /\ Last(Outer) = LB /\ Closes(Last(Outer), RB) /\ Front(Outer) = <<>>
  /\ Append(<<>>, LB) = Outer /\ Outer \in Seq(Openers) /\ Outer # <<>>
  BY OuterIs, Marks DEF LB, RB, Closes

(* What the lexemes of an object do at its top level.                      *)
LEMMA TopStep ==
  ASSUME NEW K \in SUBSET Unquotes
  PROVE  /\ JsonStep(JsonStart, LB) = Top("member", {})
         /\ JsonStep(Top("next", K), CM) = Top("key", K)
         /\ JsonStep(Top("next", K), RB) = Json("end", <<>>, K)
         /\ JsonStep(Top("member", K), RB) = Json("end", <<>>, K)
         /\ \A x \in Unquotes, a \in {"member", "key"} :
              JsonStep(Top(a, K), x) = Top("colon", K \cup {x})
         /\ JsonStep(Top("colon", K), ":") = Top("value", K)
         /\ \A x \in Unquotes \cup Scalars : JsonStep(Top("value", K), x) = Top("next", K)
<1>1. \A a \in {"member", "key", "colon", "value", "next"} :
        /\ Top(a, K) \in JsonStates
        /\ Top(a, K).at = a /\ Top(a, K).stack = Outer /\ Top(a, K).keys = K
  BY TopIs
<1>2. JsonStep(JsonStart, LB) = Top("member", {})
  BY OpeningLexemes DEF LB, Top
<1>3. JsonStep(Top("next", K), CM) = Top("key", K)
  <2> DEFINE j == Top("next", K)
  <2>1. j \in JsonStates /\ j.at = "next" /\ j.stack = Outer /\ j.keys = K
    BY <1>1
  <2> HIDE DEF j
  <2>2. JsonStep(j, ",") = Json(IF Last(j.stack) = "{" THEN "key" ELSE "value", j.stack, j.keys)
    <3>1. "," \in Lexemes /\ "," # "sp"
      BY Marks DEF CM
    <3> QED BY <2>1, <3>1, JsonStepIs
  <2>3. JsonStep(j, ",") = Json("key", Outer, K)
    BY <2>1, <2>2, OuterIs
  <2> QED BY <2>3 DEF j, CM, Top
<1>4. ASSUME NEW a \in {"next", "member"} PROVE JsonStep(Top(a, K), RB) = Json("end", <<>>, K)
  <2> DEFINE j == Top(a, K)
  <2>1. j \in JsonStates /\ j.at = a /\ j.stack = Outer /\ j.keys = K
    BY <1>1
  <2> HIDE DEF j
  <2>2. \/ j.at = "item" /\ RB = "]"
        \/ j.at = "member" /\ RB = "}"
        \/ j.at = "next" /\ Closes(Last(j.stack), RB)
    BY <2>1, OuterMarks DEF RB
  <2>3. JsonStep(j, RB) = AfterValue(Front(j.stack), j.keys)
    BY <2>1, <2>2, JsonStepIs, Marks
  <2>4. JsonStep(j, RB) = AfterValue(<<>>, K)
    BY <2>1, <2>3, OuterMarks
  <2> QED BY <2>4, AfterValueIs DEF j
<1>5. ASSUME NEW x \in Unquotes, NEW a \in {"member", "key"}
      PROVE  JsonStep(Top(a, K), x) = Top("colon", K \cup {x})
  <2> DEFINE j == Top(a, K)
  <2>1. j \in JsonStates /\ j.at = a /\ j.stack = Outer /\ j.keys = K
    BY <1>1
  <2>2. x \in Lexemes /\ x # "sp"
    BY Kinds
  <2> HIDE DEF j
  <2>3. JsonStep(j, x) = Json("colon", j.stack, IF Len(j.stack) = 1 THEN j.keys \cup {x} ELSE j.keys)
    BY <2>1, <2>2, JsonStepIs
  <2>4. Len(Outer) = 1
    BY OuterIs
  <2> QED BY <2>1, <2>3, <2>4 DEF Top, j
<1>6. JsonStep(Top("colon", K), ":") = Top("value", K)
  <2> DEFINE j == Top("colon", K)
  <2>1. j \in JsonStates /\ j.at = "colon" /\ j.stack = Outer /\ j.keys = K
    BY <1>1
  <2>2. ":" \in Lexemes /\ ":" # "sp"
    BY DEF Lexemes
  <2> HIDE DEF j
  <2>3. JsonStep(j, ":") = Json("value", j.stack, j.keys)
    BY <2>1, <2>2, JsonStepIs
  <2> QED BY <2>1, <2>3 DEF Top, j
<1>7. ASSUME NEW x \in Unquotes \cup Scalars PROVE JsonStep(Top("value", K), x) = Top("next", K)
  <2> DEFINE j == Top("value", K)
  <2>1. j \in JsonStates /\ j.at = "value" /\ j.stack = Outer /\ j.keys = K
    BY <1>1
  <2>2. x \in Lexemes /\ x # "sp"
    <3>1. Unquotes \subseteq Strings /\ Strings \subseteq Lexemes /\ Scalars \subseteq Lexemes
          /\ "sp" \notin Strings \cup Scalars
      BY Kinds DEF Lexemes
    <3> QED BY <3>1
  <2> HIDE DEF j
  <2>3. JsonStep(j, x) = AfterValue(j.stack, j.keys)
    BY <2>1, <2>2, JsonStepIs
  <2>4. AfterValue(Outer, K) = Json("next", Outer, K)
    BY AfterValueIs, OuterIs
  <2> QED BY <2>1, <2>3, <2>4 DEF Top, j
<1> QED BY <1>2, <1>3, <1>4, <1>5, <1>6, <1>7

(* A text's first lexeme and the rest of it.                               *)
LEMMA SplitFirst ==
  ASSUME NEW S, NEW b \in Seq(S)
  PROVE  b # <<>> => /\ b[1] \in S /\ SubSeq(b, 2, Len(b)) \in Seq(S)
                     /\ b = <<b[1]>> \o SubSeq(b, 2, Len(b))
<1>1. SUFFICES ASSUME b # <<>>
               PROVE  /\ b[1] \in S /\ SubSeq(b, 2, Len(b)) \in Seq(S)
                      /\ b = <<b[1]>> \o SubSeq(b, 2, Len(b))
  OBVIOUS
<1> DEFINE c == SubSeq(b, 1, 1)
           d == <<b[1]>>
<1>2. Len(b) \in Nat /\ Len(b) >= 1 /\ b[1] \in S
  BY <1>1
<1>3. /\ 1 \in 0 .. Len(b) /\ 1 \in 1 .. Len(b) + 1 /\ 1 \in 1 - 1 .. Len(b) /\ 1 - 1 + 1 = 1
      /\ 2 \in 1 .. Len(b) + 1 /\ Len(b) \in 2 - 1 .. Len(b)
  BY <1>2
<1>4. c \in Seq(S) /\ Len(c) = 1 - 1 + 1 /\ \A k \in 1 .. 1 - 1 + 1 : c[k] = b[1 + k - 1]
  BY <1>3, SubSeqIs
<1>5. c[1] = b[1]
  <2>1. 1 \in 1 .. 1 - 1 + 1 /\ 1 + 1 - 1 = 1
    OBVIOUS
  <2> QED BY <1>4, <2>1
<1>6. d \in Seq(S) /\ Len(d) = 1 /\ d[1] = b[1]
  BY <1>2
<1> HIDE DEF c, d
<1>7. \A k \in 1 .. 1 : k = 1
  OBVIOUS
<1>8. c = d
  BY <1>3, <1>4, <1>5, <1>6, <1>7, SameSeq
<1>9. b = c \o SubSeq(b, 1 + 1, Len(b))
  BY <1>3, SplitAt DEF c
<1>10. SubSeq(b, 2, Len(b)) \in Seq(S)
  BY <1>3, SubSeqIs
<1>11. 1 + 1 = 2
  OBVIOUS
<1> QED BY <1>2, <1>8, <1>9, <1>10, <1>11 DEF d
-----------------------------------------------------------------------------
(* Read from j on, b never has more than N brackets open.                  *)
Below(j, b, N) == \A k \in 0 .. Len(b) : Len(JsonRun(j, b)[k].stack) <= N

(* Below of nothing,                                                       *)
LEMMA BelowEmpty ==
  ASSUME NEW j \in JsonStates, NEW N
  PROVE  Below(j, <<>>, N) <=> Len(j.stack) <= N
<1>1. <<>> \in Seq(Lexemes) /\ Len(<<>>) = 0
  OBVIOUS
<1>2. JsonRun(j, <<>>)[0] = j
  BY <1>1, JsonRunIs
<1>3. 0 .. 0 = {0}
  OBVIOUS
<1> QED BY <1>1, <1>2, <1>3 DEF Below

(* by the last lexeme,                                                     *)
LEMMA BelowAppend ==
  ASSUME NEW j \in JsonStates, NEW b \in Seq(Lexemes), NEW x \in Lexemes, NEW N
  PROVE  Below(j, Append(b, x), N) <=>
           Below(j, b, N) /\ Len(JsonStep(JsonEnd(j, b), x).stack) <= N
<1> DEFINE c == Append(b, x)
           n == Len(b)
           f == JsonRun(j, b)
           g == JsonRun(j, c)
           Low(s) == Len(s.stack) <= N
<1>1. c \in Seq(Lexemes) /\ n \in Nat /\ Len(c) = n + 1 /\ \A k \in 1 .. n : b[k] = c[k]
  BY AppendIs
<1>2. n <= Len(b) /\ n <= Len(c)
  BY <1>1
<1> HIDE DEF c
<1>3. \A k \in 0 .. n : f[k] = g[k]
  BY <1>1, <1>2, JsonRunsAgree
<1>4. g[n + 1] = JsonStep(JsonEnd(j, b), x)
  <2>1. JsonEnd(j, c) = JsonStep(JsonEnd(j, b), x)
    BY JsonEndAppend DEF c
  <2> QED BY <1>1, <2>1 DEF JsonEnd
<1>5. Below(j, c, N) <=> \A k \in 0 .. n + 1 : Low(g[k])
  BY <1>1 DEF Below
<1>6. Below(j, b, N) <=> \A k \in 0 .. n : Low(f[k])
  BY DEF Below
<1>7. 0 .. n + 1 = 0 .. n \cup {n + 1}
  BY <1>1
<1> HIDE DEF f, g, Low, n
<1>8. Below(j, c, N) <=> Below(j, b, N) /\ Low(g[n + 1])
  BY <1>3, <1>5, <1>6, <1>7
<1> QED BY <1>4, <1>8 DEF c, Low

(* of a text after another,                                                *)
LEMMA BelowConcat ==
  ASSUME NEW j \in JsonStates, NEW b \in Seq(Lexemes), NEW c \in Seq(Lexemes), NEW N
  PROVE  Below(j, b \o c, N) <=> Below(j, b, N) /\ Below(JsonEnd(j, b), c, N)
<1> DEFINE e == JsonEnd(j, b)
           G(d) == Below(j, b \o d, N) <=> Below(j, b, N) /\ Below(e, d, N)
           T == {n \in Nat : \A d \in Seq(Lexemes) : Len(d) = n => G(d)}
<1>1. e \in JsonStates
  BY JsonEndType
<1>2. 0 \in T
  <2>1. ASSUME NEW d \in Seq(Lexemes), Len(d) = 0 PROVE G(d)
    <3>1. d = <<>> /\ b \o d = b
      BY <2>1
    <3>2. Below(e, d, N) <=> Len(e.stack) <= N
      BY <1>1, <3>1, BelowEmpty
    <3>3. Below(j, b, N) => Len(e.stack) <= N
      <4>1. Len(b) \in 0 .. Len(b)
        OBVIOUS
      <4> QED BY <4>1 DEF Below, JsonEnd
    <3> HIDE DEF e
    <3> QED BY <3>1, <3>2, <3>3
  <2> QED BY <2>1
<1>3. ASSUME NEW n \in Nat, n \in T PROVE n + 1 \in T
  <2>1. ASSUME NEW d \in Seq(Lexemes), Len(d) = n + 1 PROVE G(d)
    <3>1. PICK c1 \in Seq(Lexemes), x \in Lexemes : d = Append(c1, x) /\ Len(c1) = n
      BY <2>1, SplitLast
    <3>2. b \o d = Append(b \o c1, x) /\ b \o c1 \in Seq(Lexemes)
      BY <3>1, StackOn, SMTT(30)
    <3>3. G(c1)
      BY <1>3, <3>1
    <3>4. Below(j, Append(b \o c1, x), N) <=>
            Below(j, b \o c1, N) /\ Len(JsonStep(JsonEnd(j, b \o c1), x).stack) <= N
      BY <3>2, BelowAppend
    <3>5. Below(e, Append(c1, x), N) <=>
            Below(e, c1, N) /\ Len(JsonStep(JsonEnd(e, c1), x).stack) <= N
      BY <1>1, BelowAppend
    <3>6. JsonEnd(j, b \o c1) = JsonEnd(e, c1)
      BY JsonEndConcat
    <3> HIDE DEF e
    <3> QED BY <3>1, <3>2, <3>3, <3>4, <3>5, <3>6
  <2> QED BY <2>1
<1> HIDE DEF T
<1>4. \A n \in Nat : n \in T
  BY <1>2, <1>3, InductionNat
<1>5. Len(c) \in T
  <2>1. Len(c) \in Nat
    OBVIOUS
  <2> QED BY <1>4, <2>1
<1> QED BY <1>5 DEF T

(* and by the first lexeme.                                                *)
LEMMA BelowCons ==
  ASSUME NEW j \in JsonStates, NEW x \in Lexemes, NEW b \in Seq(Lexemes), NEW N
  PROVE  Below(j, <<x>> \o b, N) <=> Len(j.stack) <= N /\ Below(JsonStep(j, x), b, N)
<1> DEFINE o == <<x>>
           k == JsonStep(j, x)
<1>1. o \in Seq(Lexemes) /\ o = Append(<<>>, x) /\ <<>> \in Seq(Lexemes)
  OBVIOUS
<1>2. JsonEnd(j, o) = k /\ JsonEnd(j, <<>>) = j /\ k \in JsonStates
  BY JsonEndOne, JsonEndEmpty, JsonStepType
<1> HIDE DEF o, k
<1>3. Below(j, o \o b, N) <=> Below(j, o, N) /\ Below(k, b, N)
  BY <1>1, <1>2, BelowConcat
<1>4. Below(j, o, N) <=> Len(j.stack) <= N /\ Len(k.stack) <= N
  <2>1. Below(j, Append(<<>>, x), N) <=>
          Below(j, <<>>, N) /\ Len(JsonStep(JsonEnd(j, <<>>), x).stack) <= N
    BY <1>1, BelowAppend
  <2> QED BY <1>1, <1>2, <2>1, BelowEmpty DEF k
<1>5. Below(k, b, N) => Len(k.stack) <= N
  <2>1. JsonRun(k, b)[0] = k /\ 0 \in 0 .. Len(b)
    BY <1>2, JsonRunIs
  <2> QED BY <2>1 DEF Below
<1> QED BY <1>3, <1>4, <1>5 DEF o, k

(* The keys so far make no difference to it.                               *)
LEMMA BelowMore ==
  ASSUME NEW i \in JsonStates, NEW E, NEW b \in Seq(Lexemes), NEW N,
         More(i, E) \in JsonStates, JsonEnd(i, b).at # "bad"
  PROVE  Below(More(i, E), b, N) <=> Below(i, b, N)
<1> DEFINE m == More(i, E)
           G(d) == JsonEnd(i, d).at # "bad" =>
                     /\ Below(m, d, N) <=> Below(i, d, N)
                     /\ JsonEnd(m, d) = More(JsonEnd(i, d), E)
           T == {n \in Nat : \A d \in Seq(Lexemes) : Len(d) = n => G(d)}
<1>1. m \in JsonStates /\ m.stack = i.stack
  BY JsonFields DEF More
<1> HIDE DEF m
<1>2. 0 \in T
  <2>1. ASSUME NEW d \in Seq(Lexemes), Len(d) = 0 PROVE G(d)
    <3>1. d = <<>>
      BY <2>1, EmptyStack
    <3>2. JsonEnd(i, d) = i /\ JsonEnd(m, d) = m
      BY <1>1, <3>1, JsonEndEmpty
    <3>3. /\ Below(m, d, N) <=> Len(m.stack) <= N
          /\ Below(i, d, N) <=> Len(i.stack) <= N
      BY <1>1, <3>1, BelowEmpty
    <3> QED BY <1>1, <3>2, <3>3 DEF m
  <2> QED BY <2>1
<1>3. ASSUME NEW n \in Nat, n \in T PROVE n + 1 \in T
  <2>1. ASSUME NEW d \in Seq(Lexemes), Len(d) = n + 1, JsonEnd(i, d).at # "bad"
        PROVE  /\ Below(m, d, N) <=> Below(i, d, N)
               /\ JsonEnd(m, d) = More(JsonEnd(i, d), E)
    <3>1. PICK c \in Seq(Lexemes), x \in Lexemes : d = Append(c, x) /\ Len(c) = n
      BY <2>1, SplitLast
    <3> DEFINE p == JsonEnd(i, c)
               q == JsonEnd(m, c)
    <3>2. p \in JsonStates /\ q \in JsonStates
      BY <1>1, JsonEndType
    <3>3. JsonEnd(i, d) = JsonStep(p, x) /\ JsonEnd(m, d) = JsonStep(q, x)
      BY <1>1, <3>1, JsonEndAppend
    <3>4. /\ Below(m, d, N) <=> Below(m, c, N) /\ Len(JsonStep(q, x).stack) <= N
          /\ Below(i, d, N) <=> Below(i, c, N) /\ Len(JsonStep(p, x).stack) <= N
      BY <1>1, <3>1, BelowAppend
    <3>5. G(c)
      BY <1>3, <3>1
    <3> HIDE DEF p, q
    <3>6. p.at # "bad"
      BY <2>1, <3>2, <3>3, JsonStepEnd
    <3>7. q = More(p, E) /\ (Below(m, c, N) <=> Below(i, c, N))
      BY <3>5, <3>6 DEF p, q
    <3>8. JsonStep(q, x) = More(JsonStep(p, x), E)
      BY <2>1, <3>2, <3>3, <3>7, JsonStepMoreKeys
    <3>9. JsonStep(q, x).stack = JsonStep(p, x).stack
      BY <3>8, JsonFields DEF More
    <3> QED BY <3>3, <3>4, <3>7, <3>8, <3>9
  <2> QED BY <2>1
<1> HIDE DEF T
<1>4. \A n \in Nat : n \in T
  BY <1>2, <1>3, InductionNat
<1>5. Len(b) \in T
  <2>1. Len(b) \in Nat
    OBVIOUS
  <2> QED BY <1>4, <2>1
<1> QED BY <1>5 DEF T, m

(* Nests is about a text read from its beginning.                          *)
LEMMA NestsIs ==
  ASSUME NEW b \in Seq(Lexemes), NEW N \in Nat
  PROVE  Nests(b, N) <=> Below(JsonStart, b, N)
<1> DEFINE n == Len(b)
           f == JsonRun(JsonStart, b)
           Low(s) == Len(s.stack) <= N
<1>1. n \in Nat /\ DOMAIN b = 1 .. n
  OBVIOUS
<1>2. f[0] = JsonStart
  BY JsonStartType, JsonRunIs
<1>3. Len(JsonStart.stack) = 0
  BY JsonFields DEF JsonStart
<1>4. Low(f[0])
  BY <1>2, <1>3
<1>5. 0 .. n = {0} \cup 1 .. n
  BY <1>1
<1>6. Nests(b, N) <=> \A k \in 1 .. n : Low(f[k])
  BY <1>1 DEF Nests
<1>7. Below(JsonStart, b, N) <=> \A k \in 0 .. n : Low(f[k])
  BY DEF Below
<1> HIDE DEF f, Low, n
<1> QED BY <1>4, <1>5, <1>6, <1>7
=============================================================================
