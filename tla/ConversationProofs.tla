------------------------- MODULE ConversationProofs -------------------------
(***************************************************************************)
(* Every conversation of Agent.run that is put to an API is one the API    *)
(* accepts, whatever the LLM replies and the tools do, over any number of  *)
(* rounds.  Conversations are folded into turns, so facts about folds come *)
(* first, by an induction over the natural numbers.                        *)
(***************************************************************************)
EXTENDS AgentLoop, FiniteSetTheorems, SequenceTheorems, WellFoundedInduction, TLAPS

-----------------------------------------------------------------------------
(* Induction.  A property of numbers is given as the set of the numbers    *)
(* that have it.                                                           *)

LEMMA LeastNumber ==
  ASSUME NEW T, T \subseteq Nat, T # {}
  PROVE  \E x \in T : \A y \in T : x <= y
<1>1. PICK x \in T : \A y \in T : <<y, x>> \notin OpToRel(<, Nat)
  BY NatLessThanWellFounded, WFMin
<1>2. \A y \in T : ~(y < x)
  BY <1>1 DEF OpToRel
<1>3. \A y \in T : y \in Nat
  OBVIOUS
<1> QED BY <1>2, <1>3

LEMMA SetInduction ==
  ASSUME NEW S, 0 \in S, \A n \in Nat : n \in S => n + 1 \in S
  PROVE  Nat \subseteq S
<1> SUFFICES ASSUME NEW m \in Nat \ S PROVE FALSE
  OBVIOUS
<1>1. PICK x \in Nat \ S : \A y \in Nat \ S : x <= y
  BY LeastNumber
<1>2. x - 1 \in Nat \ S
  BY <1>1
<1> QED BY <1>1, <1>2

LEMMA MaxOfPositions ==
  ASSUME NEW n \in Nat, NEW d \in SUBSET (1 .. n), d # {}
  PROVE  Max(d) \in d /\ \A y \in d : y <= Max(d)
<1> DEFINE T == {t \in Nat : \E y \in d : t = n - y}
<1>0. \A y \in d : y \in Int /\ 1 <= y /\ y <= n
  OBVIOUS
<1>1. T \subseteq Nat /\ T # {}
  <2>1. PICK y \in d : TRUE
    OBVIOUS
  <2>2. n - y \in T
    BY <1>0
  <2> QED BY <2>2
<1>2. PICK t \in T : \A u \in T : t <= u
  <2> HIDE DEF T
  <2> QED BY <1>1, LeastNumber
<1>3. PICK x \in d : t = n - x
  OBVIOUS
<1>4. \A y \in d : x >= y
  <2> TAKE y \in d
  <2>1. n - y \in T
    BY <1>0
  <2>2. t <= n - y
    BY <1>2, <2>1
  <2> QED BY <1>0, <1>3, <2>2
<1>5. Max(d) \in d /\ \A y \in d : Max(d) >= y
  BY <1>4 DEF Max
<1> QED BY <1>0, <1>5

LEMMA MaxOfInterval ==
  ASSUME NEW n \in Nat
  PROVE  Max(1 .. n + 1) = n + 1 /\ (1 .. n + 1) \ {n + 1} = 1 .. n /\ 1 .. n + 1 # {}
<1>1. n + 1 \in 1 .. n + 1
  OBVIOUS
<1>2. n + 1 \in Nat /\ 1 .. n + 1 # {}
  BY <1>1
<1>3. Max(1 .. n + 1) \in 1 .. n + 1 /\ n + 1 <= Max(1 .. n + 1)
  BY <1>1, <1>2, MaxOfPositions
<1> QED BY <1>1, <1>3

-----------------------------------------------------------------------------
(* The two folds of the model, Keep and Turns.  What holds of both is      *)
(* proved of an f that says which of them is meant.                        *)

Keeping(S) == [fold |-> "keep", set |-> S]
Joining == [fold |-> "join"]

Folding(f, v, x) ==
  IF f.fold = "join" THEN JoinTurn(v, x) ELSE IF x \in f.set THEN Append(v, x) ELSE v

\* g maps the sets of positions of s up to n to what the fold makes of them.
Folds(f, s, n, g) ==
  g = [d \in SUBSET (1 .. n) |-> IF d = {} THEN <<>> ELSE Folding(f, g[d \ {Max(d)}], s[Max(d)])]

LEMMA FoldsGoOn ==
  ASSUME NEW f, NEW s, NEW k \in Nat, NEW g, Folds(f, s, k, g)
  PROVE  \E h : Folds(f, s, k + 1, h)
<1> DEFINE h == [d \in SUBSET (1 .. k + 1) |->
                   IF k + 1 \in d THEN Folding(f, g[d \ {k + 1}], s[k + 1]) ELSE g[d]]
<1>1. ASSUME NEW d \in SUBSET (1 .. k + 1)
      PROVE  h[d] = IF d = {} THEN <<>> ELSE Folding(f, h[d \ {Max(d)}], s[Max(d)])
  <2>1. CASE k + 1 \in d
    <3>1. Max(d) = k + 1
      <4>1. k + 1 \in Nat /\ d # {}
        BY <2>1
      <4>2. Max(d) \in d /\ k + 1 <= Max(d)
        BY <2>1, <4>1, MaxOfPositions
      <4>3. Max(d) \in 1 .. k + 1
        BY <4>2
      <4> QED BY <4>2, <4>3
    <3>2. h[d \ {k + 1}] = g[d \ {k + 1}]
      OBVIOUS
    <3>3. h[d] = Folding(f, g[d \ {k + 1}], s[k + 1])
      BY <2>1
    <3> HIDE DEF h
    <3> QED BY <2>1, <3>1, <3>2, <3>3
  <2>2. CASE k + 1 \notin d
    <3>1. d \in SUBSET (1 .. k)
      BY <2>2
    <3>2. g[d] = IF d = {} THEN <<>> ELSE Folding(f, g[d \ {Max(d)}], s[Max(d)])
      BY <3>1 DEF Folds
    <3>3. h[d] = g[d] /\ h[d \ {Max(d)}] = g[d \ {Max(d)}]
      BY <2>2
    <3> HIDE DEF h
    <3> QED BY <3>2, <3>3
  <2> QED BY <2>1, <2>2
<1>2. h = [d \in SUBSET (1 .. k + 1) |-> h[d]]
  OBVIOUS
<1> HIDE DEF h
<1>3. Folds(f, s, k + 1, h)
  BY <1>1, <1>2 DEF Folds
<1> QED BY <1>3

LEMMA FoldExists ==
  ASSUME NEW f, NEW s, NEW n \in Nat
  PROVE  \E g : Folds(f, s, n, g)
<1> DEFINE E == {k \in Nat : \E g : Folds(f, s, k, g)}
<1>1. 0 \in E
  <2>1. \A d \in SUBSET (1 .. 0) : d = {}
    OBVIOUS
  <2>2. Folds(f, s, 0, [d \in SUBSET (1 .. 0) |-> <<>>])
    BY <2>1 DEF Folds
  <2> QED BY <2>2
<1>2. \A k \in Nat : k \in E => k + 1 \in E
  BY FoldsGoOn
<1> HIDE DEF E
<1>3. Nat \subseteq E
  BY <1>1, <1>2, SetInduction
<1> QED BY <1>3 DEF E

\* How a fold goes from one position to the next.
LEMMA FoldNext ==
  ASSUME NEW f, NEW s, NEW n \in Nat, NEW g, Folds(f, s, n, g), NEW k \in Nat, k < n
  PROVE  g[1 .. k + 1] = Folding(f, g[1 .. k], s[k + 1])
<1>1. 1 .. k + 1 \in SUBSET (1 .. n)
  OBVIOUS
<1>2. 1 .. k + 1 # {} /\ Max(1 .. k + 1) = k + 1 /\ (1 .. k + 1) \ {k + 1} = 1 .. k
  BY MaxOfInterval
<1> QED BY <1>1, <1>2 DEF Folds

LEMMA FoldStart ==
  ASSUME NEW f, NEW s, NEW n \in Nat, NEW g, Folds(f, s, n, g)
  PROVE  g[1 .. 0] = <<>>
<1>1. 1 .. 0 = {}
  OBVIOUS
<1>2. g[{}] = <<>>
  BY DEF Folds
<1> QED BY <1>1, <1>2

\* Folds agree as far as their sequences do.
LEMMA FoldsAgree ==
  ASSUME NEW f, NEW s, NEW t, NEW g, NEW h, NEW m \in Nat, NEW n \in Nat, n <= m,
         Folds(f, s, m, g), Folds(f, t, n, h),
         \A i \in 1 .. n : s[i] = t[i]
  PROVE  g[1 .. n] = h[1 .. n]
<1> DEFINE E == {k \in Nat : k <= n => g[1 .. k] = h[1 .. k]}
<1>1. 0 \in E
  BY FoldStart
<1>2. ASSUME NEW k \in Nat, k \in E PROVE k + 1 \in E
  <2> SUFFICES ASSUME k + 1 <= n PROVE g[1 .. k + 1] = h[1 .. k + 1]
    OBVIOUS
  <2>1. k < m /\ k < n /\ s[k + 1] = t[k + 1]
    OBVIOUS
  <2>2. g[1 .. k] = h[1 .. k]
    BY <1>2
  <2> HIDE DEF E
  <2>3. g[1 .. k + 1] = Folding(f, g[1 .. k], s[k + 1])
    BY <2>1, FoldNext
  <2>4. h[1 .. k + 1] = Folding(f, h[1 .. k], t[k + 1])
    BY <2>1, FoldNext
  <2> QED BY <2>1, <2>2, <2>3, <2>4
<1> HIDE DEF E
<1>3. n \in E
  BY <1>1, <1>2, SetInduction
<1> QED BY <1>3 DEF E

\* The fold of a list and one more element.
LEMMA FoldAppend ==
  ASSUME NEW f, NEW A, NEW s \in Seq(A), NEW x, NEW g, NEW h, NEW n \in Nat, NEW m \in Nat,
         n = Len(s), m = n + 1, Folds(f, Append(s, x), m, g), Folds(f, s, n, h)
  PROVE  g[1 .. m] = Folding(f, h[1 .. n], x)
<1> DEFINE a == Append(s, x)
<1>1. n < m /\ n <= m /\ a[n + 1] = x /\ \A i \in 1 .. n : a[i] = s[i]
  OBVIOUS
<1>2. Folds(f, a, m, g)
  OBVIOUS
<1> HIDE DEF a
<1>3. g[1 .. n] = h[1 .. n]
  BY ONLY m \in Nat, n \in Nat, Folds(f, s, n, h), <1>1, <1>2, FoldsAgree
<1>4. g[1 .. n + 1] = Folding(f, g[1 .. n], a[n + 1])
  BY ONLY m \in Nat, n \in Nat, n < m, <1>2, FoldNext
<1> QED BY <1>1, <1>3, <1>4

LEMMA KeepFolds ==
  ASSUME NEW s, NEW S, NEW n \in Nat, DOMAIN s = 1 .. n
  PROVE  \E g : Folds(Keeping(S), s, n, g) /\ Keep(s, S) = g[1 .. n]
<1> DEFINE P(g) == g = [d \in SUBSET (DOMAIN s) |->
                          IF d = {} THEN <<>>
                          ELSE IF s[Max(d)] \in S THEN Append(g[d \ {Max(d)}], s[Max(d)])
                               ELSE g[d \ {Max(d)}]]
<1>1. Keep(s, S) = (CHOOSE g : P(g))[DOMAIN s]
  BY DEF Keep, FoldLeft, MapThenFoldSet
<1>2. \A g : P(g) <=> Folds(Keeping(S), s, n, g)
  BY DEF Folds, Folding, Keeping
<1> HIDE DEF P
<1>3. \E g : P(g)
  BY <1>2, FoldExists
<1>4. P(CHOOSE g : P(g))
  BY <1>3
<1> QED BY <1>1, <1>2, <1>4

LEMMA TurnsFold ==
  ASSUME NEW s, NEW n \in Nat, DOMAIN s = 1 .. n
  PROVE  \E g : Folds(Joining, s, n, g) /\ Turns(s) = g[1 .. n]
<1> DEFINE P(g) == g = [d \in SUBSET (DOMAIN s) |->
                          IF d = {} THEN <<>> ELSE JoinTurn(g[d \ {Max(d)}], s[Max(d)])]
<1>1. Turns(s) = (CHOOSE g : P(g))[DOMAIN s]
  BY DEF Turns, FoldLeft, MapThenFoldSet
<1>2. \A g : P(g) <=> Folds(Joining, s, n, g)
  BY DEF Folds, Folding, Joining
<1> HIDE DEF P
<1>3. \E g : P(g)
  BY <1>2, FoldExists
<1>4. P(CHOOSE g : P(g))
  BY <1>3
<1> QED BY <1>1, <1>2, <1>4

\* What Keep and Turns make of a list and one more element.
LEMMA KeepAppend ==
  ASSUME NEW A, NEW s \in Seq(A), NEW x, NEW S
  PROVE  Keep(Append(s, x), S) = IF x \in S THEN Append(Keep(s, S), x) ELSE Keep(s, S)
<1> DEFINE n == Len(s)
           m == n + 1
<1>1. n \in Nat /\ DOMAIN s = 1 .. n /\ m \in Nat /\ DOMAIN Append(s, x) = 1 .. m
  OBVIOUS
<1>2. PICK g : /\ Folds(Keeping(S), Append(s, x), m, g)
               /\ Keep(Append(s, x), S) = g[1 .. m]
  BY <1>1, KeepFolds
<1>3. PICK h : Folds(Keeping(S), s, n, h) /\ Keep(s, S) = h[1 .. n]
  BY <1>1, KeepFolds
<1>4. n = Len(s) /\ m = n + 1
  OBVIOUS
<1> HIDE DEF n, m
<1>5. g[1 .. m] = Folding(Keeping(S), h[1 .. n], x)
  BY <1>1, <1>2, <1>3, <1>4, FoldAppend
<1> QED BY <1>2, <1>3, <1>5 DEF Folding, Keeping

LEMMA TurnsAppend ==
  ASSUME NEW A, NEW s \in Seq(A), NEW x
  PROVE  Turns(Append(s, x)) = JoinTurn(Turns(s), x)
<1> DEFINE n == Len(s)
           m == n + 1
<1>1. n \in Nat /\ DOMAIN s = 1 .. n /\ m \in Nat /\ DOMAIN Append(s, x) = 1 .. m
  OBVIOUS
<1>2. PICK g : /\ Folds(Joining, Append(s, x), m, g)
               /\ Turns(Append(s, x)) = g[1 .. m]
  BY <1>1, TurnsFold
<1>3. PICK h : Folds(Joining, s, n, h) /\ Turns(s) = h[1 .. n]
  BY <1>1, TurnsFold
<1>4. n = Len(s) /\ m = n + 1
  OBVIOUS
<1> HIDE DEF n, m
<1>5. g[1 .. m] = Folding(Joining, h[1 .. n], x)
  BY <1>1, <1>2, <1>3, <1>4, FoldAppend
<1> QED BY <1>2, <1>3, <1>5 DEF Folding, Joining

LEMMA FoldsOfNothing == ASSUME NEW S PROVE Keep(<<>>, S) = <<>> /\ Turns(<<>>) = <<>>
<1>1. DOMAIN <<>> = 1 .. 0
  OBVIOUS
<1> QED BY <1>1, KeepFolds, TurnsFold, FoldStart

-----------------------------------------------------------------------------
(* Induction over lists, and what Keep returns.                            *)

LEMMA ListInduction ==
  ASSUME NEW A, NEW P, <<>> \in P,
         \A s \in Seq(A) : \A x \in A : s \in P => Append(s, x) \in P
  PROVE  Seq(A) \subseteq P
<1> DEFINE E == {n \in Nat : \A s \in Seq(A) : Len(s) = n => s \in P}
<1>1. 0 \in E
  <2>1. \A s \in Seq(A) : Len(s) = 0 => s = <<>>
    OBVIOUS
  <2> QED BY <2>1
<1>2. ASSUME NEW n \in Nat, n \in E PROVE n + 1 \in E
  <2> SUFFICES ASSUME NEW s \in Seq(A), Len(s) = n + 1 PROVE s \in P
    OBVIOUS
  <2> DEFINE f == SubSeq(s, 1, n)
             x == s[n + 1]
  <2>1. x \in A /\ f \in Seq(A) /\ Len(f) = n
    OBVIOUS
  <2>2. s = Append(f, x)
    OBVIOUS
  <2>3. f \in P
    BY <1>2, <2>1
  <2> HIDE DEF f, x
  <2> QED BY <2>1, <2>2, <2>3
<1> HIDE DEF E
<1>3. Nat \subseteq E
  BY <1>1, <1>2, SetInduction
<1>4. \A s \in Seq(A) : Len(s) \in Nat
  OBVIOUS
<1> QED BY <1>3, <1>4 DEF E

\* Keep(s, S) is a list of elements of s that are in S.
LEMMA KeepTyped ==
  ASSUME NEW A, NEW s \in Seq(A), NEW S
  PROVE  Keep(s, S) \in Seq(A \cap S)
<1> DEFINE P == {r \in Seq(A) : Keep(r, S) \in Seq(A \cap S)}
<1>1. <<>> \in P
  <2>1. <<>> \in Seq(A) /\ <<>> \in Seq(A \cap S) /\ Keep(<<>>, S) = <<>>
    BY FoldsOfNothing
  <2> QED BY <2>1
<1>2. ASSUME NEW r \in Seq(A), NEW x \in A, r \in P PROVE Append(r, x) \in P
  <2>1. Keep(Append(r, x), S) = IF x \in S THEN Append(Keep(r, S), x) ELSE Keep(r, S)
    BY KeepAppend
  <2>2. Append(r, x) \in Seq(A) /\ Keep(r, S) \in Seq(A \cap S)
    BY <1>2
  <2>3. Keep(Append(r, x), S) \in Seq(A \cap S)
    BY <2>1, <2>2
  <2> QED BY <2>2, <2>3
<1> HIDE DEF P
<1>3. Seq(A) \subseteq P
  BY <1>1, <1>2, ListInduction
<1> QED BY <1>3 DEF P

\* All of a list that is in S, and nothing of one that has no element there.
LEMMA KeepAll ==
  ASSUME NEW S, NEW s \in Seq(S)
  PROVE  Keep(s, S) = s
<1> DEFINE P == {r \in Seq(S) : Keep(r, S) = r}
<1>1. <<>> \in P
  BY FoldsOfNothing
<1>2. ASSUME NEW r \in Seq(S), NEW x \in S, r \in P PROVE Append(r, x) \in P
  <2>1. Keep(Append(r, x), S) = IF x \in S THEN Append(Keep(r, S), x) ELSE Keep(r, S)
    BY KeepAppend
  <2> QED BY <1>2, <2>1
<1> HIDE DEF P
<1>3. Seq(S) \subseteq P
  BY <1>1, <1>2, ListInduction
<1> QED BY <1>3 DEF P

LEMMA KeepNone ==
  ASSUME NEW A, NEW s \in Seq(A), NEW S, A \cap S = {}
  PROVE  Keep(s, S) = <<>>
<1>1. Keep(s, S) \in Seq({})
  BY KeepTyped
<1> QED BY <1>1

\* Keep of two lists in a row.
LEMMA KeepConcat ==
  ASSUME NEW A, NEW s \in Seq(A), NEW t \in Seq(A), NEW S
  PROVE  Keep(s \o t, S) = Keep(s, S) \o Keep(t, S)
<1> DEFINE P == {r \in Seq(A) : Keep(s \o r, S) = Keep(s, S) \o Keep(r, S)}
<1>0. Keep(s, S) \in Seq(A \cap S)
  BY KeepTyped
<1>1. <<>> \in P
  <2>1. <<>> \in Seq(A) /\ s \o <<>> = s /\ Keep(s, S) \o <<>> = Keep(s, S)
    BY <1>0
  <2>2. Keep(<<>>, S) = <<>>
    BY FoldsOfNothing
  <2> QED BY <2>1, <2>2
<1>2. ASSUME NEW r \in Seq(A), NEW x \in A, r \in P PROVE Append(r, x) \in P
  <2>1. Keep(Append(r, x), S) = IF x \in S THEN Append(Keep(r, S), x) ELSE Keep(r, S)
    BY KeepAppend
  <2>2. s \o r \in Seq(A) /\ s \o Append(r, x) = Append(s \o r, x)
    OBVIOUS
  <2>3. Keep(s \o Append(r, x), S) = IF x \in S THEN Append(Keep(s \o r, S), x) ELSE Keep(s \o r, S)
    BY <2>2, KeepAppend
  <2>4. Keep(r, S) \in Seq(A \cap S)
    BY KeepTyped
  <2>5. Keep(s, S) \o Append(Keep(r, S), x) = Append(Keep(s, S) \o Keep(r, S), x)
    BY <1>0, <2>4
  <2>6. Keep(s \o r, S) = Keep(s, S) \o Keep(r, S)
    BY <1>2
  <2>7. Append(r, x) \in Seq(A)
    OBVIOUS
  <2>8. Keep(s \o Append(r, x), S) = Keep(s, S) \o Keep(Append(r, x), S)
    BY <2>1, <2>3, <2>5, <2>6
  <2> QED BY <2>7, <2>8
<1> HIDE DEF P
<1>3. Seq(A) \subseteq P
  BY <1>1, <1>2, ListInduction
<1> QED BY <1>3 DEF P

-----------------------------------------------------------------------------
(* Conversations.                                                          *)

Ids == Nat \X Nat
Calls == [id : Ids, name : Names]
Messages ==
  {User} \cup [role : {"assistant"}, calls : Seq(Calls), text : BOOLEAN]
         \cup [role : {"tool"}, id : Ids, ok : BOOLEAN]

\* Turns of the Anthropic API.
Blocks == {Text} \cup [type : {"tool_use", "tool_result"}, id : Ids]
Said == [role : {"user", "assistant"}, content : Seq(Blocks)]

\* The messages that will answer calls, and a conversation they are part of.
Answered(calls) == [k \in DOMAIN calls |-> ToolResult(calls[k], TRUE)]

LEMMA AnsweredTyped ==
  ASSUME NEW calls \in Seq(Calls)
  PROVE  Answered(calls) \in Seq(Messages) /\ Len(Answered(calls)) = Len(calls)
<1>1. \A c \in Calls : ToolResult(c, TRUE) \in Messages
  BY DEF ToolResult, Messages, Calls
<1>2. \A k \in DOMAIN calls : calls[k] \in Calls
  OBVIOUS
<1>3. Len(calls) \in Nat /\ DOMAIN calls = 1 .. Len(calls)
  OBVIOUS
<1>4. Answered(calls) \in [1 .. Len(calls) -> Messages]
  BY <1>1, <1>2, <1>3 DEF Answered
<1> QED BY <1>3, <1>4

LEMMA AnthropicTurnTyped ==
  ASSUME NEW m \in Messages
  PROVE  AnthropicTurn(m) \in Said
<1>1. CASE m = User
  BY <1>1 DEF User, AnthropicTurn, Said, Blocks
<1>2. CASE m \in [role : {"assistant"}, calls : Seq(Calls), text : BOOLEAN]
  <2>1. Says(m.text) \in Seq(Blocks)
    <3>1. Text \in Blocks
      BY DEF Blocks
    <3> QED BY <3>1 DEF Says
  <2>2. m.calls \in Seq(Calls)
    BY <1>2
  <2>3. \A k \in DOMAIN m.calls : ToolUse(m.calls[k]) \in Blocks
    <3>1. \A c \in Calls : ToolUse(c) \in Blocks
      BY DEF ToolUse, Calls, Blocks
    <3> QED BY <2>2, <3>1
  <2>4. [k \in DOMAIN m.calls |-> ToolUse(m.calls[k])] \in Seq(Blocks)
    BY <2>2, <2>3
  <2>5. Says(m.text) \o [k \in DOMAIN m.calls |-> ToolUse(m.calls[k])] \in Seq(Blocks)
    BY <2>1, <2>4
  <2> QED BY <1>2, <2>5 DEF AnthropicTurn, Said
<1>3. CASE m \in [role : {"tool"}, id : Ids, ok : BOOLEAN]
  BY <1>3 DEF Result, AnthropicTurn, Said, Blocks
<1> QED BY <1>1, <1>2, <1>3 DEF Messages

LEMMA LastOfAppend ==
  ASSUME NEW A, NEW s \in Seq(A), NEW x
  PROVE  Last(Append(s, x)) = x /\ Front(Append(s, x)) = s /\ Append(s, x) # <<>>
<1>1. Last(Append(s, x)) = x /\ Append(s, x) # <<>>
  BY DEF Last
<1>2. Front(Append(s, x)) = s
  BY DEF Front
<1> QED BY <1>1, <1>2

\* Turns of a conversation are turns, and there are some.
LEMMA TurnsTyped ==
  ASSUME NEW s \in Seq(Said)
  PROVE  Turns(s) \in Seq(Said) /\ (s # <<>> => Turns(s) # <<>>)
<1> DEFINE P == {r \in Seq(Said) : Turns(r) \in Seq(Said) /\ (r # <<>> => Turns(r) # <<>>)}
<1>1. <<>> \in P
  <2>1. <<>> \in Seq(Said) /\ Turns(<<>>) = <<>>
    BY FoldsOfNothing
  <2> QED BY <2>1
<1>2. ASSUME NEW r \in Seq(Said), NEW x \in Said, r \in P PROVE Append(r, x) \in P
  <2> DEFINE v == Turns(r)
  <2>1. Turns(Append(r, x)) = JoinTurn(v, x)
    BY TurnsAppend
  <2>2. v \in Seq(Said)
    BY <1>2
  <2> HIDE DEF v
  <2>3. CASE v # <<>> /\ Last(v).role = x.role
    <3>1. Last(v) \in Said /\ Front(v) \in Seq(Said)
      BY <2>2, <2>3 DEF Last, Front
    <3>2. [x EXCEPT !.content = Last(v).content \o @] \in Said
      <4>1. Last(v).content \in Seq(Blocks) /\ x.content \in Seq(Blocks)
        BY <3>1 DEF Said
      <4>2. Last(v).content \o x.content \in Seq(Blocks)
        BY <4>1
      <4> QED BY <4>2 DEF Said
    <3>3. JoinTurn(v, x) = Append(Front(v), [x EXCEPT !.content = Last(v).content \o @])
      BY <2>3 DEF JoinTurn
    <3>4. JoinTurn(v, x) \in Seq(Said) /\ JoinTurn(v, x) # <<>>
      BY <3>1, <3>2, <3>3, LastOfAppend
    <3> QED BY <2>1, <3>4
  <2>4. CASE ~(v # <<>> /\ Last(v).role = x.role)
    <3>1. JoinTurn(v, x) = Append(v, x)
      BY <2>4 DEF JoinTurn
    <3>2. JoinTurn(v, x) \in Seq(Said) /\ JoinTurn(v, x) # <<>>
      BY <2>2, <3>1
    <3> QED BY <2>1, <3>2
  <2> QED BY <2>3, <2>4
<1> HIDE DEF P
<1>3. Seq(Said) \subseteq P
  BY <1>1, <1>2, ListInduction
<1> QED BY <1>3 DEF P

\* The results of one reply's calls, each a message of its own, become one turn.
ResultBlock(id) == [type |-> "tool_result", id |-> id]
ResultTurn(id) == [role |-> "user", content |-> <<ResultBlock(id)>>]
ResultTurns(ids) == [k \in DOMAIN ids |-> ResultTurn(ids[k])]
ResultsTurn(ids) == [role |-> "user", content |-> [k \in DOMAIN ids |-> ResultBlock(ids[k])]]

LEMMA JoinedContent ==
  ASSUME NEW c, NEW d
  PROVE  [[role |-> "user", content |-> c] EXCEPT !.content = d \o @] = [role |-> "user", content |-> d \o c]
<1> DEFINE m == [role |-> "user", content |-> c]
<1>1. ASSUME NEW e PROVE [m EXCEPT !.content = e] = [role |-> "user", content |-> e]
  OBVIOUS
<1>2. [m EXCEPT !.content = d \o m.content] = [role |-> "user", content |-> d \o m.content]
  <2> HIDE DEF m
  <2> QED BY <1>1
<1>3. m.content = c
  OBVIOUS
<1> QED BY <1>2, <1>3

LEMMA ResultsJoin ==
  ASSUME NEW api \in Seq(Said), NEW a \in Said, a.role = "assistant",
         Turns(api) = <<>> \/ Last(Turns(api)).role = "user",
         NEW ids \in Seq(Ids)
  PROVE  Turns(Append(api, a) \o ResultTurns(ids)) =
           IF ids = <<>> THEN Append(Turns(api), a)
           ELSE Append(Append(Turns(api), a), ResultsTurn(ids))
<1> DEFINE b == Append(api, a)
           T == Turns(api)
           U == Append(T, a)
           P == {q \in Seq(Ids) : Turns(b \o ResultTurns(q)) =
                                    IF q = <<>> THEN U ELSE Append(U, ResultsTurn(q))}
<1>0. b \in Seq(Said) /\ T \in Seq(Said) /\ U \in Seq(Said) /\ U # <<>>
  <2>1. T \in Seq(Said)
    BY TurnsTyped
  <2> HIDE DEF T
  <2> QED BY <2>1
<1>1. Turns(b) = U
  <2>1. Turns(b) = JoinTurn(T, a)
    BY TurnsAppend
  <2> QED BY <2>1 DEF JoinTurn
<1>2. <<>> \in P
  <2>1. <<>> \in Seq(Ids) /\ ResultTurns(<<>>) = <<>>
    BY DEF ResultTurns
  <2>2. b \o <<>> = b
    BY <1>0
  <2> QED BY <1>1, <2>1, <2>2
<1>3. ASSUME NEW q \in Seq(Ids), NEW x \in Ids, q \in P PROVE Append(q, x) \in P
  <2> DEFINE v == Turns(b \o ResultTurns(q))
             r == ResultTurn(x)
  <2>1. ResultTurns(q) \in Seq(Said) /\ r \in Said
    <3>1. \A y \in Ids : ResultTurn(y) \in Said
      BY DEF ResultTurn, ResultBlock, Said, Blocks
    <3> QED BY <3>1 DEF ResultTurns
  <2>2. ResultTurns(Append(q, x)) = Append(ResultTurns(q), r)
    BY DEF ResultTurns
  <2> HIDE DEF b, U, T, P, r
  <2>3. b \o Append(ResultTurns(q), r) = Append(b \o ResultTurns(q), r) /\ b \o ResultTurns(q) \in Seq(Said)
    BY <1>0, <2>1
  <2>4. Turns(b \o ResultTurns(Append(q, x))) = JoinTurn(v, r)
    BY <2>2, <2>3, TurnsAppend
  <2>5. v = IF q = <<>> THEN U ELSE Append(U, ResultsTurn(q))
    BY <1>3 DEF P
  <2> HIDE DEF v
  <2>6. JoinTurn(v, r) = Append(U, ResultsTurn(Append(q, x)))
    <3>1. CASE q = <<>>
      <4>1. v = U /\ Last(v).role = "assistant" /\ r.role = "user"
        BY <1>0, <2>5, <3>1, LastOfAppend DEF U, T, r, ResultTurn
      <4>2. JoinTurn(v, r) = Append(U, r)
        BY <4>1 DEF JoinTurn
      <4>3. ResultsTurn(Append(q, x)) = r
        BY <3>1 DEF ResultsTurn, r, ResultTurn
      <4> QED BY <4>2, <4>3
    <3>2. CASE q # <<>>
      <4>1. v = Append(U, ResultsTurn(q))
        BY <2>5, <3>2
      <4>2. Last(v) = ResultsTurn(q) /\ Front(v) = U /\ v # <<>>
        BY <1>0, <4>1, LastOfAppend
      <4>3. JoinTurn(v, r) = Append(U, [r EXCEPT !.content = ResultsTurn(q).content \o @])
        BY <4>2 DEF JoinTurn, ResultsTurn, r, ResultTurn
      <4>4. ResultsTurn(q).content \o <<ResultBlock(x)>> = ResultsTurn(Append(q, x)).content
        BY DEF ResultsTurn
      <4>5. [r EXCEPT !.content = ResultsTurn(q).content \o @] = ResultsTurn(Append(q, x))
        <5> DEFINE c == ResultsTurn(q).content \o <<ResultBlock(x)>>
        <5>1. [r EXCEPT !.content = ResultsTurn(q).content \o @] = [role |-> "user", content |-> c]
          BY JoinedContent DEF r, ResultTurn
        <5>2. ResultsTurn(Append(q, x)) = [role |-> "user", content |-> ResultsTurn(Append(q, x)).content]
          BY DEF ResultsTurn
        <5> HIDE DEF c
        <5> QED BY <4>4, <5>1, <5>2 DEF c
      <4> QED BY <4>3, <4>5
    <3> QED BY <3>1, <3>2
  <2>7. Append(q, x) \in Seq(Ids) /\ Append(q, x) # <<>>
    BY LastOfAppend
  <2> QED BY <2>4, <2>6, <2>7 DEF P
<1> HIDE DEF P
<1>4. Seq(Ids) \subseteq P
  BY <1>2, <1>3, ListInduction
<1> QED BY <1>4 DEF P

-----------------------------------------------------------------------------
(* What an accepted conversation becomes when a reply's calls are added,   *)
(* and the results that will answer them.                                  *)

IdsOfCalls(calls) == [k \in DOMAIN calls |-> calls[k].id]

\* A list of blocks of one type shows its ids, and none of another type.
LEMMA IdsOfBlocks ==
  ASSUME NEW type \in {"tool_use", "tool_result"}, NEW ids \in Seq(Ids), NEW text \in BOOLEAN,
         NEW turn,
         turn.content = Says(text) \o [k \in DOMAIN ids |-> [type |-> type, id |-> ids[k]]]
  PROVE  IdsOf(turn, type) = ids
<1> DEFINE S == [type : {type}, id : Nat \X Nat]
           b == [k \in DOMAIN ids |-> [type |-> type, id |-> ids[k]]]
           A == S \cup {Text}
<1>1. b \in Seq(S) /\ Len(b) = Len(ids)
  <2>1. \A i \in Ids : [type |-> type, id |-> i] \in S
    BY DEF Ids
  <2>2. b \in [1 .. Len(ids) -> S] /\ Len(ids) \in Nat
    <3> HIDE DEF S
    <3> QED BY <2>1
  <2> HIDE DEF S, b
  <2> QED BY <2>2
<1>2. Text \notin S
  BY DEF Text
<1>3. Says(text) \in Seq({Text})
  <2>1. <<>> \in Seq({Text}) /\ <<Text>> \in Seq({Text})
    OBVIOUS
  <2> QED BY <2>1 DEF Says
<1>4. \A k \in DOMAIN b : b[k].id = ids[k]
  OBVIOUS
<1>5. DOMAIN b = DOMAIN ids
  OBVIOUS
<1>0. turn.content = Says(text) \o b
  OBVIOUS
<1> HIDE DEF S, b
<1>6. b \in Seq(A) /\ Says(text) \in Seq(A) /\ {Text} \cap S = {}
  BY <1>1, <1>2, <1>3
<1> HIDE DEF A
<1>7. Keep(turn.content, S) = Keep(Says(text), S) \o Keep(b, S)
  <2>1. Keep(Says(text) \o b, S) = Keep(Says(text), S) \o Keep(b, S)
    BY ONLY <1>6, KeepConcat
  <2> QED BY <1>0, <2>1
<1>8. Keep(b, S) = b
  BY <1>1, KeepAll
<1>9. Keep(Says(text), S) = <<>>
  BY <1>3, <1>6, KeepNone
<1>10. Keep(turn.content, S) = b
  BY <1>1, <1>7, <1>8, <1>9
<1>11. IdsOf(turn, type) = [k \in DOMAIN b |-> b[k].id]
  BY <1>10 DEF IdsOf, S
<1>12. [k \in DOMAIN b |-> b[k].id] = [k \in DOMAIN ids |-> ids[k]]
  BY <1>4, <1>5
<1>13. ids = [k \in DOMAIN ids |-> ids[k]]
  OBVIOUS
<1> QED BY <1>11, <1>12, <1>13

LEMMA AppendConcat ==
  ASSUME NEW A, NEW s \in Seq(A), NEW x \in A, NEW u \in Seq(A), NEW l,
         l = Append(s, x) \o u
  PROVE  /\ l \in Seq(A) /\ Len(l) = Len(s) + 1 + Len(u) /\ DOMAIN l = 1 .. Len(s) + 1 + Len(u)
         /\ \A i \in 1 .. Len(s) : l[i] = s[i]
         /\ l[Len(s) + 1] = x
         /\ \A j \in 1 .. Len(u) : l[Len(s) + 1 + j] = u[j]
<1> DEFINE b == Append(s, x)
<1>1. /\ b \in Seq(A) /\ Len(b) = Len(s) + 1 /\ Len(s) \in Nat /\ b[Len(s) + 1] = x
      /\ \A i \in 1 .. Len(s) : b[i] = s[i]
  OBVIOUS
<1>2. l = b \o u
  OBVIOUS
<1> HIDE DEF b
<1>3. /\ b \o u \in Seq(A) /\ Len(b \o u) = Len(b) + Len(u)
      /\ \A i \in 1 .. Len(b) : (b \o u)[i] = b[i]
  <2>1. /\ b \o u \in Seq(A) /\ Len(b \o u) = Len(b) + Len(u)
        /\ \A i \in 1 .. Len(b) + Len(u) : (b \o u)[i] = IF i <= Len(b) THEN b[i] ELSE u[i - Len(b)]
    BY <1>1, ConcatProperties
  <2>2. \A i \in 1 .. Len(b) : i \in 1 .. Len(b) + Len(u) /\ i <= Len(b)
    BY <1>1
  <2> QED BY <2>1, <2>2
<1>4. \A j \in 1 .. Len(u) : (b \o u)[Len(b) + j] = u[j]
  <2>1. ASSUME NEW j \in 1 .. Len(u) PROVE (b \o u)[Len(b) + j] = u[j]
    <3>1. Len(b) + j \in 1 .. Len(b) + Len(u) /\ ~(Len(b) + j <= Len(b)) /\ (Len(b) + j) - Len(b) = j
      BY <1>1
    <3> QED BY <1>1, <3>1, ConcatProperties
  <2> QED BY <2>1
<1>5. DOMAIN (b \o u) = 1 .. Len(b) + Len(u)
  BY <1>3
<1>6. \A i \in 1 .. Len(s) : (b \o u)[i] = s[i]
  BY <1>1, <1>3
<1>7. (b \o u)[Len(s) + 1] = x
  BY <1>1, <1>3
<1> QED BY <1>1, <1>2, <1>3, <1>4, <1>5, <1>6, <1>7

\* The messages added to a conversation, as turns.
LEMMA AddedTurns ==
  ASSUME NEW ms \in Seq(Messages), NEW m \in Messages, NEW calls \in Seq(Calls)
  PROVE  AnthropicMessages(Append(ms, m) \o Answered(calls)) =
           Append(AnthropicMessages(ms), AnthropicTurn(m)) \o ResultTurns(IdsOfCalls(calls))
<1> DEFINE l == Append(ms, m) \o Answered(calls)
           r == Append(AnthropicMessages(ms), AnthropicTurn(m)) \o ResultTurns(IdsOfCalls(calls))
           n == Len(ms)
           k == Len(calls)
<1>1. n \in Nat /\ k \in Nat
  OBVIOUS
<1>2. /\ l \in Seq(Messages) /\ Len(l) = n + 1 + k /\ DOMAIN l = 1 .. n + 1 + k
      /\ \A i \in 1 .. n : l[i] = ms[i]
      /\ l[n + 1] = m
      /\ \A j \in 1 .. k : l[n + 1 + j] = ToolResult(calls[j], TRUE)
  <2>1. \A j \in 1 .. k : Answered(calls)[j] = ToolResult(calls[j], TRUE)
    <3>1. DOMAIN calls = 1 .. k
      OBVIOUS
    <3> HIDE DEF k
    <3> QED BY <3>1 DEF Answered
  <2>2. Answered(calls) \in Seq(Messages) /\ Len(Answered(calls)) = k
    BY AnsweredTyped
  <2>3. l = Append(ms, m) \o Answered(calls)
    OBVIOUS
  <2>4. ms \in Seq(Messages) /\ m \in Messages
    OBVIOUS
  <2>5. /\ l \in Seq(Messages) /\ Len(l) = n + 1 + Len(Answered(calls)) /\ DOMAIN l = 1 .. n + 1 + Len(Answered(calls))
        /\ \A i \in 1 .. n : l[i] = ms[i]
        /\ l[n + 1] = m
        /\ \A j \in 1 .. Len(Answered(calls)) : l[n + 1 + j] = Answered(calls)[j]
    <3> HIDE DEF l
    <3> QED BY ONLY <2>2, <2>3, <2>4, AppendConcat
  <2> QED BY <2>1, <2>2, <2>5
<1>3. /\ Len(AnthropicMessages(ms)) = n /\ AnthropicMessages(ms) \in Seq(Said)
      /\ \A i \in 1 .. n : AnthropicMessages(ms)[i] = AnthropicTurn(ms[i])
  BY AnthropicTurnTyped DEF AnthropicMessages
<1>4. /\ ResultTurns(IdsOfCalls(calls)) \in Seq(Said) /\ Len(ResultTurns(IdsOfCalls(calls))) = k
      /\ \A j \in 1 .. k : ResultTurns(IdsOfCalls(calls))[j] = ResultTurn(calls[j].id)
  <2>1. \A c \in Calls : ResultTurn(c.id) \in Said
    BY DEF ResultTurn, ResultBlock, Said, Blocks, Calls
  <2>2. ResultTurns(IdsOfCalls(calls)) = [j \in 1 .. k |-> ResultTurn(calls[j].id)]
    BY DEF ResultTurns, IdsOfCalls
  <2> QED BY <2>1, <2>2
<1>5. AnthropicTurn(m) \in Said
  BY AnthropicTurnTyped
<1>6. /\ r \in Seq(Said) /\ Len(r) = n + 1 + k /\ DOMAIN r = 1 .. n + 1 + k
      /\ \A i \in 1 .. n : r[i] = AnthropicTurn(ms[i])
      /\ r[n + 1] = AnthropicTurn(m)
      /\ \A j \in 1 .. k : r[n + 1 + j] = ResultTurn(calls[j].id)
  <2>1. r = Append(AnthropicMessages(ms), AnthropicTurn(m)) \o ResultTurns(IdsOfCalls(calls))
    OBVIOUS
  <2> DEFINE a == AnthropicMessages(ms)
             u == ResultTurns(IdsOfCalls(calls))
  <2>3. a \in Seq(Said) /\ u \in Seq(Said) /\ r = Append(a, AnthropicTurn(m)) \o u
    BY <1>3, <1>4, <2>1
  <2> HIDE DEF r, a, u
  <2>2. /\ r \in Seq(Said) /\ Len(r) = Len(a) + 1 + Len(u) /\ DOMAIN r = 1 .. Len(a) + 1 + Len(u)
        /\ \A i \in 1 .. Len(a) : r[i] = a[i]
        /\ r[Len(a) + 1] = AnthropicTurn(m)
        /\ \A j \in 1 .. Len(u) : r[Len(a) + 1 + j] = u[j]
    BY ONLY <1>5, <2>3, AppendConcat
  <2> QED BY <1>3, <1>4, <2>2 DEF a, u
<1>7. \A c \in Calls : AnthropicTurn(ToolResult(c, TRUE)) = ResultTurn(c.id)
  BY DEF AnthropicTurn, ToolResult, ResultTurn, ResultBlock, Result
<1> HIDE DEF l, r
<1>8. ASSUME NEW i \in 1 .. n + 1 + k PROVE AnthropicTurn(l[i]) = r[i]
  <2>1. CASE i \in 1 .. n
    BY <1>2, <1>6, <2>1
  <2>2. CASE i = n + 1
    BY <1>2, <1>6, <2>2
  <2>3. CASE i \notin 1 .. n /\ i # n + 1
    <3>1. i - (n + 1) \in 1 .. k /\ i = n + 1 + (i - (n + 1))
      BY <1>1, <2>3
    <3>2. PICK j \in 1 .. k : i = n + 1 + j
      BY <3>1
    <3>3. calls[j] \in Calls
      BY <1>1
    <3> QED BY <1>2, <1>6, <1>7, <3>2, <3>3
  <2> QED BY <2>1, <2>2, <2>3
<1>9. r = [i \in 1 .. n + 1 + k |-> r[i]]
  BY <1>6
<1>10. AnthropicMessages(l) = [i \in 1 .. n + 1 + k |-> r[i]]
  BY <1>2, <1>8 DEF AnthropicMessages
<1> QED BY <1>9, <1>10 DEF l, r

\* The first turn of a conversation: the user's task.
LEMMA AnthropicStart ==
  /\ AnthropicAccepts(AnthropicMessages(<<User>>))
  /\ <<User>> \in Seq(Messages)
<1> DEFINE t == [role |-> "user", content |-> <<Text>>]
<1>1. AnthropicMessages(<<User>>) = Append(<<>>, t)
  BY DEF AnthropicMessages, AnthropicTurn, User
<1>2. <<>> \in Seq(Said) /\ Turns(<<>>) = <<>>
  BY FoldsOfNothing
<1> HIDE DEF t
<1>3. Turns(AnthropicMessages(<<User>>)) = JoinTurn(<<>>, t)
  <2>1. Turns(Append(<<>>, t)) = JoinTurn(Turns(<<>>), t)
    BY <1>2, TurnsAppend
  <2> QED BY <1>1, <1>2, <2>1
<1>4. JoinTurn(<<>>, t) = <<t>>
  BY DEF JoinTurn
<1>5. t.content = <<Text>> /\ t.role = "user"
  BY DEF t
<1>6. IdsOf(t, "tool_result") = <<>>
  <2> DEFINE S == [type : {"tool_result"}, id : Nat \X Nat]
  <2>1. Text \notin S
    BY DEF Text
  <2> HIDE DEF S
  <2>2. <<Text>> \in Seq({Text}) /\ {Text} \cap S = {}
    BY <2>1
  <2>3. Keep(<<Text>>, S) = <<>>
    BY <2>2, KeepNone
  <2>4. IdsOf(t, "tool_result") = [k \in DOMAIN <<>> |-> <<>>[k].id]
    BY <1>5, <2>3 DEF IdsOf, S
  <2> QED BY <2>4
<1>7. /\ Turns(AnthropicMessages(<<User>>)) = <<t>>
      /\ Len(<<t>>) = 1 /\ <<t>>[1] = t /\ DOMAIN <<t>> = {1} /\ Last(<<t>>) = t
      /\ <<Text>> # <<>>
  BY <1>3, <1>4 DEF Last
<1>8. 2 .. 1 = {}
  OBVIOUS
<1>9. AnthropicAccepts(AnthropicMessages(<<User>>))
  BY <1>5, <1>6, <1>7, <1>8 DEF AnthropicAccepts
<1>10. User \in Messages
  BY DEF Messages
<1> QED BY <1>9, <1>10

\* Whatever calls a reply makes, the conversation with it and with a result for
\* each of the calls is accepted if it was without them.
LEMMA AnthropicGoesOn ==
  ASSUME NEW ms \in Seq(Messages), AnthropicAccepts(AnthropicMessages(ms)), ms # <<>>,
         NEW calls \in Seq(Calls), calls # <<>>, NEW text \in BOOLEAN
  PROVE  AnthropicAccepts(AnthropicMessages(Append(ms, Assistant(calls, text)) \o Answered(calls)))
<1> DEFINE api == AnthropicMessages(ms)
           T == Turns(api)
           m == Assistant(calls, text)
           ids == IdsOfCalls(calls)
           a == AnthropicTurn(m)
           r == ResultsTurn(ids)
           U == Append(Append(T, a), r)
           n == Len(T)
<1>1. m \in Messages
  BY DEF Assistant, Messages
<1>2. a \in Said /\ a.role = "assistant"
  <2>1. a \in Said
    BY <1>1, AnthropicTurnTyped
  <2> QED BY <2>1 DEF AnthropicTurn, Assistant
<1>3. ids \in Seq(Ids) /\ ids # <<>> /\ DOMAIN ids = DOMAIN calls
  <2>1. \A c \in Calls : c.id \in Ids
    BY DEF Calls
  <2>2. ids \in [1 .. Len(calls) -> Ids] /\ Len(calls) \in Nat \ {0}
    BY <2>1 DEF IdsOfCalls
  <2>3. ids # <<>>
    BY <2>2
  <2> QED BY <2>2, <2>3 DEF IdsOfCalls
<1>4. api \in Seq(Said) /\ api # <<>>
  BY AnthropicTurnTyped DEF AnthropicMessages
<1>5. T \in Seq(Said) /\ n \in Nat \ {0}
  <2>1. T \in Seq(Said) /\ T # <<>>
    BY <1>4, TurnsTyped
  <2> HIDE DEF T
  <2> QED BY <2>1
<1>6. /\ T[1].role = "user" /\ Last(T).role = "user"
      /\ IdsOf(T[1], "tool_result") = <<>>
      /\ \A i \in DOMAIN T : T[i].content # <<>>
      /\ \A i \in 2 .. n :
           T[i].role = "user" => IdsOf(T[i], "tool_result") = IdsOf(T[i - 1], "tool_use")
  BY DEF AnthropicAccepts
<1>7. Turns(AnthropicMessages(Append(ms, m) \o Answered(calls))) = U
  <2>1. AnthropicMessages(Append(ms, m) \o Answered(calls)) = Append(api, a) \o ResultTurns(ids)
    BY <1>1, AddedTurns
  <2> HIDE DEF api, a, ids
  <2>2. Turns(Append(api, a) \o ResultTurns(ids)) = U
    BY <1>2, <1>3, <1>4, <1>6, ResultsJoin
  <2> QED BY <2>1, <2>2
<1>8. IdsOf(a, "tool_use") = ids /\ a.content # <<>>
  <2>1. /\ a.content = Says(text) \o [k \in DOMAIN ids |-> [type |-> "tool_use", id |-> ids[k]]]
        /\ Says(text) \in Seq({Text})
    <3>1. a.content = Says(text) \o [k \in DOMAIN calls |-> ToolUse(calls[k])]
      BY DEF AnthropicTurn, Assistant
    <3>2. [k \in DOMAIN calls |-> ToolUse(calls[k])] = [k \in DOMAIN ids |-> [type |-> "tool_use", id |-> ids[k]]]
      BY <1>3 DEF ToolUse, IdsOfCalls
    <3>3. <<>> \in Seq({Text}) /\ <<Text>> \in Seq({Text})
      OBVIOUS
    <3> QED BY <3>1, <3>2, <3>3 DEF Says
  <2> HIDE DEF a, ids
  <2>2. IdsOf(a, "tool_use") = ids
    BY <1>3, <2>1, IdsOfBlocks
  <2>3. IdsOf(a, "tool_use") = <<>> \/ a.content # <<>>
    <3>1. ASSUME a.content = <<>> PROVE IdsOf(a, "tool_use") = <<>>
      BY <3>1, FoldsOfNothing DEF IdsOf
    <3> QED BY <3>1
  <2> QED BY <1>3, <2>2, <2>3
<1>9. IdsOf(r, "tool_result") = ids /\ r.content # <<>> /\ r.role = "user"
  <2>1. /\ r.content = [k \in DOMAIN ids |-> [type |-> "tool_result", id |-> ids[k]]]
        /\ r.role = "user"
    BY DEF ResultsTurn, ResultBlock
  <2> HIDE DEF ids, r
  <2>2. [k \in DOMAIN ids |-> [type |-> "tool_result", id |-> ids[k]]] = Says(FALSE) \o [k \in DOMAIN ids |-> [type |-> "tool_result", id |-> ids[k]]]
    <3> DEFINE b == [k \in DOMAIN ids |-> [type |-> "tool_result", id |-> ids[k]]]
               B == {b[k] : k \in DOMAIN ids}
    <3>1. b \in Seq(B)
      BY <1>3
    <3> HIDE DEF b, B
    <3>2. <<>> \o b = b
      BY <3>1, ConcatEmptySeq
    <3> QED BY <3>2 DEF b, Says
  <2>3. IdsOf(r, "tool_result") = ids
    BY <1>3, <2>1, <2>2, IdsOfBlocks
  <2>4. r.content # <<>>
    BY <1>3, <2>1
  <2> QED BY <2>1, <2>3, <2>4
<1> HIDE DEF api, T, m, ids, a, r, n
<1>10. /\ Len(U) = n + 2 /\ DOMAIN U = 1 .. n + 2
       /\ \A i \in 1 .. n : U[i] = T[i]
       /\ U[n + 1] = a /\ U[n + 2] = r
       /\ Last(U) = r
  BY <1>5 DEF n, Last
<1> HIDE DEF U
<1>11. U[1].role = "user" /\ IdsOf(U[1], "tool_result") = <<>> /\ Last(U).role = "user"
  BY <1>5, <1>6, <1>9, <1>10
<1>12. ASSUME NEW i \in DOMAIN U PROVE U[i].content # <<>>
  <2>1. i \in 1 .. n \/ i = n + 1 \/ i = n + 2
    BY <1>5, <1>10
  <2>2. i \in 1 .. n => i \in DOMAIN T
    BY <1>5 DEF n
  <2> QED BY <1>6, <1>8, <1>9, <1>10, <2>1, <2>2
<1>13. ASSUME NEW i \in 2 .. Len(U), U[i].role = "user"
       PROVE  IdsOf(U[i], "tool_result") = IdsOf(U[i - 1], "tool_use")
  <2>1. i \in 2 .. n \/ i = n + 1 \/ i = n + 2
    BY <1>5, <1>10
  <2>2. CASE i \in 2 .. n
    <3>1. i \in 1 .. n /\ i - 1 \in 1 .. n
      BY <1>5, <2>2
    <3> QED BY <1>6, <1>10, <1>13, <2>2, <3>1
  <2>3. CASE i = n + 1
    BY <1>2, <1>10, <1>13, <2>3
  <2>4. CASE i = n + 2
    <3>1. i - 1 = n + 1
      BY <1>5, <2>4
    <3> QED BY <1>8, <1>9, <1>10, <2>4, <3>1
  <2> QED BY <2>1, <2>2, <2>3, <2>4
<1> QED BY <1>7, <1>11, <1>12, <1>13 DEF AnthropicAccepts, m

\* The messages of the OpenAI API follow one another as those of the agent do.
LEMMA OpenAIOf ==
  ASSUME NEW ms \in Seq(Messages), NEW api, api = OpenAIMessages(ms)
  PROVE  /\ Len(api) = Len(ms) + 1 /\ DOMAIN api = 1 .. Len(ms) + 1
         /\ api[1] = [role |-> "system"]
         /\ \A i \in 1 .. Len(ms) : api[1 + i] = OpenAIMessage(ms[i])
<1> DEFINE s == <<[role |-> "system"]>>
           b == [i \in DOMAIN ms |-> OpenAIMessage(ms[i])]
           B == {b[i] : i \in DOMAIN ms} \cup {[role |-> "system"]}
<1>1. /\ s \in Seq(B) /\ Len(s) = 1 /\ s[1] = [role |-> "system"]
      /\ b \in Seq(B) /\ Len(b) = Len(ms) /\ Len(ms) \in Nat
      /\ \A i \in 1 .. Len(ms) : b[i] = OpenAIMessage(ms[i])
  OBVIOUS
<1>2. api = s \o b
  BY DEF OpenAIMessages
<1> HIDE DEF s, b, B
<1>3. /\ s \o b \in Seq(B) /\ Len(s \o b) = Len(s) + Len(b)
      /\ \A i \in 1 .. Len(s) + Len(b) : (s \o b)[i] = IF i <= Len(s) THEN s[i] ELSE b[i - Len(s)]
  BY <1>1, ConcatProperties
<1>4. api[1] = [role |-> "system"]
  BY <1>1, <1>2, <1>3
<1>5. ASSUME NEW i \in 1 .. Len(ms) PROVE api[1 + i] = OpenAIMessage(ms[i])
  <2>1. 1 + i \in 1 .. Len(s) + Len(b) /\ ~(1 + i <= Len(s)) /\ (1 + i) - Len(s) = i
    BY <1>1
  <2> QED BY <1>1, <1>2, <1>3, <2>1
<1> QED BY <1>1, <1>2, <1>3, <1>4, <1>5

LEMMA OpenAIStart == OpenAIAccepts(OpenAIMessages(<<User>>))
<1> DEFINE api == OpenAIMessages(<<User>>)
<1>1. <<User>> \in Seq(Messages) /\ Len(<<User>>) = 1
  BY DEF Messages
<1>2. api[1] = [role |-> "system"] /\ api[1 + 1] = OpenAIMessage(User) /\ DOMAIN api = 1 .. 2
  <2>1. api = OpenAIMessages(<<User>>)
    OBVIOUS
  <2> HIDE DEF api
  <2>2. /\ DOMAIN api = 1 .. 1 + 1 /\ api[1] = [role |-> "system"]
        /\ \A i \in 1 .. 1 : api[1 + i] = OpenAIMessage(<<User>>[i])
    BY <1>1, <2>1, OpenAIOf
  <2> QED BY <2>2
<1>3. \A i \in DOMAIN api : api[i].role \in {"system", "user"}
  BY <1>2 DEF OpenAIMessage, User
<1> HIDE DEF api
<1>4. OpenAIAccepts(api)
  BY <1>3 DEF OpenAIAccepts
<1> QED BY <1>4 DEF api

LEMMA OpenAIGoesOn ==
  ASSUME NEW ms \in Seq(Messages), OpenAIAccepts(OpenAIMessages(ms)),
         NEW calls \in Seq(Calls), calls # <<>>, NEW text \in BOOLEAN
  PROVE  OpenAIAccepts(OpenAIMessages(Append(ms, Assistant(calls, text)) \o Answered(calls)))
<1> DEFINE m == Assistant(calls, text)
           l == Append(ms, m) \o Answered(calls)
           n == Len(ms) + 1
           k == Len(calls)
           old == OpenAIMessages(ms)
           api == OpenAIMessages(l)
           ids == IdsOfCalls(calls)
<1>1. n \in Nat \ {0} /\ k \in Nat \ {0} /\ DOMAIN ids = 1 .. k /\ Len(ids) = k /\ ids # <<>>
  <2>1. k \in Nat \ {0} /\ DOMAIN calls = 1 .. k
    OBVIOUS
  <2>2. DOMAIN ids = 1 .. k
    BY <2>1 DEF IdsOfCalls
  <2>3. Len(ids) = k /\ ids # <<>>
    <3> HIDE DEF ids
    <3> QED BY <2>1, <2>2
  <2> QED BY <2>1, <2>2, <2>3
<1>2. /\ l \in Seq(Messages) /\ Len(l) = n + k
      /\ \A i \in 1 .. n - 1 : l[i] = ms[i]
      /\ l[n] = m
      /\ \A j \in 1 .. k : l[n + j] = ToolResult(calls[j], TRUE)
  <2> DEFINE u == Answered(calls)
  <2>1. m \in Messages
    BY DEF Assistant, Messages
  <2>2. u \in Seq(Messages) /\ Len(u) = k
    BY AnsweredTyped
  <2>3. \A j \in 1 .. k : u[j] = ToolResult(calls[j], TRUE)
    <3>1. DOMAIN calls = 1 .. k
      OBVIOUS
    <3> HIDE DEF k
    <3> QED BY <3>1 DEF Answered
  <2>4. l = Append(ms, m) \o u /\ ms \in Seq(Messages)
    OBVIOUS
  <2> HIDE DEF l, m, u
  <2>5. /\ l \in Seq(Messages) /\ Len(l) = Len(ms) + 1 + Len(u)
        /\ \A i \in 1 .. Len(ms) : l[i] = ms[i]
        /\ l[Len(ms) + 1] = m
        /\ \A j \in 1 .. Len(u) : l[Len(ms) + 1 + j] = u[j]
    BY ONLY <2>1, <2>2, <2>4, AppendConcat
  <2>6. Len(ms) = n - 1 /\ Len(ms) + 1 = n
    OBVIOUS
  <2> HIDE DEF n, k
  <2> QED BY <1>1, <2>2, <2>3, <2>5, <2>6
<1>3. /\ Len(old) = n /\ DOMAIN old = 1 .. n /\ old[1] = [role |-> "system"]
      /\ \A i \in 1 .. n - 1 : old[1 + i] = OpenAIMessage(ms[i])
  BY OpenAIOf
<1>4. /\ Len(api) = n + k + 1 /\ DOMAIN api = 1 .. n + k + 1 /\ api[1] = [role |-> "system"]
      /\ \A i \in 1 .. n + k : api[1 + i] = OpenAIMessage(l[i])
  <2>1. api = OpenAIMessages(l) /\ Len(l) + 1 = n + k + 1
    BY <1>1, <1>2
  <2> HIDE DEF l, api, n, k
  <2>2. /\ Len(api) = Len(l) + 1 /\ DOMAIN api = 1 .. Len(l) + 1
        /\ api[1] = [role |-> "system"]
        /\ \A i \in 1 .. Len(l) : api[1 + i] = OpenAIMessage(l[i])
    BY ONLY <1>2, <2>1, OpenAIOf
  <2> QED BY <1>2, <2>1, <2>2
<1>5. OpenAIMessage(m) = [role |-> "assistant", toolCalls |-> ids]
  BY DEF OpenAIMessage, Assistant, IdsOfCalls
<1>6. \A c \in Calls : OpenAIMessage(ToolResult(c, TRUE)) = [role |-> "tool", toolCallId |-> c.id]
  BY DEF OpenAIMessage, ToolResult
<1>7. \A j \in 1 .. k : calls[j] \in Calls /\ ids[j] = calls[j].id
  BY DEF IdsOfCalls
<1> HIDE DEF m, l, n, k, old, api, ids
<1>8. ASSUME NEW i \in 1 .. n PROVE api[i] = old[i]
  <2>1. CASE i = 1
    BY <1>3, <1>4, <2>1
  <2>2. CASE i # 1
    <3>1. i - 1 \in 1 .. n - 1 /\ i - 1 \in 1 .. n + k /\ 1 + (i - 1) = i
      BY <1>1, <2>2
    <3> QED BY <1>2, <1>3, <1>4, <3>1
  <2> QED BY <2>1, <2>2
<1>9. api[n + 1] = [role |-> "assistant", toolCalls |-> ids]
  <2>1. n \in 1 .. n + k /\ 1 + n = n + 1
    BY <1>1
  <2> QED BY <1>2, <1>4, <1>5, <2>1
<1>10. ASSUME NEW j \in 1 .. k PROVE api[n + 1 + j] = [role |-> "tool", toolCallId |-> ids[j]]
  <2>1. n + j \in 1 .. n + k /\ 1 + (n + j) = n + 1 + j
    BY <1>1
  <2> QED BY <1>2, <1>4, <1>6, <1>7, <2>1
<1>11. \A i \in DOMAIN api : i \in 1 .. n \/ i = n + 1 \/ \E j \in 1 .. k : i = n + 1 + j
  <2> SUFFICES ASSUME NEW i \in 1 .. n + k + 1, i \notin 1 .. n, i # n + 1
               PROVE  \E j \in 1 .. k : i = n + 1 + j
    BY <1>4
  <2>1. i - (n + 1) \in 1 .. k /\ i = n + 1 + (i - (n + 1))
    BY <1>1
  <2> QED BY <2>1
<1>12. ASSUME NEW i \in DOMAIN api, api[i].role = "assistant", NEW c, c = api[i].toolCalls
       PROVE  /\ c # <<>> /\ i + Len(c) <= Len(api)
              /\ \A j \in DOMAIN c :
                   /\ api[i + j].role = "tool"
                   /\ \E h \in DOMAIN c : api[i + h] = [role |-> "tool", toolCallId |-> c[j]]
  <2>1. CASE i \in 1 .. n
    <3>1. /\ c # <<>> /\ i + Len(c) <= Len(old)
          /\ \A j \in DOMAIN c :
               /\ old[i + j].role = "tool"
               /\ \E h \in DOMAIN c : old[i + h] = [role |-> "tool", toolCallId |-> c[j]]
      BY <1>3, <1>8, <1>12, <2>1 DEF OpenAIAccepts, old
    <3>2. \A j \in 1 .. n : api[j] = old[j]
      BY <1>8
    <3>3. i \in 1 .. n /\ old[i] = api[i] /\ old[i] = old[1 + (i - 1)]
      BY <1>1, <1>8, <2>1
    <3>4. c \in Seq(Ids)
      <4>1. i # 1
        BY <1>3, <1>12, <3>3
      <4>2. i - 1 \in 1 .. n - 1
        BY <1>1, <3>3, <4>1
      <4>3. ms[i - 1] \in Messages /\ old[i] = OpenAIMessage(ms[i - 1])
        BY <1>3, <3>3, <4>2 DEF n
      <4>4. ms[i - 1].role = "assistant" /\ c = [j \in DOMAIN ms[i - 1].calls |-> ms[i - 1].calls[j].id]
        BY <1>12, <3>3, <4>3 DEF OpenAIMessage, Messages, User
      <4>5. ms[i - 1].calls \in Seq(Calls)
        BY <4>3, <4>4 DEF Messages, User
      <4>6. \A d \in Calls : d.id \in Ids
        BY DEF Calls
      <4> DEFINE d == ms[i - 1].calls
      <4>8. d \in Seq(Calls) /\ c = [j \in DOMAIN d |-> d[j].id]
        BY <4>4, <4>5
      <4> HIDE DEF d
      <4>9. Len(d) \in Nat /\ c \in [1 .. Len(d) -> Ids]
        BY <4>6, <4>8
      <4> QED BY <4>9
    <3>5. \A j \in DOMAIN c : i + j \in 1 .. n
      BY <1>1, <1>3, <3>1, <3>3, <3>4
    <3>6. i + Len(c) <= Len(api)
      BY <1>1, <1>3, <1>4, <3>1, <3>3, <3>4
    <3> QED BY <3>1, <3>2, <3>5, <3>6
  <2>2. CASE i = n + 1
    <3>1. c = ids
      BY <1>9, <1>12, <2>2
    <3>2. \A j \in 1 .. k : api[i + j] = [role |-> "tool", toolCallId |-> ids[j]]
      BY <1>10, <2>2
    <3>3. i + k <= Len(api)
      BY <1>1, <1>4, <2>2
    <3> QED BY <1>1, <3>1, <3>2, <3>3
  <2>3. CASE \E j \in 1 .. k : i = n + 1 + j
    <3>1. PICK j \in 1 .. k : i = n + 1 + j
      BY <2>3
    <3>2. api[i] = [role |-> "tool", toolCallId |-> ids[j]]
      BY <1>10, <3>1
    <3> QED BY <1>12, <3>2
  <2> QED BY <1>11, <2>1, <2>2, <2>3
<1>13. ASSUME NEW i \in DOMAIN api, api[i].role = "tool"
       PROVE  \E j \in 1 .. i - 1 : api[j].role = "assistant" /\ i - j <= Len(api[j].toolCalls)
  <2>1. CASE i \in 1 .. n
    <3>1. PICK j \in 1 .. i - 1 : old[j].role = "assistant" /\ i - j <= Len(old[j].toolCalls)
      BY <1>3, <1>8, <1>13, <2>1 DEF OpenAIAccepts, old
    <3>2. j \in 1 .. n
      BY <1>1, <2>1
    <3> QED BY <1>8, <3>1, <3>2
  <2>2. CASE i = n + 1
    BY <1>9, <1>13, <2>2
  <2>3. CASE \E j \in 1 .. k : i = n + 1 + j
    <3>1. n + 1 \in 1 .. i - 1 /\ i - (n + 1) <= k
      BY <1>1, <2>3
    <3>2. api[n + 1].role = "assistant" /\ Len(api[n + 1].toolCalls) = k
      BY <1>1, <1>9
    <3> QED BY <3>1, <3>2
  <2> QED BY <1>11, <2>1, <2>2, <2>3
<1>14. OpenAIAccepts(api)
  BY <1>12, <1>13 DEF OpenAIAccepts
<1> QED BY <1>14 DEF api, l, m

-----------------------------------------------------------------------------
(* The loop of Agent.run.                                                  *)

\* The conversation with the results it still owes its last reply.  This is what
\* stays acceptable: while tools are executed the conversation itself is not.
Owed == messages \o Answered(pending)

ConversationInv ==
  /\ rounds \in Nat
  /\ messages \in Seq(Messages) /\ pending \in Seq(Calls)
  /\ loop = "tools" => pending # <<>>
  /\ loop = "chat" => pending = <<>>
  /\ loop \in {"chat", "tools"} =>
       /\ messages # <<>>
       /\ AnthropicAccepts(AnthropicMessages(Owed))
       /\ OpenAIAccepts(OpenAIMessages(Owed))
       /\ rounds = Cardinality({i \in DOMAIN messages : messages[i].role = "assistant"})

LEMMA NothingOwed ==
  ASSUME NEW ms \in Seq(Messages)
  PROVE  ms \o Answered(<<>>) = ms
<1>1. Answered(<<>>) = <<>>
  BY DEF Answered
<1>2. ms \o <<>> = ms
  BY ConcatEmptySeq
<1> QED BY <1>1, <1>2

\* A result, whether a tool succeeded or not, takes the place of the one owed.
LEMMA PaidOff ==
  ASSUME NEW ms \in Seq(Messages), NEW calls \in Seq(Calls), calls # <<>>,
         NEW ok \in BOOLEAN
  PROVE  LET paid == Append(ms, ToolResult(Head(calls), ok)) \o Answered(Tail(calls))
         IN /\ AnthropicMessages(paid) = AnthropicMessages(ms \o Answered(calls))
            /\ OpenAIMessages(paid) = OpenAIMessages(ms \o Answered(calls))
<1> DEFINE r == ToolResult(Head(calls), ok)
           l1 == Append(ms, r) \o Answered(Tail(calls))
           l2 == ms \o Answered(calls)
           n == Len(ms)
           k == Len(calls)
           u == Answered(calls)
           v == Answered(Tail(calls))
<1>1. n \in Nat /\ k \in Nat \ {0} /\ Head(calls) = calls[1] /\ \A j \in 1 .. k : calls[j] \in Calls
  OBVIOUS
<1>2. /\ Tail(calls) \in Seq(Calls) /\ Len(Tail(calls)) = k - 1
      /\ \A j \in 1 .. k - 1 : Tail(calls)[j] = calls[j + 1]
  OBVIOUS
<1>3. /\ u \in Seq(Messages) /\ Len(u) = k
      /\ \A j \in 1 .. k : u[j] = ToolResult(calls[j], TRUE)
  <2>1. u \in Seq(Messages) /\ Len(u) = k
    BY AnsweredTyped
  <2>2. DOMAIN calls = 1 .. k
    OBVIOUS
  <2> HIDE DEF k
  <2> QED BY <2>1, <2>2 DEF Answered
<1>4. /\ v \in Seq(Messages) /\ Len(v) = k - 1
      /\ \A j \in 1 .. k - 1 : v[j] = ToolResult(calls[j + 1], TRUE)
  <2>1. v \in Seq(Messages) /\ Len(v) = k - 1
    BY <1>2, AnsweredTyped
  <2>2. DOMAIN Tail(calls) = 1 .. k - 1
    BY <1>2
  <2> HIDE DEF k
  <2> QED BY <1>2, <2>1, <2>2 DEF Answered
<1>5. \A c \in Calls : ToolResult(c, ok) \in Messages
  BY DEF ToolResult, Calls, Messages
<1> HIDE DEF k, u, v
<1>6. /\ l2 \in Seq(Messages) /\ Len(l2) = n + k
      /\ \A i \in 1 .. n : l2[i] = ms[i]
      /\ \A j \in 1 .. k : l2[n + j] = u[j]
  <2>1. /\ ms \o u \in Seq(Messages) /\ Len(ms \o u) = n + k
        /\ \A i \in 1 .. n + k : (ms \o u)[i] = IF i <= n THEN ms[i] ELSE u[i - n]
    BY <1>3, ConcatProperties
  <2>2. l2 = ms \o u
    BY DEF u
  <2> HIDE DEF n, l2
  <2>3. \A i \in 1 .. n : i \in 1 .. n + k /\ i <= n
    BY <1>1
  <2>4. \A j \in 1 .. k : n + j \in 1 .. n + k /\ ~(n + j <= n) /\ (n + j) - n = j
    BY <1>1
  <2> QED BY <2>1, <2>2, <2>3, <2>4
<1>7. /\ l1 \in Seq(Messages) /\ Len(l1) = n + 1 + Len(v)
      /\ \A i \in 1 .. n : l1[i] = ms[i]
      /\ l1[n + 1] = r
      /\ \A j \in 1 .. Len(v) : l1[n + 1 + j] = v[j]
  <2>1. l1 = Append(ms, r) \o v /\ v \in Seq(Messages) /\ r \in Messages /\ ms \in Seq(Messages)
    BY <1>1, <1>4, <1>5 DEF v
  <2> HIDE DEF l1, r, n
  <2>2. /\ l1 \in Seq(Messages) /\ Len(l1) = Len(ms) + 1 + Len(v)
        /\ \A i \in 1 .. Len(ms) : l1[i] = ms[i]
        /\ l1[Len(ms) + 1] = r
        /\ \A j \in 1 .. Len(v) : l1[Len(ms) + 1 + j] = v[j]
    BY ONLY <2>1, AppendConcat
  <2> QED BY <2>2 DEF n
<1>8. \A c \in Calls :
        /\ AnthropicTurn(ToolResult(c, ok)) = AnthropicTurn(ToolResult(c, TRUE))
        /\ OpenAIMessage(ToolResult(c, ok)) = OpenAIMessage(ToolResult(c, TRUE))
  BY DEF AnthropicTurn, ToolResult, Result, OpenAIMessage
<1>0. r = ToolResult(Head(calls), ok)
  OBVIOUS
<1> HIDE DEF n, l1, l2, r
<1>9. ASSUME NEW i \in 1 .. n + k
      PROVE  AnthropicTurn(l1[i]) = AnthropicTurn(l2[i]) /\ OpenAIMessage(l1[i]) = OpenAIMessage(l2[i])
  <2>1. CASE i \in 1 .. n
    BY <1>6, <1>7, <2>1
  <2>2. CASE i = n + 1
    <3>1. 1 \in 1 .. k /\ calls[1] \in Calls
      BY <1>1
    <3>2. l1[i] = ToolResult(calls[1], ok)
      BY <1>0, <1>1, <1>7, <2>2
    <3>3. l2[i] = u[1]
      BY <1>6, <2>2, <3>1
    <3>4. u[1] = ToolResult(calls[1], TRUE)
      BY <1>3, <3>1
    <3> QED BY <1>8, <3>1, <3>2, <3>3, <3>4
  <2>3. CASE i \notin 1 .. n /\ i # n + 1
    <3>1. i - (n + 1) \in 1 .. k - 1 /\ i = n + 1 + (i - (n + 1))
      BY <1>1, <2>3
    <3>2. PICK j \in 1 .. k - 1 : i = n + 1 + j
      BY <3>1
    <3>3. j + 1 \in 1 .. k /\ i = n + (j + 1)
      BY <1>1, <3>2
    <3>4. l1[i] = v[j] /\ l2[i] = u[j + 1]
      BY <1>4, <1>6, <1>7, <3>2, <3>3
    <3> QED BY <1>3, <1>4, <3>3, <3>4
  <2> QED BY <2>1, <2>2, <2>3
<1>10. DOMAIN l1 = 1 .. n + k /\ DOMAIN l2 = 1 .. n + k
  BY <1>1, <1>4, <1>6, <1>7
<1>11. AnthropicMessages(l1) = AnthropicMessages(l2) /\ OpenAIMessages(l1) = OpenAIMessages(l2)
  BY <1>9, <1>10 DEF AnthropicMessages, OpenAIMessages
<1> QED BY <1>11 DEF l1, l2, r

LEMMA ConversationStarts == LoopInit => ConversationInv
BY DEF LoopInit, ConversationInv

LEMMA StartAgentConverses ==
  ASSUME ConversationInv, StartAgent
  PROVE  ConversationInv'
<1>1. /\ loop' = "chat" /\ rounds' = 0 /\ messages' = <<User>> /\ pending' = <<>>
      /\ messages' \in Seq(Messages) /\ pending' \in Seq(Calls) /\ messages' # <<>>
  BY AnthropicStart DEF StartAgent
<1>2. messages' \o Answered(pending') = <<User>>
  BY <1>1, NothingOwed
<1>3. AnthropicAccepts(AnthropicMessages(Owed))' /\ OpenAIAccepts(OpenAIMessages(Owed))'
  <2>1. AnthropicAccepts(AnthropicMessages(messages' \o Answered(pending')))
    BY <1>2, AnthropicStart
  <2>2. OpenAIAccepts(OpenAIMessages(messages' \o Answered(pending')))
    BY <1>2, OpenAIStart
  <2> QED BY <2>1, <2>2 DEF Owed
<1>4. Cardinality({i \in DOMAIN messages' : messages'[i].role = "assistant"}) = 0
  <2>1. {i \in DOMAIN messages' : messages'[i].role = "assistant"} = {}
    BY <1>1 DEF User
  <2> QED BY <2>1, FS_EmptySet
<1> QED BY <1>1, <1>3, <1>4 DEF ConversationInv

LEMMA LoopIdles ==
  ASSUME ConversationInv, StopAgent \/ ChatRaises \/ UNCHANGED loopVars
  PROVE  ConversationInv'
<1>1. CASE StopAgent
  BY <1>1 DEF StopAgent, ConversationInv
<1>2. CASE ChatRaises
  BY <1>2 DEF ChatRaises, ConversationInv
<1>3. CASE UNCHANGED loopVars
  BY <1>3 DEF loopVars, ConversationInv, Owed
<1> QED BY <1>1, <1>2, <1>3

\* What a reply asks for.
LEMMA CallsOfReply ==
  ASSUME NEW reply \in Seq({Text} \cup Uses), NEW n \in Nat, NEW calls,
         calls = [k \in DOMAIN ToolUses(reply) |-> [id |-> <<n, k>>, name |-> ToolUses(reply)[k].name]]
  PROVE  calls \in Seq(Calls) /\ Len(calls) = Len(ToolUses(reply))
<1> DEFINE u == ToolUses(reply)
<1>1. u \in Seq(Uses)
  <2>1. ToolUses(reply) \in Seq(({Text} \cup Uses) \cap Uses)
    BY KeepTyped DEF ToolUses
  <2>2. ({Text} \cup Uses) \cap Uses = Uses
    OBVIOUS
  <2> QED BY <2>1, <2>2
<1> HIDE DEF u
<1>2. \A k \in 1 .. Len(u) : [id |-> <<n, k>>, name |-> u[k].name] \in Calls
  <2>1. \A w \in Uses : w.name \in Names
    BY DEF Uses
  <2>2. \A k \in 1 .. Len(u) : k \in Nat /\ u[k].name \in Names
    BY <1>1, <2>1
  <2> QED BY <2>2 DEF Calls, Ids
<1>3. DOMAIN u = 1 .. Len(u) /\ Len(u) \in Nat
  BY <1>1
<1>4. calls = [k \in 1 .. Len(u) |-> [id |-> <<n, k>>, name |-> u[k].name]]
  BY <1>3 DEF u
<1>5. calls \in [1 .. Len(u) -> Calls]
  BY <1>2, <1>4
<1> QED BY <1>3, <1>5 DEF u

\* The assistant's messages, one for each response with calls.
LEMMA OneMore ==
  ASSUME NEW ms \in Seq(Messages), NEW m \in Messages
  PROVE  LET n == Cardinality({i \in DOMAIN ms : ms[i].role = "assistant"})
             l == Append(ms, m)
         IN /\ n \in Nat
            /\ Cardinality({i \in DOMAIN l : l[i].role = "assistant"}) = IF m.role = "assistant" THEN n + 1 ELSE n
<1> DEFINE S == {i \in DOMAIN ms : ms[i].role = "assistant"}
           l == Append(ms, m)
           R == {i \in DOMAIN l : l[i].role = "assistant"}
           k == Len(ms) + 1
<1>1. /\ Len(ms) \in Nat /\ DOMAIN ms = 1 .. Len(ms) /\ DOMAIN l = 1 .. k /\ l[k] = m
      /\ \A i \in 1 .. Len(ms) : l[i] = ms[i]
  OBVIOUS
<1>2. IsFiniteSet(S) /\ k \notin S
  <2>1. S \subseteq 1 .. Len(ms)
    BY <1>1
  <2>2. IsFiniteSet(1 .. Len(ms))
    BY <1>1, FS_Interval
  <2>3. k \notin 1 .. Len(ms)
    BY <1>1
  <2> HIDE DEF S
  <2> QED BY <2>1, <2>2, <2>3, FS_Subset
<1>3. R = IF m.role = "assistant" THEN S \cup {k} ELSE S
  <2> HIDE DEF l
  <2> QED BY <1>1
<1> HIDE DEF S, R
<1>4. Cardinality(S) \in Nat /\ Cardinality(S \cup {k}) = Cardinality(S) + 1
  BY <1>2, FS_CardinalityType, FS_AddElement
<1> QED BY <1>3, <1>4 DEF S, R

LEMMA ChatConverses ==
  ASSUME ConversationInv, NEW reply \in Seq({Text} \cup Uses), Chat(reply)
  PROVE  ConversationInv'
<1> DEFINE u == ToolUses(reply)
           calls == [k \in DOMAIN u |-> [id |-> <<rounds + 1, k>>, name |-> u[k].name]]
           m == Assistant(calls, HasText(reply))
<1>0. /\ loop = "chat" /\ rounds \in Nat /\ rounds' = rounds + 1 /\ pending = <<>>
      /\ messages \in Seq(Messages) /\ messages # <<>> /\ pending \in Seq(Calls)
  BY DEF Chat, ConversationInv
<1>1. calls \in Seq(Calls)
  BY <1>0, CallsOfReply
<1>2. HasText(reply) \in BOOLEAN
  BY DEF HasText
<1>3. CASE calls = <<>>
  <2>1. loop' = "answered" /\ UNCHANGED <<messages, pending>>
    BY <1>3 DEF Chat
  <2> QED BY <1>0, <2>1 DEF ConversationInv
<1>4. CASE calls # <<>>
  <2>1. loop' = "tools" /\ messages' = Append(messages, m) /\ pending' = calls
    BY <1>4 DEF Chat
  <2>2. m \in Messages /\ m.role = "assistant"
    BY <1>1, <1>2 DEF Assistant, Messages
  <2> HIDE DEF calls, u
  <2>3. Owed = messages
    BY <1>0, NothingOwed DEF Owed
  <2>4. /\ AnthropicAccepts(AnthropicMessages(Append(messages, m) \o Answered(calls)))
        /\ OpenAIAccepts(OpenAIMessages(Append(messages, m) \o Answered(calls)))
    <3>1. AnthropicAccepts(AnthropicMessages(messages)) /\ OpenAIAccepts(OpenAIMessages(messages))
      BY <1>0, <2>3 DEF ConversationInv
    <3> QED BY <1>0, <1>1, <1>2, <1>4, <3>1, AnthropicGoesOn, OpenAIGoesOn
  <2>5. AnthropicAccepts(AnthropicMessages(Owed))' /\ OpenAIAccepts(OpenAIMessages(Owed))'
    BY <2>1, <2>4 DEF Owed
  <2> HIDE DEF m
  <2>6. rounds' = Cardinality({i \in DOMAIN messages' : messages'[i].role = "assistant"})
    <3>1. rounds = Cardinality({i \in DOMAIN messages : messages[i].role = "assistant"})
      BY <1>0 DEF ConversationInv
    <3> QED BY <1>0, <2>1, <2>2, <3>1, OneMore
  <2>7. messages' \in Seq(Messages) /\ messages' # <<>>
    BY <1>0, <2>1, <2>2, LastOfAppend
  <2>8. pending' \in Seq(Calls) /\ pending' # <<>> /\ rounds' \in Nat /\ loop' = "tools"
    BY <1>0, <1>1, <1>4, <2>1
  <2> QED BY <2>5, <2>6, <2>7, <2>8 DEF ConversationInv
<1> QED BY <1>3, <1>4

LEMMA ExecuteToolConverses ==
  ASSUME ConversationInv, NEW tools, ExecuteTool(tools)
  PROVE  ConversationInv'
<1>0. /\ loop = "tools" /\ rounds \in Nat /\ rounds' = rounds
      /\ messages \in Seq(Messages) /\ pending \in Seq(Calls) /\ pending # <<>>
      /\ pending' = Tail(pending) /\ loop' = NextRound(Tail(pending))
  BY DEF ExecuteTool, ConversationInv
<1>1. PICK ok \in BOOLEAN : messages' = Append(messages, ToolResult(Head(pending), ok))
  BY DEF ExecuteTool, ResultsOf
<1> DEFINE r == ToolResult(Head(pending), ok)
<1>2. r \in Messages /\ r.role = "tool"
  <2>1. Head(pending) \in Calls
    BY <1>0
  <2> QED BY <2>1 DEF ToolResult, Calls, Messages
<1>3. messages' = Append(messages, r) /\ r = ToolResult(Head(pending), ok)
  BY <1>1
<1> HIDE DEF r
<1>4. /\ AnthropicMessages(messages' \o Answered(pending')) = AnthropicMessages(messages \o Answered(pending))
      /\ OpenAIMessages(messages' \o Answered(pending')) = OpenAIMessages(messages \o Answered(pending))
  <2>1. messages' \o Answered(pending') = Append(messages, ToolResult(Head(pending), ok)) \o Answered(Tail(pending))
    BY <1>0, <1>3
  <2> QED BY <1>0, <2>1, PaidOff
<1>5. AnthropicAccepts(AnthropicMessages(Owed))' /\ OpenAIAccepts(OpenAIMessages(Owed))'
  BY <1>0, <1>4 DEF ConversationInv, Owed
<1>6. rounds' = Cardinality({i \in DOMAIN messages' : messages'[i].role = "assistant"})
  <2>1. rounds = Cardinality({i \in DOMAIN messages : messages[i].role = "assistant"})
    BY <1>0 DEF ConversationInv
  <2> QED BY <1>0, <1>2, <1>3, <2>1, OneMore
<1>7. messages' \in Seq(Messages) /\ messages' # <<>> /\ pending' \in Seq(Calls)
  BY <1>0, <1>2, <1>3, LastOfAppend
<1>8. /\ loop' = "tools" => pending' # <<>>
      /\ loop' = "chat" => pending' = <<>>
  BY <1>0 DEF NextRound
<1> QED BY <1>0, <1>5, <1>6, <1>7, <1>8 DEF ConversationInv

\* A conversation put to an API owes nothing.
LEMMA AcceptedWhenAsked ==
  ASSUME ConversationInv, loop = "chat"
  PROVE  AnthropicAccepts(AnthropicMessages(messages)) /\ OpenAIAccepts(OpenAIMessages(messages))
<1>1. Owed = messages
  BY NothingOwed DEF ConversationInv, Owed
<1> QED BY <1>1 DEF ConversationInv

-----------------------------------------------------------------------------
(* The loop under the mock provider.                                       *)

\* It asks for one tool, in its first response, and once it has observed
\* something it answers.
MockInv ==
  /\ loop = "chat" => rounds = 0 \/ Observed(messages)
  /\ loop = "tools" => rounds = 1 /\ Len(pending) = 1
  /\ loop = "answered" /\ Rounds >= 2 => LastWord

LEMMA MockUses ==
  ASSUME NEW name \in Names
  PROVE  /\ <<Text>> \in Seq({Text} \cup Uses) /\ ToolUses(<<Text>>) = <<>>
         /\ <<Use(name)>> \in Seq({Text} \cup Uses) /\ Len(ToolUses(<<Use(name)>>)) = 1
<1>1. Use(name) \in Uses /\ Text \notin Uses
  BY DEF Use, Uses, Text
<1>2. /\ <<Text>> \in Seq({Text}) /\ {Text} \cap Uses = {}
      /\ <<Use(name)>> \in Seq(Uses) /\ Len(<<Use(name)>>) = 1
      /\ <<Text>> \in Seq({Text} \cup Uses) /\ <<Use(name)>> \in Seq({Text} \cup Uses)
  <2>1. \A A : \A x \in A : <<x>> \in Seq(A) /\ Len(<<x>>) = 1
    OBVIOUS
  <2>2. Text \in {Text} /\ Text \in {Text} \cup Uses /\ Use(name) \in {Text} \cup Uses
    BY <1>1
  <2> QED BY <1>1, <2>1, <2>2
<1>3. ToolUses(<<Text>>) = <<>>
  BY <1>2, KeepNone DEF ToolUses
<1>4. ToolUses(<<Use(name)>>) = <<Use(name)>>
  BY <1>2, KeepAll DEF ToolUses
<1> QED BY <1>2, <1>3, <1>4

LEMMA MockReplyCases ==
  ASSUME NEW agent, NEW tools, NEW reply \in MockReplies(agent, tools, messages)
  PROVE  /\ reply \in Seq({Text} \cup Uses)
         /\ ToolUses(reply) = <<>> \/ (~Observed(messages) /\ Len(ToolUses(reply)) = 1)
<1>1. \/ reply = <<Text>>
      \/ ~Observed(messages) /\ (reply = <<Use("web_search")>> \/ reply = <<Use("calculator")>>)
  BY DEF MockReplies
<1>2. "web_search" \in Names /\ "calculator" \in Names
  BY NamesAssumption
<1>3. CASE reply = <<Text>>
  BY <1>2, <1>3, MockUses
<1>4. CASE ~Observed(messages) /\ reply = <<Use("web_search")>>
  BY <1>2, <1>4, MockUses
<1>5. CASE ~Observed(messages) /\ reply = <<Use("calculator")>>
  BY <1>2, <1>5, MockUses
<1> QED BY <1>1, <1>3, <1>4, <1>5

LEMMA MockChats ==
  ASSUME ConversationInv, MockInv, NEW agent, NEW tools,
         NEW reply \in MockReplies(agent, tools, messages), Chat(reply)
  PROVE  MockInv'
<1> DEFINE u == ToolUses(reply)
           calls == [k \in DOMAIN u |-> [id |-> <<rounds + 1, k>>, name |-> u[k].name]]
<1>0. /\ loop = "chat" /\ rounds \in Nat /\ rounds' = rounds + 1
      /\ rounds = Cardinality({i \in DOMAIN messages : messages[i].role = "assistant"})
  BY DEF Chat, ConversationInv
<1>1. calls \in Seq(Calls) /\ Len(calls) = Len(u)
  BY <1>0, MockReplyCases, CallsOfReply
<1>2. CASE calls = <<>>
  <2>1. loop' = "answered" /\ messages' = messages
    BY <1>2 DEF Chat
  <2> QED BY <1>0, <2>1 DEF MockInv, LastWord
<1>3. CASE calls # <<>>
  <2>1. loop' = "tools" /\ pending' = calls
    BY <1>3 DEF Chat
  <2>2. u # <<>>
    BY <1>3
  <2>3. ~Observed(messages) /\ Len(u) = 1
    BY <2>2, MockReplyCases
  <2>4. rounds = 0
    BY <1>0, <2>3 DEF MockInv
  <2> HIDE DEF calls, u
  <2> QED BY <1>0, <1>1, <2>1, <2>3, <2>4 DEF MockInv
<1> QED BY <1>2, <1>3

LEMMA MockExecutes ==
  ASSUME ConversationInv, MockInv, NEW tools, ExecuteTool(tools)
  PROVE  MockInv'
<1>0. /\ loop = "tools" /\ rounds = 1 /\ rounds' = 1 /\ Rounds' = Rounds
      /\ messages \in Seq(Messages) /\ pending \in Seq(Calls) /\ Len(pending) = 1
      /\ loop' = NextRound(Tail(pending))
  BY DEF ExecuteTool, MockInv, ConversationInv, Rounds
<1>1. Tail(pending) = <<>>
  <2>1. Tail(pending) \in Seq(Calls) /\ Len(Tail(pending)) = 0
    BY <1>0
  <2>2. \A q \in Seq(Calls) : Len(q) = 0 => q = <<>>
    OBVIOUS
  <2> QED BY <2>1, <2>2
<1>2. loop' = IF 1 < Rounds THEN "chat" ELSE "answered"
  BY <1>0, <1>1 DEF NextRound
<1>3. PICK ok \in BOOLEAN : messages' = Append(messages, ToolResult(Head(pending), ok))
  BY DEF ExecuteTool, ResultsOf
<1>4. Observed(messages')
  <2>1. /\ Len(messages) + 1 \in DOMAIN messages'
        /\ messages'[Len(messages) + 1] = ToolResult(Head(pending), ok)
    BY <1>0, <1>3
  <2> QED BY <2>1 DEF Observed, ToolResult
<1>5. Rounds \in Int
  BY IterationsAssumption DEF Rounds
<1> QED BY <1>0, <1>2, <1>4, <1>5 DEF MockInv

LEMMA MockIdles ==
  ASSUME MockInv, StartAgent \/ StopAgent \/ ChatRaises \/ UNCHANGED loopVars
  PROVE  MockInv'
BY DEF StartAgent, StopAgent, ChatRaises, loopVars, MockInv, Observed, LastWord, Rounds
=============================================================================
