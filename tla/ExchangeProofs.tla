--------------------------- MODULE ExchangeProofs ---------------------------
(***************************************************************************)
(* What is proved of an exchange, for any conversations, texts, frames and *)
(* any number of them.                                                     *)
(*                                                                         *)
(*  1. The trim: trimConversation's loop finds the first closed unit, so   *)
(*     that every cut keeps uses and results together (TrimSafety).        *)
(*  2. The assembler: each operation on [mode, asm, client] keeps the      *)
(*     client in step and loses nothing of the text but complete markers.  *)
(*  3. The stream: it implements FrameQueue (StreamIsQueue), and with 2    *)
(*     the answer is sound at every step (ExchangeTypes, InStepSafety,     *)
(*     TextSafety).                                                        *)
(*                                                                         *)
(* The loop, the joined texts and the kept endings are recursive           *)
(* functions; what they compute is proved by induction in the form "a set  *)
(* of numbers that has 0, and n + 1 with n, has every number".             *)
(***************************************************************************)
EXTENDS Exchange, SequenceTheorems, WellFoundedInduction, TLAPS

-----------------------------------------------------------------------------
(* Sets of numbers *)

LEMMA LeastOfSet ==
    ASSUME NEW T, T \subseteq Nat, T # {}
    PROVE  \E x \in T : \A y \in T : x <= y
<1> DEFINE R == OpToRel(<, Nat)
<1>1. IsWellFoundedOn(R, Nat)
  BY NatLessThanWellFounded
<1>2. \A x, y \in Nat : <<x, y>> \in R <=> x < y
  BY DEF OpToRel
<1> HIDE DEF R
<1>3. PICK x \in T : \A y \in T : ~(<<y, x>> \in R)
  BY <1>1, WFMin
<1>4. ASSUME NEW y \in T PROVE x <= y
  <2>1. x \in Nat /\ y \in Nat
    OBVIOUS
  <2>2. ~(y < x)
    BY <1>2, <1>3, <2>1
  <2> QED
    BY <2>1, <2>2
<1> QED
  BY <1>4

LEMMA InductionOnSet ==
    ASSUME NEW S, 0 \in S, \A n \in Nat : n \in S => n + 1 \in S
    PROVE  Nat \subseteq S
<1> SUFFICES ASSUME Nat \ S # {} PROVE FALSE
  OBVIOUS
<1>1. PICK x \in Nat \ S : \A y \in Nat \ S : x <= y
  BY LeastOfSet
<1>2. x # 0 /\ x - 1 \in Nat /\ x = (x - 1) + 1
  BY <1>1
<1> QED
  BY <1>1, <1>2

LEMMA GreatestOfSet ==
    ASSUME NEW n \in Nat, NEW S \in SUBSET (0..n), S # {}
    PROVE  \E x \in S : \A y \in S : y <= x
<1> DEFINE T == {n - x : x \in S}
<1>1. \A x \in S : x \in Int /\ n - x \in Nat /\ n - x \in T
  OBVIOUS
<1>2. T \subseteq Nat
  BY <1>1
<1>3. T # {}
  BY <1>1
<1>4. PICK t \in T : \A u \in T : t <= u
  <2> HIDE DEF T
  <2> QED
    BY <1>2, <1>3, LeastOfSet
<1>5. PICK x \in S : t = n - x
  OBVIOUS
<1>6. ASSUME NEW y \in S PROVE y <= x
  <2>1. n - x <= n - y
    BY <1>1, <1>4, <1>5
  <2>2. x \in Int /\ y \in Int /\ n \in Int
    BY <1>1
  <2> HIDE DEF T
  <2> QED
    BY <2>1, <2>2
<1> QED
  BY <1>6

-----------------------------------------------------------------------------
(* Turns *)

\* A turn begins somewhere and ends somewhere, and the next one begins after it.
LEMMA TurnEnds ==
    ASSUME NEW m \in Seq(Message), NEW s \in 1..Len(m)
    PROVE  LET e == TurnEnd(m, s) IN
           /\ e \in s..Len(m)
           /\ \A i \in s..e : m[i].role = m[s].role
           /\ e < Len(m) => m[e + 1].role # m[s].role
<1> DEFINE n == Len(m)
           S == {e \in s..n : \A i \in s..e : m[i].role = m[s].role}
<1>1. n \in Nat /\ s \in 1..n
  OBVIOUS
<1> HIDE DEF n
<1>2. S \in SUBSET (0..n) /\ s \in S
  BY <1>1
<1>3. PICK e \in S : \A f \in S : f <= e
  BY <1>1, <1>2, GreatestOfSet
<1>4. e < n => m[e + 1].role # m[s].role
  <2> SUFFICES ASSUME e < n, m[e + 1].role = m[s].role PROVE FALSE
    OBVIOUS
  <2>1. e + 1 \in s..n /\ \A i \in s..(e + 1) : i \in s..e \/ i = e + 1
    BY <1>1
  <2>2. e + 1 \in S
    BY <2>1
  <2>3. e + 1 <= e
    BY ONLY <1>3, <2>2
  <2>4. e \in Nat
    BY <1>1
  <2> QED
    BY <2>3, <2>4
<1>5. \E f \in s..Len(m) : /\ \A i \in s..f : m[i].role = m[s].role
                           /\ f < Len(m) => m[f + 1].role # m[s].role
  BY <1>4 DEF n
<1> QED
  BY <1>5 DEF TurnEnd

LEMMA TurnEndIs ==
    ASSUME NEW m \in Seq(Message), NEW s \in 1..Len(m), NEW e \in s..Len(m),
           \A i \in s..e : m[i].role = m[s].role,
           e < Len(m) => m[e + 1].role # m[s].role
    PROVE  TurnEnd(m, s) = e
<1> DEFINE f == TurnEnd(m, s)
<1>1. /\ f \in s..Len(m)
      /\ \A i \in s..f : m[i].role = m[s].role
      /\ f < Len(m) => m[f + 1].role # m[s].role
  BY TurnEnds
<1> HIDE DEF f
<1>2. ~(f < e)
  <2> SUFFICES ASSUME f < e PROVE FALSE
    OBVIOUS
  <2>1. f + 1 \in s..e /\ f < Len(m)
    BY <1>1
  <2> QED
    BY <1>1, <2>1
<1>3. ~(e < f)
  <2> SUFFICES ASSUME e < f PROVE FALSE
    OBVIOUS
  <2>1. e + 1 \in s..f /\ e < Len(m)
    BY <1>1
  <2> QED
    BY <1>1, <2>1
<1> QED
  BY <1>1, <1>2, <1>3 DEF f

-----------------------------------------------------------------------------
(* The loop, as a function of the turn it has come to *)

\* A function whose value at a number is its value at a later one is well defined.
Solvable(n, G, J, V) == \E f : f = [i \in 1..n |-> IF i \in G THEN f[J[i]] ELSE V[i]]

LEMMA DownwardRecursion ==
    ASSUME NEW n \in Nat, NEW G, NEW J, NEW V,
           \A i \in G : J[i] \in (i + 1)..n
    PROVE  Solvable(n, G, J, V)
<1> DEFINE D(k) == {i \in 1..n : i > n - k}
           Solves(f, k) == f = [i \in D(k) |-> IF i \in G THEN f[J[i]] ELSE V[i]]
           T == {k \in Nat : k <= n => \E f : Solves(f, k)}
<1>1. 0 \in T
  <2>1. D(0) = {}
    OBVIOUS
  <2>2. Solves([i \in {} |-> 0], 0)
    BY <2>1
  <2> QED
    BY <2>2
<1>2. ASSUME NEW k \in Nat, k \in T PROVE k + 1 \in T
  <2> SUFFICES ASSUME k + 1 <= n PROVE \E g : Solves(g, k + 1)
    <3> HIDE DEF Solves
    <3> QED
      OBVIOUS
  <2>1. PICK f : Solves(f, k)
    <3> HIDE DEF Solves
    <3> QED
      BY <1>2
  <2> DEFINE p == n - k
             g == [i \in D(k + 1) |-> IF i \in D(k) THEN f[i] ELSE IF i \in G THEN f[J[i]] ELSE V[i]]
  <2>2. p \in 1..n /\ D(k + 1) = D(k) \union {p} /\ p \notin D(k)
    OBVIOUS
  <2>3. \A i \in D(k + 1) : i \in G => J[i] \in D(k)
    OBVIOUS
  <2> HIDE DEF D
  <2>4. \A i \in D(k) : g[i] = f[i]
    BY <2>2
  <2>5. ASSUME NEW i \in D(k + 1) PROVE g[i] = IF i \in G THEN g[J[i]] ELSE V[i]
    <3>1. i \in G => g[J[i]] = f[J[i]]
      BY <2>3, <2>4
    <3>2. CASE i \in D(k)
      <4>1. f[i] = IF i \in G THEN f[J[i]] ELSE V[i]
        BY <2>1, <3>2
      <4> QED
        BY <2>4, <3>1, <3>2, <4>1
    <3>3. CASE i \notin D(k)
      BY <3>1, <3>3
    <3> QED
      BY <3>2, <3>3
  <2>6. Solves(g, k + 1)
    BY <2>5
  <2> QED
    BY <2>6
<1>3. n \in T
  BY <1>1, <1>2, InductionOnSet
<1>4. D(n) = 1..n
  OBVIOUS
<1>5. \E f : Solves(f, n)
  <2> HIDE DEF Solves
  <2> QED
    BY <1>3
<1> QED
  BY <1>4, <1>5 DEF Solvable

NextStart(m, i) == TurnEnd(m, i) + 1

\* The turn at i is the assistant's, well formed, and not the last.
Proper(m, i) ==
    LET t == LogicalTurn(m, i)
    IN t.valid /\ m[i].role = "assistant" /\ t.results = {} /\ t.end + 1 <= Len(m)

GoesOn(m, i) ==
    Proper(m, i) /\ LogicalTurn(m, i).uses # {} /\ Answers(m, NextStart(m, i), LogicalTurn(m, i).uses)

StopsAt(m, i) ==
    IF Proper(m, i) /\ LogicalTurn(m, i).uses = {} /\ IsFresh(m, NextStart(m, i)) THEN TurnEnd(m, i) ELSE 0

LEMMA EndOfTurn == \A m, i : LogicalTurn(m, i).end = TurnEnd(m, i)
BY DEF LogicalTurn, Turn

LEMMA NextTurn ==
    ASSUME NEW m \in Seq(Message), NEW i \in 1..Len(m), Proper(m, i)
    PROVE  /\ NextStart(m, i) \in (i + 1)..Len(m)
           /\ NextStart(m, NextStart(m, i)) \in (i + 2)..(Len(m) + 1)
<1>1. TurnEnd(m, i) \in i..Len(m) /\ TurnEnd(m, i) + 1 <= Len(m)
  BY TurnEnds, EndOfTurn DEF Proper
<1>2. NextStart(m, i) \in (i + 1)..Len(m) /\ NextStart(m, i) \in 1..Len(m)
  BY <1>1 DEF NextStart
<1>3. TurnEnd(m, NextStart(m, i)) \in NextStart(m, i)..Len(m)
  BY <1>2, TurnEnds
<1> QED
  BY <1>2, <1>3 DEF NextStart

LEMMA UnitEndIs ==
    ASSUME NEW m \in Seq(Message)
    PROVE  \A i \in 1..(Len(m) + 1) :
             UnitEnd(m)[i] = IF i > Len(m) THEN 0
                             ELSE IF GoesOn(m, i) THEN UnitEnd(m)[NextStart(m, NextStart(m, i))]
                             ELSE StopsAt(m, i)
<1> DEFINE n == Len(m) + 1
           body(f, i) ==
             IF i > Len(m) THEN 0
             ELSE LET t      == LogicalTurn(m, i)
                      next   == t.end + 1
                      proper == /\ t.valid /\ m[i].role = "assistant" /\ t.results = {}
                                /\ next <= Len(m)
                  IN CASE proper /\ t.uses = {} /\ IsFresh(m, next) -> t.end
                       [] proper /\ t.uses # {} /\ Answers(m, next, t.uses) -> f[TurnEnd(m, next) + 1]
                       [] OTHER -> 0
           G == {i \in 1..Len(m) : GoesOn(m, i)}
           J == [i \in G |-> NextStart(m, NextStart(m, i))]
           V == [i \in 1..n |-> IF i > Len(m) THEN 0 ELSE StopsAt(m, i)]
<1>1. ASSUME NEW f, NEW i \in 1..n
      PROVE  body(f, i) = IF i \in G THEN f[J[i]] ELSE V[i]
  <2>1. CASE i > Len(m)
    BY <2>1
  <2>2. CASE i <= Len(m)
    <3>1. i \in 1..Len(m)
      BY <2>2
    <3> HIDE DEF n
    <3> QED
      BY <2>2, <3>1, EndOfTurn DEF GoesOn, StopsAt, Proper, NextStart
  <2> QED
    BY <2>1, <2>2
<1>2. \A i \in G : J[i] \in (i + 1)..n
  <2> SUFFICES ASSUME NEW i \in G PROVE J[i] \in (i + 1)..n
    OBVIOUS
  <2>1. i \in 1..Len(m) /\ Proper(m, i)
    BY DEF GoesOn
  <2>2. J[i] \in (i + 2)..n
    BY <2>1, NextTurn
  <2> QED
    BY <2>1, <2>2
<1>3. n \in Nat
  OBVIOUS
<1>4. \E f : f = [i \in 1..n |-> IF i \in G THEN f[J[i]] ELSE V[i]]
  <2> HIDE DEF G, J, V, n
  <2>1. Solvable(n, G, J, V)
    BY <1>2, <1>3, DownwardRecursion
  <2> QED
    BY <2>1 DEF Solvable
<1>5. \E f : f = [i \in 1..n |-> body(f, i)]
  <2> HIDE DEF G, J, V, n, body
  <2>1. PICK f : f = [i \in 1..n |-> IF i \in G THEN f[J[i]] ELSE V[i]]
    BY <1>4
  <2>2. [i \in 1..n |-> IF i \in G THEN f[J[i]] ELSE V[i]] = [i \in 1..n |-> body(f, i)]
    BY <1>1
  <2> QED
    BY <2>1, <2>2
<1>6. UnitEnd(m) = [i \in 1..n |-> body(UnitEnd(m), i)]
  BY <1>5 DEF UnitEnd
<1>7. ASSUME NEW i \in 1..n
      PROVE  UnitEnd(m)[i] = IF i > Len(m) THEN 0
                             ELSE IF GoesOn(m, i) THEN UnitEnd(m)[NextStart(m, NextStart(m, i))]
                             ELSE StopsAt(m, i)
  <2> HIDE DEF body
  <2>1. UnitEnd(m)[i] = IF i \in G THEN UnitEnd(m)[J[i]] ELSE V[i]
    BY <1>1, <1>6
  <2> QED
    BY <2>1
<1> QED
  BY <1>7
-----------------------------------------------------------------------------
(* Turns side by side *)

LEMMA TurnsApart ==
    ASSUME NEW m \in Seq(Message), NEW s \in Starts(m), NEW j \in 1..Len(m)
    PROVE  /\ j \in s..TurnEnd(m, s) <=> TurnEnd(m, j) = TurnEnd(m, s)
           /\ j \in Starts(m) /\ j \in s..TurnEnd(m, s) => j = s
<1> DEFINE e == TurnEnd(m, s)
<1>1. s \in 1..Len(m) /\ (s > 1 => m[s - 1].role # m[s].role)
  BY DEF Starts
<1>2. /\ e \in s..Len(m)
      /\ \A i \in s..e : m[i].role = m[s].role
      /\ e < Len(m) => m[e + 1].role # m[s].role
  BY <1>1, TurnEnds
<1> HIDE DEF e
<1>3. CASE j \in s..e
  <2>1. \A i \in j..e : m[i].role = m[j].role
    BY <1>1, <1>2, <1>3
  <2>2. e \in j..Len(m) /\ (e < Len(m) => m[e + 1].role # m[j].role)
    BY <1>1, <1>2, <1>3
  <2>3. TurnEnd(m, j) = e
    BY <2>1, <2>2, TurnEndIs
  <2>4. ASSUME j \in Starts(m), j # s PROVE FALSE
    <3>1. j - 1 \in s..e /\ j > 1
      BY <1>1, <1>2, <1>3, <2>4
    <3>2. m[j - 1].role # m[j].role
      BY <2>4, <3>1 DEF Starts
    <3> QED
      BY <1>2, <1>3, <3>1, <3>2
  <2> QED
    BY <1>3, <2>3, <2>4 DEF e
<1>4. CASE j < s
  <2>1. /\ TurnEnd(m, j) \in j..Len(m)
        /\ \A i \in j..TurnEnd(m, j) : m[i].role = m[j].role
    BY TurnEnds
  <2>2. ASSUME TurnEnd(m, j) = e PROVE FALSE
    <3>1. s - 1 \in j..e /\ s \in j..e /\ s > 1
      BY <1>1, <1>2, <1>4
    <3> QED
      BY <1>1, <2>1, <2>2, <3>1
  <2> QED
    BY <1>1, <1>4, <2>2 DEF e
<1>5. CASE e < j
  <2>1. TurnEnd(m, j) \in j..Len(m)
    BY TurnEnds
  <2> QED
    BY <1>1, <1>2, <1>5, <2>1 DEF e
<1> QED
  BY <1>1, <1>2, <1>3, <1>4, <1>5

\* The tool calls a turn may answer are those of the turn before.
LEMMA UsesOfTurnBefore ==
    ASSUME NEW m \in Seq(Message), NEW s \in Starts(m)
    PROVE  UsesBefore(m, NextStart(m, s)) = LogicalTurn(m, s).uses
<1> DEFINE e == TurnEnd(m, s)
<1>1. s \in 1..Len(m) /\ e \in s..Len(m)
  BY TurnEnds DEF Starts
<1>2. {i \in 1..((e + 1) - 1) : TurnEnd(m, i) = (e + 1) - 1} = s..e
  <2>1. \A i \in 1..Len(m) : i \in s..e <=> TurnEnd(m, i) = e
    BY TurnsApart
  <2> HIDE DEF e
  <2>2. (e + 1) - 1 = e
    BY <1>1
  <2> QED
    BY <1>1, <2>1, <2>2
<1>3. LogicalTurn(m, s).uses = UNION {m[i].uses : i \in s..e}
  BY DEF LogicalTurn, Turn
<1> HIDE DEF e
<1>4. UsesBefore(m, NextStart(m, s)) = UNION {m[i].uses : i \in s..e}
  BY <1>2 DEF UsesBefore, NextStart, e
<1> QED
  BY <1>3, <1>4

LEMMA NextIsStart ==
    ASSUME NEW m \in Seq(Message), NEW s \in Starts(m), NextStart(m, s) <= Len(m)
    PROVE  NextStart(m, s) \in Starts(m) /\ m[NextStart(m, s)].role # m[s].role
<1> DEFINE e == TurnEnd(m, s)
<1>1. /\ s \in 1..Len(m) /\ e \in s..Len(m)
      /\ \A i \in s..e : m[i].role = m[s].role
      /\ e < Len(m) => m[e + 1].role # m[s].role
  BY TurnEnds DEF Starts
<1> HIDE DEF e
<1>2. NextStart(m, s) = e + 1
  BY DEF NextStart, e
<1>3. e < Len(m) /\ m[(e + 1) - 1].role = m[s].role
  BY <1>1, <1>2
<1> QED
  BY <1>1, <1>2, <1>3 DEF Starts

LEMMA TwoRoles ==
    ASSUME NEW m \in Seq(Message), NEW i \in 1..Len(m)
    PROVE  m[i].role \in {"user", "assistant"}
<1>1. m[i] \in Message
  OBVIOUS
<1> QED
  BY <1>1 DEF Message

-----------------------------------------------------------------------------
(* The walk over the turns of a unit *)

\* No turn that begins in s..TurnEnd(m, s) begins after s, and none other ends there.
LEMMA OneTurn ==
    ASSUME NEW m \in Seq(Message), NEW s \in Starts(m), NEW r \in Starts(m)
    PROVE  /\ r <= TurnEnd(m, s) /\ s <= r => r = s
           /\ TurnEnd(m, r) = TurnEnd(m, s) => r = s
<1>1. r \in 1..Len(m) /\ s \in 1..Len(m)
  BY DEF Starts
<1>2. TurnEnd(m, s) \in Nat
  BY <1>1, TurnEnds
<1>3. /\ r \in s..TurnEnd(m, s) <=> TurnEnd(m, r) = TurnEnd(m, s)
      /\ r \in s..TurnEnd(m, s) => r = s
  BY <1>1, TurnsApart
<1> HIDE DEF Starts
<1> QED
  BY <1>1, <1>2, <1>3

\* The closed units among the beginnings of a conversation.
ClosedUnits(m) == {e \in 1..(Len(m) - 1) : ClosedUnit(m, e)}

\* The loop has come to turn i: all before it is in place, and nothing shorter is closed.
At(m, i) ==
    /\ IsFresh(m, 1)
    /\ i \in 2..(Len(m) + 1)
    /\ m[i - 1].role = "user"
    /\ i <= Len(m) => m[i].role = "assistant"
    /\ \A s \in Starts(m) : s < i => InPlace(m, s)
    /\ \A e \in ClosedUnits(m) : i <= e

\* A unit that reaches a turn reaches its end.
LEMMA ClosedAtTurns ==
    ASSUME NEW m \in Seq(Message), NEW e \in ClosedUnits(m), NEW s \in Starts(m), s <= e
    PROVE  /\ TurnEnd(m, s) <= e
           /\ InPlace(m, s)
           /\ e = TurnEnd(m, s) => LogicalTurn(m, s).uses = {} /\ IsFresh(m, NextStart(m, s))
           /\ e # TurnEnd(m, s) => NextStart(m, s) <= e /\ NextStart(m, s) \in Starts(m)
<1>1. e \in 1..(Len(m) - 1) /\ ClosedUnit(m, e) /\ e + 1 \in Starts(m)
  BY DEF ClosedUnits, ClosedUnit
<1>2. s \in 1..Len(m) /\ TurnEnd(m, s) \in s..Len(m)
  BY TurnEnds DEF Starts
<1>3. TurnEnd(m, s) <= e
  <2>1. e + 1 <= TurnEnd(m, s) /\ s <= e + 1 => e + 1 = s
    BY <1>1, OneTurn
  <2> QED
    BY <1>1, <1>2, <2>1
<1>4. InPlace(m, s) /\ (TurnEnd(m, s) = e => LogicalTurn(m, s).uses = {}) /\ IsFresh(m, e + 1)
  BY <1>1 DEF ClosedUnit
<1>5. e # TurnEnd(m, s) => NextStart(m, s) <= e
  BY <1>1, <1>2, <1>3 DEF NextStart
<1>6. e # TurnEnd(m, s) => NextStart(m, s) \in Starts(m)
  <2>1. NextStart(m, s) \in Nat
    BY <1>2 DEF NextStart
  <2>2. e # TurnEnd(m, s) => NextStart(m, s) <= Len(m)
    BY <1>1, <1>5, <2>1
  <2> QED
    BY <2>2, NextIsStart
<1> QED
  BY <1>3, <1>4, <1>5, <1>6 DEF NextStart

\* What FirstClosedUnit says of nothing, and of the least.
LEMMA FirstOfNone ==
    ASSUME NEW m, ClosedUnits(m) = {}
    PROVE  FirstClosedUnit(m, 0)
BY DEF FirstClosedUnit, ClosedUnits

LEMMA FirstOfSome ==
    ASSUME NEW m, NEW c \in ClosedUnits(m), \A e \in ClosedUnits(m) : c <= e
    PROVE  FirstClosedUnit(m, c)
BY DEF FirstClosedUnit, ClosedUnits

\* The turns from i on, as far as they are in place.
LEMMA ProperIsInPlace ==
    ASSUME NEW m \in Seq(Message), NEW i \in 1..Len(m), Proper(m, i)
    PROVE  InPlace(m, i) /\ m[i].role = "assistant" /\ TurnEnd(m, i) \in 1..(Len(m) - 1)
<1>1. TurnEnd(m, i) \in i..Len(m) /\ TurnEnd(m, i) + 1 <= Len(m)
  BY TurnEnds, EndOfTurn DEF Proper
<1> QED
  BY <1>1 DEF Proper, InPlace

LEMMA AnswersInPlace ==
    ASSUME NEW m \in Seq(Message), NEW i \in Starts(m), NextStart(m, i) <= Len(m),
           m[i].role = "assistant"
    PROVE  /\ m[NextStart(m, i)].role = "user"
           /\ InPlace(m, NextStart(m, i)) <=> Answers(m, NextStart(m, i), LogicalTurn(m, i).uses)
<1>1. NextStart(m, i) \in Starts(m) /\ m[NextStart(m, i)].role # m[i].role
  BY NextIsStart
<1>2. NextStart(m, i) \in 1..Len(m)
  BY <1>1 DEF Starts
<1>3. m[NextStart(m, i)].role = "user"
  BY <1>1, <1>2, TwoRoles
<1>4. UsesBefore(m, NextStart(m, i)) = LogicalTurn(m, i).uses
  BY UsesOfTurnBefore
<1> QED
  BY <1>3, <1>4 DEF InPlace, Answers

LEMMA FreshIsAnswerToNone ==
    ASSUME NEW m, NEW s
    PROVE  IsFresh(m, s) <=> Answers(m, s, {})
BY DEF IsFresh, Answers

LEMMA ClosedIsProper ==
    ASSUME NEW m \in Seq(Message), NEW i \in Starts(m), m[i].role = "assistant",
           NEW e \in ClosedUnits(m), i <= e
    PROVE  Proper(m, i)
<1>1. e \in 1..(Len(m) - 1) /\ TurnEnd(m, i) <= e /\ InPlace(m, i)
  BY ClosedAtTurns DEF ClosedUnits
<1>2. i \in 1..Len(m) /\ TurnEnd(m, i) \in i..Len(m)
  BY TurnEnds DEF Starts
<1>3. LogicalTurn(m, i).end + 1 <= Len(m)
  BY <1>1, <1>2, EndOfTurn
<1> QED
  BY <1>1, <1>3 DEF InPlace, Proper

-----------------------------------------------------------------------------
(* One step of the loop *)

LEMMA AtIsStart ==
    ASSUME NEW m \in Seq(Message), NEW i, At(m, i), i <= Len(m)
    PROVE  i \in Starts(m) /\ m[i].role = "assistant"
BY DEF At, Starts

LEMMA LoopStops ==
    ASSUME NEW m \in Seq(Message), NEW i, At(m, i), i <= Len(m), ~GoesOn(m, i)
    PROVE  FirstClosedUnit(m, StopsAt(m, i))
<1>1. i \in Starts(m) /\ m[i].role = "assistant" /\ i \in 1..Len(m)
  BY AtIsStart DEF Starts
<1>2. \A e \in ClosedUnits(m) : i <= e /\ Proper(m, i)
  BY <1>1, ClosedIsProper DEF At
<1>3. CASE Proper(m, i) /\ LogicalTurn(m, i).uses = {} /\ IsFresh(m, NextStart(m, i))
  <2> DEFINE c == TurnEnd(m, i)
  <2>1. c \in 1..(Len(m) - 1) /\ InPlace(m, i)
    BY <1>1, <1>3, ProperIsInPlace
  <2>2. c + 1 \in Starts(m) /\ IsFresh(m, c + 1)
    BY <1>1, <1>3, <2>1, NextIsStart DEF NextStart
  <2>3. ASSUME NEW s \in Starts(m), s <= c
        PROVE  InPlace(m, s) /\ (TurnEnd(m, s) = c => LogicalTurn(m, s).uses = {})
    <3>1. (i <= s => s = i) /\ (TurnEnd(m, s) = c => s = i)
      BY <1>1, <2>3, OneTurn
    <3>2. s \in Nat /\ i \in Nat /\ (s < i => InPlace(m, s))
      BY <1>1 DEF At, Starts
    <3> HIDE DEF c
    <3> QED
      BY <1>3, <2>1, <3>1, <3>2
  <2>4. c \in ClosedUnits(m)
    <3>1. IsFresh(m, 1)
      BY DEF At
    <3>2. ClosedUnit(m, c)
      BY <2>2, <2>3, <3>1 DEF ClosedUnit
    <3> QED
      BY <2>1, <3>2 DEF ClosedUnits
  <2>5. \A e \in ClosedUnits(m) : c <= e
    BY <1>1, <1>2, ClosedAtTurns
  <2>6. StopsAt(m, i) = c
    BY <1>3 DEF StopsAt
  <2> HIDE DEF c
  <2> QED
    BY <2>4, <2>5, <2>6, FirstOfSome
<1>4. CASE ~(Proper(m, i) /\ LogicalTurn(m, i).uses = {} /\ IsFresh(m, NextStart(m, i)))
  <2>1. StopsAt(m, i) = 0
    BY <1>4 DEF StopsAt
  <2>2. ASSUME NEW e \in ClosedUnits(m) PROVE FALSE
    <3>1. i <= e /\ Proper(m, i)
      BY <1>2
    <3>2. NextStart(m, i) <= Len(m)
      BY <1>1, <3>1, NextTurn
    <3>3. e # TurnEnd(m, i)
      BY <1>1, <1>4, <3>1, ClosedAtTurns
    <3>4. NextStart(m, i) <= e /\ NextStart(m, i) \in Starts(m)
      BY <1>1, <3>1, <3>3, ClosedAtTurns
    <3>5. InPlace(m, NextStart(m, i))
      BY <3>4, ClosedAtTurns
    <3>6. Answers(m, NextStart(m, i), LogicalTurn(m, i).uses)
      BY <1>1, <3>2, <3>5, AnswersInPlace
    <3>7. LogicalTurn(m, i).uses = {}
      BY <3>1, <3>6 DEF GoesOn
    <3> QED
      BY <1>4, <3>1, <3>6, <3>7, FreshIsAnswerToNone
  <2> QED
    BY <2>1, <2>2, FirstOfNone
<1> QED
  BY <1>3, <1>4

LEMMA LoopGoesOn ==
    ASSUME NEW m \in Seq(Message), NEW i, At(m, i), i <= Len(m), GoesOn(m, i)
    PROVE  At(m, NextStart(m, NextStart(m, i)))
<1> DEFINE u == NextStart(m, i)
           k == NextStart(m, u)
<1>1. i \in Starts(m) /\ m[i].role = "assistant" /\ i \in 1..Len(m) /\ i >= 2
  BY AtIsStart DEF At, Starts
<1>2. Proper(m, i) /\ LogicalTurn(m, i).uses # {} /\ Answers(m, u, LogicalTurn(m, i).uses)
  BY DEF GoesOn
<1>3. u \in (i + 1)..Len(m) /\ k \in (i + 2)..(Len(m) + 1)
  BY <1>1, <1>2, NextTurn
<1>4. u \in Starts(m) /\ m[u].role = "user" /\ InPlace(m, u)
  BY <1>1, <1>2, <1>3, NextIsStart, AnswersInPlace
<1>5. InPlace(m, i) /\ TurnEnd(m, i) = u - 1 /\ TurnEnd(m, i) \in 1..(Len(m) - 1)
  BY <1>1, <1>2, ProperIsInPlace DEF NextStart
<1>6. u \in 1..Len(m) /\ TurnEnd(m, u) \in u..Len(m) /\ k = TurnEnd(m, u) + 1 /\ TurnEnd(m, u) = k - 1
      /\ m[TurnEnd(m, u)].role = "user"
  <2>1. u \in 1..Len(m)
    BY <1>4 DEF Starts
  <2>2. /\ TurnEnd(m, u) \in u..Len(m)
        /\ \A j \in u..TurnEnd(m, u) : m[j].role = m[u].role
    BY <2>1, TurnEnds
  <2>3. m[TurnEnd(m, u)].role = m[u].role
    BY <2>1, <2>2
  <2> QED
    BY <1>4, <2>1, <2>2, <2>3 DEF NextStart
<1>7. k <= Len(m) => k \in Starts(m) /\ m[k].role = "assistant"
  <2> SUFFICES ASSUME k <= Len(m) PROVE k \in Starts(m) /\ m[k].role = "assistant"
    OBVIOUS
  <2>1. k \in Starts(m) /\ m[k].role # m[u].role
    BY <1>4, NextIsStart
  <2>2. k \in 1..Len(m)
    BY <2>1 DEF Starts
  <2> QED
    BY <1>4, <2>1, <2>2, TwoRoles
<1>8. ASSUME NEW s \in Starts(m), s < k PROVE InPlace(m, s)
  <2>1. s \in 1..Len(m)
    BY DEF Starts
  <2>2. (s <= u - 1 /\ i <= s => s = i) /\ (s <= k - 1 /\ u <= s => s = u)
    BY <1>1, <1>4, <1>5, <1>6, OneTurn
  <2>3. s < i => InPlace(m, s)
    BY DEF At
  <2> HIDE DEF u, k
  <2> QED
    BY <1>1, <1>3, <1>4, <1>5, <1>8, <2>1, <2>2, <2>3
<1>9. ASSUME NEW e \in ClosedUnits(m) PROVE k <= e
  <2>1. i <= e /\ e \in 1..(Len(m) - 1)
    BY DEF At, ClosedUnits
  <2>2. e # TurnEnd(m, i)
    BY <1>1, <1>2, <2>1, ClosedAtTurns
  <2>3. u <= e
    BY <1>1, <2>1, <2>2, ClosedAtTurns
  <2>4. e # TurnEnd(m, u)
    <3> SUFFICES ASSUME e = TurnEnd(m, u) PROVE FALSE
      OBVIOUS
    <3>1. IsFresh(m, k) /\ k <= Len(m)
      BY <1>4, <1>6, <2>1, <2>3, ClosedAtTurns
    <3> QED
      BY <1>7, <3>1 DEF IsFresh
  <2> QED
    BY <1>4, <2>3, <2>4, ClosedAtTurns
<1>10. IsFresh(m, 1)
  BY DEF At
<1>11. k \in 2..(Len(m) + 1)
  BY <1>1, <1>3
<1>12. m[k - 1].role = "user"
  BY <1>6
<1> HIDE DEF u, k
<1>13. At(m, k)
  BY <1>7, <1>8, <1>9, <1>10, <1>11, <1>12 DEF At
<1> QED
  BY <1>13 DEF u, k

LEMMA LoopFindsUnit ==
    ASSUME NEW m \in Seq(Message), NEW i, At(m, i)
    PROVE  FirstClosedUnit(m, UnitEnd(m)[i])
<1> DEFINE N == Len(m)
           T == {k \in Nat : \A j \in 2..(N + 1) :
                   At(m, j) /\ N + 1 - j <= k => FirstClosedUnit(m, UnitEnd(m)[j])}
<1>1. N \in Nat
  OBVIOUS
<1>2. ASSUME NEW j \in 2..(N + 1), At(m, j), j > N
      PROVE  FirstClosedUnit(m, UnitEnd(m)[j])
  <2>1. ClosedUnits(m) = {}
    <3>1. \A e \in ClosedUnits(m) : e \in 1..(N - 1) /\ j <= e
      BY <1>2 DEF At, ClosedUnits
    <3> QED
      BY <1>1, <1>2, <3>1
  <2>2. UnitEnd(m)[j] = 0
    BY <1>2, UnitEndIs
  <2> QED
    BY <2>1, <2>2, FirstOfNone
<1>3. 0 \in T
  <2> SUFFICES ASSUME NEW j \in 2..(N + 1), At(m, j), N + 1 - j <= 0
               PROVE  FirstClosedUnit(m, UnitEnd(m)[j])
    OBVIOUS
  <2>1. j > N
    BY <1>1
  <2> QED
    BY <1>2, <2>1
<1>4. ASSUME NEW k \in Nat, k \in T PROVE k + 1 \in T
  <2> SUFFICES ASSUME NEW j \in 2..(N + 1), At(m, j), N + 1 - j <= k + 1
               PROVE  FirstClosedUnit(m, UnitEnd(m)[j])
    OBVIOUS
  <2>1. CASE j > N
    BY <1>2, <2>1
  <2>2. CASE j <= N /\ ~GoesOn(m, j)
    <3>1. UnitEnd(m)[j] = StopsAt(m, j)
      BY <2>2, UnitEndIs
    <3> QED
      BY <2>2, <3>1, LoopStops
  <2>3. CASE j <= N /\ GoesOn(m, j)
    <3> DEFINE h == NextStart(m, NextStart(m, j))
    <3>1. UnitEnd(m)[j] = UnitEnd(m)[h]
      BY <2>3, UnitEndIs
    <3>2. At(m, h)
      BY <2>3, LoopGoesOn
    <3>3. h \in (j + 2)..(N + 1)
      BY <2>3, NextTurn DEF GoesOn
    <3> HIDE DEF h
    <3>4. h \in 2..(N + 1) /\ N + 1 - h <= k
      BY <1>1, <3>3
    <3>5. FirstClosedUnit(m, UnitEnd(m)[h])
      BY <1>4, <3>2, <3>4
    <3> QED
      BY <3>1, <3>5
  <2> QED
    BY <1>1, <2>1, <2>2, <2>3
<1>5. Nat \subseteq T
  <2> HIDE DEF T
  <2> QED
    BY <1>3, <1>4, InductionOnSet
<1>6. i \in 2..(N + 1) /\ N \in T
  BY <1>1, <1>5 DEF At
<1>7. N + 1 - i <= N
  BY <1>1, <1>6
<1> QED
  BY <1>6, <1>7

-----------------------------------------------------------------------------
(* Whatever the conversation, the cut is after its first closed unit. *)

LEMMA CutIsFirstClosedUnit ==
    ASSUME NEW m \in Seq(Message)
    PROVE  FirstClosedUnit(m, OldestCompleteTurnEnd(m))
<1>1. \A e \in ClosedUnits(m) :
        e \in 1..(Len(m) - 1) /\ IsFresh(m, 1) /\ IsFresh(m, e + 1) /\ e + 1 \in Starts(m)
  BY DEF ClosedUnits, ClosedUnit
<1>2. CASE Len(m) < 3 \/ ~IsFresh(m, 1)
  <2>1. ASSUME NEW e \in ClosedUnits(m) PROVE FALSE
    <3>1. e \in 1..(Len(m) - 1) /\ Len(m) < 3
      BY <1>1, <1>2
    <3>2. e = 1
      BY <3>1
    <3>3. m[1].role = "user" /\ m[2].role = "user" /\ 2 \in Starts(m)
      BY <1>1, <3>2 DEF IsFresh
    <3> QED
      BY <3>3 DEF Starts
  <2>2. OldestCompleteTurnEnd(m) = 0
    BY <1>2 DEF OldestCompleteTurnEnd
  <2> QED
    BY <2>1, <2>2, FirstOfNone
<1>3. CASE Len(m) >= 3 /\ IsFresh(m, 1)
  <2> DEFINE e1 == TurnEnd(m, 1)
             i == NextStart(m, 1)
  <2>1. 1 \in Starts(m) /\ 1 \in 1..Len(m) /\ m[1].role = "user"
    BY <1>3 DEF Starts, IsFresh
  <2>2. /\ e1 \in 1..Len(m)
        /\ \A j \in 1..e1 : m[j].role = m[1].role
        /\ i = e1 + 1
    BY <2>1, TurnEnds DEF NextStart
  <2>3. i \in 2..(Len(m) + 1) /\ m[i - 1].role = "user"
    <3>1. m[e1].role = "user"
      BY <2>1, <2>2
    <3>2. i - 1 = e1
      BY <2>2
    <3> QED
      BY <2>2, <3>1, <3>2
  <2>4. i <= Len(m) => i \in Starts(m) /\ m[i].role = "assistant"
    <3> SUFFICES ASSUME i <= Len(m) PROVE i \in Starts(m) /\ m[i].role = "assistant"
      OBVIOUS
    <3>1. i \in Starts(m) /\ m[i].role # m[1].role
      BY <2>1, NextIsStart
    <3>2. i \in 1..Len(m)
      BY <3>1 DEF Starts
    <3> QED
      BY <2>1, <3>1, <3>2, TwoRoles
  <2>5. InPlace(m, 1)
    <3>1. UsesBefore(m, 1) = {}
      BY DEF UsesBefore
    <3> QED
      BY <1>3, <3>1 DEF IsFresh, InPlace
  <2>6. ASSUME NEW s \in Starts(m), s < i PROVE InPlace(m, s)
    <3>1. s \in 1..Len(m)
      BY DEF Starts
    <3>2. s <= e1 /\ 1 <= s => s = 1
      BY <2>1, OneTurn
    <3> HIDE DEF e1, i
    <3>3. s = 1
      BY <2>2, <2>6, <3>1, <3>2
    <3> QED
      BY <2>5, <3>3
  <2>7. ASSUME NEW e \in ClosedUnits(m) PROVE i <= e
    <3>1. e \in 1..(Len(m) - 1) /\ 1 <= e
      BY <1>1
    <3>2. e # e1
      <4> SUFFICES ASSUME e = e1 PROVE FALSE
        OBVIOUS
      <4>1. IsFresh(m, i) /\ i <= Len(m)
        BY <1>1, <2>2, <3>1
      <4> QED
        BY <2>4, <4>1 DEF IsFresh
    <3> QED
      BY <2>1, <3>1, <3>2, ClosedAtTurns
  <2> HIDE DEF i
  <2>8. At(m, i)
    BY <1>3, <2>3, <2>4, <2>6, <2>7 DEF At
  <2>9. OldestCompleteTurnEnd(m) = UnitEnd(m)[i]
    BY <1>3, <2>2 DEF OldestCompleteTurnEnd
  <2> QED
    BY <2>8, <2>9, LoopFindsUnit
<1> QED
  BY <1>2, <1>3

LEMMA CutIsProper ==
    ASSUME NEW m \in Seq(Message)
    PROVE  TrimOldestCompleteTurn(m) \in Seq(Message)
<1> DEFINE cut == OldestCompleteTurnEnd(m)
<1>1. cut \in 0..Len(m)
  BY CutIsFirstClosedUnit DEF FirstClosedUnit
<1> HIDE DEF cut
<1>2. SubSeq(m, cut + 1, Len(m)) \in Seq(Message)
  BY <1>1
<1> QED
  BY <1>2 DEF TrimOldestCompleteTurn, cut

LEMMA ConversationsStart == Init => messages \in Seq(Message)
BY ConversationsAreMessages DEF Init

LEMMA ConversationsStay ==
    messages \in Seq(Message) /\ [Next]_vars => messages' \in Seq(Message)
<1> SUFFICES ASSUME messages \in Seq(Message), [Next]_vars PROVE messages' \in Seq(Message)
  OBVIOUS
<1>1. CASE TooLong
  BY <1>1, CutIsProper DEF TooLong
<1>2. CASE Accepted
  BY <1>2 DEF Accepted
<1>3. CASE Background
  BY <1>3 DEF Background, requestVars
<1>4. CASE Probe
  BY <1>4 DEF Probe, requestVars
<1>5. CASE Receive
  BY <1>5 DEF Receive, Handle, requestVars
<1>6. CASE ClientLeaves
  BY <1>6 DEF ClientLeaves, requestVars
<1>7. CASE UNCHANGED vars
  BY <1>7 DEF vars, requestVars
<1> QED
  BY <1>1, <1>2, <1>3, <1>4, <1>5, <1>6, <1>7 DEF Next

\* A conversation is only ever cut after its first closed unit, and not at all
\* if no beginning of it is closed (oldestCompleteTurnEnd).
THEOREM TrimSafety == Spec => []CutsFirstClosedUnit
<1> DEFINE I == messages \in Seq(Message)
<1>1. Init => I
  BY ConversationsStart
<1>2. I /\ [Next]_vars => I'
  BY ConversationsStay
<1>3. I => CutsFirstClosedUnit
  BY CutIsFirstClosedUnit DEF CutsFirstClosedUnit
<1> HIDE DEF I
<1> QED
  BY <1>1, <1>2, <1>3, PTL DEF Spec

-----------------------------------------------------------------------------
(* A text joined from pieces *)

Joins(f, s, n) == f = [i \in 1..n |-> IF i = 1 THEN s[i] ELSE f[i - 1] \o s[i]]

LEMMA JoinExists ==
    ASSUME NEW s
    PROVE  \A n \in Nat : \E f : Joins(f, s, n)
<1> DEFINE T == {n \in Nat : \E f : Joins(f, s, n)}
<1>1. 0 \in T
  <2>1. Joins([i \in 1..0 |-> 0], s, 0)
    BY DEF Joins
  <2> QED
    BY <2>1
<1>2. ASSUME NEW n \in Nat, n \in T PROVE n + 1 \in T
  <2>1. PICK f : Joins(f, s, n)
    BY <1>2
  <2> DEFINE g == [i \in 1..(n + 1) |-> IF i <= n THEN f[i] ELSE IF i = 1 THEN s[i] ELSE f[i - 1] \o s[i]]
  <2>2. \A i \in 1..n : g[i] = f[i] /\ f[i] = IF i = 1 THEN s[i] ELSE f[i - 1] \o s[i]
    <3>1. \A i \in 1..n : g[i] = f[i]
      OBVIOUS
    <3>2. \A i \in 1..n : f[i] = IF i = 1 THEN s[i] ELSE f[i - 1] \o s[i]
      <4> HIDE DEF g
      <4> QED
        BY <2>1 DEF Joins
    <3> QED
      BY <3>1, <3>2
  <2>3. ASSUME NEW i \in 1..(n + 1)
        PROVE  g[i] = IF i = 1 THEN s[i] ELSE g[i - 1] \o s[i]
    <3>1. CASE i <= n
      <4>1. i \in 1..n /\ (i # 1 => i - 1 \in 1..n)
        BY <3>1
      <4> HIDE DEF g
      <4> QED
        BY <2>2, <4>1
    <3>2. CASE i = n + 1
      <4>1. i # 1 => i - 1 \in 1..n
        BY <3>2
      <4>2. g[i] = IF i = 1 THEN s[i] ELSE f[i - 1] \o s[i]
        BY <3>2
      <4> HIDE DEF g
      <4> QED
        BY <2>2, <4>1, <4>2
    <3> QED
      BY <3>1, <3>2
  <2>4. g = [i \in 1..(n + 1) |-> IF i = 1 THEN s[i] ELSE g[i - 1] \o s[i]]
    BY <2>3
  <2>5. Joins(g, s, n + 1)
    BY <2>4 DEF Joins
  <2> QED
    BY <2>5
<1>3. Nat \subseteq T
  <2> HIDE DEF T
  <2> QED
    BY <1>1, <1>2, InductionOnSet
<1> QED
  BY <1>3

\* What is joined depends on the pieces alone.
LEMMA JoinUnique ==
    ASSUME NEW s, NEW t, NEW n \in Nat, \A i \in 1..n : t[i] = s[i],
           NEW k \in n..(n + 1), NEW f, Joins(f, s, n), NEW g, Joins(g, t, k)
    PROVE  \A i \in 1..n : g[i] = f[i]
<1> DEFINE T == {i \in Nat : i + 1 \in 1..n => g[i + 1] = f[i + 1]}
<1>1. \A i \in 1..n : /\ f[i] = IF i = 1 THEN s[i] ELSE f[i - 1] \o s[i]
                      /\ g[i] = IF i = 1 THEN t[i] ELSE g[i - 1] \o t[i]
  <2>1. \A i \in 1..n : f[i] = IF i = 1 THEN s[i] ELSE f[i - 1] \o s[i]
    BY DEF Joins
  <2>2. \A i \in 1..k : g[i] = IF i = 1 THEN t[i] ELSE g[i - 1] \o t[i]
    BY DEF Joins
  <2> QED
    BY <2>1, <2>2
<1>2. 0 \in T
  BY <1>1
<1>3. ASSUME NEW j \in Nat, j \in T PROVE j + 1 \in T
  <2> SUFFICES ASSUME j + 2 \in 1..n PROVE g[j + 2] = f[j + 2]
    OBVIOUS
  <2>1. g[j + 1] = f[j + 1] /\ (j + 2) - 1 = j + 1 /\ j + 2 # 1
    BY <1>3
  <2> QED
    BY <1>1, <2>1
<1>4. Nat \subseteq T
  <2> HIDE DEF T
  <2> QED
    BY <1>2, <1>3, InductionOnSet
<1>5. ASSUME NEW i \in 1..n PROVE g[i] = f[i]
  <2>1. i - 1 \in T /\ (i - 1) + 1 = i
    BY <1>4
  <2> QED
    BY <2>1
<1> QED
  BY <1>5

LEMMA FlattenIs ==
    ASSUME NEW s, Len(s) \in Nat, Len(s) # 0, NEW f, Joins(f, s, Len(s))
    PROVE  FlattenSeq(s) = f[Len(s)]
<1> DEFINE g == CHOOSE h : Joins(h, s, Len(s))
<1>1. Joins(g, s, Len(s))
  OBVIOUS
<1>2. g[Len(s)] = f[Len(s)]
  <2> HIDE DEF g
  <2> QED
    BY <1>1, JoinUnique
<1>3. FlattenSeq(s) = g[Len(s)]
  BY DEF FlattenSeq, Joins
<1> QED
  BY <1>2, <1>3

LEMMA FlattenNone == FlattenSeq(<<>>) = <<>>
BY DEF FlattenSeq

LEMMA FlattenAppend ==
    ASSUME NEW s \in Seq(Text), NEW x \in Text
    PROVE  FlattenSeq(Append(s, x)) = FlattenSeq(s) \o x
<1> DEFINE n == Len(s)
           t == Append(s, x)
<1>1. n \in Nat /\ Len(s) = n /\ Len(t) = n + 1 /\ t[n + 1] = x /\ \A i \in 1..n : t[i] = s[i]
  OBVIOUS
<1>2. PICK f : Joins(f, s, n)
  BY <1>1, JoinExists
<1> HIDE DEF n, t
<1>3. PICK g : Joins(g, t, n + 1)
  <2>1. n + 1 \in Nat
    BY <1>1
  <2> QED
    BY <2>1, JoinExists
<1>4. \A i \in 1..n : g[i] = f[i]
  <2> QED
    BY <1>1, <1>2, <1>3, JoinUnique
<1>5. g[n + 1] = IF n = 0 THEN t[n + 1] ELSE g[n] \o t[n + 1]
  <2>1. \A i \in 1..(n + 1) : g[i] = IF i = 1 THEN t[i] ELSE g[i - 1] \o t[i]
    BY <1>3 DEF Joins
  <2>2. n + 1 \in 1..(n + 1) /\ (n + 1) - 1 = n /\ (n + 1 = 1 <=> n = 0)
    BY <1>1
  <2> QED
    BY <2>1, <2>2
<1>6. FlattenSeq(t) = g[n + 1]
  <2>1. Len(t) \in Nat /\ Len(t) # 0
    BY <1>1
  <2> QED
    BY <1>1, <1>3, <2>1, FlattenIs
<1>7. CASE n = 0
  <2>1. s = <<>>
    BY <1>1, <1>7
  <2>2. <<>> \o x = x
    BY DEF Text
  <2> QED
    BY <1>1, <1>5, <1>6, <1>7, <2>1, <2>2, FlattenNone DEF t
<1>8. CASE n # 0
  <2>1. FlattenSeq(s) = f[n]
    BY <1>1, <1>2, <1>8, FlattenIs
  <2>2. g[n] = f[n]
    BY <1>1, <1>4, <1>8
  <2> QED
    BY <1>1, <1>5, <1>6, <1>8, <2>1, <2>2 DEF t
<1> QED
  BY <1>7, <1>8

\* What a block says.
Says(b) == IF b.kind = "text" THEN b.data ELSE <<>>

LEMMA SaysText == \A b \in Blocks : Says(b) \in Text
<1>1. <<>> \in Text
  BY DEF Text
<1>2. \A b \in Blocks : b.data \in Text
  BY DEF Blocks
<1> QED
  BY <1>1, <1>2 DEF Says

LEMMA TextOfAppend ==
    ASSUME NEW s \in Seq(Blocks), NEW b \in Blocks
    PROVE  TextOf(Append(s, b)) = TextOf(s) \o Says(b)
<1> DEFINE of(t) == [i \in 1..Len(t) |-> IF t[i].kind = "text" THEN t[i].data ELSE <<>>]
<1>1. \A i \in 1..Len(s) : of(s)[i] = Says(s[i]) /\ Says(s[i]) \in Text
  BY SaysText DEF Says
<1>2. of(s) \in Seq(Text)
  <2>1. of(s) \in [1..Len(s) -> Text]
    BY <1>1
  <2> QED
    BY <2>1
<1>3. Says(b) \in Text
  BY SaysText
<1>4. of(Append(s, b)) = Append(of(s), Says(b))
  <2>1. Len(Append(s, b)) = Len(s) + 1 /\ Len(of(s)) = Len(s)
    BY <1>2
  <2>2. \A i \in 1..(Len(s) + 1) : of(Append(s, b))[i] = Append(of(s), Says(b))[i]
    <3> SUFFICES ASSUME NEW i \in 1..(Len(s) + 1)
                 PROVE  of(Append(s, b))[i] = Append(of(s), Says(b))[i]
      OBVIOUS
    <3>1. of(Append(s, b))[i] = Says(Append(s, b)[i])
      BY <2>1 DEF Says
    <3>2. CASE i = Len(s) + 1
      <4>1. Append(s, b)[i] = b /\ Append(of(s), Says(b))[i] = Says(b)
        <5> HIDE DEF of
        <5> QED
          BY <1>2, <1>3, <2>1, <3>2, AppendProperties
      <4> QED
        BY <3>1, <4>1
    <3>3. CASE i \in 1..Len(s)
      <4>1. Append(s, b)[i] = s[i] /\ Append(of(s), Says(b))[i] = of(s)[i]
        <5> HIDE DEF of
        <5> QED
          BY <1>2, <1>3, <2>1, <3>3, AppendProperties
      <4> QED
        BY <1>1, <3>1, <3>3, <4>1
    <3> QED
      BY <3>2, <3>3
  <2>3. of(Append(s, b)) = [i \in 1..(Len(s) + 1) |-> of(Append(s, b))[i]]
    BY <2>1
  <2>4. Append(of(s), Says(b)) = [i \in 1..(Len(s) + 1) |-> Append(of(s), Says(b))[i]]
    <3> DEFINE q == Append(of(s), Says(b))
    <3>1. q \in Seq(Text) /\ Len(q) = Len(s) + 1
      <4> HIDE DEF of
      <4> QED
        BY <1>2, <1>3, <2>1, AppendProperties
    <3> HIDE DEF q
    <3>2. q = [i \in 1..Len(q) |-> q[i]]
      BY <3>1
    <3>3. q = [i \in 1..(Len(s) + 1) |-> q[i]]
      BY <3>1, <3>2
    <3> QED
      BY <3>3 DEF q
  <2> HIDE DEF of
  <2> QED
    BY <2>2, <2>3, <2>4
<1>5. TextOf(s) = FlattenSeq(of(s)) /\ TextOf(Append(s, b)) = FlattenSeq(of(Append(s, b)))
  BY DEF TextOf
<1> HIDE DEF of
<1> QED
  BY <1>2, <1>3, <1>4, <1>5, FlattenAppend

LEMMA TextOfNone == TextOf(<<>>) = <<>>
<1>1. TextOf(<<>>) = FlattenSeq(<<>>)
  BY DEF TextOf
<1> QED
  BY <1>1, FlattenNone

LEMMA TextOfIsText == \A s \in Seq(Blocks) : TextOf(s) \in Text
<1> DEFINE T == {n \in Nat : \A s \in Seq(Blocks) : Len(s) = n => TextOf(s) \in Text}
<1>1. 0 \in T
  <2>1. \A s \in Seq(Blocks) : Len(s) = 0 => s = <<>>
    OBVIOUS
  <2>2. <<>> \in Text
    BY DEF Text
  <2> QED
    BY <2>1, <2>2, TextOfNone
<1>2. ASSUME NEW n \in Nat, n \in T PROVE n + 1 \in T
  <2> SUFFICES ASSUME NEW s \in Seq(Blocks), Len(s) = n + 1 PROVE TextOf(s) \in Text
    OBVIOUS
  <2>1. s # <<>>
    OBVIOUS
  <2>2. PICK t \in Seq(Blocks), b \in Blocks : s = Append(t, b)
    BY <2>1, SequenceEmptyOrAppend
  <2>3. TextOf(t) \in Text /\ Says(b) \in Text /\ TextOf(s) = TextOf(t) \o Says(b)
    BY <1>2, <2>2, SaysText, TextOfAppend
  <2> QED
    BY <2>3 DEF Text
<1>3. Nat \subseteq T
  <2> HIDE DEF T
  <2> QED
    BY <1>1, <1>2, InductionOnSet
<1> QED
  BY <1>3

-----------------------------------------------------------------------------
(* An answer under way: the request's mode, the assembler and the client *)

Assembler == [open : Blocks, index : Nat, blocks : Seq(Blocks), carry : Text]

Client == [open : Blocks, blocks : Seq(Blocks), told : {"nothing", "done", "failed"},
           orderly : BOOLEAN]

Answer == [mode : Mode, asm : Assembler, client : Client]

\* The open block has a kind, and the index counts the blocks.
Numbered(r) ==
    /\ r.asm.open.kind = "" => r.asm.open = NoBlock
    /\ r.asm.index = Len(r.asm.blocks)
         + IF Messages(r) \/ r.asm.open = NoBlock THEN 0 ELSE 1

\* The open block as the client has it: redacted reasoning is not sent yet.
Shown(block) == IF block.kind = "redacted" THEN NoBlock ELSE block

InStep(r) ==
    r.mode.streaming => /\ r.client.orderly
                        /\ r.client.blocks = r.asm.blocks
                        /\ r.client.open = Shown(r.asm.open)

Sound(r) == r \in Answer /\ Numbered(r) /\ InStep(r)

\* Nothing has been said of the end yet.
Live(r) == Sound(r) /\ r.client.told = "nothing"

\* The text of the answer, but for what is held back.
Said(r) == TextOf(r.asm.blocks) \o Says(r.asm.open)

LEMMA TextJoins ==
    /\ <<>> \in Text
    /\ \A x \in Pieces : <<x>> \in Text
    /\ \A s, t \in Text : s \o t \in Text
    /\ \A s \in Text : s \o <<>> = s /\ <<>> \o s = s
    /\ \A s, t, u \in Text : (s \o t) \o u = s \o (t \o u)
<1>1. \A s, t \in Text : s \o t \in Text
  BY ConcatProperties DEF Text
<1>2. \A s \in Text : s \o <<>> = s /\ <<>> \o s = s
  BY ConcatEmptySeq DEF Text
<1>3. \A s, t, u \in Text : (s \o t) \o u = s \o (t \o u)
  BY ConcatAssociative DEF Text
<1>4. \A x \in Pieces : <<x>> \in Text
  BY DEF Text
<1>5. <<>> \in Text
  BY DEF Text
<1> QED
  BY <1>1, <1>2, <1>3, <1>4, <1>5

LEMMA NoBlockIs == NoBlock \in Blocks /\ NoBlock.kind = "" /\ Says(NoBlock) = <<>>
<1>1. <<>> \in Text
  BY DEF Text
<1> QED
  BY <1>1 DEF NoBlock, Block, Blocks, Says

LEMMA NormalizedIs ==
    ASSUME NEW b \in Blocks
    PROVE  Normalized(b) \in Blocks /\ Normalized(b).kind = b.kind /\ Says(Normalized(b)) = Says(b)
<1>1. b.data \in Text /\ b.kind \in {"", "text", "thinking", "redacted", "tool"}
  BY DEF Blocks
<1>2. <<"{}">> \in Text /\ <<"_raw">> \o b.data \in Text
  <2>1. <<"{}">> \in Text /\ <<"_raw">> \in Text
    BY CodeHasPieces, TextJoins
  <2> QED
    BY <1>1, <2>1, TextJoins
<1>3. \A x \in Text : [b EXCEPT !.data = x] \in Blocks /\ [b EXCEPT !.data = x].kind = b.kind
  BY DEF Blocks
<1>4. CASE b.kind = "tool" /\ b.data = <<>>
  <2>1. Normalized(b) = [b EXCEPT !.data = <<"{}">>]
    BY <1>4 DEF Normalized
  <2> QED
    BY <1>2, <1>3, <1>4, <2>1 DEF Says
<1>5. CASE b.kind = "tool" /\ Len(b.data) > 1
  <2>1. b.data # <<>>
    BY <1>5
  <2>2. Normalized(b) = [b EXCEPT !.data = <<"_raw">> \o b.data]
    BY <1>5, <2>1 DEF Normalized
  <2> QED
    BY <1>2, <1>3, <1>5, <2>2 DEF Says
<1>6. CASE ~(b.kind = "tool" /\ (b.data = <<>> \/ Len(b.data) > 1))
  <2>1. Normalized(b) = b
    BY <1>6 DEF Normalized
  <2> QED
    BY <2>1
<1> QED
  BY <1>4, <1>5, <1>6

LEMMA SaidIsText ==
    ASSUME NEW r \in Answer
    PROVE  /\ Said(r) \in Text
           /\ TextOf(r.asm.blocks) \in Text
           /\ Says(r.asm.open) \in Text
           /\ TextOf(Append(r.asm.blocks, r.asm.open)) = Said(r)
<1>1. r.asm.blocks \in Seq(Blocks) /\ r.asm.open \in Blocks
  BY DEF Answer, Assembler
<1>2. TextOf(r.asm.blocks) \in Text /\ Says(r.asm.open) \in Text
  BY <1>1, TextOfIsText, SaysText
<1>3. TextOf(r.asm.blocks) \o Says(r.asm.open) \in Text
  BY <1>2 DEF Text
<1> QED
  BY <1>1, <1>2, <1>3, TextOfAppend DEF Said

-----------------------------------------------------------------------------
(* What the client makes of an event that it expects *)

LEMMA StartSeen ==
    ASSUME NEW c \in Client, c.told = "nothing", c.open = NoBlock, NEW b \in Blocks
    PROVE  LET d == Received(c, Start(Len(c.blocks), b))
           IN /\ d \in Client
              /\ d.open = b /\ d.blocks = c.blocks /\ d.told = c.told /\ d.orderly = c.orderly
BY DEF Received, Expected, Start, Client

LEMMA DeltaSeen ==
    ASSUME NEW c \in Client, c.told = "nothing", c.open # NoBlock, NEW data \in Text
    PROVE  LET d == Received(c, Delta(Len(c.blocks), data))
           IN /\ d \in Client
              /\ d.open = [c.open EXCEPT !.data = @ \o data]
              /\ d.blocks = c.blocks /\ d.told = c.told /\ d.orderly = c.orderly
<1>1. c.open.data \o data \in Text
  <2>1. c.open.data \in Text
    BY DEF Client, Blocks
  <2> QED
    BY <2>1, TextJoins
<1>2. [c.open EXCEPT !.data = @ \o data] \in Blocks
  BY <1>1 DEF Client, Blocks
<1>3. Received(c, Delta(Len(c.blocks), data)) = [c EXCEPT !.open.data = @ \o data]
  BY DEF Received, Expected, Delta, Block
<1>4. [c EXCEPT !.open.data = @ \o data] = [c EXCEPT !.open = [c.open EXCEPT !.data = @ \o data]]
  BY DEF Client, Blocks
<1> QED
  BY <1>2, <1>3, <1>4 DEF Client

LEMMA StopSeen ==
    ASSUME NEW c \in Client, c.told = "nothing"
    PROVE  LET b == Normalized(c.open)
               d == Received(c, Stop(Len(c.blocks), b))
           IN /\ d \in Client
              /\ d.open = NoBlock /\ d.blocks = Append(c.blocks, b)
              /\ d.told = c.told /\ d.orderly = c.orderly
<1>1. Normalized(c.open) \in Blocks /\ c.blocks \in Seq(Blocks)
  BY NormalizedIs DEF Client
<1>2. Append(c.blocks, Normalized(c.open)) \in Seq(Blocks)
  BY <1>1
<1> QED
  BY <1>1, <1>2, NoBlockIs DEF Received, Expected, Stop, Client

LEMMA EndSeen ==
    ASSUME NEW c \in Client, c.told = "nothing", NEW blocks, NEW told \in {"done", "failed"},
           told = "done" => c.open = NoBlock /\ c.blocks = blocks
    PROVE  LET d == Received(c, Final(told, blocks))
           IN /\ d \in Client
              /\ d.open = c.open /\ d.blocks = c.blocks /\ d.told = told /\ d.orderly = c.orderly
BY DEF Received, Expected, Final, Client

\* An event changes the client only, and only while the answer is streamed.
LEMMA EmitIs ==
    ASSUME NEW r \in Answer, NEW e, Received(r.client, e) \in Client
    PROVE  /\ Emit(r, e) \in Answer
           /\ Emit(r, e).asm = r.asm /\ Emit(r, e).mode = r.mode
           /\ Emit(r, e).client = IF r.mode.streaming THEN Received(r.client, e) ELSE r.client
BY DEF Emit, Answer

-----------------------------------------------------------------------------
(* Closing a block *)

LEMMA IndexIs ==
    ASSUME NEW r, Live(r), r.asm.open # NoBlock
    PROVE  IndexOf(r) = Len(r.asm.blocks)
<1>1. r \in Answer /\ Numbered(r)
  BY DEF Live, Sound
<1>2. Len(r.asm.blocks) \in Nat /\ r.asm.index \in Nat
  BY <1>1 DEF Answer, Assembler
<1>3. r.asm.index = Len(r.asm.blocks) + IF Messages(r) THEN 0 ELSE 1
  BY <1>1 DEF Numbered
<1> QED
  BY <1>2, <1>3 DEF IndexOf

LEMMA ShutIs ==
    ASSUME NEW r \in Answer
    PROVE  LET q == Shut(r)
           IN /\ q \in Answer
              /\ q.mode = r.mode /\ q.client = r.client
              /\ q.asm.open = NoBlock
              /\ q.asm.blocks = Append(r.asm.blocks, Normalized(r.asm.open))
              /\ q.asm.index = IF Messages(r) THEN r.asm.index + 1 ELSE r.asm.index
              /\ q.asm.carry = r.asm.carry
<1>1. Append(r.asm.blocks, Normalized(r.asm.open)) \in Seq(Blocks)
  BY NormalizedIs DEF Answer, Assembler
<1> DEFINE blocks == Append(r.asm.blocks, Normalized(r.asm.open))
           index == IF Messages(r) THEN r.asm.index + 1 ELSE r.asm.index
<1>2. r.mode \in Mode /\ r.client \in Client /\ r.asm.index \in Nat /\ r.asm.carry \in Text
      /\ r.asm \in Assembler
  BY DEF Answer, Assembler
<1>3. index \in Nat
  BY <1>2
<1> DEFINE a == [r.asm EXCEPT !.blocks = blocks, !.open = NoBlock, !.index = index]
<1>4. Shut(r) = [r EXCEPT !.asm = a]
  BY DEF Shut, Answer, Assembler
<1> HIDE DEF blocks, index
<1>5. a \in Assembler /\ a.open = NoBlock /\ a.blocks = blocks /\ a.index = index
      /\ a.carry = r.asm.carry
  <2>1. blocks \in Seq(Blocks)
    BY <1>1 DEF blocks
  <2> QED
    BY <1>2, <1>3, <2>1, NoBlockIs DEF Assembler
<1> HIDE DEF a
<1>6. Shut(r) \in Answer /\ Shut(r).asm = a /\ Shut(r).mode = r.mode /\ Shut(r).client = r.client
  BY <1>4, <1>5 DEF Answer
<1> QED
  BY <1>5, <1>6 DEF blocks, index

\* closeOpen: the block that was open is the last one now, and was announced.
LEMMA CloseOpenLives ==
    ASSUME NEW r, Live(r)
    PROVE  LET q == CloseOpen(r)
           IN /\ Live(q)
              /\ q.mode = r.mode /\ q.asm.open = NoBlock /\ q.asm.carry = r.asm.carry
              /\ Said(q) = Said(r)
<1>1. CASE r.asm.open = NoBlock
  BY <1>1 DEF CloseOpen
<1>2. CASE r.asm.open # NoBlock
  <2> DEFINE open == r.asm.open
             begun == IF open.kind = "redacted" THEN Emit(r, Start(IndexOf(r), open)) ELSE r
             told == Emit(begun, Stop(IndexOf(r), Normalized(open)))
             q == Shut(told)
  <2>1. r \in Answer /\ r.client \in Client /\ r.asm \in Assembler
        /\ open \in Blocks /\ r.asm.blocks \in Seq(Blocks) /\ r.client.told = "nothing"
    BY DEF Live, Sound, Answer, Assembler
  <2>2. IndexOf(r) = Len(r.asm.blocks)
    BY <1>2, IndexIs
  <2>3. r.mode.streaming => /\ r.client.orderly
                            /\ r.client.blocks = r.asm.blocks
                            /\ r.client.open = Shown(open)
    BY DEF Live, Sound, InStep
  <2>4. /\ begun \in Answer /\ begun.asm = r.asm /\ begun.mode = r.mode
        /\ begun.client \in Client /\ begun.client.told = "nothing"
        /\ r.mode.streaming => /\ begun.client.orderly
                               /\ begun.client.blocks = r.asm.blocks
                               /\ begun.client.open = open
    <3>1. CASE open.kind # "redacted"
      <4>1. begun = r
        BY <3>1
      <4> HIDE DEF begun
      <4> QED
        BY <2>1, <2>3, <3>1, <4>1 DEF Shown
    <3>2. CASE open.kind = "redacted" /\ r.mode.streaming
      <4>1. r.client.open = NoBlock
        BY <2>3, <3>2 DEF Shown
      <4> DEFINE d == Received(r.client, Start(Len(r.client.blocks), open))
      <4>2. d \in Client /\ d.open = open /\ d.blocks = r.client.blocks
            /\ d.told = r.client.told /\ d.orderly = r.client.orderly
        <5> HIDE DEF open
        <5> QED
          BY <2>1, <4>1, StartSeen
      <4>3. begun = Emit(r, Start(Len(r.client.blocks), open))
        BY <2>2, <2>3, <3>2
      <4>4. begun \in Answer /\ begun.asm = r.asm /\ begun.mode = r.mode /\ begun.client = d
        BY <2>1, <3>2, <4>2, <4>3, EmitIs
      <4> HIDE DEF begun, d
      <4> QED
        BY <2>1, <2>3, <3>2, <4>2, <4>4
    <3>3. CASE open.kind = "redacted" /\ ~r.mode.streaming
      <4>1. begun = r
        BY <3>3 DEF Emit
      <4> HIDE DEF begun
      <4> QED
        BY <2>1, <3>3, <4>1
    <3> QED
      BY <3>1, <3>2, <3>3
  <2> HIDE DEF begun
  <2>5. /\ told \in Answer /\ told.asm = r.asm /\ told.mode = r.mode
        /\ told.client \in Client /\ told.client.told = "nothing"
        /\ r.mode.streaming => /\ told.client.orderly
                               /\ told.client.blocks = Append(r.asm.blocks, Normalized(open))
                               /\ told.client.open = NoBlock
    <3>1. CASE r.mode.streaming
      <4> DEFINE c == begun.client
                 d == Received(c, Stop(Len(c.blocks), Normalized(c.open)))
      <4>1. d \in Client /\ d.open = NoBlock /\ d.blocks = Append(c.blocks, Normalized(c.open))
            /\ d.told = c.told /\ d.orderly = c.orderly
        <5>1. c \in Client /\ c.told = "nothing"
          BY <2>4
        <5> HIDE DEF c
        <5> QED
          BY <5>1, StopSeen
      <4>2. told = Emit(begun, Stop(Len(c.blocks), Normalized(c.open)))
        BY <2>2, <2>4, <3>1
      <4>3. told \in Answer /\ told.asm = begun.asm /\ told.mode = begun.mode /\ told.client = d
        BY <2>4, <3>1, <4>1, <4>2, EmitIs
      <4> HIDE DEF told, d
      <4> QED
        BY <2>4, <3>1, <4>1, <4>3
    <3>2. CASE ~r.mode.streaming
      <4>1. told = begun
        BY <2>4, <3>2 DEF Emit
      <4> HIDE DEF told
      <4> QED
        BY <2>4, <3>2, <4>1
    <3> QED
      BY <3>1, <3>2
  <2>6. CloseOpen(r) = q
    BY <1>2 DEF CloseOpen, begun
  <2> HIDE DEF told
  <2>7. /\ q \in Answer /\ q.mode = r.mode /\ q.client = told.client
        /\ q.asm.open = NoBlock
        /\ q.asm.blocks = Append(r.asm.blocks, Normalized(open))
        /\ q.asm.index = IF Messages(r) THEN r.asm.index + 1 ELSE r.asm.index
        /\ q.asm.carry = r.asm.carry
    <3>1. /\ q \in Answer /\ q.mode = told.mode /\ q.client = told.client
          /\ q.asm.open = NoBlock
          /\ q.asm.blocks = Append(told.asm.blocks, Normalized(told.asm.open))
          /\ q.asm.index = IF Messages(told) THEN told.asm.index + 1 ELSE told.asm.index
          /\ q.asm.carry = told.asm.carry
      BY <2>5, ShutIs
    <3>2. Messages(told) <=> Messages(r)
      BY <2>5 DEF Messages
    <3> HIDE DEF q
    <3> QED
      BY <2>5, <3>1, <3>2
  <2> HIDE DEF q
  <2>8. Normalized(open) \in Blocks /\ Says(Normalized(open)) = Says(open)
    BY <2>1, NormalizedIs
  <2>9. Numbered(q)
    <3>1. Len(q.asm.blocks) = Len(r.asm.blocks) + 1 /\ Len(r.asm.blocks) \in Nat
      <4> HIDE DEF open
      <4> QED
        BY <2>1, <2>7, <2>8, AppendProperties
    <3>2. r.asm.index = Len(r.asm.blocks) + IF Messages(r) THEN 0 ELSE 1
      BY <1>2 DEF Live, Sound, Numbered
    <3> QED
      BY <2>7, <3>1, <3>2 DEF Numbered
  <2>10. InStep(q)
    BY <2>5, <2>7, NoBlockIs DEF InStep, Shown
  <2>11. Said(q) = Said(r)
    <3>1. TextOf(q.asm.blocks) = TextOf(r.asm.blocks) \o Says(open)
      BY <2>1, <2>7, <2>8, TextOfAppend
    <3>2. TextOf(q.asm.blocks) \in Text /\ Says(q.asm.open) = <<>>
      BY <2>7, SaidIsText, NoBlockIs
    <3>3. TextOf(q.asm.blocks) \o <<>> = TextOf(q.asm.blocks)
      BY <3>2 DEF Text
    <3> QED
      BY <3>1, <3>2, <3>3 DEF Said
  <2> QED
    BY <2>5, <2>6, <2>7, <2>9, <2>10, <2>11 DEF Live, Sound
<1> QED
  BY <1>1, <1>2

-----------------------------------------------------------------------------
(* Opening a block, and adding to it *)

Kinds == {"text", "thinking", "redacted", "tool"}

LEMMA OpenedIs ==
    ASSUME NEW r \in Answer, NEW b \in Blocks
    PROVE  LET q == Opened(r, b)
           IN /\ q \in Answer
              /\ q.mode = r.mode /\ q.client = r.client
              /\ q.asm.open = b
              /\ q.asm.blocks = r.asm.blocks
              /\ q.asm.index = IF Messages(r) THEN r.asm.index ELSE r.asm.index + 1
              /\ q.asm.carry = r.asm.carry
<1> DEFINE index == IF Messages(r) THEN r.asm.index ELSE r.asm.index + 1
           a == [r.asm EXCEPT !.open = b, !.index = index]
<1>1. r.asm.index \in Nat /\ r.asm \in Assembler
  BY DEF Answer, Assembler
<1>2. index \in Nat
  BY <1>1
<1>3. Opened(r, b) = [r EXCEPT !.asm = a]
  BY DEF Opened, Answer, Assembler
<1> HIDE DEF index
<1>4. a \in Assembler /\ a.open = b /\ a.blocks = r.asm.blocks /\ a.index = index
      /\ a.carry = r.asm.carry
  BY <1>1, <1>2 DEF Assembler
<1> HIDE DEF a
<1>5. Opened(r, b) \in Answer /\ Opened(r, b).asm = a /\ Opened(r, b).mode = r.mode
      /\ Opened(r, b).client = r.client
  BY <1>3, <1>4 DEF Answer
<1> QED
  BY <1>4, <1>5 DEF index

LEMMA OpenLives ==
    ASSUME NEW r, Live(r), NEW kind \in Kinds, NEW id \in ToolIds \union {NoId}
    PROVE  LET q == Open(r, kind, id)
           IN /\ Live(q)
              /\ q.mode = r.mode /\ q.asm.carry = r.asm.carry
              /\ q.asm.open = Block(kind, id, <<>>)
              /\ Said(q) = Said(r)
<1> DEFINE c == CloseOpen(r)
           b == Block(kind, id, <<>>)
           o == Opened(c, b)
           q == Open(r, kind, id)
<1>1. Live(c) /\ c.mode = r.mode /\ c.asm.open = NoBlock /\ c.asm.carry = r.asm.carry
      /\ Said(c) = Said(r)
  BY CloseOpenLives
<1> HIDE DEF c
<1>2. b \in Blocks /\ b.kind = kind /\ b # NoBlock /\ Says(b) = <<>>
  <2>1. <<>> \in Text
    BY TextJoins
  <2> QED
    BY <2>1 DEF Block, Blocks, Kinds, NoBlock, Says
<1>3. c \in Answer /\ c.client \in Client /\ c.client.told = "nothing"
      /\ c.asm.blocks \in Seq(Blocks) /\ c.asm.index \in Nat
      /\ c.asm.index = Len(c.asm.blocks)
  <2>1. c \in Answer /\ Numbered(c) /\ c.client.told = "nothing"
    BY <1>1 DEF Live, Sound
  <2>2. c.client \in Client /\ c.asm.blocks \in Seq(Blocks) /\ c.asm.index \in Nat
    BY <2>1 DEF Answer, Assembler
  <2>3. c.asm.index = Len(c.asm.blocks)
    BY <1>1, <2>1, <2>2 DEF Numbered
  <2> QED
    BY <2>1, <2>2, <2>3
<1>4. c.mode.streaming => /\ c.client.orderly
                          /\ c.client.blocks = c.asm.blocks
                          /\ c.client.open = NoBlock
  BY <1>1, NoBlockIs DEF Live, Sound, InStep, Shown
<1>5. /\ o \in Answer /\ o.mode = c.mode /\ o.client = c.client
      /\ o.asm.open = b /\ o.asm.blocks = c.asm.blocks /\ o.asm.carry = c.asm.carry
      /\ o.asm.index = IF Messages(c) THEN c.asm.index ELSE c.asm.index + 1
  <2> HIDE DEF b
  <2> QED
    BY <1>2, <1>3, OpenedIs
<1> HIDE DEF b
<1>6. q = IF kind = "redacted" THEN o ELSE Emit(o, Start(IndexOf(o), o.asm.open))
  BY DEF Open, c, b
<1> HIDE DEF o, q
<1>7. Numbered(o) /\ IndexOf(o) = Len(c.asm.blocks)
  <2>1. Messages(o) = Messages(c)
    BY <1>5 DEF Messages
  <2>2. b.kind # ""
    BY <1>2 DEF Kinds
  <2> DEFINE n == Len(c.asm.blocks)
  <2>3. n \in Nat
    BY <1>3
  <2>4. c.asm.index = n /\ Len(o.asm.blocks) = n
    BY <1>3, <1>5
  <2> HIDE DEF n
  <2>5. CASE Messages(o)
    <3>1. o.asm.index = n
      BY <1>5, <2>1, <2>4, <2>5
    <3>2. n = n + 0
      BY <2>3
    <3> QED
      BY <1>2, <1>5, <2>2, <2>4, <2>5, <3>1, <3>2 DEF Numbered, IndexOf, n
  <2>6. CASE ~Messages(o)
    <3>1. o.asm.index = n + 1
      BY <1>5, <2>1, <2>4, <2>6
    <3>2. n = (n + 1) - 1
      BY <2>3
    <3> QED
      BY <1>2, <1>5, <2>2, <2>4, <2>6, <3>1, <3>2 DEF Numbered, IndexOf, n
  <2> QED
    BY <2>5, <2>6
<1>8. Said(o) = Said(c)
  BY <1>1, <1>2, <1>5, NoBlockIs DEF Said
<1>9. /\ q \in Answer /\ q.asm = o.asm /\ q.mode = o.mode
      /\ q.client \in Client /\ q.client.told = "nothing"
      /\ q.mode.streaming => /\ q.client.orderly
                             /\ q.client.blocks = c.asm.blocks
                             /\ q.client.open = Shown(b)
  <2>1. CASE kind = "redacted"
    BY <1>2, <1>3, <1>4, <1>5, <1>6, <2>1 DEF Shown
  <2>2. CASE kind # "redacted" /\ ~c.mode.streaming
    <3>1. q = o
      BY <1>5, <1>6, <2>2 DEF Emit
    <3> QED
      BY <1>3, <1>5, <2>2, <3>1
  <2>3. CASE kind # "redacted" /\ c.mode.streaming
    <3> DEFINE k == c.client
               d == Received(k, Start(Len(k.blocks), b))
    <3>1. d \in Client /\ d.open = b /\ d.blocks = k.blocks /\ d.told = k.told
          /\ d.orderly = k.orderly
      <4>1. k \in Client /\ k.told = "nothing" /\ k.open = NoBlock
        BY <1>3, <1>4, <2>3
      <4> HIDE DEF k
      <4> QED
        BY <1>2, <4>1, StartSeen
    <3>2. q = Emit(o, Start(Len(k.blocks), b))
      BY <1>4, <1>5, <1>6, <1>7, <2>3
    <3>3. q \in Answer /\ q.asm = o.asm /\ q.mode = o.mode /\ q.client = d
      BY <1>5, <2>3, <3>1, <3>2, EmitIs
    <3>4. Shown(b) = b
      BY <1>2, <2>3 DEF Shown
    <3> HIDE DEF d
    <3> QED
      BY <1>3, <1>4, <1>5, <2>3, <3>1, <3>3, <3>4
  <2> QED
    BY <2>1, <2>2, <2>3
<1>10. Said(q) = Said(o) /\ Numbered(q)
  BY <1>7, <1>9 DEF Said, Numbered, Messages
<1>11. InStep(q)
  BY <1>5, <1>9 DEF InStep
<1>12. Live(q)
  BY <1>9, <1>10, <1>11 DEF Live, Sound
<1> QED
  BY <1>1, <1>5, <1>8, <1>9, <1>10, <1>12 DEF q, b

\* The data of the block that is open.
LEMMA GrowLives ==
    ASSUME NEW r, Live(r), r.asm.open # NoBlock, NEW data \in Text
    PROVE  LET q == Grow(r, data)
           IN /\ Live(q)
              /\ q.mode = r.mode /\ q.asm.carry = r.asm.carry
              /\ q.asm.open.kind = r.asm.open.kind /\ q.asm.open # NoBlock
              /\ Said(q) = Said(r) \o (IF r.asm.open.kind = "text" THEN data ELSE <<>>)
<1> DEFINE b == [r.asm.open EXCEPT !.data = @ \o data]
           g == [r EXCEPT !.asm.open.data = @ \o data]
           q == Grow(r, data)
<1>1. /\ r \in Answer /\ Numbered(r) /\ InStep(r) /\ r.client.told = "nothing"
      /\ r.asm \in Assembler /\ r.client \in Client
      /\ r.asm.open \in Blocks /\ r.asm.blocks \in Seq(Blocks)
      /\ r.asm.open.kind # ""
  BY DEF Live, Sound, Answer, Assembler, Numbered
<1>2. b \in Blocks /\ b.kind = r.asm.open.kind /\ b # NoBlock /\ b.data = r.asm.open.data \o data
  <2>1. r.asm.open.data \in Text
    BY <1>1 DEF Blocks
  <2>2. r.asm.open.data \o data \in Text
    BY <2>1, TextJoins
  <2>3. b \in Blocks /\ b.kind = r.asm.open.kind /\ b.data = r.asm.open.data \o data
    BY <1>1, <2>2 DEF Blocks
  <2> HIDE DEF b
  <2> QED
    BY <1>1, <2>3, NoBlockIs
<1>3. /\ g \in Answer /\ g.mode = r.mode /\ g.client = r.client
      /\ g.asm.open = b /\ g.asm.blocks = r.asm.blocks /\ g.asm.index = r.asm.index
      /\ g.asm.carry = r.asm.carry
  <2> DEFINE a == [r.asm EXCEPT !.open = b]
  <2>1. g = [r EXCEPT !.asm = a]
    BY <1>1 DEF Answer, Assembler, Blocks
  <2> HIDE DEF b, g
  <2>2. a \in Assembler /\ a.open = b /\ a.blocks = r.asm.blocks /\ a.index = r.asm.index
        /\ a.carry = r.asm.carry
    BY <1>1, <1>2 DEF Assembler
  <2> HIDE DEF a
  <2>3. g \in Answer /\ g.asm = a /\ g.mode = r.mode /\ g.client = r.client
    BY <1>1, <2>1, <2>2 DEF Answer
  <2> QED
    BY <2>2, <2>3
<1>4. q = IF data = <<>> \/ r.asm.open.kind = "redacted" THEN g
          ELSE Emit(g, Delta(IndexOf(r), data))
  BY DEF Grow
<1>5. Says(b) = Says(r.asm.open) \o (IF r.asm.open.kind = "text" THEN data ELSE <<>>)
  <2> HIDE DEF b
  <2>1. <<>> \o <<>> = <<>>
    BY TextJoins
  <2> QED
    BY <1>2, <2>1 DEF Says
<1> HIDE DEF b, g, q
<1>6. Said(g) = Said(r) \o (IF r.asm.open.kind = "text" THEN data ELSE <<>>)
  <2> DEFINE x == IF r.asm.open.kind = "text" THEN data ELSE <<>>
  <2>1. x \in Text /\ TextOf(r.asm.blocks) \in Text /\ Says(r.asm.open) \in Text
    BY <1>1, TextJoins, SaidIsText
  <2> HIDE DEF x
  <2>2. (TextOf(r.asm.blocks) \o Says(r.asm.open)) \o x = TextOf(r.asm.blocks) \o (Says(r.asm.open) \o x)
    BY <2>1, TextJoins
  <2>3. Said(g) = TextOf(r.asm.blocks) \o (Says(r.asm.open) \o x)
    BY <1>3, <1>5 DEF Said, x
  <2>4. Said(r) \o x = TextOf(r.asm.blocks) \o (Says(r.asm.open) \o x)
    BY <2>2 DEF Said
  <2>5. Said(g) = Said(r) \o x
    BY <2>3, <2>4
  <2> QED
    BY <2>5 DEF x
<1>7. Numbered(g)
  <2>1. r.asm.index = Len(r.asm.blocks) + IF Messages(r) THEN 0 ELSE 1
    BY <1>1 DEF Numbered
  <2>2. Messages(g) = Messages(r)
    BY <1>3 DEF Messages
  <2> QED
    BY <1>1, <1>2, <1>3, <2>1, <2>2 DEF Numbered
<1>8. IndexOf(r) = Len(r.asm.blocks)
  BY IndexIs
<1>9. /\ q \in Answer /\ q.asm = g.asm /\ q.mode = g.mode
      /\ q.client \in Client /\ q.client.told = "nothing"
      /\ q.mode.streaming => /\ q.client.orderly
                             /\ q.client.blocks = r.asm.blocks
                             /\ q.client.open = Shown(b)
  <2>0. r.mode.streaming => /\ r.client.orderly /\ r.client.blocks = r.asm.blocks
                            /\ r.client.open = Shown(r.asm.open)
    BY <1>1 DEF InStep
  <2>1. CASE r.asm.open.kind = "redacted"
    <3>1. Shown(b) = Shown(r.asm.open)
      BY <1>2, <2>1 DEF Shown
    <3>2. q = g
      BY <1>4, <2>1
    <3> QED
      BY <1>1, <1>3, <2>0, <3>1, <3>2
  <2>2. CASE data = <<>> /\ r.asm.open.kind # "redacted"
    <3>1. b = r.asm.open
      <4>1. r.asm.open.data \in Text
        BY <1>1 DEF Blocks
      <4>2. r.asm.open.data \o <<>> = r.asm.open.data
        BY <4>1, TextJoins
      <4> QED
        BY <1>1, <2>2, <4>2 DEF b, Blocks
    <3>2. q = g
      BY <1>4, <2>2
    <3> QED
      BY <1>1, <1>3, <2>0, <3>1, <3>2
  <2>3. CASE data # <<>> /\ r.asm.open.kind # "redacted" /\ ~r.mode.streaming
    <3>1. q = g
      BY <1>3, <1>4, <2>3 DEF Emit
    <3> QED
      BY <1>1, <1>3, <2>3, <3>1
  <2>4. CASE data # <<>> /\ r.asm.open.kind # "redacted" /\ r.mode.streaming
    <3> DEFINE k == r.client
               d == Received(k, Delta(Len(k.blocks), data))
    <3>1. k \in Client /\ k.told = "nothing" /\ k.open = r.asm.open /\ k.open # NoBlock
      BY <1>1, <2>0, <2>4 DEF Shown
    <3>2. d \in Client /\ d.open = [k.open EXCEPT !.data = @ \o data]
          /\ d.blocks = k.blocks /\ d.told = k.told /\ d.orderly = k.orderly
      <4> HIDE DEF k
      <4> QED
        BY <3>1, DeltaSeen
    <3>3. q = Emit(g, Delta(Len(k.blocks), data))
      BY <1>4, <1>8, <2>0, <2>4
    <3>4. q \in Answer /\ q.asm = g.asm /\ q.mode = g.mode /\ q.client = d
      BY <1>3, <2>4, <3>2, <3>3, EmitIs
    <3>5. Shown(b) = b
      BY <1>2, <2>4 DEF Shown
    <3>6. d.open = b
      BY <3>1, <3>2 DEF b
    <3> HIDE DEF d
    <3> QED
      BY <1>1, <1>3, <2>0, <2>4, <3>2, <3>4, <3>5, <3>6
  <2> QED
    BY <2>1, <2>2, <2>3, <2>4
<1>10. Said(q) = Said(g) /\ Numbered(q)
  BY <1>7, <1>9 DEF Said, Numbered, Messages
<1>11. InStep(q)
  BY <1>3, <1>9 DEF InStep
<1>12. Live(q)
  BY <1>9, <1>10, <1>11 DEF Live, Sound
<1> QED
  BY <1>2, <1>3, <1>6, <1>9, <1>10, <1>12 DEF q

\* addText
LEMMA AddTextLives ==
    ASSUME NEW r, Live(r), NEW text \in Text
    PROVE  LET q == AddText(r, text)
           IN /\ Live(q) /\ q.mode = r.mode /\ q.asm.carry = r.asm.carry
              /\ Said(q) = Said(r) \o text
<1>1. CASE text = <<>>
  <2>1. Said(r) \o <<>> = Said(r)
    BY TextJoins, SaidIsText DEF Live, Sound
  <2> QED
    BY <1>1, <2>1 DEF AddText
<1>2. CASE text # <<>> /\ r.asm.open.kind = "text"
  <2>1. AddText(r, text) = Grow(r, text)
    BY <1>2 DEF AddText
  <2>2. r.asm.open # NoBlock
    BY <1>2, NoBlockIs
  <2>3. LET q == Grow(r, text)
        IN /\ Live(q) /\ q.mode = r.mode /\ q.asm.carry = r.asm.carry
           /\ Said(q) = Said(r) \o (IF r.asm.open.kind = "text" THEN text ELSE <<>>)
    BY <2>2, GrowLives
  <2>4. Said(Grow(r, text)) = Said(r) \o text
    BY <1>2, <2>3
  <2> QED
    BY <2>1, <2>3, <2>4
<1>3. CASE text # <<>> /\ r.asm.open.kind # "text"
  <2> DEFINE o == Open(r, "text", NoId)
  <2>1. AddText(r, text) = Grow(o, text)
    BY <1>3 DEF AddText
  <2>2. Live(o) /\ o.mode = r.mode /\ o.asm.carry = r.asm.carry
        /\ o.asm.open = Block("text", NoId, <<>>) /\ Said(o) = Said(r)
    BY OpenLives DEF Kinds
  <2> HIDE DEF o
  <2>3. o.asm.open.kind = "text" /\ o.asm.open # NoBlock
    <3>1. Block("text", NoId, <<>>).kind = "text"
      BY DEF Block
    <3> QED
      BY <2>2, <3>1, NoBlockIs
  <2>4. LET q == Grow(o, text)
        IN /\ Live(q) /\ q.mode = o.mode /\ q.asm.carry = o.asm.carry
           /\ Said(q) = Said(o) \o (IF o.asm.open.kind = "text" THEN text ELSE <<>>)
    BY <2>2, <2>3, GrowLives
  <2>5. Said(Grow(o, text)) = Said(r) \o text
    BY <2>2, <2>3, <2>4
  <2> QED
    BY <2>1, <2>2, <2>4, <2>5
<1> QED
  BY <1>1, <1>2, <1>3

-----------------------------------------------------------------------------
(* Beginnings and endings of a text *)

LEMMA EndingIs ==
    ASSUME NEW s \in Text, NEW k \in 0..Len(s)
    PROVE  /\ Ending(s, k) \in Text
           /\ Len(Ending(s, k)) = k
           /\ \A i \in 1..k : Ending(s, k)[i] = s[Len(s) - k + i]
<1> DEFINE m == Len(s) - k + 1
           n == Len(s)
<1>1. n \in Nat /\ m \in Int /\ s \in Seq(Pieces) /\ k \in Nat
  BY DEF Text
<1>2. \A i \in m..n : s[i] \in Pieces
  BY <1>1
<1>3. n - m + 1 = k /\ (m <= n <=> k # 0)
  BY <1>1
<1> HIDE DEF m
<1>4. /\ SubSeq(s, m, n) \in Seq(Pieces)
      /\ Len(SubSeq(s, m, n)) = IF m <= n THEN n - m + 1 ELSE 0
      /\ \A i \in 1..(n - m + 1) : SubSeq(s, m, n)[i] = s[m + i - 1]
  BY <1>1, <1>2, SubSeqProperties
<1>5. Ending(s, k) = SubSeq(s, m, n)
  BY DEF Ending, m
<1>6. \A i \in 1..k : m + i - 1 = Len(s) - k + i
  BY <1>1 DEF m
<1> QED
  BY <1>1, <1>3, <1>4, <1>5, <1>6 DEF Text

LEMMA BeginningIs ==
    ASSUME NEW s \in Text, NEW k \in 0..Len(s)
    PROVE  /\ SubSeq(s, 1, k) \in Text
           /\ Len(SubSeq(s, 1, k)) = k
           /\ \A i \in 1..k : SubSeq(s, 1, k)[i] = s[i]
<1>1. s \in Seq(Pieces) /\ k \in Nat /\ Len(s) \in Nat
  BY DEF Text
<1>2. \A i \in 1..k : s[i] \in Pieces
  BY <1>1
<1>3. /\ SubSeq(s, 1, k) \in Seq(Pieces)
      /\ Len(SubSeq(s, 1, k)) = IF 1 <= k THEN k - 1 + 1 ELSE 0
      /\ \A i \in 1..(k - 1 + 1) : SubSeq(s, 1, k)[i] = s[1 + i - 1]
  BY <1>1, <1>2, SubSeqProperties
<1>4. k - 1 + 1 = k /\ \A i \in 1..k : 1 + i - 1 = i
  BY <1>1
<1> QED
  BY <1>1, <1>3, <1>4 DEF Text

LEMMA JoinIs ==
    ASSUME NEW s \in Text, NEW t \in Text
    PROVE  /\ s \o t \in Text
           /\ Len(s) \in Nat /\ Len(t) \in Nat
           /\ Len(s \o t) = Len(s) + Len(t)
           /\ \A i \in 1..(Len(s) + Len(t)) :
                (s \o t)[i] = IF i <= Len(s) THEN s[i] ELSE t[i - Len(s)]
BY ConcatProperties DEF Text

LEMMA SameText ==
    ASSUME NEW s \in Text, NEW t \in Text, Len(s) = Len(t), \A i \in 1..Len(s) : s[i] = t[i]
    PROVE  s = t
BY SeqEqual DEF Text

LEMMA SplitAtEnding ==
    ASSUME NEW s \in Text, NEW k \in 0..Len(s)
    PROVE  SubSeq(s, 1, Len(s) - k) \o Ending(s, k) = s
<1> DEFINE n == Len(s)
           b == SubSeq(s, 1, n - k)
           e == Ending(s, k)
<1>1. n \in Nat /\ k \in 0..n /\ n - k \in 0..n /\ (n - k) + k = n
  BY DEF Text
<1>2. /\ b \in Text /\ Len(b) = n - k /\ \A i \in 1..(n - k) : b[i] = s[i]
  BY <1>1, BeginningIs
<1>3. /\ e \in Text /\ Len(e) = k /\ \A i \in 1..k : e[i] = s[n - k + i]
  BY EndingIs
<1> HIDE DEF b, e, n
<1>4. b \o e \in Text /\ Len(b \o e) = n
      /\ \A i \in 1..n : (b \o e)[i] = IF i <= n - k THEN b[i] ELSE e[i - (n - k)]
  <2>1. /\ b \o e \in Text
        /\ Len(b \o e) = Len(b) + Len(e)
        /\ \A i \in 1..(Len(b) + Len(e)) : (b \o e)[i] = IF i <= Len(b) THEN b[i] ELSE e[i - Len(b)]
    BY <1>2, <1>3, JoinIs
  <2>2. Len(b) = n - k /\ Len(b) + Len(e) = n
    BY <1>1, <1>2, <1>3
  <2> QED
    BY <2>1, <2>2
<1>5. ASSUME NEW i \in 1..n PROVE (b \o e)[i] = s[i]
  <2>1. CASE i <= n - k
    <3>1. i \in 1..(n - k)
      BY <1>1, <2>1
    <3> QED
      BY <1>2, <1>4, <2>1, <3>1
  <2>2. CASE i > n - k
    <3>1. i - (n - k) \in 1..k /\ n - k + (i - (n - k)) = i /\ ~(i <= n - k)
      BY <1>1, <2>2
    <3> QED
      BY <1>3, <1>4, <3>1
  <2>3. i <= n - k \/ i > n - k
    BY <1>1
  <2> QED
    BY <2>1, <2>2, <2>3
<1>6. b \o e = s
  BY <1>4, <1>5, SameText DEF n
<1> QED
  BY <1>6 DEF b, e, n

LEMMA EndingOfEnding ==
    ASSUME NEW s \in Text, NEW k \in 0..Len(s), NEW j \in 0..k
    PROVE  Ending(Ending(s, k), j) = Ending(s, j)
<1> DEFINE e == Ending(s, k)
           n == Len(s)
<1>1. n \in Nat /\ k \in 0..n /\ j \in 0..k /\ j \in 0..n
  BY DEF Text
<1>2. e \in Text /\ Len(e) = k /\ \A i \in 1..k : e[i] = s[n - k + i]
  BY EndingIs
<1>3. Ending(s, j) \in Text /\ Len(Ending(s, j)) = j /\ \A i \in 1..j : Ending(s, j)[i] = s[n - j + i]
  BY <1>1, EndingIs
<1> HIDE DEF e, n
<1>4. Ending(e, j) \in Text /\ Len(Ending(e, j)) = j /\ \A i \in 1..j : Ending(e, j)[i] = e[k - j + i]
  BY <1>1, <1>2, EndingIs
<1>5. ASSUME NEW i \in 1..j PROVE Ending(e, j)[i] = Ending(s, j)[i]
  <2>1. k - j + i \in 1..k /\ n - k + (k - j + i) = n - j + i
    BY <1>1
  <2> QED
    BY <1>2, <1>3, <1>4, <2>1
<1>6. Ending(e, j) = Ending(s, j)
  BY <1>3, <1>4, <1>5, SameText
<1> QED
  BY <1>6 DEF e

LEMMA EndingOfJoin ==
    ASSUME NEW s \in Text, NEW t \in Text
    PROVE  /\ \A j \in 0..Len(t) : Ending(s \o t, j) = Ending(t, j)
           /\ \A j \in 0..Len(s) : Ending(s \o t, j + Len(t)) = Ending(s, j) \o t
<1> DEFINE n == Len(s)
           l == Len(t)
           u == s \o t
<1>1. n \in Nat /\ l \in Nat /\ u \in Text /\ Len(u) = n + l
      /\ \A i \in 1..(n + l) : u[i] = IF i <= n THEN s[i] ELSE t[i - n]
  BY JoinIs
<1> HIDE DEF u
<1>2. ASSUME NEW j \in 0..l PROVE Ending(u, j) = Ending(t, j)
  <2>1. Ending(t, j) \in Text /\ Len(Ending(t, j)) = j
        /\ \A i \in 1..j : Ending(t, j)[i] = t[l - j + i]
    BY EndingIs
  <2> HIDE DEF n, l
  <2>2. Ending(u, j) \in Text /\ Len(Ending(u, j)) = j
        /\ \A i \in 1..j : Ending(u, j)[i] = u[(n + l) - j + i]
    <3>1. j \in 0..Len(u)
      BY <1>1
    <3>2. Ending(u, j) \in Text /\ Len(Ending(u, j)) = j
          /\ \A i \in 1..j : Ending(u, j)[i] = u[Len(u) - j + i]
      BY <1>1, <3>1, EndingIs
    <3> QED
      BY <1>1, <3>2
  <2>3. ASSUME NEW i \in 1..j PROVE Ending(u, j)[i] = Ending(t, j)[i]
    <3>1. /\ (n + l) - j + i \in 1..(n + l) /\ ~((n + l) - j + i <= n)
          /\ ((n + l) - j + i) - n = l - j + i
      BY <1>1
    <3> QED
      BY <1>1, <2>1, <2>2, <3>1
  <2> QED
    BY <2>1, <2>2, <2>3, SameText
<1>3. ASSUME NEW j \in 0..n PROVE Ending(u, j + l) = Ending(s, j) \o t
  <2> DEFINE e == Ending(s, j)
  <2>1. e \in Text /\ Len(e) = j /\ \A i \in 1..j : e[i] = s[n - j + i]
    BY EndingIs
  <2> HIDE DEF e
  <2>2. e \o t \in Text /\ Len(e \o t) = j + l
        /\ \A i \in 1..(j + l) : (e \o t)[i] = IF i <= j THEN e[i] ELSE t[i - j]
    BY <2>1, JoinIs
  <2> HIDE DEF n, l
  <2>3. Ending(u, j + l) \in Text /\ Len(Ending(u, j + l)) = j + l
        /\ \A i \in 1..(j + l) : Ending(u, j + l)[i] = u[(n + l) - (j + l) + i]
    <3> DEFINE h == j + l
    <3>1. h \in 0..Len(u)
      BY <1>1
    <3> HIDE DEF h
    <3>2. Ending(u, h) \in Text /\ Len(Ending(u, h)) = h
          /\ \A i \in 1..h : Ending(u, h)[i] = u[Len(u) - h + i]
      BY <1>1, <3>1, EndingIs
    <3> QED
      BY <1>1, <3>2 DEF h
  <2>4. ASSUME NEW i \in 1..(j + l) PROVE Ending(u, j + l)[i] = (e \o t)[i]
    <3>1. (n + l) - (j + l) + i = n - j + i /\ n - j + i \in 1..(n + l)
      BY <1>1
    <3>2. u[n - j + i] = Ending(u, j + l)[i]
      BY <2>3, <3>1
    <3>3. CASE i <= j
      <4>1. i \in 1..j /\ n - j + i <= n
        BY <1>1, <3>3
      <4> QED
        BY <1>1, <2>1, <2>2, <3>1, <3>2, <3>3, <4>1
    <3>4. CASE i > j
      <4>1. ~(n - j + i <= n) /\ ~(i <= j) /\ (n - j + i) - n = i - j
        BY <1>1, <3>4
      <4> QED
        BY <1>1, <2>2, <3>1, <3>2, <4>1
    <3>5. i <= j \/ i > j
      BY <1>1
    <3> QED
      BY <3>3, <3>4, <3>5
  <2>5. Ending(u, j + l) = e \o t
    BY <2>2, <2>3, <2>4, SameText
  <2> QED
    BY <2>5 DEF e
<1> QED
  BY <1>2, <1>3 DEF n, l, u

LEMMA BeginningOfJoin ==
    ASSUME NEW s \in Text, NEW t \in Text, NEW h \in 0..Len(t)
    PROVE  SubSeq(s \o t, 1, Len(s \o t) - h) = s \o SubSeq(t, 1, Len(t) - h)
<1> DEFINE n == Len(s)
           l == Len(t)
           u == s \o t
           b == SubSeq(t, 1, l - h)
<1>1. n \in Nat /\ l \in Nat /\ u \in Text /\ Len(u) = n + l
      /\ \A i \in 1..(n + l) : u[i] = IF i <= n THEN s[i] ELSE t[i - n]
  BY JoinIs
<1>2. l - h \in 0..l
  BY <1>1
<1>3. b \in Text /\ Len(b) = l - h /\ \A i \in 1..(l - h) : b[i] = t[i]
  BY <1>2, BeginningIs
<1> HIDE DEF u, b
<1>4. s \o b \in Text /\ Len(s \o b) = n + (l - h)
      /\ \A i \in 1..(n + (l - h)) : (s \o b)[i] = IF i <= n THEN s[i] ELSE b[i - n]
  <2>1. s \o b \in Text /\ Len(s \o b) = n + Len(b)
        /\ \A i \in 1..(n + Len(b)) : (s \o b)[i] = IF i <= n THEN s[i] ELSE b[i - n]
    BY <1>3, JoinIs
  <2> HIDE DEF n, l
  <2> QED
    BY <1>3, <2>1
<1> HIDE DEF n, l
<1>5. /\ SubSeq(u, 1, n + (l - h)) \in Text
      /\ Len(SubSeq(u, 1, n + (l - h))) = n + (l - h)
      /\ \A i \in 1..(n + (l - h)) : SubSeq(u, 1, n + (l - h))[i] = u[i]
  <2>1. n + (l - h) \in 0..(n + l)
    BY <1>1, <1>2
  <2> QED
    BY <1>1, <2>1, BeginningIs
<1>6. ASSUME NEW i \in 1..(n + (l - h)) PROVE SubSeq(u, 1, n + (l - h))[i] = (s \o b)[i]
  <2>1. i \in 1..(n + l) /\ (~(i <= n) => i - n \in 1..(l - h))
    BY <1>1, <1>2
  <2> QED
    BY <1>1, <1>3, <1>4, <1>5, <2>1
<1>7. SubSeq(u, 1, n + (l - h)) = s \o b
  BY <1>4, <1>5, <1>6, SameText
<1>8. (n + l) - h = n + (l - h)
  BY <1>1, <1>2
<1> QED
  BY <1>1, <1>7, <1>8 DEF u, b, l

-----------------------------------------------------------------------------
(* Markers *)

LEMMA SeqOfThree ==
    ASSUME NEW S, NEW a \in S, NEW b \in S, NEW c \in S
    PROVE  <<a, b, c>> \in Seq(S) /\ Len(<<a, b, c>>) = 3
OBVIOUS

LEMMA MarkersAre ==
    ASSUME NEW m \in Markers
    PROVE  m \in Text /\ Len(m) = 3
<1>1. m = <<"<", "calls", ">">> \/ m = <<"<", "DSML", "calls">>
  BY DEF Markers
<1>2. "<" \in Pieces /\ "calls" \in Pieces /\ ">" \in Pieces /\ "DSML" \in Pieces
  BY CodeHasPieces
<1>3. CASE m = <<"<", "calls", ">">>
  BY <1>2, <1>3, SeqOfThree DEF Text
<1>4. CASE m = <<"<", "DSML", "calls">>
  BY <1>2, <1>4, SeqOfThree DEF Text
<1> QED
  BY <1>1, <1>3, <1>4

LEMMA SuffixIs ==
    ASSUME NEW m \in Text, NEW s \in Text
    PROVE  IsSuffix(m, s) <=> Len(m) <= Len(s) /\ Ending(s, Len(m)) = m
<1> DEFINE k == Len(m)
           n == Len(s)
           rm == Reverse(m)
           rs == Reverse(s)
<1>1. k \in Nat /\ n \in Nat /\ m \in Seq(Pieces) /\ s \in Seq(Pieces)
  BY DEF Text
<1>2. rm \in Text /\ Len(rm) = k /\ \A i \in 1..k : rm[i] = m[(k - i) + 1]
  <2>1. \A i \in 1..k : m[(k - i) + 1] \in Pieces
    BY <1>1
  <2> QED
    BY <1>1, <2>1 DEF Reverse, Text
<1>3. rs \in Text /\ Len(rs) = n /\ \A i \in 1..n : rs[i] = s[(n - i) + 1]
  <2>1. \A i \in 1..n : s[(n - i) + 1] \in Pieces
    BY <1>1
  <2> QED
    BY <1>1, <2>1 DEF Reverse, Text
<1>4. IsSuffix(m, s) <=> Len(rm) <= Len(rs) /\ SubSeq(rm, 1, Len(rm)) = SubSeq(rs, 1, Len(rm))
  BY DEF IsSuffix, IsPrefix
<1> HIDE DEF rm, rs
<1>5. CASE k > n
  BY <1>1, <1>2, <1>3, <1>4, <1>5
<1>6. CASE k <= n
  <2> DEFINE e == Ending(s, k)
  <2>1. e \in Text /\ Len(e) = k /\ \A i \in 1..k : e[i] = s[n - k + i]
    BY <1>1, <1>6, EndingIs
  <2> HIDE DEF e
  <2>2. /\ SubSeq(rm, 1, k) \in Text /\ Len(SubSeq(rm, 1, k)) = k
        /\ \A i \in 1..k : SubSeq(rm, 1, k)[i] = rm[i]
    <3>1. k \in 0..Len(rm)
      BY <1>1, <1>2
    <3> QED
      BY <1>2, <3>1, BeginningIs
  <2>3. /\ SubSeq(rs, 1, k) \in Text /\ Len(SubSeq(rs, 1, k)) = k
        /\ \A i \in 1..k : SubSeq(rs, 1, k)[i] = rs[i]
    <3>1. k \in 0..Len(rs)
      BY <1>1, <1>3, <1>6
    <3> QED
      BY <1>3, <3>1, BeginningIs
  <2> HIDE DEF k, n
  <2>4. ASSUME e = m PROVE SubSeq(rm, 1, k) = SubSeq(rs, 1, k)
    <3>1. ASSUME NEW i \in 1..k PROVE SubSeq(rm, 1, k)[i] = SubSeq(rs, 1, k)[i]
      <4>1. (k - i) + 1 \in 1..k /\ n - k + ((k - i) + 1) = (n - i) + 1 /\ i \in 1..n
        BY <1>1, <1>6
      <4> QED
        <5>1. rm[i] = m[(k - i) + 1]
          BY <1>2 DEF k
        <5>2. rs[i] = s[(n - i) + 1]
          BY <1>3, <4>1 DEF n
        <5>3. e[(k - i) + 1] = s[(n - i) + 1]
          BY <2>1, <4>1 DEF k, n
        <5> QED
          BY <2>2, <2>3, <2>4, <5>1, <5>2, <5>3
    <3> QED
      BY <2>2, <2>3, <3>1, SameText
  <2>5. ASSUME SubSeq(rm, 1, k) = SubSeq(rs, 1, k) PROVE e = m
    <3>1. ASSUME NEW i \in 1..k PROVE e[i] = m[i]
      <4>1. /\ (k - i) + 1 \in 1..k /\ (k - i) + 1 \in 1..n
            /\ (k - ((k - i) + 1)) + 1 = i
            /\ (n - ((k - i) + 1)) + 1 = n - k + i
        BY <1>1, <1>6
      <4>2. rm[(k - i) + 1] = rs[(k - i) + 1]
        BY <2>2, <2>3, <2>5, <4>1
      <4> QED
        BY <1>2, <1>3, <2>1, <4>1, <4>2
    <3> QED
      BY <2>1, <3>1, SameText DEF k
  <2> QED
    BY <1>1, <1>2, <1>3, <1>4, <1>6, <2>4, <2>5 DEF e, k, n
<1> QED
  BY <1>1, <1>5, <1>6

LEMMA BeginsIs ==
    ASSUME NEW t \in Text
    PROVE  BeginsMarker(t) <=> \E m \in Markers : Len(t) <= 3 /\ t = SubSeq(m, 1, Len(t))
<1>1. SubSeq(t, 1, Len(t)) = t
  BY SubSeqFull DEF Text
<1>2. \A m \in Markers : Len(m) = 3
  BY MarkersAre
<1> QED
  BY <1>1, <1>2 DEF BeginsMarker, IsPrefix

LEMMA BeginsNothing == BeginsMarker(<<>>)
<1>1. <<>> \in Text /\ Len(<<>>) = 0
  BY TextJoins
<1>2. <<"<", "calls", ">">> \in Markers
  BY DEF Markers
<1>3. SubSeq(<<"<", "calls", ">">>, 1, 0) = <<>>
  BY SubSeqEmpty
<1>4. \E m \in Markers : Len(<<>>) <= 3 /\ <<>> = SubSeq(m, 1, Len(<<>>))
  BY <1>1, <1>2, <1>3
<1> QED
  BY <1>1, <1>4, BeginsIs

\* A text that a marker begins with begins with nothing else.
LEMMA BeginsShorter ==
    ASSUME NEW s \in Text, NEW t \in Text, BeginsMarker(s \o t)
    PROVE  BeginsMarker(s)
<1> DEFINE u == s \o t
           k == Len(s)
           n == Len(s) + Len(t)
<1>1. k \in Nat /\ n \in Nat /\ k <= n /\ u \in Text /\ Len(u) = n
      /\ \A i \in 1..k : u[i] = s[i]
  <2>1. /\ u \in Text /\ k \in Nat /\ Len(t) \in Nat /\ Len(u) = n
        /\ \A i \in 1..n : u[i] = IF i <= k THEN s[i] ELSE t[i - k]
    BY JoinIs
  <2> HIDE DEF u
  <2>2. \A i \in 1..k : i \in 1..n /\ i <= k
    BY <2>1
  <2> QED
    BY <2>1, <2>2
<1> HIDE DEF u, n
<1>2. PICK m \in Markers : n <= 3 /\ u = SubSeq(m, 1, n)
  BY <1>1, BeginsIs DEF u
<1>3. m \in Text /\ Len(m) = 3
  BY MarkersAre
<1>4. \A i \in 1..n : u[i] = m[i]
  BY <1>1, <1>2, <1>3, BeginningIs
<1>5. SubSeq(m, 1, k) \in Text /\ Len(SubSeq(m, 1, k)) = k /\ \A i \in 1..k : SubSeq(m, 1, k)[i] = m[i]
  <2>1. k \in Nat /\ n \in Nat /\ k <= n /\ n <= 3
    BY <1>1, <1>2
  <2> HIDE DEF k
  <2>2. k \in 0..Len(m)
    BY <1>3, <2>1
  <2> QED
    BY <1>3, <2>2, BeginningIs
<1>6. ASSUME NEW i \in 1..k PROVE s[i] = SubSeq(m, 1, k)[i]
  <2>1. i \in 1..n
    BY <1>1
  <2> QED
    BY <1>1, <1>4, <1>5, <2>1
<1>7. s = SubSeq(m, 1, k)
  BY <1>5, <1>6, SameText
<1>8. k <= 3
  BY <1>1, <1>2
<1> QED
  BY <1>7, <1>8, BeginsIs

-----------------------------------------------------------------------------
(* What is held back *)

LEMMA LongestIs ==
    ASSUME NEW n \in Nat, NEW S \in SUBSET (0..n)
    PROVE  Longest(S) \in S \union {0} /\ \A k \in S : k <= Longest(S)
<1> DEFINE T == S \union {0}
<1>1. T \in SUBSET (0..n) /\ T # {}
  OBVIOUS
<1> HIDE DEF T
<1>2. PICK top \in T : \A y \in T : y <= top
  BY <1>1, GreatestOfSet
<1>3. \E x \in S \union {0} : \A k \in S : k <= x
  BY <1>2 DEF T
<1> QED
  BY <1>3 DEF Longest

\* The longest end of a text that a marker may begin with.
Held(s, k) ==
    /\ k \in 0..Len(s)
    /\ BeginsMarker(Ending(s, k))
    /\ \A j \in (k + 1)..Len(s) : ~BeginsMarker(Ending(s, j))

Parts(tag, s) == {k \in 1..(Len(tag) - 1) : k <= Len(s) /\ Ending(s, k) = SubSeq(tag, 1, k)}

LEMMA PartOfIs ==
    ASSUME NEW tag \in Markers, NEW s \in Text
    PROVE  /\ PartOf(tag, s) \in 0..2
           /\ \A k \in Parts(tag, s) : k <= PartOf(tag, s)
           /\ PartOf(tag, s) # 0 => PartOf(tag, s) \in Parts(tag, s)
<1>1. Parts(tag, s) \in SUBSET (0..2)
  <2>1. Len(tag) = 3 /\ 3 - 1 = 2
    BY MarkersAre
  <2>2. Parts(tag, s) \subseteq 1..2
    BY <2>1 DEF Parts
  <2> QED
    BY <2>2
<1>2. PartOf(tag, s) = Longest(Parts(tag, s))
  BY DEF PartOf, Parts
<1>3. Longest(Parts(tag, s)) \in Parts(tag, s) \union {0} /\ \A k \in Parts(tag, s) : k <= Longest(Parts(tag, s))
  BY <1>1, LongestIs
<1> QED
  BY <1>1, <1>2, <1>3

LEMMA MarkerHasBeginnings ==
    ASSUME NEW s \in Text, NEW k \in 1..Len(s)
    PROVE  /\ BeginsMarker(Ending(s, k)) => k <= 3
           /\ BeginsMarker(Ending(s, k)) /\ k < 3 => \E tag \in Markers : k \in Parts(tag, s)
           /\ BeginsMarker(Ending(s, k)) /\ k = 3 => \E tag \in Markers : IsSuffix(tag, s)
<1>1. Ending(s, k) \in Text /\ Len(Ending(s, k)) = k /\ k \in Nat /\ Len(s) \in Nat /\ k <= Len(s)
  BY EndingIs DEF Text
<1> SUFFICES ASSUME BeginsMarker(Ending(s, k))
             PROVE  /\ k <= 3
                    /\ k < 3 => \E tag \in Markers : k \in Parts(tag, s)
                    /\ k = 3 => \E tag \in Markers : IsSuffix(tag, s)
  OBVIOUS
<1>2. PICK m \in Markers : k <= 3 /\ Ending(s, k) = SubSeq(m, 1, k)
  BY <1>1, BeginsIs
<1>3. m \in Text /\ Len(m) = 3
  BY MarkersAre
<1>4. k < 3 => k \in Parts(m, s)
  BY <1>1, <1>2, <1>3 DEF Parts
<1>5. k = 3 => IsSuffix(m, s)
  <2>1. SubSeq(m, 1, 3) = m
    BY <1>3, SubSeqFull DEF Text
  <2> QED
    BY <1>1, <1>2, <1>3, <2>1, SuffixIs
<1> QED
  BY <1>2, <1>4, <1>5

LEMMA SuffixBegins ==
    ASSUME NEW m \in Markers, NEW s \in Text, IsSuffix(m, s)
    PROVE  3 <= Len(s) /\ Ending(s, 3) = m /\ BeginsMarker(Ending(s, 3))
<1>1. m \in Text /\ Len(m) = 3
  BY MarkersAre
<1>2. 3 <= Len(s) /\ Ending(s, 3) = m
  BY <1>1, SuffixIs
<1>3. SubSeq(m, 1, 3) = m
  BY <1>1, SubSeqFull DEF Text
<1>4. \E tag \in Markers : Len(m) <= 3 /\ m = SubSeq(tag, 1, Len(m))
  BY <1>1, <1>3
<1>5. BeginsMarker(m)
  BY <1>1, <1>4, BeginsIs
<1> QED
  BY <1>2, <1>5

LEMMA PendingIsHeld ==
    ASSUME NEW s \in Text
    PROVE  Held(s, PendingMarkerTail(s))
<1> DEFINE S == {PartOf(tag, s) : tag \in Markers}
                \union {Len(tag) : tag \in {m \in Markers : IsSuffix(m, s)}}
           p == PendingMarkerTail(s)
<1>1. S \in SUBSET (0..3)
  <2>1. \A tag \in Markers : PartOf(tag, s) \in 0..3
    <3>1. \A tag \in Markers : PartOf(tag, s) \in 0..2
      BY PartOfIs
    <3> QED
      BY <3>1
  <2>2. \A tag \in Markers : Len(tag) \in 0..3
    <3>1. \A tag \in Markers : Len(tag) = 3
      BY MarkersAre
    <3> QED
      BY <3>1
  <2> QED
    BY <2>1, <2>2
<1>2. p = Longest(S)
  BY DEF PendingMarkerTail
<1>3. p \in S \union {0} /\ \A k \in S : k <= p
  <2> HIDE DEF S, p
  <2> QED
    BY <1>1, <1>2, LongestIs
<1>4. Len(s) \in Nat
  BY DEF Text
<1> HIDE DEF p
<1>5. p \in 0..Len(s) /\ BeginsMarker(Ending(s, p))
  <2>1. CASE p = 0
    <3>1. Ending(s, 0) \in Text /\ Len(Ending(s, 0)) = 0
      BY <1>4, EndingIs
    <3>2. Ending(s, 0) = <<>>
      BY <3>1 DEF Text
    <3> QED
      BY <1>4, <2>1, <3>2, BeginsNothing
  <2>2. ASSUME p # 0, NEW tag \in Markers, p = PartOf(tag, s)
        PROVE  p \in 0..Len(s) /\ BeginsMarker(Ending(s, p))
    <3>1. p \in Parts(tag, s)
      BY <2>2, PartOfIs
    <3>2. p \in 1..2 /\ p <= Len(s) /\ Ending(s, p) = SubSeq(tag, 1, p)
      <4>1. Len(tag) - 1 = 2
        <5>1. Len(tag) = 3
          BY MarkersAre
        <5> QED
          BY <5>1
      <4> QED
        BY <3>1, <4>1 DEF Parts
    <3>3. p \in 0..Len(s)
      BY <1>4, <3>2
    <3>4. Ending(s, p) \in Text /\ Len(Ending(s, p)) = p
      BY <3>3, EndingIs
    <3>5. \E m \in Markers : Len(Ending(s, p)) <= 3 /\ Ending(s, p) = SubSeq(m, 1, Len(Ending(s, p)))
      BY <3>2, <3>4
    <3> QED
      BY <3>3, <3>4, <3>5, BeginsIs
  <2>3. ASSUME NEW m \in Markers, IsSuffix(m, s), p = Len(m)
        PROVE  p \in 0..Len(s) /\ BeginsMarker(Ending(s, p))
    <3>1. p = 3
      BY <2>3, MarkersAre
    <3> QED
      BY <1>4, <2>3, <3>1, SuffixBegins
  <2> QED
    BY <1>3, <2>1, <2>2, <2>3
<1>6. ASSUME NEW j \in (p + 1)..Len(s) PROVE ~BeginsMarker(Ending(s, j))
  <2> SUFFICES ASSUME BeginsMarker(Ending(s, j)) PROVE FALSE
    OBVIOUS
  <2>1. j \in 1..Len(s) /\ j > p /\ p \in Nat
    BY <1>4, <1>5
  <2>2. j <= 3
    BY <2>1, MarkerHasBeginnings
  <2>3. CASE j < 3
    <3>1. PICK tag \in Markers : j \in Parts(tag, s)
      BY <2>1, <2>3, MarkerHasBeginnings
    <3>2. j <= PartOf(tag, s) /\ PartOf(tag, s) <= p /\ PartOf(tag, s) \in Nat
      BY <1>3, <3>1, PartOfIs
    <3> QED
      BY <2>1, <3>2
  <2>4. CASE j = 3
    <3>1. PICK tag \in Markers : IsSuffix(tag, s)
      BY <2>1, <2>4, MarkerHasBeginnings
    <3>2. Len(tag) \in S /\ Len(tag) = 3
      BY <3>1, MarkersAre
    <3>3. 3 <= p
      BY <1>3, <3>2
    <3> QED
      BY <2>1, <2>4, <3>3
  <2> QED
    BY <2>1, <2>2, <2>3, <2>4
<1> QED
  BY <1>5, <1>6 DEF Held, p

\* More text: what was held back and did not become a marker is let go.
LEMMA HeldOfJoin ==
    ASSUME NEW run \in Text, NEW text \in Text, NEW k, Held(run, k),
           NEW h, Held(Ending(run, k) \o text, h)
    PROVE  Held(run \o text, h) /\ Ending(run \o text, h) = Ending(Ending(run, k) \o text, h)
<1> DEFINE carry == Ending(run, k)
           front == SubSeq(run, 1, Len(run) - k)
           all == carry \o text
           more == run \o text
<1>1. k \in 0..Len(run) /\ Len(run) \in Nat /\ Len(text) \in Nat
  BY DEF Held, Text
<1>2. carry \in Text /\ Len(carry) = k
  BY <1>1, EndingIs
<1>3. front \in Text
  <2>1. Len(run) - k \in 0..Len(run)
    BY <1>1
  <2> QED
    BY <2>1, BeginningIs
<1>4. front \o carry = run
  BY <1>1, SplitAtEnding
<1> HIDE DEF carry, front
<1>5. all \in Text /\ Len(all) = k + Len(text) /\ more \in Text /\ Len(more) = Len(run) + Len(text)
  BY <1>2, JoinIs
<1>6. more = front \o all
  <2>1. (front \o carry) \o text = front \o (carry \o text)
    BY <1>2, <1>3, TextJoins
  <2> QED
    BY <1>4, <2>1
<1>7. h \in 0..Len(all) /\ BeginsMarker(Ending(all, h))
      /\ \A j \in (h + 1)..Len(all) : ~BeginsMarker(Ending(all, j))
  BY DEF Held, carry
<1> HIDE DEF all, more
<1>8. \A j \in 0..Len(all) : Ending(more, j) = Ending(all, j)
  BY <1>3, <1>5, <1>6, EndingOfJoin
<1>9. h \in 0..Len(more)
  BY <1>1, <1>5, <1>7
<1>10. ASSUME NEW j \in (h + 1)..Len(more), BeginsMarker(Ending(more, j)) PROVE FALSE
  <2>1. CASE j <= Len(all)
    <3>1. j \in (h + 1)..Len(all) /\ j \in 0..Len(all)
      BY <1>1, <1>5, <1>7, <2>1
    <3> QED
      BY <1>7, <1>8, <1>10, <3>1
  <2>2. CASE j > Len(all)
    <3> DEFINE i == j - Len(text)
    <3>1. i \in (k + 1)..Len(run) /\ i \in 0..Len(run) /\ i + Len(text) = j
      BY <1>1, <1>5, <1>7, <2>2
    <3> HIDE DEF i
    <3>2. Ending(more, i + Len(text)) = Ending(run, i) \o text
      BY <3>1, EndingOfJoin DEF more
    <3>3. Ending(run, i) \in Text
      BY <3>1, EndingIs
    <3>4. BeginsMarker(Ending(run, i))
      BY <1>10, <3>1, <3>2, <3>3, BeginsShorter
    <3> QED
      BY <3>1, <3>4 DEF Held
  <2>3. j <= Len(all) \/ j > Len(all)
    BY <1>1, <1>5, <1>9
  <2> QED
    BY <2>1, <2>2, <2>3
<1>11. Held(more, h)
  <2>1. Ending(more, h) = Ending(all, h)
    BY <1>7, <1>8
  <2> QED
    BY <1>7, <1>9, <1>10, <2>1 DEF Held
<1> QED
  BY <1>7, <1>8, <1>11 DEF more, all, carry

LEMMA NothingHeld == Held(<<>>, 0) /\ Ending(<<>>, 0) = <<>>
<1>1. <<>> \in Text /\ Len(<<>>) = 0
  BY TextJoins
<1>2. Ending(<<>>, 0) \in Text /\ Len(Ending(<<>>, 0)) = 0
  BY <1>1, EndingIs
<1>3. Ending(<<>>, 0) = <<>>
  BY <1>2 DEF Text
<1> QED
  BY <1>1, <1>3, BeginsNothing DEF Held

\* A run ends: a marker is cut off, if what is held back is one.
LEMMA WithoutMarkerIs ==
    ASSUME NEW run \in Text
    PROVE  WithoutMarker(run) = IF \E m \in Markers : IsSuffix(m, run)
                                  THEN SubSeq(run, 1, Len(run) - 3) ELSE run
BY MarkersAre DEF WithoutMarker

LEMMA StripIs ==
    ASSUME NEW s \in Text
    PROVE  StripOpenerSuffix(s) = IF \E m \in Markers : IsSuffix(m, s)
                                    THEN SubSeq(s, 1, Len(s) - 3) ELSE s
<1>1. CASE \E m \in Markers : IsSuffix(m, s)
  <2> DEFINE marked == {m \in Markers : IsSuffix(m, s)}
  <2>1. marked # {} /\ {Len(m) : m \in marked} = {3}
    BY <1>1, MarkersAre
  <2>2. Longest({3}) = 3
    <3>1. Longest({3}) \in {3} \union {0} /\ \A k \in {3} : k <= Longest({3})
      <4>1. {3} \in SUBSET (0..3)
        OBVIOUS
      <4> QED
        BY <4>1, LongestIs
    <3> QED
      BY <3>1
  <2>3. StripOpenerSuffix(s) = SubSeq(s, 1, Len(s) - Longest({Len(m) : m \in marked}))
    BY <2>1 DEF StripOpenerSuffix
  <2> HIDE DEF marked
  <2> QED
    BY <1>1, <2>1, <2>2, <2>3
<1>2. CASE ~\E m \in Markers : IsSuffix(m, s)
  <2>1. {m \in Markers : IsSuffix(m, s)} = {}
    BY <1>2
  <2> QED
    BY <1>2, <2>1 DEF StripOpenerSuffix
<1> QED
  BY <1>1, <1>2

LEMMA StripIsText ==
    ASSUME NEW s \in Text
    PROVE  StripOpenerSuffix(s) \in Text
<1>1. CASE \E m \in Markers : IsSuffix(m, s)
  <2>1. Len(s) - 3 \in 0..Len(s)
    <3>1. Len(s) \in Nat /\ 3 <= Len(s)
      BY <1>1, SuffixBegins DEF Text
    <3> QED
      BY <3>1
  <2> QED
    BY <1>1, <2>1, StripIs, BeginningIs
<1>2. CASE ~\E m \in Markers : IsSuffix(m, s)
  BY <1>2, StripIs
<1> QED
  BY <1>1, <1>2

LEMMA EndOfRun ==
    ASSUME NEW run \in Text, NEW k, Held(run, k)
    PROVE  WithoutMarker(run) = SubSeq(run, 1, Len(run) - k) \o StripOpenerSuffix(Ending(run, k))
<1> DEFINE carry == Ending(run, k)
           front == SubSeq(run, 1, Len(run) - k)
<1>1. k \in 0..Len(run) /\ Len(run) \in Nat
  BY DEF Held, Text
<1>2. carry \in Text /\ Len(carry) = k
  BY <1>1, EndingIs
<1>3. front \in Text
  <2>1. Len(run) - k \in 0..Len(run)
    BY <1>1
  <2> QED
    BY <2>1, BeginningIs
<1>4. front \o carry = run
  BY <1>1, SplitAtEnding
<1>5. \A m \in Markers : IsSuffix(m, run) <=> IsSuffix(m, carry)
  <2> SUFFICES ASSUME NEW m \in Markers PROVE IsSuffix(m, run) <=> IsSuffix(m, carry)
    OBVIOUS
  <2>0. m \in Text /\ Len(m) = 3
    BY MarkersAre
  <2>1. ASSUME k >= 3 PROVE Ending(carry, 3) = Ending(run, 3)
    <3>1. 3 \in 0..k
      BY <1>1, <2>1
    <3> QED
      BY <1>1, <3>1, EndingOfEnding
  <2> HIDE DEF carry
  <2>2. ASSUME IsSuffix(m, run) PROVE IsSuffix(m, carry)
    <3>1. 3 <= Len(run) /\ Ending(run, 3) = m /\ BeginsMarker(Ending(run, 3))
      BY <2>2, SuffixBegins
    <3>2. ~(3 \in (k + 1)..Len(run))
      BY <3>1 DEF Held
    <3>3. k >= 3
      BY <1>1, <3>1, <3>2
    <3> QED
      BY <1>1, <1>2, <2>0, <2>1, <3>1, <3>3, SuffixIs
  <2>3. ASSUME IsSuffix(m, carry) PROVE IsSuffix(m, run)
    <3>1. 3 <= k /\ Ending(carry, 3) = m
      BY <1>2, <2>3, SuffixBegins
    <3>2. k >= 3 /\ 3 <= Len(run)
      BY <1>1, <3>1
    <3> QED
      BY <2>0, <2>1, <3>1, <3>2, SuffixIs
  <2> QED
    BY <2>2, <2>3
<1> HIDE DEF carry, front
<1>6. CASE \E m \in Markers : IsSuffix(m, carry)
  <2>1. 3 \in 0..Len(carry)
    BY <1>1, <1>2, <1>6, SuffixBegins
  <2>2. SubSeq(front \o carry, 1, Len(front \o carry) - 3) = front \o SubSeq(carry, 1, Len(carry) - 3)
    BY <1>2, <1>3, <2>1, BeginningOfJoin
  <2>3. WithoutMarker(run) = SubSeq(run, 1, Len(run) - 3)
    BY <1>5, <1>6, WithoutMarkerIs
  <2>4. StripOpenerSuffix(carry) = SubSeq(carry, 1, Len(carry) - 3)
    BY <1>2, <1>6, StripIs
  <2> QED
    BY <1>4, <2>2, <2>3, <2>4 DEF carry, front
<1>7. CASE ~\E m \in Markers : IsSuffix(m, carry)
  <2>1. WithoutMarker(run) = run /\ StripOpenerSuffix(carry) = carry
    BY <1>2, <1>5, <1>7, WithoutMarkerIs, StripIs
  <2> QED
    BY <1>4, <2>1 DEF carry, front
<1> QED
  BY <1>6, <1>7

-----------------------------------------------------------------------------
(* The handler's operations *)

LEMMA CarryLives ==
    ASSUME NEW r, Live(r), NEW c \in Text
    PROVE  LET q == [r EXCEPT !.asm.carry = c]
           IN /\ Live(q) /\ q.mode = r.mode /\ q.asm.carry = c
              /\ q.asm.open = r.asm.open /\ Said(q) = Said(r)
<1> DEFINE a == [r.asm EXCEPT !.carry = c]
           q == [r EXCEPT !.asm.carry = c]
<1>1. r \in Answer /\ Numbered(r) /\ InStep(r) /\ r.client.told = "nothing" /\ r.asm \in Assembler
  BY DEF Live, Sound, Answer
<1>2. q = [r EXCEPT !.asm = a]
  BY <1>1 DEF Answer, Assembler
<1>3. a \in Assembler /\ a.carry = c /\ a.open = r.asm.open /\ a.blocks = r.asm.blocks
      /\ a.index = r.asm.index
  BY <1>1 DEF Assembler
<1> HIDE DEF a, q
<1>4. q \in Answer /\ q.asm = a /\ q.mode = r.mode /\ q.client = r.client
  BY <1>1, <1>2, <1>3 DEF Answer
<1>5. Numbered(q)
  BY <1>1, <1>3, <1>4 DEF Numbered, Messages
<1>6. InStep(q)
  BY <1>1, <1>3, <1>4 DEF InStep
<1>7. Said(q) = Said(r)
  BY <1>3, <1>4 DEF Said
<1>8. Live(q) /\ q.mode = r.mode /\ q.asm.carry = c /\ q.asm.open = r.asm.open
  BY <1>1, <1>3, <1>4, <1>5, <1>6 DEF Live, Sound
<1> QED
  BY <1>7, <1>8 DEF q

LEMMA CarryIsText == ASSUME NEW r, Live(r) PROVE r.asm.carry \in Text
BY DEF Live, Sound, Answer, Assembler

LEMMA FlushLives ==
    ASSUME NEW r, Live(r)
    PROVE  LET q == FlushLeakCarry(r)
           IN /\ Live(q) /\ q.mode = r.mode /\ q.asm.carry = <<>>
              /\ Said(q) = Said(r) \o StripOpenerSuffix(r.asm.carry)
<1> DEFINE c == [r EXCEPT !.asm.carry = <<>>]
           x == StripOpenerSuffix(r.asm.carry)
<1>1. Live(c) /\ c.mode = r.mode /\ c.asm.carry = <<>> /\ Said(c) = Said(r)
  BY TextJoins, CarryLives
<1>2. x \in Text
  BY CarryIsText, StripIsText
<1>3. FlushLeakCarry(r) = AddText(c, x)
  BY DEF FlushLeakCarry
<1> HIDE DEF c, x
<1>4. LET q == AddText(c, x)
      IN Live(q) /\ q.mode = c.mode /\ q.asm.carry = c.asm.carry /\ Said(q) = Said(c) \o x
  BY <1>1, <1>2, AddTextLives
<1>5. Said(FlushLeakCarry(r)) = Said(r) \o x
  BY <1>1, <1>3, <1>4
<1> QED
  BY <1>1, <1>3, <1>4, <1>5 DEF x

LEMMA IngestLives ==
    ASSUME NEW r, Live(r), NEW text \in Text, text # <<>>
    PROVE  LET q == IngestText(r, text)
               all == r.asm.carry \o text
               hold == PendingMarkerTail(all)
           IN /\ Live(q) /\ q.mode = r.mode
              /\ q.asm.carry = Ending(all, hold)
              /\ Said(q) = Said(r) \o SubSeq(all, 1, Len(all) - hold)
<1> DEFINE all == r.asm.carry \o text
           hold == PendingMarkerTail(all)
           x == SubSeq(all, 1, Len(all) - hold)
           y == Ending(all, hold)
           a == AddText(r, x)
           q == IngestText(r, text)
<1>1. all \in Text /\ Len(all) \in Nat
  <2>1. all \in Text
    BY CarryIsText, TextJoins
  <2> HIDE DEF all
  <2> QED
    BY <2>1 DEF Text
<1>2. q = [a EXCEPT !.asm.carry = y]
  BY DEF IngestText
<1> HIDE DEF all
<1>3. hold \in 0..Len(all) /\ Len(all) - hold \in 0..Len(all)
  <2>1. hold \in 0..Len(all)
    BY <1>1, PendingIsHeld DEF Held
  <2> HIDE DEF hold
  <2> QED
    BY <1>1, <2>1
<1> HIDE DEF hold
<1>4. x \in Text /\ y \in Text
  BY <1>1, <1>3, BeginningIs, EndingIs
<1> HIDE DEF x, y
<1>5. Live(a) /\ a.mode = r.mode /\ Said(a) = Said(r) \o x
  BY <1>4, AddTextLives
<1> HIDE DEF a, q
<1>6. Live(q) /\ q.mode = a.mode /\ q.asm.carry = y /\ Said(q) = Said(a)
  BY <1>2, <1>4, <1>5, CarryLives
<1>7. Said(q) = Said(r) \o x
  BY <1>5, <1>6
<1> QED
  BY <1>5, <1>6, <1>7 DEF q, x, y, hold, all

\* What adds no text: the flush of what was held back is all the text there is.
LEMMA ReasoningLives ==
    ASSUME NEW r, Live(r), NEW ev, ev.data \in Text
    PROVE  LET q == AddReasoning(r, ev)
           IN /\ Live(q) /\ q.mode = r.mode
              /\ Messages(r) /\ ~r.mode.thinking => q = r
              /\ ~(Messages(r) /\ ~r.mode.thinking) =>
                   q.asm.carry = <<>> /\ Said(q) = Said(FlushLeakCarry(r))
<1> DEFINE f == FlushLeakCarry(r)
           kind == IF ev.data = <<"sealed">> THEN "redacted" ELSE "thinking"
           q == AddReasoning(r, ev)
<1>1. Live(f) /\ f.mode = r.mode /\ f.asm.carry = <<>>
  BY FlushLives
<1>2. Said(f) \o <<>> = Said(f)
  <2>1. f \in Answer
    BY <1>1 DEF Live, Sound
  <2> HIDE DEF f
  <2> QED
    BY <2>1, SaidIsText, TextJoins
<1>3. CASE Messages(r) /\ ~r.mode.thinking
  <2>1. q = r
    BY <1>3 DEF AddReasoning
  <2> QED
    BY <1>3, <2>1
<1>4. CASE ~Messages(r) \/ (Messages(r) /\ r.mode.thinking /\ ev.data = <<>>)
  <2>1. q = f
    BY <1>4 DEF AddReasoning
  <2> HIDE DEF f, q
  <2>2. Live(q) /\ q.mode = r.mode /\ q.asm.carry = <<>> /\ Said(q) = Said(f)
    BY <1>1, <2>1
  <2>3. Messages(r) => r.mode.thinking
    BY <1>4
  <2> QED
    BY <2>2, <2>3 DEF q, f
<1>5. CASE Messages(r) /\ r.mode.thinking /\ ev.data # <<>>
  <2> DEFINE o == IF f.asm.open.kind = kind THEN f ELSE Open(f, kind, NoId)
  <2>1. q = Grow(o, ev.data)
    BY <1>5 DEF AddReasoning
  <2> HIDE DEF f, q
  <2>2. kind \in Kinds /\ kind # "text" /\ kind # ""
    BY DEF Kinds
  <2> HIDE DEF kind
  <2>3. Live(o) /\ o.mode = r.mode /\ o.asm.carry = <<>> /\ Said(o) = Said(f)
        /\ o.asm.open.kind = kind
    <3>1. CASE f.asm.open.kind = kind
      BY <1>1, <3>1
    <3>2. CASE f.asm.open.kind # kind
      <4>1. LET p == Open(f, kind, NoId)
            IN /\ Live(p) /\ p.mode = f.mode /\ p.asm.carry = f.asm.carry
               /\ p.asm.open = Block(kind, NoId, <<>>) /\ Said(p) = Said(f)
        BY <1>1, <2>2, OpenLives
      <4>2. Block(kind, NoId, <<>>).kind = kind
        BY DEF Block
      <4> QED
        BY <1>1, <3>2, <4>1, <4>2
    <3> QED
      BY <3>1, <3>2
  <2> HIDE DEF o
  <2>4. o.asm.open # NoBlock
    BY <2>2, <2>3, NoBlockIs
  <2>5. LET g == Grow(o, ev.data)
        IN /\ Live(g) /\ g.mode = o.mode /\ g.asm.carry = o.asm.carry
           /\ Said(g) = Said(o) \o (IF o.asm.open.kind = "text" THEN ev.data ELSE <<>>)
    BY <2>3, <2>4, GrowLives
  <2>6. Said(q) = Said(f)
    BY <1>2, <2>1, <2>2, <2>3, <2>5
  <2>7. Live(q) /\ q.mode = r.mode /\ q.asm.carry = <<>>
    BY <2>1, <2>3, <2>5
  <2> QED
    BY <1>5, <2>6, <2>7 DEF q, f
<1> QED
  BY <1>3, <1>4, <1>5

LEMMA ToolUseLives ==
    ASSUME NEW r, Live(r), NEW ev, ev.data \in Text, ev.id \in ToolIds \union {NoId}
    PROVE  LET q == AddToolUse(r, ev)
           IN /\ Live(q) /\ q.mode = r.mode
              /\ q.asm.carry = <<>> /\ Said(q) = Said(FlushLeakCarry(r))
<1> DEFINE f == FlushLeakCarry(r)
           isOpen == f.asm.open.kind = "tool"
           isNew == ev.id # NoId /\ (~isOpen \/ ev.id # f.asm.open.id)
           begun == IF isNew THEN Open(f, "tool", ev.id) ELSE f
           grown == Grow(begun, ev.data)
           q == AddToolUse(r, ev)
<1>1. Live(f) /\ f.mode = r.mode /\ f.asm.carry = <<>>
  BY FlushLives
<1>2. q = IF ~isNew /\ ~isOpen THEN f
          ELSE IF ev.stop THEN CloseOpen(grown) ELSE grown
  <2> HIDE DEF f
  <2>1. q = CASE ~isNew /\ ~isOpen -> f
              [] ev.stop /\ (isNew \/ isOpen) -> CloseOpen(grown)
              [] OTHER -> grown
    BY DEF AddToolUse, f
  <2> HIDE DEF isNew, isOpen, grown, q
  <2> QED
    BY <2>1
<1> HIDE DEF q
<1>3. Said(f) \o <<>> = Said(f)
  <2>1. f \in Answer
    BY <1>1 DEF Live, Sound
  <2> HIDE DEF f
  <2> QED
    BY <2>1, SaidIsText, TextJoins
<1> HIDE DEF f
<1>4. CASE ~isNew /\ ~isOpen
  <2>1. Live(q) /\ q.mode = r.mode /\ q.asm.carry = <<>> /\ Said(q) = Said(f)
    BY <1>1, <1>2, <1>4
  <2> QED
    BY <2>1 DEF f, q
<1>5. CASE isNew \/ isOpen
  <2>1. Live(begun) /\ begun.mode = r.mode /\ begun.asm.carry = <<>> /\ Said(begun) = Said(f)
        /\ begun.asm.open.kind = "tool"
    <3>1. CASE isNew
      <4>1. LET p == Open(f, "tool", ev.id)
            IN /\ Live(p) /\ p.mode = f.mode /\ p.asm.carry = f.asm.carry
               /\ p.asm.open = Block("tool", ev.id, <<>>) /\ Said(p) = Said(f)
        <5>1. "tool" \in Kinds
          BY DEF Kinds
        <5> QED
          BY <1>1, <5>1, OpenLives
      <4>2. Block("tool", ev.id, <<>>).kind = "tool"
        BY DEF Block
      <4>3. begun = Open(f, "tool", ev.id)
        BY <3>1
      <4> HIDE DEF begun
      <4> QED
        BY <1>1, <4>1, <4>2, <4>3
    <3>2. CASE ~isNew
      <4>1. begun = f /\ f.asm.open.kind = "tool"
        BY <1>5, <3>2
      <4> HIDE DEF begun
      <4> QED
        BY <1>1, <4>1
    <3> QED
      BY <3>1, <3>2
  <2> HIDE DEF begun
  <2>2. begun.asm.open # NoBlock
    BY <2>1, NoBlockIs
  <2>3. /\ Live(grown) /\ grown.mode = begun.mode /\ grown.asm.carry = begun.asm.carry
        /\ Said(grown) = Said(begun) \o (IF begun.asm.open.kind = "text" THEN ev.data ELSE <<>>)
    BY <2>1, <2>2, GrowLives
  <2>4. Said(grown) = Said(f)
    BY <1>3, <2>1, <2>3
  <2> HIDE DEF grown
  <2>5. LET c == CloseOpen(grown)
        IN Live(c) /\ c.mode = grown.mode /\ c.asm.carry = grown.asm.carry /\ Said(c) = Said(grown)
    BY <2>3, CloseOpenLives
  <2>6. q = CloseOpen(grown) \/ q = grown
    BY <1>2, <1>5
  <2>7. Live(q) /\ q.mode = r.mode /\ q.asm.carry = <<>> /\ Said(q) = Said(f)
    BY <2>1, <2>3, <2>4, <2>5, <2>6
  <2> QED
    BY <2>7 DEF f, q
<1> QED
  BY <1>4, <1>5

LEMMA FinishLives ==
    ASSUME NEW r, Live(r)
    PROVE  LET q == Finish(r)
           IN /\ Live(q) /\ q.mode = r.mode /\ q.asm.open = NoBlock
              /\ q.asm.carry = <<>> /\ Said(q) = Said(FlushLeakCarry(r))
<1> DEFINE f == FlushLeakCarry(r)
<1>1. Live(f) /\ f.mode = r.mode /\ f.asm.carry = <<>>
  BY FlushLives
<1>2. Finish(r) = CloseOpen(f)
  BY DEF Finish
<1> HIDE DEF f
<1>3. LET c == CloseOpen(f)
      IN /\ Live(c) /\ c.mode = f.mode /\ c.asm.open = NoBlock /\ c.asm.carry = f.asm.carry
         /\ Said(c) = Said(f)
  BY <1>1, CloseOpenLives
<1> QED
  BY <1>1, <1>2, <1>3 DEF f

\* The last word leaves the answer as it is.
LEMMA LastWord ==
    ASSUME NEW r, Live(r), NEW told \in {"done", "failed"}, told = "done" => r.asm.open = NoBlock
    PROVE  LET e == Emit(r, Final(told, r.asm.blocks))
           IN r.mode.streaming => Sound(e) /\ e.mode = r.mode /\ e.asm = r.asm
<1> DEFINE c == r.client
           d == Received(c, Final(told, r.asm.blocks))
           e == Emit(r, Final(told, r.asm.blocks))
<1> SUFFICES ASSUME r.mode.streaming PROVE Sound(e) /\ e.mode = r.mode /\ e.asm = r.asm
  OBVIOUS
<1>1. /\ r \in Answer /\ Numbered(r) /\ InStep(r) /\ c.told = "nothing" /\ c \in Client
  BY DEF Live, Sound, Answer
<1>2. told = "done" => c.open = NoBlock /\ c.blocks = r.asm.blocks
  BY <1>1, NoBlockIs DEF InStep, Shown
<1>3. d \in Client /\ d.open = c.open /\ d.blocks = c.blocks /\ d.orderly = c.orderly
  <2> HIDE DEF c
  <2> QED
    BY <1>1, <1>2, EndSeen
<1>4. e \in Answer /\ e.asm = r.asm /\ e.mode = r.mode /\ e.client = d
  BY <1>1, <1>3, EmitIs
<1> HIDE DEF d, e
<1> QED
  BY <1>1, <1>3, <1>4 DEF Sound, Numbered, InStep, Messages

LEMMA CompleteIs ==
    ASSUME NEW r, Live(r), r.asm.open = NoBlock
    PROVE  LET q == Complete(r) IN Sound(q) /\ q.mode = r.mode /\ q.asm = r.asm
<1>1. CASE r.mode.streaming
  <2>1. Complete(r) = Emit(r, Final("done", r.asm.blocks))
    BY <1>1 DEF Complete
  <2> QED
    BY <1>1, <2>1, LastWord
<1>2. CASE ~r.mode.streaming
  <2> DEFINE blocks == IF Messages(r) /\ r.asm.blocks = <<>>
                         THEN <<Block("text", NoId, <<>>)>> ELSE r.asm.blocks
             q == Complete(r)
             d == [r.client EXCEPT !.told = "done", !.blocks = blocks]
  <2>1. r \in Answer /\ Numbered(r) /\ r.client \in Client /\ r.asm.blocks \in Seq(Blocks)
    BY DEF Live, Sound, Answer, Assembler
  <2>2. blocks \in Seq(Blocks)
    <3>1. Block("text", NoId, <<>>) \in Blocks
      BY TextJoins DEF Block, Blocks
    <3> HIDE DEF Block
    <3> QED
      BY <2>1, <3>1
  <2>3. q = [r EXCEPT !.client = d]
    BY <1>2, <2>1 DEF Complete, Answer, Client
  <2> HIDE DEF blocks, q
  <2>4. d \in Client
    BY <2>1, <2>2 DEF Client
  <2> HIDE DEF d
  <2>5. q \in Answer /\ q.asm = r.asm /\ q.mode = r.mode
    BY <2>1, <2>3, <2>4 DEF Answer
  <2>6. Sound(q) /\ q.mode = r.mode /\ q.asm = r.asm
    BY <1>2, <2>1, <2>5 DEF Sound, Numbered, InStep, Messages
  <2> QED
    BY <2>6 DEF q
<1> QED
  BY <1>1, <1>2

LEMMA FailIs ==
    ASSUME NEW r, Live(r)
    PROVE  LET q == Fail(r) IN Sound(q) /\ q.mode = r.mode /\ q.asm = r.asm
<1>1. CASE r.mode.streaming
  <2>1. Fail(r) = Emit(r, Final("failed", r.asm.blocks))
    BY <1>1 DEF Fail
  <2> QED
    BY <1>1, <2>1, LastWord
<1>2. CASE ~r.mode.streaming
  <2> DEFINE q == Fail(r)
             d == [r.client EXCEPT !.told = "failed"]
  <2>1. r \in Answer /\ Numbered(r) /\ r.client \in Client
    BY DEF Live, Sound, Answer
  <2>2. q = [r EXCEPT !.client = d]
    BY <1>2, <2>1 DEF Fail, Answer, Client
  <2> HIDE DEF q
  <2>3. d \in Client
    BY <2>1 DEF Client
  <2> HIDE DEF d
  <2>4. q \in Answer /\ q.asm = r.asm /\ q.mode = r.mode
    BY <2>1, <2>2, <2>3 DEF Answer
  <2>5. Sound(q) /\ q.mode = r.mode /\ q.asm = r.asm
    BY <1>2, <2>1, <2>4 DEF Sound, Numbered, InStep, Messages
  <2> QED
    BY <2>5 DEF q
<1> QED
  BY <1>1, <1>2

-----------------------------------------------------------------------------
(* The text so far *)

\* The client has all of the settled text and of the run under way, but for
\* the end that is held back.
Kept(r, settled, run) ==
    LET k == Len(r.asm.carry)
    IN /\ settled \in Text /\ run \in Text
       /\ Held(run, k)
       /\ r.asm.carry = Ending(run, k)
       /\ Said(r) = settled \o SubSeq(run, 1, Len(run) - k)

LEMMA KeptOfSame ==
    ASSUME NEW r, NEW q, NEW settled, NEW run, Kept(r, settled, run),
           q.asm.carry = r.asm.carry, Said(q) = Said(r)
    PROVE  Kept(q, settled, run)
BY DEF Kept

LEMMA KeptOfText ==
    ASSUME NEW r, Live(r), NEW settled, NEW run, Kept(r, settled, run), NEW text \in Text
    PROVE  Kept(IngestText(r, text), settled, run \o text)
<1>1. settled \in Text /\ run \in Text /\ run \o text \in Text
  BY TextJoins DEF Kept
<1>2. CASE text = <<>>
  <2>1. IngestText(r, text) = r /\ run \o text = run
    BY <1>1, <1>2, TextJoins DEF IngestText
  <2> QED
    BY <2>1
<1>3. CASE text # <<>>
  <2> DEFINE k == Len(r.asm.carry)
             all == r.asm.carry \o text
             h == PendingMarkerTail(all)
             front == SubSeq(run, 1, Len(run) - k)
             q == IngestText(r, text)
             more == run \o text
             x == SubSeq(all, 1, Len(all) - h)
  <2>1. r.asm.carry \in Text /\ r.asm.carry = Ending(run, k) /\ Held(run, k)
        /\ Said(r) = settled \o front
    BY CarryIsText DEF Kept
  <2>2. all \in Text
    BY <2>1, TextJoins
  <2>3. q.asm.carry = Ending(all, h) /\ Said(q) = Said(r) \o x
    BY <1>3, IngestLives
  <2>4. Held(all, h)
    BY <2>2, PendingIsHeld
  <2>5. Held(more, h) /\ Ending(more, h) = Ending(all, h)
    <3> HIDE DEF k, h, more
    <3> QED
      BY <1>1, <2>1, <2>4, HeldOfJoin DEF more
  <2> HIDE DEF q
  <2>6. h \in 0..Len(all) /\ Len(all) \in Nat /\ h \in 0..Len(more)
    BY <1>1, <2>2, <2>4, <2>5 DEF Held, Text
  <2>7. k \in 0..Len(run) /\ Len(run) \in Nat /\ Len(run) - k \in 0..Len(run)
    <3>1. k \in 0..Len(run) /\ Len(run) \in Nat
      BY <1>1, <2>1 DEF Held, Text
    <3> HIDE DEF k
    <3> QED
      BY <3>1
  <2>8. front \in Text /\ front \o r.asm.carry = run
    <3>1. front \in Text
      BY <1>1, <2>7, BeginningIs
    <3>2. front \o Ending(run, k) = run
      BY <1>1, <2>7, SplitAtEnding
    <3> QED
      BY <2>1, <3>1, <3>2
  <2>9. x \in Text
    <3>1. Len(all) - h \in 0..Len(all)
      <4> HIDE DEF all, h
      <4> QED
        BY <2>6
    <3> QED
      BY <2>2, <3>1, BeginningIs
  <2>10. more = front \o all
    <3>1. (front \o r.asm.carry) \o text = front \o (r.asm.carry \o text)
      <4> HIDE DEF front
      <4> QED
        BY <2>1, <2>8, TextJoins
    <3> QED
      BY <2>8, <3>1
  <2>11. SubSeq(more, 1, Len(more) - h) = front \o x
    <3> HIDE DEF front, all, h, more
    <3> QED
      BY <2>2, <2>6, <2>8, <2>10, BeginningOfJoin
  <2>12. Said(q) = settled \o SubSeq(more, 1, Len(more) - h)
    <3>1. (settled \o front) \o x = settled \o (front \o x)
      <4>1. settled \in Text /\ front \in Text /\ x \in Text
        BY <1>1, <2>8, <2>9
      <4> HIDE DEF front, x
      <4> QED
        BY ONLY <4>1, TextJoins
    <3> QED
      BY <2>1, <2>3, <2>11, <3>1
  <2>13. Len(q.asm.carry) = h
    <3> HIDE DEF all, h
    <3> QED
      BY <2>2, <2>3, <2>6, EndingIs
  <2> HIDE DEF h, more
  <2>14. Kept(q, settled, more)
    BY <1>1, <2>3, <2>5, <2>12, <2>13 DEF Kept, more
  <2> QED
    BY <2>14 DEF q, more
<1> QED
  BY <1>2, <1>3

LEMMA KeptOfEnd ==
    ASSUME NEW r, Live(r), NEW settled, NEW run, Kept(r, settled, run),
           NEW q, q.asm.carry = <<>>, Said(q) = Said(FlushLeakCarry(r))
    PROVE  Kept(q, settled \o WithoutMarker(run), <<>>)
<1> DEFINE k == Len(r.asm.carry)
           front == SubSeq(run, 1, Len(run) - k)
           x == StripOpenerSuffix(r.asm.carry)
<1>1. /\ settled \in Text /\ run \in Text /\ r.asm.carry \in Text
      /\ r.asm.carry = Ending(run, k) /\ Held(run, k) /\ Said(r) = settled \o front
  BY CarryIsText DEF Kept
<1>2. x \in Text
  BY <1>1, StripIsText
<1>3. front \in Text
  <2>1. k \in 0..Len(run) /\ Len(run) \in Nat
    BY <1>1 DEF Held, Text
  <2>2. Len(run) - k \in 0..Len(run)
    <3> HIDE DEF k
    <3> QED
      BY <2>1
  <2> QED
    BY <1>1, <2>2, BeginningIs
<1>4. WithoutMarker(run) = front \o x
  <2> HIDE DEF k
  <2> QED
    BY <1>1, EndOfRun DEF front
<1>5. Said(q) = (settled \o front) \o x
  BY <1>1, FlushLives
<1> HIDE DEF front, x
<1>6. /\ (settled \o front) \o x = settled \o (front \o x)
      /\ settled \o (front \o x) \in Text
      /\ (settled \o (front \o x)) \o <<>> = settled \o (front \o x)
  BY <1>1, <1>2, <1>3, TextJoins
<1>7. SubSeq(<<>>, 1, Len(<<>>) - 0) = <<>>
  <2>1. Len(<<>>) - 0 = 0
    OBVIOUS
  <2> QED
    BY <2>1, SubSeqEmpty
<1>8. Len(q.asm.carry) = 0
  OBVIOUS
<1> QED
  BY <1>4, <1>5, <1>6, <1>7, <1>8, NothingHeld, TextJoins DEF Kept

USE NoResultIsNone, MaxFramesIsNat

-----------------------------------------------------------------------------
(* The inductive invariant *)

StreamTypes ==
    /\ phase \in {"idle", "priming", "handed", "committed", "closed"}
    /\ decoded \in Nat
    /\ delivered \in Nat
    /\ primed \in Seq(Result)
    /\ reader \in {"none", "reading"}
    /\ channel \in Result \union {NoResult}

\* What was read ahead follows, without a gap, what the handler was given.
PrimedFollows ==
    phase # "closed" => \A i \in 1..Len(primed) : primed[i].n = delivered + i

\* The frame in the channel follows what was primed, and is the newest.
ChannelFollows ==
    phase # "closed" =>
        IF channel = NoResult
          THEN decoded = delivered + Len(primed)
          ELSE decoded = delivered + Len(primed) + 1 /\ channel.n = decoded

\* One read at a time: a goroutine at work has an empty channel, and there
\* is none, and nothing in the channel, where Recv reads the wire.
OneRead ==
    /\ phase # "closed" /\ reader = "reading" => channel = NoResult
    /\ phase \in {"idle", "committed"} => reader = "none" /\ channel = NoResult

IInv == StreamTypes /\ PrimedFollows /\ ChannelFollows /\ OneRead

-----------------------------------------------------------------------------

LEMMA InitIInv == Init => IInv
<1> SUFFICES ASSUME StreamInit PROVE IInv
  BY DEF Init
<1>1. StreamTypes
  BY DEF StreamInit, StreamTypes
<1>2. PrimedFollows /\ ChannelFollows /\ OneRead
  BY DEF StreamInit, PrimedFollows, ChannelFollows, OneRead
<1> QED
  BY <1>1, <1>2 DEF IInv

\* The operations on the stream, with what the handler makes of a frame.
StreamStep ==
    \/ OpenStream
    \/ StartRead
    \/ Read
    \/ ReadFails
    \/ \E fails, visible : TakePrimed(fails, visible)
    \/ TimeOut
    \/ Close
    \/ \E last : RecvPrimed(last) \/ RecvPending(last) \/ RecvDirect(last)

\* Whatever else an exchange does, its stream takes one of these steps.
LEMMA ExchangeStep ==
    ASSUME Next
    PROVE  StreamStep \/ UNCHANGED streamVars
<1>1. CASE TooLong
  BY <1>1 DEF TooLong
<1>2. CASE Accepted
  BY <1>2 DEF Accepted, StreamStep
<1>3. CASE Background
  BY <1>3 DEF Background, StreamStep
<1>4. CASE Probe
  BY <1>4 DEF Probe, StreamStep
<1>5. CASE Receive
  BY <1>5 DEF Receive, StreamStep, IsLast
<1>6. CASE ClientLeaves
  BY <1>6 DEF ClientLeaves, StreamStep
<1> QED
  BY <1>1, <1>2, <1>3, <1>4, <1>5, <1>6 DEF Next

\* A stream that is closed is held to its types only.
LEMMA ClosedKeeps ==
    ASSUME Closed,
           decoded' \in Nat, delivered' \in Nat,
           reader' \in {"none", "reading"},
           channel' \in Result \union {NoResult}
    PROVE  IInv'
BY DEF Closed, IInv, StreamTypes, PrimedFollows, ChannelFollows, OneRead

(***************************************************************************)
(* A step of the stream keeps the invariant and is a step of the queue.    *)
(***************************************************************************)
LEMMA StreamStepKeeps ==
    ASSUME IInv, StreamStep, \A ev \in Readable : ev \in Events \union Ends
    PROVE  IInv' /\ [Queue!Next]_(Queue!queueVars)
<1> USE DEF IInv, StreamTypes, PrimedFollows, ChannelFollows, OneRead, Queue!queueVars
<1>1. CASE OpenStream
  BY <1>1 DEF OpenStream
<1>2. CASE StartRead
  BY <1>2 DEF StartRead
<1>3. CASE Read
  <2>1. PICK ev \in Readable : channel' = NextFrame(ev)
    BY <1>3 DEF Read
  <2>2. channel' \in Result /\ channel'.n = decoded + 1
    BY <2>1 DEF NextFrame, Result
  <2>3. IInv'
    BY <1>3, <2>2 DEF Read
  <2>4. Queue!ReadAhead
    BY <1>3 DEF Read, Queue!ReadAhead
  <2> QED
    BY <2>3, <2>4 DEF Queue!Next
<1>4. CASE ReadFails
  BY <1>4 DEF ReadFails
<1>5. ASSUME NEW fails, NEW visible, TakePrimed(fails, visible)
      PROVE  IInv' /\ [Queue!Next]_(Queue!queueVars)
  <2>1. channel \in Result
    BY <1>5 DEF TakePrimed
  <2>2. CASE Closed
    BY <1>5, <2>2 DEF TakePrimed, Closed, Queue!Next, Queue!Close
  <2>3. CASE primed' = Append(primed, channel)
              /\ phase' \in {"committed", "priming"}
    <3>1. Len(primed') = Len(primed) + 1 /\ primed' \in Seq(Result)
      BY <2>1, <2>3
    <3>2. \A i \in 1..Len(primed') :
            primed'[i] = IF i = Len(primed) + 1 THEN channel ELSE primed[i]
      BY <2>1, <2>3
    <3>3. phase = "priming" /\ decoded' = decoded /\ delivered' = delivered
          /\ channel' = NoResult /\ reader' = "none"
      BY <1>5 DEF TakePrimed
    <3>4. PrimedFollows'
      <4>1. Len(primed) \in Nat /\ channel.n = delivered + Len(primed) + 1
            /\ \A i \in 1..Len(primed) : primed[i].n = delivered + i
        BY <2>1, <3>3
      <4>2. ASSUME NEW i \in 1..(Len(primed) + 1) PROVE primed'[i].n = delivered + i
        <5>1. primed'[i] = IF i = Len(primed) + 1 THEN channel ELSE primed[i]
          BY <3>1, <3>2
        <5>2. i # Len(primed) + 1 => i \in 1..Len(primed)
          BY <4>1
        <5> QED
          BY <4>1, <5>1, <5>2
      <4> QED
        BY <3>1, <3>3, <4>2
    <3> QED
      BY <2>1, <2>3, <3>1, <3>3, <3>4
  <2> QED
    BY <1>5, <2>2, <2>3 DEF TakePrimed
<1>6. CASE TimeOut
  BY <1>6 DEF TimeOut
<1>7. CASE Close
  BY <1>7 DEF Close, Closed, Queue!Next, Queue!Close
<1>8. ASSUME NEW last, RecvPrimed(last)
      PROVE  IInv' /\ Queue!Deliver
  <2>1. /\ phase \in {"handed", "committed"} /\ primed # <<>>
        /\ delivered' = Head(primed).n
        /\ UNCHANGED <<decoded, reader, channel>>
    BY <1>8 DEF RecvPrimed
  <2>2. Closed \/ (primed' = Tail(primed) /\ phase' = phase)
    BY <1>8, Zenon DEF RecvPrimed
  <2>3. Head(primed) = primed[1] /\ Len(primed) \in Nat /\ Len(primed) > 0
        /\ delivered' = delivered + 1
    BY <2>1
  <2>4. delivered < decoded
    BY <2>1, <2>3
  <2>5. Queue!Deliver
    BY <2>1, <2>2, <2>3, <2>4 DEF Closed, Queue!Deliver
  <2>6. CASE Closed
    BY <2>1, <2>3, <2>5, <2>6, ClosedKeeps
  <2>7. CASE primed' = Tail(primed) /\ phase' = phase
    <3>1. Len(primed') = Len(primed) - 1 /\ primed' \in Seq(Result)
      BY <2>1, <2>7
    <3>2. \A i \in 1..Len(primed') : primed'[i] = primed[i + 1] /\ i + 1 \in 1..Len(primed)
      BY <2>1, <2>7, <3>1
    <3>3. PrimedFollows'
      BY <2>1, <2>3, <2>7, <3>1, <3>2
    <3>4. StreamTypes' /\ OneRead'
      BY <2>1, <2>3, <2>7, <3>1
    <3>5. ChannelFollows'
      <4>1. delivered + Len(primed) = delivered' + Len(primed')
        BY <2>3, <3>1
      <4> QED
        BY <2>1, <2>7, <4>1
    <3> QED
      BY <2>5, <3>3, <3>4, <3>5
  <2> QED
    BY <2>2, <2>5, <2>6, <2>7
<1>9. ASSUME NEW last, RecvPending(last)
      PROVE  IInv' /\ Queue!Deliver
  <2>1. /\ phase = "handed" /\ primed = <<>> /\ channel # NoResult
        /\ delivered' = channel.n /\ channel' = NoResult /\ reader' = "none"
        /\ decoded' = decoded
    BY <1>9 DEF RecvPending
  <2>2. Closed \/ (primed' = primed /\ phase' = "committed")
    BY <1>9, Zenon DEF RecvPending
  <2>3. Len(primed) = 0 /\ channel.n = delivered + 1 /\ decoded = delivered + 1
    BY <2>1
  <2>4. Queue!Deliver
    BY <2>1, <2>2, <2>3 DEF Closed, Queue!Deliver
  <2>5. CASE Closed
    BY <2>1, <2>3, <2>4, <2>5, ClosedKeeps
  <2>6. CASE primed' = primed /\ phase' = "committed"
    BY <2>1, <2>3, <2>4, <2>6
  <2> QED
    BY <2>2, <2>5, <2>6
<1>10. ASSUME NEW last, RecvDirect(last)
       PROVE  IInv' /\ Queue!PassOn
  <2>1. /\ phase = "committed" /\ primed = <<>>
        /\ decoded' = decoded + 1 /\ delivered' = decoded + 1
        /\ UNCHANGED <<reader, channel>>
    BY <1>10 DEF RecvDirect
  <2>2. Closed \/ UNCHANGED <<phase, primed>>
    BY <1>10, Zenon DEF RecvDirect
  <2>3. Len(primed) = 0 /\ decoded = delivered
    BY <2>1
  <2>4. Queue!PassOn
    BY <2>1, <2>2, <2>3 DEF Closed, Queue!PassOn
  <2>5. CASE Closed
    BY <2>1, <2>3, <2>4, <2>5, ClosedKeeps
  <2>6. CASE UNCHANGED <<phase, primed>>
    BY <2>1, <2>3, <2>4, <2>6
  <2> QED
    BY <2>2, <2>5, <2>6
<1> QED
  BY <1>1, <1>2, <1>3, <1>4, <1>5, <1>6, <1>7, <1>8, <1>9, <1>10 DEF StreamStep, Queue!Next

LEMMA UnchangedKeeps ==
    ASSUME IInv, UNCHANGED streamVars
    PROVE  IInv' /\ UNCHANGED Queue!queueVars
BY DEF IInv, StreamTypes, PrimedFollows, ChannelFollows, OneRead, streamVars, Queue!queueVars

LEMMA ReadableAreEvents == \A ev \in Readable : ev \in Events \union Ends
BY DEF Readable

(***************************************************************************)
(* Whatever the frames are, and however the probe ends, the handler is     *)
(* given every frame once and in order: the stream of an exchange          *)
(* implements FrameQueue.                                                  *)
(***************************************************************************)
THEOREM StreamIsQueue == Spec => EveryFrameInOrder
<1>1. Init => Queue!Init
  BY DEF Init, StreamInit, Queue!Init
<1>2. Init => IInv
  BY InitIInv
<1>3. IInv /\ [Next]_vars => IInv' /\ [Queue!Next]_(Queue!queueVars)
  <2> SUFFICES ASSUME IInv, [Next]_vars
               PROVE  IInv' /\ [Queue!Next]_(Queue!queueVars)
    OBVIOUS
  <2>1. StreamStep \/ UNCHANGED streamVars
    BY ExchangeStep DEF vars, streamVars
  <2> QED
    BY <2>1, StreamStepKeeps, UnchangedKeeps, ReadableAreEvents DEF Queue!queueVars
<1> QED
  BY <1>1, <1>2, <1>3, PTL DEF Spec, EveryFrameInOrder, Queue!Spec

-----------------------------------------------------------------------------
(* The types of the stream *)

\* An end is the last frame, and after it nothing is read.
FramesCounted ==
    /\ decoded <= MaxFrames + 1
    /\ delivered <= decoded
    /\ phase # "closed" /\ decoded > MaxFrames => channel # NoResult /\ channel.ev \in Ends

LEMMA EndsAreLast == \A ev \in Ends : IsLast(ev) /\ ev \in Failures
BY EventsAreFrames DEF Frames, IsLast, Failures

LEMMA ReadCounts ==
    ASSUME NEW ev \in Readable, decoded \in Nat, decoded <= MaxFrames
    PROVE  decoded + 1 <= MaxFrames + 1 /\ (decoded + 1 > MaxFrames => ev \in Ends)
<1>1. CASE decoded < MaxFrames
  BY <1>1
<1>2. CASE ~(decoded < MaxFrames)
  <2>1. Readable = Ends
    BY <1>2 DEF Readable
  <2> QED
    BY <2>1
<1> QED
  BY <1>1, <1>2

LEMMA CountsKeep ==
    ASSUME IInv, FramesCounted, Next
    PROVE  FramesCounted'
<1> USE DEF IInv, StreamTypes, OneRead, ChannelFollows, PrimedFollows
<1>1. CASE TooLong
  BY <1>1 DEF TooLong, streamVars, FramesCounted
<1>2. CASE Accepted
  BY <1>2 DEF Accepted, OpenStream, FramesCounted
<1>3. CASE StartRead
  BY <1>3 DEF StartRead, FramesCounted
<1>4. CASE Read
  <2>1. PICK ev \in Readable : channel' = NextFrame(ev)
    BY <1>4 DEF Read
  <2>2. channel' # NoResult /\ channel'.ev = ev
    BY <2>1, ReadableAreEvents DEF NextFrame, Result
  <2>3. decoded <= MaxFrames
    BY <1>4 DEF Read, FramesCounted
  <2>4. decoded + 1 <= MaxFrames + 1 /\ (decoded + 1 > MaxFrames => ev \in Ends)
    BY <2>3, ReadCounts
  <2> QED
    BY <1>4, <2>2, <2>4 DEF Read, FramesCounted
<1>5. CASE ReadFails
  BY <1>5 DEF ReadFails, FramesCounted
<1>6. CASE Probe
  <2>1. PICK visible : TakePrimed(Failures, visible)
    BY <1>6 DEF Probe
  <2>2. channel.ev \in Ends => phase' = "closed"
    BY <2>1, EndsAreLast DEF TakePrimed, Closed
  <2>3. phase # "closed" /\ channel # NoResult
    BY <2>1 DEF TakePrimed
  <2>4. UNCHANGED <<decoded, delivered>>
    BY <2>1 DEF TakePrimed
  <2> QED
    BY <2>2, <2>3, <2>4 DEF FramesCounted
<1>7. CASE TimeOut
  BY <1>7 DEF TimeOut, FramesCounted
<1>8. CASE ClientLeaves
  BY <1>8 DEF ClientLeaves, Close, Closed, FramesCounted
<1>9. ASSUME NEW last, RecvPrimed(last) PROVE FramesCounted'
  <2>1. delivered' = Head(primed).n /\ UNCHANGED <<decoded, channel>> /\ phase # "closed" /\ primed # <<>>
    BY <1>9 DEF RecvPrimed
  <2>2. Head(primed).n = delivered + 1 /\ Len(primed) > 0 /\ Len(primed) \in Nat
    BY <2>1
  <2>3. delivered + 1 <= decoded
    BY <2>1, <2>2
  <2> QED
    BY <2>1, <2>2, <2>3 DEF FramesCounted
<1>10. ASSUME RecvPending(IsLast(channel.ev)) PROVE FramesCounted'
  <2>1. delivered' = channel.n /\ UNCHANGED decoded /\ phase # "closed" /\ channel # NoResult
        /\ (IsLast(channel.ev) => phase' = "closed")
    BY <1>10 DEF RecvPending, Closed
  <2>2. channel.n = decoded
    BY <2>1
  <2>3. channel.ev \in Ends => phase' = "closed"
    BY <2>1, EndsAreLast
  <2> QED
    BY <2>1, <2>2, <2>3 DEF FramesCounted
<1>11. ASSUME NEW ev \in Readable, RecvDirect(IsLast(ev)) PROVE FramesCounted'
  <2>1. /\ phase = "committed" /\ decoded' = decoded + 1 /\ delivered' = decoded + 1
        /\ (IsLast(ev) => phase' = "closed") /\ channel' = channel
    BY <1>11 DEF RecvDirect, Closed
  <2>2. channel = NoResult /\ decoded <= MaxFrames
    BY <2>1 DEF FramesCounted
  <2>3. decoded + 1 <= MaxFrames + 1 /\ (decoded + 1 > MaxFrames => ev \in Ends)
    BY <2>2, ReadCounts
  <2>4. ev \in Ends => phase' = "closed"
    BY <2>1, EndsAreLast
  <2> QED
    BY <2>1, <2>3, <2>4 DEF FramesCounted
<1> QED
  BY <1>1, <1>2, <1>3, <1>4, <1>5, <1>6, <1>7, <1>8, <1>9, <1>10, <1>11
     DEF Next, Background, Receive

-----------------------------------------------------------------------------
(* The answer *)

\* Between two frames, the client has what the assembler has sent; the text of
\* both is what upstream has sent; and the end is told when the stream is closed.
AnswerInv ==
    /\ Sound(Now)
    /\ fed \in [settled : Text, run : Text]
    /\ Kept(Now, fed.settled, fed.run)
    /\ phase # "closed" => client.told = "nothing"
    /\ phase = "idle" => asm = NewAssembler /\ client = NewClient

AllKinds == {"text", "reasoning", "tool", "metadata", "error", "other", "eof", "broken"}

LEMMA FramesAre ==
    ASSUME NEW ev \in Events \union Ends
    PROVE  ev.kind \in AllKinds /\ ev.data \in Text /\ ev.id \in ToolIds \union {NoId}
BY EventsAreFrames DEF Frames, AllKinds

\* What the handler makes of a frame.
LEMMA HandledKeeps ==
    ASSUME NEW ev \in Events \union Ends, Live(Now),
           fed \in [settled : Text, run : Text], Kept(Now, fed.settled, fed.run), Feed(ev)
    PROVE  /\ Sound(Handled(ev))
           /\ ~IsLast(ev) => Live(Handled(ev))
           /\ Handled(ev).mode = mode
           /\ fed' \in [settled : Text, run : Text]
           /\ Kept(Handled(ev), fed'.settled, fed'.run)
<1> DEFINE r == Now
           q == Handled(ev)
<1>1. ev.kind \in AllKinds /\ ev.data \in Text /\ ev.id \in ToolIds \union {NoId}
  BY FramesAre
<1>2. Live(r) /\ r.mode = mode /\ r.mode \in Mode /\ Sound(r)
  <2>1. Live(r) /\ r.mode = mode
    BY DEF Now
  <2> QED
    BY <2>1 DEF Live, Sound, Answer
<1>3. fed.settled \in Text /\ fed.run \in Text /\ fed = [settled |-> fed.settled, run |-> fed.run]
  OBVIOUS
<1>4. ASSUME fed' = [settled |-> fed.settled \o WithoutMarker(fed.run), run |-> <<>>],
             Kept(q, fed.settled \o WithoutMarker(fed.run), <<>>)
      PROVE  fed' \in [settled : Text, run : Text] /\ Kept(q, fed'.settled, fed'.run)
  <2>1. fed.settled \o WithoutMarker(fed.run) \in Text /\ <<>> \in Text
    BY <1>4 DEF Kept
  <2> HIDE DEF q
  <2> QED
    BY <1>4, <2>1
<1> HIDE DEF r
<1>5. CASE ev.kind = "text"
  <2>1. q = IngestText(r, ev.data) /\ ~IsLast(ev)
    BY <1>5 DEF Handled, IsLast, r
  <2>2. fed' = [fed EXCEPT !.run = @ \o ev.data]
    BY <1>5 DEF Feed, EndsRun
  <2>3. Live(q) /\ q.mode = r.mode
    <3>1. CASE ev.data = <<>>
      BY <1>2, <2>1, <3>1 DEF IngestText
    <3>2. CASE ev.data # <<>>
      <4>1. Live(IngestText(r, ev.data)) /\ IngestText(r, ev.data).mode = r.mode
        BY <1>1, <1>2, <3>2, IngestLives
      <4> HIDE DEF q
      <4> QED
        BY <2>1, <4>1
    <3> QED
      BY <3>1, <3>2
  <2>4. Kept(q, fed.settled, fed.run \o ev.data)
    BY <1>1, <1>2, <2>1, KeptOfText DEF r
  <2>5. fed.run \o ev.data \in Text
    BY <1>1, <1>3, TextJoins
  <2>6. fed' \in [settled : Text, run : Text] /\ fed'.settled = fed.settled
        /\ fed'.run = fed.run \o ev.data
    BY <1>3, <2>2, <2>5
  <2> HIDE DEF q
  <2>7. Sound(q) /\ Live(q) /\ q.mode = mode /\ Kept(q, fed'.settled, fed'.run)
    BY <1>2, <2>3, <2>4, <2>6 DEF Live
  <2> QED
    BY <2>6, <2>7 DEF q
<1>6. CASE ev.kind = "reasoning" /\ Messages(r) /\ ~r.mode.thinking
  <2>1. q = AddReasoning(r, ev)
    BY <1>6 DEF Handled, r
  <2>2. q = r
    BY <1>6, <2>1 DEF AddReasoning
  <2>3. ~EndsRun(ev)
    BY <1>2, <1>6 DEF EndsRun, Messages
  <2>4. fed' = fed
    BY <1>6, <2>3 DEF Feed
  <2> HIDE DEF q
  <2>5. Sound(q) /\ Live(q) /\ q.mode = mode /\ Kept(q, fed'.settled, fed'.run)
    BY <1>2, <2>2, <2>4 DEF r
  <2> QED
    BY <2>4, <2>5 DEF q
<1>7. CASE ev.kind = "reasoning" /\ ~(Messages(r) /\ ~r.mode.thinking)
  <2>1. q = AddReasoning(r, ev)
    BY <1>7 DEF Handled, r
  <2>2. Live(q) /\ q.mode = r.mode /\ q.asm.carry = <<>> /\ Said(q) = Said(FlushLeakCarry(r))
    BY <1>1, <1>2, <1>7, <2>1, ReasoningLives
  <2>3. EndsRun(ev)
    BY <1>2, <1>7 DEF EndsRun, Messages, Mode
  <2>4. fed' = [settled |-> fed.settled \o WithoutMarker(fed.run), run |-> <<>>]
    BY <1>7, <2>3 DEF Feed
  <2> HIDE DEF q
  <2>5. Kept(q, fed.settled \o WithoutMarker(fed.run), <<>>)
    BY <1>2, <2>2, KeptOfEnd DEF r
  <2>6. Sound(q) /\ Live(q) /\ q.mode = mode
    BY <1>2, <2>2 DEF Live
  <2> QED
    BY <1>4, <2>4, <2>5, <2>6 DEF q
<1>8. CASE ev.kind = "tool"
  <2>1. q = AddToolUse(r, ev)
    BY <1>8 DEF Handled, r
  <2>2. Live(q) /\ q.mode = r.mode /\ q.asm.carry = <<>> /\ Said(q) = Said(FlushLeakCarry(r))
    BY <1>1, <1>2, <2>1, ToolUseLives
  <2>3. fed' = [settled |-> fed.settled \o WithoutMarker(fed.run), run |-> <<>>]
    BY <1>8 DEF Feed, EndsRun
  <2> HIDE DEF q
  <2>4. Kept(q, fed.settled \o WithoutMarker(fed.run), <<>>)
    BY <1>2, <2>2, KeptOfEnd DEF r
  <2>5. Sound(q) /\ Live(q) /\ q.mode = mode
    BY <1>2, <2>2 DEF Live
  <2> QED
    BY <1>4, <2>3, <2>4, <2>5 DEF q
<1>9. CASE ev.kind = "eof"
  <2> DEFINE f == Finish(r)
  <2>1. q = Complete(f) /\ IsLast(ev)
    BY <1>9 DEF Handled, IsLast, r
  <2>2. Live(f) /\ f.mode = r.mode /\ f.asm.open = NoBlock /\ f.asm.carry = <<>>
        /\ Said(f) = Said(FlushLeakCarry(r))
    BY <1>2, FinishLives
  <2> HIDE DEF f, q
  <2>3. Sound(q) /\ q.mode = f.mode /\ q.asm = f.asm
    BY <2>1, <2>2, CompleteIs
  <2>4. q.asm.carry = <<>> /\ Said(q) = Said(FlushLeakCarry(r))
    <3>1. Said(q) = Said(f)
      BY <2>3 DEF Said
    <3> QED
      BY <2>2, <2>3, <3>1
  <2>5. fed' = [settled |-> fed.settled \o WithoutMarker(fed.run), run |-> <<>>]
    BY <1>9 DEF Feed, EndsRun
  <2>6. Kept(q, fed.settled \o WithoutMarker(fed.run), <<>>)
    BY <1>2, <2>4, KeptOfEnd DEF r
  <2>7. Sound(q) /\ q.mode = mode
    BY <1>2, <2>2, <2>3
  <2> QED
    BY <1>4, <2>1, <2>5, <2>6, <2>7 DEF q
<1>10. CASE ev.kind \in {"error", "broken"}
  <2>1. q = Fail(r) /\ IsLast(ev)
    BY <1>10 DEF Handled, IsLast, r
  <2>2. fed' = fed
    BY <1>10 DEF Feed, EndsRun
  <2> HIDE DEF q
  <2>3. Sound(q) /\ q.mode = r.mode /\ q.asm = r.asm
    BY <1>2, <2>1, FailIs
  <2>4. Said(q) = Said(r)
    BY <2>3 DEF Said
  <2>5. Kept(q, fed.settled, fed.run)
    BY <2>3, <2>4, KeptOfSame DEF r
  <2> QED
    BY <1>2, <2>1, <2>2, <2>3, <2>5 DEF q
<1>11. CASE ev.kind \in {"metadata", "other"}
  <2>1. q = r /\ ~IsLast(ev)
    BY <1>11 DEF Handled, IsLast, r
  <2>2. fed' = fed
    BY <1>11 DEF Feed, EndsRun
  <2> HIDE DEF q
  <2>3. Sound(q) /\ Live(q) /\ q.mode = mode /\ Kept(q, fed'.settled, fed'.run)
    BY <1>2, <2>1, <2>2 DEF r
  <2> QED
    BY <2>2, <2>3 DEF q
<1> QED
  BY <1>1, <1>5, <1>6, <1>7, <1>8, <1>9, <1>10, <1>11 DEF AllKinds

\* Nothing of an answer yet.
NothingSaid(md) == [mode |-> md, asm |-> NewAssembler, client |-> NewClient]

LEMMA NewAnswer ==
    ASSUME NEW md \in Mode
    PROVE  /\ Sound(NothingSaid(md))
           /\ Said(NothingSaid(md)) = <<>>
           /\ NothingSaid(md).asm.carry = <<>>
<1> DEFINE n == NothingSaid(md)
<1>1. NoBlock \in Blocks /\ <<>> \in Text /\ <<>> \in Seq(Blocks)
  <2>1. <<>> \in Seq(Blocks)
    OBVIOUS
  <2> QED
    BY <2>1, NoBlockIs, TextJoins
<1>2. NewAssembler \in Assembler /\ NewClient \in Client
  BY <1>1 DEF NewAssembler, Assembler, NewClient, Client
<1>3. NewAssembler.open = NoBlock /\ NewAssembler.blocks = <<>> /\ NewAssembler.index = 0
      /\ NewAssembler.carry = <<>>
  BY DEF NewAssembler
<1>4. NewClient.open = NoBlock /\ NewClient.blocks = <<>> /\ NewClient.orderly
  BY DEF NewClient
<1>5. n \in Answer /\ n.asm = NewAssembler /\ n.client = NewClient
  BY <1>2 DEF Answer, NothingSaid
<1> HIDE DEF n
<1>6. Numbered(n)
  <2>1. n.asm.open = NoBlock /\ n.asm.index = 0 /\ Len(n.asm.blocks) = 0
    BY <1>3, <1>5
  <2> QED
    BY <2>1 DEF Numbered
<1>7. InStep(n)
  <2>1. Shown(NoBlock) = NoBlock
    BY DEF Shown
  <2> QED
    BY <1>3, <1>4, <1>5, <2>1 DEF InStep
<1>8. Said(n) = <<>>
  <2>1. <<>> \o <<>> = <<>>
    BY TextJoins
  <2> QED
    BY <1>3, <1>5, <2>1, NoBlockIs, TextOfNone DEF Said
<1> QED
  BY <1>3, <1>5, <1>6, <1>7, <1>8 DEF Sound, n

LEMMA InitAnswer == Init => AnswerInv
<1> SUFFICES ASSUME Init PROVE AnswerInv
  OBVIOUS
<1>1. asm = NewAssembler /\ client = NewClient /\ fed = [settled |-> <<>>, run |-> <<>>]
      /\ mode \in Mode
  BY ModesAreModes DEF Init
<1>2. Sound(Now) /\ Said(Now) = <<>> /\ Now.asm.carry = <<>>
  <2>1. Now = NothingSaid(mode)
    BY <1>1 DEF Now, NothingSaid
  <2> QED
    BY <1>1, <2>1, NewAnswer
<1>3. <<>> \in Text /\ Len(<<>>) = 0 /\ <<>> \o <<>> = <<>> /\ SubSeq(<<>>, 1, 0 - 0) = <<>>
  <2>1. SubSeq(<<>>, 1, 0) = <<>>
    BY SubSeqEmpty
  <2> QED
    BY <2>1, TextJoins
<1>4. Kept(Now, fed.settled, fed.run)
  BY <1>1, <1>2, <1>3, NothingHeld DEF Kept
<1>5. client.told = "nothing"
  BY <1>1 DEF NewClient
<1> QED
  BY <1>1, <1>2, <1>3, <1>4, <1>5 DEF AnswerInv

LEMMA AnswerStays ==
    ASSUME AnswerInv, UNCHANGED answerVars, phase' # "closed" => phase # "closed",
           phase' = "idle" => phase = "idle"
    PROVE  AnswerInv'
BY DEF AnswerInv, answerVars, Now

\* The frame that is handled ends the stream if it is the last.
LEMMA HandleKeeps ==
    ASSUME AnswerInv, NEW ev \in Events \union Ends, Handle(ev), phase \in {"handed", "committed"},
           phase' # "idle", IsLast(ev) => phase' = "closed"
    PROVE  AnswerInv'
<1> DEFINE q == Handled(ev)
<1>1. Live(Now)
  BY DEF AnswerInv, Live, Now
<1>2. /\ Sound(q)
      /\ ~IsLast(ev) => Live(q)
      /\ q.mode = mode
      /\ fed' \in [settled : Text, run : Text]
      /\ Kept(q, fed'.settled, fed'.run)
  BY <1>1, HandledKeeps DEF AnswerInv, Handle
<1>3. asm' = q.asm /\ client' = q.client /\ mode' = mode
  BY DEF Handle
<1> HIDE DEF q
<1>4. q \in Answer
  BY <1>2 DEF Sound
<1>5. q = [mode |-> q.mode, asm |-> q.asm, client |-> q.client]
  BY <1>4 DEF Answer
<1>6. Now' = q
  BY <1>2, <1>3, <1>5 DEF Now
<1>7. phase' # "closed" => client'.told = "nothing"
  BY <1>2, <1>3 DEF Live
<1> QED
  BY <1>2, <1>6, <1>7 DEF AnswerInv

LEMMA AnswerKeeps ==
    ASSUME IInv, AnswerInv, [Next]_vars
    PROVE  AnswerInv'
<1>1. CASE TooLong
  BY <1>1, AnswerStays DEF TooLong, streamVars
<1>2. CASE Accepted
  <2>1. phase = "idle" /\ phase' = "priming" /\ mode' \in Mode /\ UNCHANGED <<asm, client, fed>>
    BY <1>2, ModesAreModes DEF Accepted, OpenStream
  <2>2. asm = NewAssembler /\ client = NewClient /\ mode \in Mode
    BY <2>1 DEF AnswerInv, Sound, Answer, Now
  <2>3. Said(Now) = <<>> /\ Now.asm.carry = <<>>
    <3>1. Now = NothingSaid(mode)
      BY <2>2 DEF Now, NothingSaid
    <3> QED
      BY <2>2, <3>1, NewAnswer
  <2>4. Sound(Now') /\ Said(Now') = <<>> /\ Now'.asm.carry = <<>>
    <3>1. Now' = NothingSaid(mode')
      BY <2>1, <2>2 DEF Now, NothingSaid
    <3> QED
      BY <2>1, <3>1, NewAnswer
  <2>5. Kept(Now', fed'.settled, fed'.run)
    BY <2>1, <2>3, <2>4 DEF AnswerInv, Kept
  <2> QED
    BY <2>1, <2>2, <2>4, <2>5 DEF AnswerInv
<1>3. CASE Background
  <2>1. phase' # "idle" /\ (phase' # "closed" => phase # "closed")
    BY <1>3 DEF Background, StartRead, Read, ReadFails, TimeOut, IInv, StreamTypes, OneRead
  <2> QED
    BY <1>3, <2>1, AnswerStays DEF Background
<1>4. CASE Probe
  <2>1. phase' # "idle" /\ phase = "priming"
    BY <1>4 DEF Probe, TakePrimed, Closed
  <2> QED
    BY <1>4, <2>1, AnswerStays DEF Probe
<1>5. CASE Receive
  <2>1. CASE primed # <<>> /\ RecvPrimed(IsLast(Head(primed).ev)) /\ Handle(Head(primed).ev)
    <3>1. Head(primed).ev \in Events \union Ends
      <4>1. primed \in Seq(Result)
        BY DEF IInv, StreamTypes
      <4>2. Head(primed) \in Result
        BY <2>1, <4>1
      <4> QED
        BY <4>2 DEF Result
    <3>2. phase \in {"handed", "committed"} /\ phase' # "idle"
          /\ (IsLast(Head(primed).ev) => phase' = "closed")
      BY <2>1 DEF RecvPrimed, Closed
    <3> QED
      BY <2>1, <3>1, <3>2, HandleKeeps
  <2>2. CASE channel # NoResult /\ RecvPending(IsLast(channel.ev)) /\ Handle(channel.ev)
    <3>1. channel.ev \in Events \union Ends
      BY <2>2 DEF IInv, StreamTypes, Result
    <3>2. phase \in {"handed", "committed"} /\ phase' # "idle"
          /\ (IsLast(channel.ev) => phase' = "closed")
      BY <2>2 DEF RecvPending, Closed
    <3> QED
      BY <2>2, <3>1, <3>2, HandleKeeps
  <2>3. ASSUME NEW ev \in Readable, RecvDirect(IsLast(ev)), Handle(ev) PROVE AnswerInv'
    <3>1. ev \in Events \union Ends
      BY ReadableAreEvents
    <3>2. phase \in {"handed", "committed"} /\ phase' # "idle" /\ (IsLast(ev) => phase' = "closed")
      BY <2>3 DEF RecvDirect, Closed
    <3> QED
      BY <2>3, <3>1, <3>2, HandleKeeps
  <2> QED
    BY <1>5, <2>1, <2>2, <2>3 DEF Receive
<1>6. CASE ClientLeaves
  <2>1. phase' = "closed"
    BY <1>6 DEF ClientLeaves, Close, Closed
  <2> QED
    BY <1>6, <2>1, AnswerStays DEF ClientLeaves
<1>7. CASE UNCHANGED vars
  BY <1>7, AnswerStays DEF vars, streamVars, answerVars
<1> QED
  BY <1>1, <1>2, <1>3, <1>4, <1>5, <1>6, <1>7 DEF Next

-----------------------------------------------------------------------------
(* What holds of the request *)

RequestInv ==
    /\ messages = <<>> \/ phase = "idle"
    /\ trims \in 0..MaxTrims

LEMMA RequestKeeps ==
    ASSUME IInv, RequestInv, [Next]_vars
    PROVE  RequestInv'
<1>1. CASE TooLong
  BY <1>1, TrimsAreNat DEF TooLong, streamVars, RequestInv
<1>2. CASE Accepted
  BY <1>2, TrimsAreNat DEF Accepted, RequestInv
<1>3. CASE Background
  BY <1>3 DEF Background, StartRead, Read, ReadFails, TimeOut, requestVars, RequestInv, IInv, StreamTypes, OneRead
<1>4. CASE Probe
  BY <1>4 DEF Probe, TakePrimed, requestVars, RequestInv
<1>5. CASE Receive
  <2>1. phase # "idle" /\ UNCHANGED requestVars
    BY <1>5 DEF Receive, Handle, RecvPrimed, RecvPending, RecvDirect
  <2> QED
    BY <2>1 DEF RequestInv, requestVars
<1>6. CASE ClientLeaves
  BY <1>6 DEF ClientLeaves, Close, requestVars, RequestInv
<1>7. CASE UNCHANGED vars
  BY <1>7 DEF vars, streamVars, requestVars, RequestInv
<1> QED
  BY <1>1, <1>2, <1>3, <1>4, <1>5, <1>6, <1>7 DEF Next

-----------------------------------------------------------------------------
(* The theorems *)

ExchangeInv == IInv /\ FramesCounted /\ AnswerInv /\ RequestInv

LEMMA ExchangeInvHolds == Spec => []ExchangeInv
<1>1. Init => ExchangeInv
  <2> SUFFICES ASSUME Init PROVE ExchangeInv
    OBVIOUS
  <2>1. FramesCounted /\ RequestInv
    BY TrimsAreNat DEF Init, StreamInit, FramesCounted, RequestInv
  <2> QED
    BY <2>1, InitIInv, InitAnswer DEF ExchangeInv
<1>2. ExchangeInv /\ [Next]_vars => ExchangeInv'
  <2> SUFFICES ASSUME ExchangeInv, [Next]_vars PROVE ExchangeInv'
    OBVIOUS
  <2>1. IInv /\ FramesCounted /\ AnswerInv /\ RequestInv
    BY DEF ExchangeInv
  <2>2. IInv'
    <3>1. StreamStep \/ UNCHANGED streamVars
      BY ExchangeStep DEF vars, streamVars
    <3> QED
      BY <2>1, <3>1, StreamStepKeeps, UnchangedKeeps, ReadableAreEvents
  <2>3. FramesCounted'
    <3>1. CASE Next
      BY <2>1, <3>1, CountsKeep
    <3>2. CASE UNCHANGED vars
      BY <2>1, <3>2 DEF vars, streamVars, FramesCounted
    <3> QED
      BY <3>1, <3>2
  <2>4. AnswerInv' /\ RequestInv'
    BY <2>1, AnswerKeeps, RequestKeeps
  <2> QED
    BY <2>2, <2>3, <2>4 DEF ExchangeInv
<1> QED
  BY <1>1, <1>2, PTL DEF Spec

\* The variables of an exchange hold what the Go types hold, the numbers of
\* the blocks included.
THEOREM ExchangeTypes == Spec => []TypeOK
<1>1. ExchangeInv => TypeOK
  <2> SUFFICES ASSUME ExchangeInv PROVE TypeOK
    OBVIOUS
  <2>1. IInv /\ FramesCounted /\ AnswerInv /\ RequestInv
    BY DEF ExchangeInv
  <2>2. StreamTypeOK
    BY <2>1 DEF IInv, StreamTypes, FramesCounted, StreamTypeOK
  <2>3. Now \in Answer /\ Numbered(Now)
    BY <2>1 DEF AnswerInv, Sound
  <2>4. /\ mode \in Mode
        /\ asm.open.kind \in {"", "text", "thinking", "redacted", "tool"}
        /\ client.told \in {"nothing", "done", "failed"}
    BY <2>3 DEF Now, Answer, Assembler, Client, Blocks
  <2>5. asm.index = Len(asm.blocks) + IF Messages(Now) \/ asm.open = NoBlock THEN 0 ELSE 1
    BY <2>3 DEF Now, Numbered
  <2> QED
    BY <2>1, <2>2, <2>4, <2>5 DEF TypeOK, RequestInv
<1> QED
  BY <1>1, ExchangeInvHolds, PTL

\* However the frames come, a streaming client is never sent an event out of
\* place, and has at every step the blocks of the whole answer.
THEOREM InStepSafety == Spec => []ClientInStep
<1>1. ExchangeInv => ClientInStep
  BY DEF ExchangeInv, AnswerInv, Sound, InStep, Now, ClientInStep
<1> QED
  BY <1>1, ExchangeInvHolds, PTL

\* However a text is split over frames, the client gets all of it but for a
\* marker at its end, and what is held back is what may become a marker.
THEOREM TextSafety == Spec => []TextIntact
<1>1. ExchangeInv => TextIntact
  <2> SUFFICES ASSUME ExchangeInv PROVE TextIntact
    OBVIOUS
  <2> DEFINE k == Len(asm.carry)
             run == fed.run
             settled == fed.settled
             front == SubSeq(run, 1, Len(run) - k)
  <2>1. Now \in Answer /\ Kept(Now, settled, run) /\ Now.asm = asm
    BY DEF ExchangeInv, AnswerInv, Sound, Now
  <2>2. /\ settled \in Text /\ run \in Text /\ Held(run, k)
        /\ asm.carry = Ending(run, k) /\ Said(Now) = settled \o front
    BY <2>1 DEF Kept
  <2>3. k \in 0..Len(run) /\ BeginsMarker(Ending(run, k))
        /\ \A j \in (k + 1)..Len(run) : ~BeginsMarker(Ending(run, j))
    BY <2>2 DEF Held
  <2>4. TextOf(Append(asm.blocks, asm.open)) = Said(Now)
    BY <2>1, SaidIsText
  <2>5. Len(run) \in Nat
    BY <2>2 DEF Text
  <2> HIDE DEF k, run, settled
  <2>6. front \in Text
    <3>1. Len(run) - k \in 0..Len(run)
      BY <2>3, <2>5
    <3> QED
      BY <2>2, <3>1, BeginningIs
  <2>7. Ending(run, k) \in Text /\ front \o Ending(run, k) = run
    BY <2>2, <2>3, EndingIs, SplitAtEnding
  <2> HIDE DEF front
  <2>8. (settled \o front) \o Ending(run, k) = settled \o run
    <3>1. (settled \o front) \o Ending(run, k) = settled \o (front \o Ending(run, k))
      BY <2>2, <2>6, <2>7, TextJoins
    <3> QED
      BY <2>7, <3>1
  <2>9. TextOf(Append(asm.blocks, asm.open)) \o asm.carry = settled \o run
    BY <2>2, <2>4, <2>8
  <2>10. k <= Len(run)
    BY <2>3, <2>5
  <2> QED
    BY <2>3, <2>9, <2>10 DEF TextIntact, k, run, settled
<1> QED
  BY <1>1, ExchangeInvHolds, PTL
=============================================================================
