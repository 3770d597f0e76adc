------------------------- MODULE KconfigDeps_proofs -------------------------
(***************************************************************************)
(* The search for recursive dependencies finds them, for any symbols,      *)
(* choices and dependencies and in any order: what is printed is a         *)
(* recursion, and the symbols that were left without a message can be      *)
(* ranked so that each depends on lower ones only.  And the rewriting of   *)
(* the terms dependencies are made of keeps their values.                  *)
(***************************************************************************)
EXTENDS KconfigDeps, KconfigTerms, Integers, SequenceTheorems, TLAPS

Plain(s) == OwnChoice(s) = {} /\ s \notin DOMAIN DepChoices
Reached(s) == From(Uses, Together(s))
Knot(s) == \E t \in recursive : SameKnot(s, t)
Finished(s) == s \in checked /\ s \notin check

-----------------------------------------------------------------------------
(* The invariant *)

Frames == [of : {"deps", "choice", "sym"}, sym : DepSyms, todo : SUBSET DepSyms]
DepTypes ==
    /\ needs \in [DepSyms -> SUBSET DepSyms] /\ check \subseteq checked /\ checked \subseteq DepSyms
    /\ stack \in Seq(Frames) /\ toparse \subseteq DepSyms /\ recursive \subseteq DepSyms
    /\ sym2 \subseteq recursive

(* A choice and its values are marked together.                            *)
FlagsInv == \A c \in DOMAIN DepChoices : \A v \in DepChoices[c] : v \in checked <=> c \in checked

(* Who called whom.  A value of which the choice is still to be called was *)
(* never marked; a choice looks at itself first.                           *)
DepsFrame(i) ==
    /\ OwnChoice(stack[i].sym) # {}
    /\ \/ /\ i = Len(stack) /\ stack[i].todo = OwnChoice(stack[i].sym) /\ sym2 = {}
          /\ stack[i].sym \notin checked
       \/ /\ stack[i].todo = {} /\ stack[i].sym \in checked
          /\ \/ /\ i < Len(stack) /\ stack[i + 1].of = "choice"
                /\ stack[i + 1].sym \in OwnChoice(stack[i].sym)
             \/ i = Len(stack) /\ stack[i].sym \notin check
ChoiceFrame(i) ==
    /\ stack[i].sym \in DOMAIN DepChoices /\ stack[i].sym \in checked
    /\ \/ i = Len(stack) /\ sym2 = {} /\ stack[i].todo = {stack[i].sym} \cup DepChoices[stack[i].sym]
       \/ /\ stack[i].todo \subseteq DepChoices[stack[i].sym]
          /\ i < Len(stack) =>
               /\ stack[i + 1].of = "sym" /\ stack[i + 1].sym \notin stack[i].todo
               /\ stack[i + 1].sym \in {stack[i].sym} \cup DepChoices[stack[i].sym]
SymFrame(i) ==
    /\ stack[i].todo \subseteq Needed(stack[i].sym)
    /\ \/ Plain(stack[i].sym)
       \/ /\ i > 1 /\ stack[i - 1].of = "choice"
          /\ stack[i].sym \in {stack[i - 1].sym} \cup DepChoices[stack[i - 1].sym]
    /\ i < Len(stack) =>
         /\ stack[i + 1].sym \in Needed(stack[i].sym) \ stack[i].todo
         /\ stack[i + 1].of = "sym" => Plain(stack[i + 1].sym)
CallsInv ==
    /\ \A i \in 1..Len(stack) :
          /\ stack[i].of = "deps" => DepsFrame(i)
          /\ stack[i].of = "choice" => ChoiceFrame(i)
          /\ stack[i].of = "sym" => SymFrame(i)
    /\ \A i, j \in 1..Len(stack) :
          stack[i].of = "choice" /\ stack[j].of = "choice" /\ stack[i].sym = stack[j].sym => i = j

(* The flags that a function will take away: no other one will.            *)
Held(f) == IF f.of = "choice" THEN DepChoices[f.sym] \cup ({f.sym} \cap f.todo) ELSE Clears(f)
HeldInv ==
    /\ \A s \in check : \E i \in 1..Len(stack) : s \in Held(stack[i])
    /\ \A i \in 1..Len(stack) : Held(stack[i]) \subseteq check
    /\ \A i, j \in 1..Len(stack) : i # j => Held(stack[i]) \cap Held(stack[j]) = {}

(* Each symbol on the stack depends on those before it.                    *)
PathInv == \A i, j \in 1..Len(stack) : i <= j => stack[j].sym \in Reached(stack[i].sym)

(* What is returned was begun further down, and depends on itself.         *)
ReturnInv ==
    /\ ~unexpected
    /\ \A s \in recursive : Recursion(s)
    /\ \A s \in sym2 : /\ sym2 = {s} /\ \E i \in 1..Len(stack) : s \in EndsAt(stack[i])
                       /\ s \in Reached(Top.sym)

(* What each function has looked at is finished.                           *)
Seen(i, m) == \/ Knot(m)
              \/ (i < Len(stack) /\ stack[i + 1].sym = m)
              \/ \A d \in Speaks({m}) : Finished(d)
SeenInv ==
    \A i \in 1..Len(stack) : \A m \in DepSyms :
       /\ (stack[i].of = "sym" /\ m = stack[i].sym) =>
            \A d \in Speaks({m}) \ stack[i].todo :
               Knot(m) \/ (i < Len(stack) /\ stack[i + 1].sym = d) \/ Finished(d)
       /\ (stack[i].of = "choice" /\ m \in {stack[i].sym} \cup DepChoices[stack[i].sym]) =>
            m \in stack[i].todo \/ Seen(i, m)
StartInv == \A s \in DepSyms \ toparse : Finished(s) \/ (stack # << >> /\ stack[1].sym = s)

(* What is finished without a message follows only what is lower.          *)
Ranks(r, n) ==
    /\ r \in [DepSyms -> Nat] /\ n \in Nat /\ \A s \in DepSyms : r[s] <= n
    /\ \A c \in DOMAIN DepChoices : \A v, w \in DepChoices[c] : r[v] = r[w]
    /\ \A s \in DepSyms : (Finished(s) /\ ~Knot(s)) =>
          \A d \in Follows[s] : Finished(d) /\ (Knot(d) \/ r[d] < r[s])
RankInv == \E r, n : Ranks(r, n)

DepInv == /\ DepTypes /\ FlagsInv /\ CallsInv /\ HeldInv /\ PathInv /\ ReturnInv
          /\ SeenInv /\ StartInv /\ RankInv

-----------------------------------------------------------------------------
(* What the relations are, whatever the flags *)

(* From(F, S) is the least set that holds S and is closed under F.         *)
LEMMA FromIsLeast ==
    ASSUME NEW F \in [DepSyms -> SUBSET DepSyms], NEW S \in SUBSET DepSyms
    PROVE  /\ From(F, S) \in SUBSET DepSyms /\ S \subseteq From(F, S)
           /\ \A y \in From(F, S) : F[y] \subseteq From(F, S)
           /\ \A T \in SUBSET DepSyms :
                 (S \subseteq T /\ \A y \in T : F[y] \subseteq T) => From(F, S) \subseteq T
<1>1. /\ From(F, S) \in SUBSET DepSyms /\ S \subseteq From(F, S)
      /\ \A T \in SUBSET DepSyms :
            (S \subseteq T /\ \A y \in T : F[y] \subseteq T) => From(F, S) \subseteq T
  BY DEF From
<1>2. ASSUME NEW y \in From(F, S), NEW x \in F[y] PROVE x \in From(F, S)
  <2>1. x \in DepSyms
    BY <1>1
  <2>2. ASSUME NEW T \in SUBSET DepSyms, S \subseteq T, \A z \in T : F[z] \subseteq T
        PROVE  x \in T
    BY <2>2, <1>1
  <2> QED
    BY <2>1, <2>2 DEF From
<1> QED
  BY <1>1, <1>2

(* A choice and its values.                                                *)
LEMMA ChoiceFacts ==
    /\ \A c \in DOMAIN DepChoices :
          /\ c \in DepSyms /\ DepChoices[c] \subseteq DepSyms /\ OwnChoice(c) = {}
          /\ Together(c) = {c} \cup DepChoices[c]
          /\ \A v \in DepChoices[c] : /\ OwnChoice(v) = {c} /\ v \notin DOMAIN DepChoices
                                      /\ Together(v) = {c} \cup DepChoices[c]
    /\ \A s : Plain(s) => Together(s) = {s}
    /\ \A s : OwnChoice(s) # {} =>
          \E c \in DOMAIN DepChoices : s \in DepChoices[c] /\ OwnChoice(s) = {c}
<1>1. ASSUME NEW c \in DOMAIN DepChoices
      PROVE  /\ c \in DepSyms /\ DepChoices[c] \subseteq DepSyms /\ OwnChoice(c) = {}
             /\ \A v \in DepChoices[c] : OwnChoice(v) = {c} /\ v \notin DOMAIN DepChoices
  <2>1. \A d \in DOMAIN DepChoices : DepChoices[d] \in SUBSET (DepSyms \ DOMAIN DepChoices)
    BY RecursionAssumption
  <2> QED
    BY <2>1, RecursionAssumption DEF OwnChoice
<1>2. ASSUME NEW c \in DOMAIN DepChoices PROVE Together(c) = {c} \cup DepChoices[c]
  BY <1>1 DEF Together
<1>3. ASSUME NEW c \in DOMAIN DepChoices, NEW v \in DepChoices[c]
      PROVE  Together(v) = {c} \cup DepChoices[c]
  <2>1. OwnChoice(v) = {c} /\ v \notin DOMAIN DepChoices
    BY <1>1
  <2>2. Together(v) = {v} \cup {c} \cup UNION {DepChoices[e] : e \in {c}}
    BY <2>1 DEF Together
  <2> QED
    BY <2>2
<1>4. \A s : Plain(s) => Together(s) = {s}
  BY DEF Plain, Together
<1>5. \A s : OwnChoice(s) # {} =>
          \E c \in DOMAIN DepChoices : s \in DepChoices[c] /\ OwnChoice(s) = {c}
  <2>1. \A s : OwnChoice(s) # {} => \E c \in DOMAIN DepChoices : s \in DepChoices[c]
    BY DEF OwnChoice
  <2> QED
    BY <2>1, <1>1
<1> QED
  BY <1>1, <1>2, <1>3, <1>4, <1>5

LEMMA TogetherIsOne ==
    ASSUME NEW s \in DepSyms
    PROVE  /\ Together(s) \in SUBSET DepSyms /\ s \in Together(s)
           /\ \A x \in Together(s) : Together(x) = Together(s)
<1>1. s \in Together(s)
  BY DEF Together
<1>2. CASE Plain(s)
  BY <1>1, <1>2, ChoiceFacts
<1>3. CASE s \in DOMAIN DepChoices
  BY <1>1, <1>3, ChoiceFacts
<1>4. CASE OwnChoice(s) # {}
  <2>1. PICK c \in DOMAIN DepChoices : s \in DepChoices[c]
    BY <1>4, ChoiceFacts
  <2>2. /\ Together(s) = {c} \cup DepChoices[c] /\ Together(c) = {c} \cup DepChoices[c]
        /\ \A v \in DepChoices[c] : Together(v) = {c} \cup DepChoices[c]
        /\ c \in DepSyms /\ DepChoices[c] \subseteq DepSyms
    BY <2>1, ChoiceFacts
  <2> QED
    BY <1>1, <2>2
<1> QED
  BY <1>2, <1>3, <1>4 DEF Plain

(* What needs allows.                                                      *)
DepGraph == needs \in [DepSyms -> SUBSET DepSyms]

LEMMA Relations ==
    ASSUME DepGraph
    PROVE  /\ Uses \in [DepSyms -> SUBSET DepSyms] /\ Follows \in [DepSyms -> SUBSET DepSyms]
           /\ \A s \in DepSyms : /\ Needed(s) \in SUBSET DepSyms
                                 /\ Speaks({s}) = needs[s] \ OwnChoice(s)
                                 /\ \A x \in Together(s) : Uses[x] = Uses[s]
                                 /\ \A d \in Uses[s] : Together(d) \subseteq Uses[s]
                                 /\ \A m \in Together(s) : \A d \in Speaks({m}) : Together(d) \subseteq Uses[s]
                                 /\ Speaks({s}) \subseteq Speaks(Together(s))
                                 /\ Follows[s] \subseteq Speaks(Together(s))
                                 /\ \A d \in Speaks(Together(s)) :
                                       d \in DepSyms /\ \E m \in Together(s) : d \in Speaks({m})
<1> USE DEF DepGraph
<1>1. ASSUME NEW S \in SUBSET DepSyms
      PROVE  /\ Speaks(S) \in SUBSET DepSyms
             /\ \A d : d \in Speaks(S) <=> \E m \in S : d \in needs[m] /\ d \notin OwnChoice(m)
  BY DEF Speaks
<1>2. ASSUME NEW s \in DepSyms
      PROVE  /\ Speaks(Together(s)) \in SUBSET DepSyms /\ Speaks({s}) \in SUBSET DepSyms
             /\ Speaks({s}) = needs[s] \ OwnChoice(s)
             /\ Speaks({s}) \subseteq Speaks(Together(s))
             /\ \A d : d \in Speaks(Together(s)) <=> \E m \in Together(s) : d \in Speaks({m})
  <2>1. /\ Together(s) \in SUBSET DepSyms /\ {s} \in SUBSET DepSyms /\ s \in Together(s)
        /\ \A m \in Together(s) : {m} \in SUBSET DepSyms
    BY TogetherIsOne
  <2>2. /\ Speaks(Together(s)) \in SUBSET DepSyms /\ Speaks({s}) \in SUBSET DepSyms
        /\ \A d : d \in Speaks(Together(s)) <=> \E m \in Together(s) : d \in needs[m] /\ d \notin OwnChoice(m)
    BY <2>1, <1>1
  <2>3. \A m \in Together(s) : \A d : d \in Speaks({m}) <=> d \in needs[m] /\ d \notin OwnChoice(m)
    <3>1. ASSUME NEW m \in Together(s), NEW d
          PROVE  d \in Speaks({m}) <=> d \in needs[m] /\ d \notin OwnChoice(m)
      BY <2>1 DEF Speaks
    <3> QED
      BY <3>1
  <2>4. Speaks({s}) = needs[s] \ OwnChoice(s)
    BY <2>1, <2>3
  <2> QED
    BY <2>1, <2>2, <2>3, <2>4
<1>3. ASSUME NEW s \in DepSyms
      PROVE  /\ \A x : x \in UNION {Together(d) : d \in Speaks(Together(s))}
                          <=> \E d \in Speaks(Together(s)) : x \in Together(d)
             /\ UNION {Together(d) : d \in Speaks(Together(s))} \in SUBSET DepSyms
  <2>1. \A D : \A x : x \in UNION {Together(d) : d \in D} <=> \E d \in D : x \in Together(d)
    OBVIOUS
  <2>2. Speaks(Together(s)) \in SUBSET DepSyms
    BY <1>2
  <2>3. \A d \in DepSyms : Together(d) \in SUBSET DepSyms
    BY TogetherIsOne
  <2> QED
    BY <2>1, <2>2, <2>3
<1>4. /\ Uses \in [DepSyms -> SUBSET DepSyms]
      /\ \A s \in DepSyms : \A x : x \in Uses[s] <=> \E d \in Speaks(Together(s)) : x \in Together(d)
  BY <1>3 DEF Uses
<1>5. ASSUME NEW s \in DepSyms
      PROVE  (IF s \in DOMAIN DepChoices THEN Speaks({s}) ELSE Speaks(Together(s)))
                 \in SUBSET Speaks(Together(s))
  BY <1>2
<1>6. /\ Follows \in [DepSyms -> SUBSET DepSyms]
      /\ \A s \in DepSyms : Follows[s] \subseteq Speaks(Together(s))
  <2>1. \A s \in DepSyms : (IF s \in DOMAIN DepChoices THEN Speaks({s}) ELSE Speaks(Together(s)))
                               \in SUBSET DepSyms
    BY <1>2
  <2> QED
    BY <1>5, <2>1 DEF Follows
<1>7. ASSUME NEW s \in DepSyms
      PROVE  /\ Needed(s) \in SUBSET DepSyms
             /\ \A x \in Together(s) : Uses[x] = Uses[s]
  <2>1. Needed(s) \in SUBSET DepSyms
    BY ChoiceFacts DEF Needed
  <2>2. ASSUME NEW x \in Together(s) PROVE Uses[x] = Uses[s]
    <3>1. x \in DepSyms /\ Together(x) = Together(s)
      BY TogetherIsOne
    <3> QED
      BY <3>1 DEF Uses
  <2> QED
    BY <2>1, <2>2
<1>8. ASSUME NEW s \in DepSyms, NEW d \in Uses[s], NEW x \in Together(d) PROVE x \in Uses[s]
  <2>1. PICK e \in Speaks(Together(s)) : d \in Together(e)
    BY <1>4
  <2>2. e \in DepSyms
    BY <1>2
  <2>3. Together(d) = Together(e)
    BY <2>1, <2>2, TogetherIsOne
  <2> QED
    BY <2>1, <2>3, <1>4
<1>9. ASSUME NEW s \in DepSyms, NEW m \in Together(s), NEW d \in Speaks({m}), NEW x \in Together(d)
      PROVE  x \in Uses[s]
  BY <1>2, <1>4
<1> QED
  BY <1>2, <1>4, <1>6, <1>7, <1>8, <1>9

LEMMA ReachedFacts ==
    ASSUME DepGraph, NEW s \in DepSyms
    PROVE  /\ Reached(s) \in SUBSET DepSyms /\ Together(s) \subseteq Reached(s) /\ s \in Reached(s)
           /\ \A x \in Together(s) : Reached(x) = Reached(s)
           /\ \A x \in Reached(s) : /\ Uses[x] \subseteq Reached(s) /\ Together(x) \subseteq Reached(s)
                                    /\ Reached(x) \subseteq Reached(s)
           /\ \A x \in Reached(s) : Needed(x) \subseteq Reached(s) /\ Follows[x] \subseteq Reached(s)
<1>1. /\ Uses \in [DepSyms -> SUBSET DepSyms] /\ Together(s) \in SUBSET DepSyms /\ s \in Together(s)
  BY Relations, TogetherIsOne
<1>2. /\ Reached(s) \in SUBSET DepSyms /\ Together(s) \subseteq Reached(s) /\ s \in Reached(s)
      /\ \A y \in Reached(s) : Uses[y] \subseteq Reached(s)
      /\ \A T \in SUBSET DepSyms :
            (Together(s) \subseteq T /\ \A y \in T : Uses[y] \subseteq T) => Reached(s) \subseteq T
  BY <1>1, FromIsLeast DEF Reached
<1>3. \A x \in Together(s) : Reached(x) = Reached(s)
  BY TogetherIsOne DEF Reached
<1>4. \A x \in Reached(s) : Together(x) \subseteq Reached(s)
  <2> DEFINE T == {x \in Reached(s) : Together(x) \subseteq Reached(s)}
  <2>1. Together(s) \subseteq T
    BY <1>2, TogetherIsOne
  <2>2. ASSUME NEW y \in T, NEW d \in Uses[y] PROVE d \in T
    <3>1. y \in DepSyms /\ y \in Reached(s)
      BY <1>2
    <3>2. Together(d) \subseteq Uses[y]
      BY <3>1, Relations
    <3> QED
      BY <3>1, <3>2, <1>2
  <2>3. T \in SUBSET DepSyms
    BY <1>2
  <2>4. Reached(s) \subseteq T
    BY <1>2, <2>1, <2>2, <2>3
  <2> QED
    BY <2>4
<1>5. ASSUME NEW x \in Reached(s) PROVE Reached(x) \subseteq Reached(s)
  <2>1. x \in DepSyms /\ Together(x) \in SUBSET DepSyms /\ Together(x) \subseteq Reached(s)
    BY <1>2, <1>4, TogetherIsOne
  <2> QED
    BY <2>1, <1>1, <1>2, FromIsLeast DEF Reached
<1>6. ASSUME NEW x \in Reached(s)
      PROVE  Needed(x) \subseteq Reached(s) /\ Follows[x] \subseteq Reached(s)
  <2>1. /\ x \in DepSyms /\ Uses[x] \subseteq Reached(s) /\ Together(x) \subseteq Reached(s)
        /\ x \in Together(x)
    BY <1>2, <1>4, TogetherIsOne
  <2>2. \A m \in Together(x) : \A d \in Speaks({m}) : d \in DepSyms /\ d \in Uses[x]
    <3>1. ASSUME NEW m \in Together(x), NEW d \in Speaks({m}) PROVE d \in DepSyms /\ d \in Uses[x]
      <4>1. m \in DepSyms /\ Together(m) = Together(x) /\ m \in Together(m)
        BY <2>1, TogetherIsOne
      <4>2. d \in DepSyms
        BY <4>1, Relations
      <4> QED
        BY <2>1, <4>2, Relations, TogetherIsOne
    <3> QED
      BY <3>1
  <2>3. Follows[x] \subseteq Reached(s)
    BY <2>1, <2>2, Relations
  <2>4. OwnChoice(x) \subseteq Together(x)
    BY <2>1, ChoiceFacts
  <2>5. Needed(x) \subseteq Speaks({x}) \cup OwnChoice(x)
    BY <2>1, Relations DEF Needed
  <2> QED
    BY <2>1, <2>2, <2>3, <2>4, <2>5
<1> QED
  BY <1>2, <1>3, <1>4, <1>5, <1>6

(* To come back to what one speaks of is to depend on it.                  *)
LEMMA BackIsRecursion ==
    ASSUME DepGraph, NEW s \in DepSyms, NEW t \in Reached(s), s \in Speaks({t})
    PROVE  Recursion(s) /\ SameKnot(s, t) /\ SameKnot(t, s)
<1> DEFINE U == From(Uses, Uses[s])
           T == {x \in Reached(s) : Uses[x] \subseteq U}
<1>1. /\ Uses \in [DepSyms -> SUBSET DepSyms] /\ Uses[s] \in SUBSET DepSyms
      /\ Reached(s) \in SUBSET DepSyms /\ t \in DepSyms
  BY Relations, ReachedFacts
<1>2. /\ U \in SUBSET DepSyms /\ Uses[s] \subseteq U /\ \A y \in U : Uses[y] \subseteq U
  BY <1>1, FromIsLeast
<1>3. Together(s) \subseteq T
  BY <1>2, ReachedFacts, Relations
<1>4. \A y \in T : Uses[y] \subseteq T
  BY <1>2, ReachedFacts
<1>5. T \in SUBSET DepSyms /\ Together(s) \in SUBSET DepSyms
  BY <1>1, TogetherIsOne
<1>6. Reached(s) \subseteq T
  <2>1. \A X \in SUBSET DepSyms :
            (Together(s) \subseteq X /\ \A y \in X : Uses[y] \subseteq X) => Reached(s) \subseteq X
    BY <1>1, <1>5, FromIsLeast DEF Reached
  <2> HIDE DEF T
  <2> QED
    BY <1>3, <1>4, <1>5, <2>1
<1>7. s \in Uses[t] /\ s \in Reached(t)
  BY <1>1, Relations, TogetherIsOne, ReachedFacts
<1>8. Recursion(s)
  BY <1>6, <1>7 DEF Recursion
<1> QED
  BY <1>7, <1>8 DEF SameKnot, Reached

(* All of a choice is in the same knot.                                    *)
LEMMA KnotTogether ==
    ASSUME DepGraph, recursive \subseteq DepSyms, NEW s \in DepSyms, NEW x \in Together(s), Knot(x)
    PROVE  Knot(s)
<1>1. PICK t \in recursive : x \in Reached(t) /\ t \in Reached(x)
  BY DEF Knot, SameKnot, Reached
<1>2. t \in DepSyms /\ x \in DepSyms /\ Together(x) = Together(s) /\ s \in Together(x) /\ Reached(x) = Reached(s)
  BY TogetherIsOne, ReachedFacts
<1>3. s \in Reached(t)
  BY <1>1, <1>2, ReachedFacts
<1> QED
  BY <1>1, <1>2, <1>3 DEF Knot, SameKnot, Reached

(* No step changes needs.                                                  *)
LEMMA SameRelations ==
    ASSUME needs' = needs
    PROVE  /\ Uses' = Uses /\ Follows' = Follows
           /\ \A s : /\ Needed(s)' = Needed(s) /\ Speaks({s})' = Speaks({s})
                     /\ Reached(s)' = Reached(s) /\ (Recursion(s)' <=> Recursion(s))
           /\ \A s, t : SameKnot(s, t)' <=> SameKnot(s, t)
<1>1. \A S : Speaks(S)' = Speaks(S)
  BY DEF Speaks
<1>2. Uses' = Uses /\ Follows' = Follows
  BY <1>1 DEF Uses, Follows
<1> QED
  BY <1>1, <1>2 DEF Needed, Reached, Recursion, SameKnot

LEMMA KnotGrows ==
    ASSUME needs' = needs, recursive \subseteq recursive'
    PROVE  \A s : Knot(s) => Knot(s)'
BY SameRelations DEF Knot

-----------------------------------------------------------------------------
(* The calls *)

LEMMA FrameTypes ==
    ASSUME stack \in Seq(Frames)
    PROVE  /\ Len(stack) \in Nat /\ (stack # << >> => Len(stack) > 0)
           /\ \A i \in 1..Len(stack) :
                 /\ stack[i] \in Frames /\ stack[i].of \in {"deps", "choice", "sym"}
                 /\ stack[i].sym \in DepSyms /\ stack[i].todo \in SUBSET DepSyms
<1>1. Len(stack) \in Nat /\ (stack # << >> => Len(stack) > 0)
  OBVIOUS
<1>2. \A i \in 1..Len(stack) : stack[i] \in Frames
  OBVIOUS
<1> QED
  BY <1>1, <1>2 DEF Frames

LEMMA TakenOut ==
    ASSUME stack \in Seq(Frames), NEW d
    PROVE  /\ Without(d) \in Seq(Frames) /\ Len(Without(d)) = Len(stack)
           /\ \A i \in 1..Len(stack) :
                 /\ Without(d)[i].of = stack[i].of /\ Without(d)[i].sym = stack[i].sym
                 /\ (i < Len(stack) => Without(d)[i].todo = stack[i].todo)
                 /\ (i = Len(stack) => Without(d)[i].todo = stack[i].todo \ {d})
<1>1. CASE stack = << >>
  BY <1>1 DEF Without
<1>2. CASE stack # << >>
  <2> DEFINE t == [stack[Len(stack)] EXCEPT !.todo = @ \ {d}]
  <2>1. Len(stack) \in Nat /\ Len(stack) > 0 /\ Len(stack) \in 1..Len(stack)
    BY <1>2
  <2>2. stack[Len(stack)] \in Frames
    BY <2>1
  <2>3. t \in Frames /\ t.of = stack[Len(stack)].of /\ t.sym = stack[Len(stack)].sym
        /\ t.todo = stack[Len(stack)].todo \ {d}
    BY <2>2 DEF Frames
  <2>4. Without(d) = [stack EXCEPT ![Len(stack)] = t]
    BY <1>2 DEF Without
  <2> HIDE DEF t
  <2>5. /\ Without(d) \in Seq(Frames) /\ Len(Without(d)) = Len(stack)
        /\ \A i \in 1..Len(stack) : Without(d)[i] = IF i = Len(stack) THEN t ELSE stack[i]
    BY <2>1, <2>3, <2>4
  <2>6. ASSUME NEW i \in 1..Len(stack)
        PROVE  /\ Without(d)[i].of = stack[i].of /\ Without(d)[i].sym = stack[i].sym
               /\ (i < Len(stack) => Without(d)[i].todo = stack[i].todo)
               /\ (i = Len(stack) => Without(d)[i].todo = stack[i].todo \ {d})
    <3>1. CASE i = Len(stack)
      BY <2>1, <2>3, <2>5, <3>1
    <3>2. CASE i < Len(stack)
      BY <2>1, <2>5, <3>2
    <3> QED
      BY <2>1, <3>1, <3>2
  <2> QED
    BY <2>5, <2>6
<1> QED
  BY <1>1, <1>2

LEMMA Pushed ==
    ASSUME stack \in Seq(Frames), NEW d, NEW f \in Frames, stack' = Append(Without(d), f)
    PROVE  /\ stack' \in Seq(Frames) /\ Len(stack') = Len(stack) + 1
           /\ stack'[Len(stack) + 1] = f /\ stack'[Len(stack')] = f
           /\ \A i \in 1..Len(stack) :
                 /\ stack'[i].of = stack[i].of /\ stack'[i].sym = stack[i].sym
                 /\ (i < Len(stack) => stack'[i].todo = stack[i].todo)
                 /\ (i = Len(stack) => stack'[i].todo = stack[i].todo \ {d})
<1>1. /\ Without(d) \in Seq(Frames) /\ Len(Without(d)) = Len(stack) /\ Len(stack) \in Nat
  BY TakenOut
<1>2. /\ stack' \in Seq(Frames) /\ Len(stack') = Len(stack) + 1
      /\ stack'[Len(stack) + 1] = f
      /\ \A i \in 1..Len(stack) : stack'[i] = Without(d)[i]
  BY <1>1
<1>3. \A i \in 1..Len(stack) :
         /\ stack'[i].of = stack[i].of /\ stack'[i].sym = stack[i].sym
         /\ (i < Len(stack) => stack'[i].todo = stack[i].todo)
         /\ (i = Len(stack) => stack'[i].todo = stack[i].todo \ {d})
  BY <1>2, TakenOut
<1> QED
  BY <1>2, <1>3

LEMMA Popped ==
    ASSUME stack \in Seq(Frames), stack # << >>, stack' = Front(stack)
    PROVE  /\ stack' \in Seq(Frames) /\ Len(stack') = Len(stack) - 1
           /\ \A i \in 1..Len(stack') : stack'[i] = stack[i]
<1>1. Len(stack) \in Nat /\ Len(stack) > 0
  OBVIOUS
<1>2. stack' = SubSeq(stack, 1, Len(stack) - 1)
  BY DEF Front
<1>3. \A i \in 1..(Len(stack) - 1) : stack[i] \in Frames
  BY <1>1
<1>4. /\ stack' \in Seq(Frames) /\ Len(stack') = Len(stack) - 1
      /\ \A i \in 1..(Len(stack) - 1) : stack'[i] = stack[i]
  <2> DEFINE n == Len(stack) - 1
  <2>1. n \in Int /\ n >= 0 /\ 1 \in Int /\ n - 1 + 1 = n
    BY <1>1
  <2>2. \A i \in 1..n : stack[i] \in Frames
    BY <1>3
  <2> HIDE DEF n
  <2>3. /\ SubSeq(stack, 1, n) \in Seq(Frames)
        /\ Len(SubSeq(stack, 1, n)) = IF 1 <= n THEN n - 1 + 1 ELSE 0
        /\ \A i \in 1..(n - 1 + 1) : SubSeq(stack, 1, n)[i] = stack[1 + i - 1]
    BY <2>1, <2>2, SubSeqProperties
  <2>4. /\ SubSeq(stack, 1, n) \in Seq(Frames) /\ Len(SubSeq(stack, 1, n)) = n
        /\ \A i \in 1..n : SubSeq(stack, 1, n)[i] = stack[i]
    BY <2>1, <2>3
  <2> QED
    BY <1>2, <2>4 DEF n
<1> QED
  BY <1>4

LEMMA FrameFlags ==
    ASSUME NEW f
    PROVE  /\ f.of = "deps" => Held(f) = {} /\ Clears(f) = {} /\ EndsAt(f) = {f.sym}
           /\ f.of = "choice" => /\ Held(f) = DepChoices[f.sym] \cup ({f.sym} \cap f.todo)
                                 /\ Clears(f) = DepChoices[f.sym]
                                 /\ EndsAt(f) = {f.sym} \cup DepChoices[f.sym]
           /\ f.of = "sym" => /\ Held(f) = {s \in {f.sym} : OwnChoice(s) = {}} /\ Clears(f) = Held(f)
                              /\ EndsAt(f) = {s \in {f.sym} : Plain(s)}
BY DEF Held, Clears, EndsAt, Plain

LEMMA SameHeld ==
    ASSUME NEW f, NEW g, f.of = g.of, f.sym = g.sym, f.of # "choice" \/ f.todo = g.todo,
           f.of \in {"deps", "choice", "sym"}
    PROVE  Held(f) = Held(g)
<1>1. CASE f.of = "choice"
  BY <1>1, FrameFlags
<1>2. CASE f.of = "sym"
  BY <1>2, FrameFlags
<1>3. CASE f.of = "deps"
  BY <1>3, FrameFlags
<1> QED
  BY <1>1, <1>2, <1>3

LEMMA EndsTogether ==
    ASSUME stack \in Seq(Frames), CallsInv, NEW i \in 1..Len(stack), NEW s \in EndsAt(stack[i])
    PROVE  s \in DepSyms /\ s \in Together(stack[i].sym) /\ Together(s) = Together(stack[i].sym)
<1>1. stack[i].of \in {"deps", "choice", "sym"} /\ stack[i].sym \in DepSyms
  BY FrameTypes
<1>2. CASE stack[i].of = "choice"
  <2>1. stack[i].sym \in DOMAIN DepChoices
    BY <1>2 DEF CallsInv, ChoiceFrame
  <2>2. s \in {stack[i].sym} \cup DepChoices[stack[i].sym]
    BY <1>2, FrameFlags
  <2>3. s \in DepSyms /\ s \in Together(stack[i].sym)
    BY <2>1, <2>2, ChoiceFacts
  <2> QED
    BY <1>1, <2>3, TogetherIsOne
<1>3. CASE stack[i].of # "choice"
  <2>1. s = stack[i].sym
    BY <1>1, <1>3, FrameFlags
  <2> QED
    BY <1>1, <2>1, TogetherIsOne
<1> QED
  BY <1>2, <1>3

(* The flag of a choice that has looked at itself is set only while it does. *)
LEMMA OwnFlag ==
    ASSUME stack \in Seq(Frames), CallsInv, HeldInv, NEW k \in 1..Len(stack),
           stack[k].of = "choice", stack[k].todo \subseteq DepChoices[stack[k].sym],
           stack[k].sym \in check
    PROVE  k < Len(stack) /\ stack[k + 1].of = "sym" /\ stack[k + 1].sym = stack[k].sym
<1> DEFINE c == stack[k].sym
<1>1. c \in DOMAIN DepChoices
  BY DEF CallsInv, ChoiceFrame
<1>2. PICK j \in 1..Len(stack) : c \in Held(stack[j])
  BY DEF HeldInv
<1>3. /\ c \notin DepChoices[c] /\ OwnChoice(c) = {} /\ ~Plain(c)
      /\ \A e \in DOMAIN DepChoices : c \notin DepChoices[e]
  BY <1>1, ChoiceFacts DEF Plain
<1>4. stack[j].of = "sym" /\ stack[j].sym = c
  <2>1. stack[j].of \in {"deps", "choice", "sym"}
    BY FrameTypes
  <2>2. ASSUME stack[j].of = "choice" PROVE FALSE
    <3>1. stack[j].sym \in DOMAIN DepChoices
      BY <2>2 DEF CallsInv, ChoiceFrame
    <3>2. c = stack[j].sym /\ c \in stack[j].todo
      BY <1>2, <1>3, <2>2, <3>1, FrameFlags
    <3>3. j = k
      BY <2>2, <3>2 DEF CallsInv
    <3> QED
      BY <1>3, <3>2, <3>3
  <2> QED
    BY <1>2, <2>1, <2>2, FrameFlags
<1>5. /\ j > 1 /\ stack[j - 1].of = "choice"
      /\ c \in {stack[j - 1].sym} \cup DepChoices[stack[j - 1].sym]
  BY <1>3, <1>4 DEF CallsInv, SymFrame
<1>6. j - 1 \in 1..Len(stack)
  BY <1>5, FrameTypes
<1>7. stack[j - 1].sym \in DOMAIN DepChoices
  BY <1>5, <1>6 DEF CallsInv, ChoiceFrame
<1>8. stack[j - 1].sym = c
  BY <1>3, <1>5, <1>7
<1>9. j - 1 = k
  BY <1>5, <1>6, <1>8 DEF CallsInv
<1> QED
  BY <1>4, <1>9, FrameTypes

(* Who will take a flag away is on the stack.                              *)
LEMMA FlagsAreHeld ==
    ASSUME stack \in Seq(Frames), CallsInv, HeldInv, NEW s \in check
    PROVE  /\ \E i \in 1..Len(stack) : s \in EndsAt(stack[i])
           /\ \E i \in 1..Len(stack) :
                 stack[i].sym \in (IF OwnChoice(s) = {} THEN {s} ELSE OwnChoice(s))
<1>1. PICK i \in 1..Len(stack) : s \in Held(stack[i])
  BY DEF HeldInv
<1>2. stack[i].of \in {"deps", "choice", "sym"}
  BY FrameTypes
<1>3. CASE stack[i].of = "choice"
  <2>1. stack[i].sym \in DOMAIN DepChoices
    BY <1>3 DEF CallsInv, ChoiceFrame
  <2>2. s \in {stack[i].sym} \cup DepChoices[stack[i].sym]
    BY <1>1, <1>3, FrameFlags
  <2>3. s \in EndsAt(stack[i])
    BY <1>3, <2>1, <2>2, FrameFlags
  <2>4. stack[i].sym \in (IF OwnChoice(s) = {} THEN {s} ELSE OwnChoice(s))
    <3>1. CASE s = stack[i].sym
      BY <2>1, <3>1, ChoiceFacts
    <3>2. CASE s \in DepChoices[stack[i].sym]
      BY <2>1, <3>2, ChoiceFacts
    <3> QED
      BY <2>2, <3>1, <3>2
  <2> QED
    BY <2>3, <2>4
<1>4. CASE stack[i].of = "sym"
  <2>1. s = stack[i].sym /\ OwnChoice(s) = {}
    BY <1>1, <1>4, FrameFlags
  <2>2. CASE Plain(s)
    BY <1>4, <2>1, <2>2, FrameFlags
  <2>3. CASE ~Plain(s)
    <3>1. /\ i > 1 /\ stack[i - 1].of = "choice"
          /\ s \in {stack[i - 1].sym} \cup DepChoices[stack[i - 1].sym]
      BY <1>4, <2>1, <2>3 DEF CallsInv, SymFrame
    <3>2. i - 1 \in 1..Len(stack)
      BY <3>1, FrameTypes
    <3> QED
      BY <2>1, <3>1, <3>2, FrameFlags
  <2> QED
    BY <2>2, <2>3
<1> QED
  BY <1>1, <1>2, <1>3, <1>4, FrameFlags

-----------------------------------------------------------------------------
(* sym_check_deps *)

Called(d) ==
    /\ d \in DepSyms
    /\ \/ stack = << >> /\ toparse' = toparse \ {d}
       \/ /\ stack # << >> /\ sym2 = {} /\ Top.of # "choice" /\ d \in Top.todo
          /\ toparse' = toparse
Passes(d) == /\ Called(d) /\ d \in checked \ check /\ stack' = Without(d)
             /\ UNCHANGED <<needs, flagvars, sym2, recursive, unexpected>>
Prints(d) == /\ Called(d) /\ d \in check /\ sym_check_print_recursive(d) /\ stack' = Without(d)
             /\ UNCHANGED <<needs, flagvars>>
Enters(d) == /\ Called(d) /\ d \notin check \cup checked /\ stack' = Append(Without(d), Entered(d))
             /\ check' = check \cup Marked(d) /\ checked' = checked \cup Marked(d)
             /\ UNCHANGED <<needs, sym2, recursive, unexpected>>
Chooses(s) == /\ stack # << >> /\ sym2 = {} /\ Top.of = "choice" /\ s \in Top.todo
              /\ Top.sym \in Top.todo => s = Top.sym
              /\ stack' = Append(Without(s), Frame("sym", s, Needed(s)))
              /\ UNCHANGED <<needs, flagvars, sym2, toparse, recursive, unexpected>>

LEMMA StepsAreThese ==
    ASSUME DepTypes, DepNext
    PROVE  \/ \E d \in DepSyms : Passes(d) \/ Prints(d) \/ Enters(d) \/ Chooses(d)
           \/ Return
<1>1. ASSUME sym_check_sym_deps
      PROVE  \E d \in DepSyms : Passes(d) \/ Prints(d) \/ Enters(d)
  <2>1. PICK d \in Top.todo : sym_check_deps(d)
    BY <1>1 DEF sym_check_sym_deps
  <2>2. d \in DepSyms
    BY <1>1, FrameTypes DEF sym_check_sym_deps, Top, DepTypes
  <2>3. Called(d)
    BY <1>1, <2>1, <2>2 DEF sym_check_sym_deps, Called
  <2> QED
    BY <2>1, <2>2, <2>3 DEF sym_check_deps, Passes, Prints, Enters, sym_check_print_recursive, flagvars
<1>2. ASSUME conf_parse
      PROVE  \E d \in DepSyms : Passes(d) \/ Prints(d) \/ Enters(d)
  <2>1. PICK d \in toparse : sym_check_deps(d) /\ toparse' = toparse \ {d}
    BY <1>2 DEF conf_parse
  <2>2. d \in DepSyms
    BY DEF DepTypes
  <2>3. Called(d)
    BY <1>2, <2>1, <2>2 DEF conf_parse, Called
  <2> QED
    BY <2>1, <2>2, <2>3 DEF sym_check_deps, Passes, Prints, Enters, sym_check_print_recursive, flagvars
<1>3. ASSUME sym_check_choice_deps PROVE \E d \in DepSyms : Chooses(d)
  <2>1. PICK d \in Top.todo : /\ Top.sym \in Top.todo => d = Top.sym
                              /\ stack' = Append(Without(d), Frame("sym", d, Needed(d)))
    BY <1>3 DEF sym_check_choice_deps
  <2>2. d \in DepSyms
    BY <1>3, FrameTypes DEF sym_check_choice_deps, Top, DepTypes
  <2> QED
    BY <1>3, <2>1, <2>2 DEF sym_check_choice_deps, Chooses
<1> QED
  BY <1>1, <1>2, <1>3 DEF DepNext

(* What a caller is; the choice of a value that was never marked was never *)
(* marked either.                                                          *)
LEMMA CallFacts ==
    ASSUME DepInv, NEW d \in DepSyms, Called(d)
    PROVE  /\ DepGraph /\ stack \in Seq(Frames) /\ Len(stack) \in Nat /\ sym2 = {}
           /\ stack = << >> => check = {}
           /\ stack # << >> =>
                 /\ Len(stack) > 0 /\ Len(stack) \in 1..Len(stack)
                 /\ stack[Len(stack)].of \in {"deps", "sym"} /\ stack[Len(stack)].sym \in DepSyms
                 /\ d \in stack[Len(stack)].todo /\ d \in Needed(stack[Len(stack)].sym)
           /\ (stack # << >> /\ stack[Len(stack)].of = "deps") =>
                 /\ d \in DOMAIN DepChoices /\ stack[Len(stack)].sym \in DepChoices[d]
                 /\ d \notin checked /\ stack[Len(stack)].todo \ {d} = {}
<1>1. DepGraph /\ stack \in Seq(Frames) /\ Len(stack) \in Nat
  BY DEF DepInv, DepTypes, DepGraph
<1>2. sym2 = {}
  BY DEF Called, DepInv, ReturnInv
<1>3. stack = << >> => check = {}
  BY DEF DepInv, HeldInv
<1>4. ASSUME stack # << >>
      PROVE  /\ Len(stack) > 0 /\ Len(stack) \in 1..Len(stack)
             /\ stack[Len(stack)].of \in {"deps", "sym"} /\ stack[Len(stack)].sym \in DepSyms
             /\ d \in stack[Len(stack)].todo
  <2>1. Len(stack) > 0 /\ Len(stack) \in 1..Len(stack)
    BY <1>1, <1>4
  <2>2. stack[Len(stack)].of \in {"deps", "choice", "sym"} /\ stack[Len(stack)].sym \in DepSyms
    BY <1>1, <2>1, FrameTypes
  <2> QED
    BY <1>4, <2>1, <2>2 DEF Called, Top
<1>5. ASSUME stack # << >>, stack[Len(stack)].of = "deps"
      PROVE  /\ d \in DOMAIN DepChoices /\ stack[Len(stack)].sym \in DepChoices[d]
             /\ d \notin checked /\ stack[Len(stack)].todo \ {d} = {}
             /\ d \in Needed(stack[Len(stack)].sym)
  <2> DEFINE v == stack[Len(stack)].sym
  <2>1. DepsFrame(Len(stack))
    BY <1>4, <1>5 DEF DepInv, CallsInv
  <2>2. OwnChoice(v) # {} /\ stack[Len(stack)].todo = OwnChoice(v) /\ v \notin checked
    BY <1>4, <1>5, <2>1 DEF DepsFrame
  <2>3. PICK c \in DOMAIN DepChoices : v \in DepChoices[c] /\ OwnChoice(v) = {c}
    BY <2>2, ChoiceFacts
  <2>4. d = c
    BY <1>4, <1>5, <2>2, <2>3
  <2>5. d \notin checked
    BY <2>2, <2>3, <2>4 DEF DepInv, FlagsInv
  <2> QED
    BY <2>2, <2>3, <2>4, <2>5 DEF Needed
<1>6. ASSUME stack # << >>, stack[Len(stack)].of = "sym"
      PROVE  d \in Needed(stack[Len(stack)].sym)
  BY <1>4, <1>6 DEF DepInv, CallsInv, SymFrame
<1> QED
  BY <1>1, <1>2, <1>3, <1>4, <1>5, <1>6

(* A call of a symbol that was marked returns at once.                     *)
Looks(d) == Called(d) /\ d \in checked /\ stack' = Without(d) /\ UNCHANGED <<needs, flagvars>>

LEMMA LooksAtOnce ==
    ASSUME DepInv, NEW d \in DepSyms, Looks(d)
    PROVE  /\ stack' \in Seq(Frames) /\ Len(stack') = Len(stack) /\ Len(stack) \in Nat
           /\ \A i \in 1..Len(stack) :
                 /\ stack'[i].of = stack[i].of /\ stack'[i].sym = stack[i].sym
                 /\ (i < Len(stack) => stack'[i].todo = stack[i].todo)
                 /\ (i = Len(stack) => /\ stack'[i].todo = stack[i].todo \ {d}
                                       /\ stack[i].of = "sym" /\ d \in stack[i].todo)
           /\ check' = check /\ checked' = checked /\ needs' = needs
<1>1. Called(d) /\ d \in checked /\ stack' = Without(d) /\ UNCHANGED <<needs, check, checked>>
  BY DEF Looks, flagvars
<1>2. stack \in Seq(Frames) /\ Len(stack) \in Nat
  BY <1>1, CallFacts
<1>3. ASSUME NEW i \in 1..Len(stack), i = Len(stack)
      PROVE  stack[i].of = "sym" /\ d \in stack[i].todo
  <2>1. stack # << >>
    BY <1>2, <1>3
  <2> QED
    BY <1>1, <1>3, <2>1, CallFacts
<1> QED
  BY <1>1, <1>2, <1>3, TakenOut

LEMMA LooksKeepCalls ==
    ASSUME DepInv, NEW d \in DepSyms, Looks(d)
    PROVE  CallsInv'
<1> DEFINE L == Len(stack)
<1>1. CallsInv
  BY DEF DepInv
<1>2. /\ L \in Nat /\ Len(stack') = L
      /\ \A i \in 1..L : /\ stack'[i].of = stack[i].of /\ stack'[i].sym = stack[i].sym
                         /\ (i < L => stack'[i].todo = stack[i].todo)
                         /\ (i = L => /\ stack'[i].todo = stack[i].todo \ {d}
                                      /\ stack[i].of = "sym" /\ d \in stack[i].todo)
      /\ check' = check /\ checked' = checked
      /\ \A s : Needed(s)' = Needed(s)
  BY LooksAtOnce, SameRelations
<1> HIDE DEF L
<1>3. ASSUME NEW i \in 1..L, stack'[i].of = "deps" PROVE DepsFrame(i)'
  <2>1. DepsFrame(i) /\ i # L /\ stack[i].of = "deps"
    BY <1>1, <1>2, <1>3 DEF CallsInv, L
  <2>2. i < L /\ i + 1 \in 1..L
    BY <1>2, <2>1
  <2> QED
    BY <1>2, <2>1, <2>2 DEF DepsFrame, L
<1>4. ASSUME NEW i \in 1..L, stack'[i].of = "choice" PROVE ChoiceFrame(i)'
  <2>1. ChoiceFrame(i) /\ i # L /\ stack[i].of = "choice"
    BY <1>1, <1>2, <1>4 DEF CallsInv, L
  <2>2. i < L /\ i + 1 \in 1..L
    BY <1>2, <2>1
  <2> QED
    BY <1>2, <2>1, <2>2 DEF ChoiceFrame, L
<1>5. ASSUME NEW i \in 1..L, stack'[i].of = "sym" PROVE SymFrame(i)'
  <2>1. SymFrame(i) /\ stack[i].of = "sym"
    BY <1>1, <1>2, <1>5 DEF CallsInv, L
  <2>2. (i < L => i + 1 \in 1..L) /\ (i > 1 => i - 1 \in 1..L)
    BY <1>2
  <2>3. i < L \/ i = L
    BY <1>2
  <2> QED
    BY <1>2, <2>1, <2>2, <2>3 DEF SymFrame, L
<1>6. \A i, j \in 1..L : stack'[i].of = "choice" /\ stack'[j].of = "choice"
                           /\ stack'[i].sym = stack'[j].sym => i = j
  BY <1>1, <1>2 DEF CallsInv, L
<1> QED
  BY <1>2, <1>3, <1>4, <1>5, <1>6 DEF CallsInv

LEMMA LooksKeepFlags ==
    ASSUME DepInv, NEW d \in DepSyms, Looks(d)
    PROVE  FlagsInv' /\ HeldInv' /\ PathInv'
<1> DEFINE L == Len(stack)
<1>1. HeldInv /\ PathInv /\ FlagsInv
  BY DEF DepInv
<1>2. /\ L \in Nat /\ Len(stack') = L
      /\ \A i \in 1..L : /\ stack'[i].of = stack[i].of /\ stack'[i].sym = stack[i].sym
                         /\ (i < L => stack'[i].todo = stack[i].todo)
                         /\ (i = L => stack[i].of = "sym")
      /\ check' = check /\ checked' = checked
      /\ \A s : Reached(s)' = Reached(s)
  BY LooksAtOnce, SameRelations
<1>3. FlagsInv'
  BY <1>1, <1>2 DEF FlagsInv
<1> HIDE DEF L
<1>4. ASSUME NEW i \in 1..L PROVE Held(stack'[i]) = Held(stack[i])
  <2>1. /\ stack'[i].of = stack[i].of /\ stack'[i].sym = stack[i].sym
        /\ stack'[i].of # "choice" \/ stack'[i].todo = stack[i].todo
    BY <1>2
  <2>2. stack'[i].of \in {"deps", "choice", "sym"}
    BY <2>1, FrameTypes DEF DepInv, DepTypes, L
  <2> QED
    BY <2>1, <2>2, SameHeld
<1>5. HeldInv'
  BY <1>1, <1>2, <1>4 DEF HeldInv, L
<1>6. PathInv'
  BY <1>1, <1>2 DEF PathInv, L
<1> QED
  BY <1>3, <1>5, <1>6

(* A symbol that was not marked: its function is called.                   *)
LEMMA EntersAnew ==
    ASSUME DepInv, NEW d \in DepSyms, Enters(d)
    PROVE  /\ stack \in Seq(Frames) /\ Len(stack) \in Nat
           /\ stack' \in Seq(Frames) /\ Len(stack') = Len(stack) + 1
           /\ Entered(d) \in Frames /\ stack'[Len(stack) + 1] = Entered(d)
           /\ \A i \in 1..Len(stack) :
                 /\ stack'[i].of = stack[i].of /\ stack'[i].sym = stack[i].sym
                 /\ (i < Len(stack) => stack'[i].todo = stack[i].todo)
                 /\ (i = Len(stack) =>
                       /\ stack'[i].todo = stack[i].todo \ {d} /\ d \in stack[i].todo
                       /\ stack[i].of \in {"deps", "sym"} /\ d \in Needed(stack[i].sym)
                       /\ stack[i].of = "deps" =>
                             /\ d \in DOMAIN DepChoices /\ stack[i].sym \in DepChoices[d]
                             /\ stack[i].todo \ {d} = {})
           /\ sym2 = {} /\ sym2' = {} /\ needs' = needs /\ DepGraph
<1>1. Called(d) /\ stack' = Append(Without(d), Entered(d)) /\ needs' = needs /\ sym2' = sym2
  BY DEF Enters
<1>2. stack \in Seq(Frames) /\ Len(stack) \in Nat /\ DepGraph /\ sym2 = {}
  BY <1>1, CallFacts
<1>3. ASSUME NEW i \in 1..Len(stack), i = Len(stack)
      PROVE  /\ d \in stack[i].todo
             /\ stack[i].of \in {"deps", "sym"} /\ d \in Needed(stack[i].sym)
             /\ stack[i].of = "deps" =>
                   /\ d \in DOMAIN DepChoices /\ stack[i].sym \in DepChoices[d]
                   /\ stack[i].todo \ {d} = {}
  <2>1. stack # << >>
    BY <1>2, <1>3
  <2> QED
    BY <1>1, <1>3, <2>1, CallFacts
<1>4. Entered(d) \in Frames
  <2>1. OwnChoice(d) \in SUBSET DepSyms /\ Needed(d) \in SUBSET DepSyms
    BY <1>2, Relations, ChoiceFacts DEF Needed
  <2>2. d \in DOMAIN DepChoices => {d} \cup DepChoices[d] \in SUBSET DepSyms
    BY ChoiceFacts
  <2> QED
    BY <2>1, <2>2 DEF Entered, Frame, Frames
<1> QED
  BY <1>1, <1>2, <1>3, <1>4, Pushed

(* The flags it sets were not set, and the new frame will take them away.  *)
LEMMA EntersFlags ==
    ASSUME DepInv, NEW d \in DepSyms, Enters(d)
    PROVE  /\ check' = check \cup Marked(d) /\ checked' = checked \cup Marked(d)
           /\ Marked(d) \in SUBSET DepSyms /\ Marked(d) \cap checked = {} /\ check \subseteq checked
           /\ Held(Entered(d)) = Marked(d)
           /\ FlagsInv'
           /\ \A s : Finished(s)' <=> Finished(s)
<1>1. /\ check' = check \cup Marked(d) /\ checked' = checked \cup Marked(d) /\ d \notin checked
      /\ check \subseteq checked /\ FlagsInv
  BY DEF Enters, DepInv, DepTypes
<1>2. CASE OwnChoice(d) # {}
  <2>1. Marked(d) = {} /\ Entered(d).of = "deps"
    BY <1>2 DEF Marked, Entered, Frame
  <2> QED
    BY <1>1, <2>1, FrameFlags DEF FlagsInv, Finished
<1>3. CASE d \in DOMAIN DepChoices
  <2>1. /\ Marked(d) = {d} \cup DepChoices[d] /\ Entered(d) = Frame("choice", d, {d} \cup DepChoices[d])
        /\ DepChoices[d] \subseteq DepSyms
    BY <1>3, ChoiceFacts DEF Marked, Entered
  <2>2. Held(Entered(d)) = Marked(d)
    <3>1. /\ Entered(d).of = "choice" /\ Entered(d).sym = d
          /\ Entered(d).todo = {d} \cup DepChoices[d]
      BY <2>1 DEF Frame
    <3> QED
      BY <2>1, <3>1, FrameFlags
  <2>3. Marked(d) \cap checked = {}
    BY <1>1, <1>3, <2>1 DEF FlagsInv
  <2>4. FlagsInv'
    <3>1. ASSUME NEW c \in DOMAIN DepChoices, NEW v \in DepChoices[c]
          PROVE  v \in Marked(d) <=> c \in Marked(d)
      <4>1. v \notin DOMAIN DepChoices /\ OwnChoice(v) = {c}
        BY ChoiceFacts
      <4>2. c \notin DepChoices[d] /\ (v \in DepChoices[d] => c = d)
        BY <1>3, <4>1, ChoiceFacts
      <4> QED
        BY <1>3, <2>1, <4>1, <4>2
    <3> QED
      BY <1>1, <3>1 DEF FlagsInv
  <2> QED
    BY <1>1, <2>1, <2>2, <2>3, <2>4 DEF Finished
<1>4. CASE Plain(d)
  <2>1. Marked(d) = {d} /\ Entered(d) = Frame("sym", d, Needed(d))
    BY <1>4 DEF Marked, Entered, Plain
  <2>2. Held(Entered(d)) = Marked(d)
    BY <1>4, <2>1, FrameFlags DEF Frame, Plain
  <2>3. \A c \in DOMAIN DepChoices : c # d /\ d \notin DepChoices[c]
    BY <1>4, ChoiceFacts DEF Plain
  <2>4. FlagsInv'
    BY <1>1, <2>1, <2>3 DEF FlagsInv
  <2> QED
    BY <1>1, <2>1, <2>2, <2>4 DEF Finished
<1> QED
  BY <1>2, <1>3, <1>4 DEF Plain

LEMMA EntersKeepCalls ==
    ASSUME DepInv, NEW d \in DepSyms, Enters(d)
    PROVE  CallsInv'
<1>1. CallsInv /\ stack \in Seq(Frames)
  BY DEF DepInv, DepTypes
<1>0. PICK L \in Nat : L = Len(stack)
  BY <1>1
<1>2. /\ L \in Nat /\ Len(stack') = L + 1 /\ stack'[L + 1] = Entered(d)
      /\ \A i \in 1..L : /\ stack'[i].of = stack[i].of /\ stack'[i].sym = stack[i].sym
                         /\ (i < L => stack'[i].todo = stack[i].todo)
                         /\ (i = L => 
                               /\ stack'[i].todo = stack[i].todo \ {d} /\ d \in stack[i].todo
                               /\ stack[i].of \in {"deps", "sym"} /\ d \in Needed(stack[i].sym)
                               /\ stack[i].of = "deps" =>
                                     /\ d \in DOMAIN DepChoices /\ stack[i].sym \in DepChoices[d]
                                     /\ stack[i].todo \ {d} = {})
      /\ sym2' = {} /\ sym2 = {}
      /\ \A s : Needed(s)' = Needed(s)
  BY <1>0, EntersAnew, SameRelations
<1>3. /\ check' = check \cup Marked(d) /\ checked' = checked \cup Marked(d)
      /\ d \notin checked /\ FlagsInv /\ Marked(d) \cap checked = {}
  BY EntersFlags DEF Enters, DepInv
<1>4. /\ OwnChoice(d) # {} => Entered(d) = Frame("deps", d, OwnChoice(d)) /\ Marked(d) = {}
      /\ d \in DOMAIN DepChoices => /\ Entered(d) = Frame("choice", d, {d} \cup DepChoices[d])
                                    /\ Marked(d) = {d} \cup DepChoices[d]
      /\ Plain(d) => Entered(d) = Frame("sym", d, Needed(d)) /\ Marked(d) = {d}
      /\ Entered(d).sym = d
  BY ChoiceFacts DEF Entered, Marked, Plain, Frame
<1>5. ASSUME NEW i \in 1..L, stack'[i].of = "deps" PROVE DepsFrame(i)'
  <2>1. DepsFrame(i) /\ stack[i].of = "deps"
    BY <1>0, <1>1, <1>2, <1>5 DEF CallsInv
  <2>2. CASE i < L
    <3>1. i + 1 \in 1..L /\ i # L /\ i # L + 1 /\ i < L + 1
      BY <1>2, <2>2
    <3>2. /\ OwnChoice(stack[i].sym) # {} /\ stack[i].todo = {} /\ stack[i].sym \in checked
          /\ stack[i + 1].of = "choice" /\ stack[i + 1].sym \in OwnChoice(stack[i].sym)
      BY <1>0, <2>1, <3>1 DEF DepsFrame
    <3> QED
      BY <1>2, <1>3, <2>2, <3>1, <3>2 DEF DepsFrame
  <2>3. CASE i = L
    <3>1. /\ d \in DOMAIN DepChoices /\ stack[i].sym \in DepChoices[d] /\ stack'[i].todo = {}
      BY <1>2, <2>1, <2>3
    <3>2. OwnChoice(stack[i].sym) = {d}
      BY <3>1, ChoiceFacts
    <3>3. stack'[i + 1].of = "choice" /\ stack'[i + 1].sym = d /\ stack[i].sym \in Marked(d)
      BY <1>2, <1>4, <2>3, <3>1 DEF Frame
    <3>4. i < L + 1
      BY <1>2, <2>3
    <3> QED
      BY <1>2, <1>3, <3>1, <3>2, <3>3, <3>4 DEF DepsFrame
  <2> QED
    BY <1>2, <2>2, <2>3
<1>6. ASSUME NEW i \in 1..L, stack'[i].of = "choice" PROVE ChoiceFrame(i)'
  <2>1. ChoiceFrame(i) /\ stack[i].of = "choice"
    BY <1>0, <1>1, <1>2, <1>6 DEF CallsInv
  <2>2. i < L /\ i + 1 \in 1..L /\ i # L /\ i # L + 1 /\ i < L + 1
    BY <1>2, <2>1
  <2> QED
    BY <1>0, <1>2, <1>3, <2>1, <2>2 DEF ChoiceFrame
<1>7. ASSUME NEW i \in 1..L, stack'[i].of = "sym" PROVE SymFrame(i)'
  <2>1. SymFrame(i) /\ stack[i].of = "sym"
    BY <1>0, <1>1, <1>2, <1>7 DEF CallsInv
  <2>2. i > 1 => i - 1 \in 1..L
    BY <1>2
  <2>3. CASE i < L
    <3>1. i + 1 \in 1..L
      BY <1>2, <2>3
    <3> QED
      BY <1>0, <1>2, <2>1, <2>2, <2>3, <3>1 DEF SymFrame
  <2>4. CASE i = L
    <3>1. Entered(d).of = "sym" => Plain(d)
      BY <1>4 DEF Plain, Frame
    <3>2. stack'[i + 1].sym = d /\ (stack'[i + 1].of = "sym" => Plain(d))
      BY <1>2, <1>4, <2>4, <3>1
    <3>3. stack'[i].todo \subseteq Needed(stack[i].sym) /\ d \notin stack'[i].todo
      BY <1>2, <2>1, <2>4 DEF SymFrame
    <3> QED
      BY <1>2, <2>1, <2>2, <2>4, <3>2, <3>3 DEF SymFrame
  <2> QED
    BY <1>2, <2>3, <2>4
<1>8. /\ stack'[L + 1].of = "deps" => DepsFrame(L + 1)'
      /\ stack'[L + 1].of = "choice" => ChoiceFrame(L + 1)'
      /\ stack'[L + 1].of = "sym" => SymFrame(L + 1)'
  <2>1. CASE OwnChoice(d) # {}
    <3>1. /\ stack'[L + 1].of = "deps" /\ stack'[L + 1].sym = d /\ stack'[L + 1].todo = OwnChoice(d)
          /\ d \notin checked'
      BY <1>2, <1>3, <1>4, <2>1 DEF Frame
    <3> QED
      BY <1>2, <2>1, <3>1 DEF DepsFrame
  <2>2. CASE d \in DOMAIN DepChoices
    <3>1. /\ stack'[L + 1].of = "choice" /\ stack'[L + 1].sym = d
          /\ stack'[L + 1].todo = {d} \cup DepChoices[d] /\ d \in checked'
      BY <1>2, <1>3, <1>4, <2>2 DEF Frame
    <3> QED
      BY <1>2, <2>2, <3>1 DEF ChoiceFrame
  <2>3. CASE Plain(d)
    <3>1. stack'[L + 1].of = "sym" /\ stack'[L + 1].sym = d /\ stack'[L + 1].todo = Needed(d)
      BY <1>2, <1>4, <2>3 DEF Frame
    <3> QED
      BY <1>2, <2>3, <3>1 DEF SymFrame
  <2> QED
    BY <2>1, <2>2, <2>3 DEF Plain
<1>9. ASSUME NEW i \in 1..(L + 1), NEW j \in 1..(L + 1), stack'[i].of = "choice",
             stack'[j].of = "choice", stack'[i].sym = stack'[j].sym
      PROVE  i = j
  <2>1. \A k \in 1..L : stack'[k].of = "choice" => stack'[k].sym # d
    BY <1>0, <1>1, <1>2, <1>3 DEF CallsInv, ChoiceFrame
  <2>2. stack'[L + 1].sym = d
    BY <1>2, <1>4
  <2>3. CASE i \in 1..L /\ j \in 1..L
    BY <1>0, <1>1, <1>2, <1>9, <2>3 DEF CallsInv
  <2> QED
    BY <1>2, <1>9, <2>1, <2>2, <2>3
<1> QED
  <2>1. \A i \in 1..Len(stack') : i \in 1..L \/ i = L + 1
    BY <1>2
  <2> QED
    BY <1>2, <1>5, <1>6, <1>7, <1>8, <1>9, <2>1 DEF CallsInv

LEMMA EntersKeepFlags ==
    ASSUME DepInv, NEW d \in DepSyms, Enters(d)
    PROVE  HeldInv' /\ PathInv'
<1>1. HeldInv /\ PathInv /\ stack \in Seq(Frames)
  BY DEF DepInv, DepTypes
<1>0. PICK L \in Nat : L = Len(stack)
  BY <1>1
<1>2. /\ Len(stack') = L + 1 /\ stack'[L + 1] = Entered(d) /\ Entered(d).sym = d
      /\ \A i \in 1..L : /\ stack'[i].of = stack[i].of /\ stack'[i].sym = stack[i].sym
                         /\ (i < L => stack'[i].todo = stack[i].todo)
                         /\ (i = L => stack[i].of \in {"deps", "sym"} /\ d \in Needed(stack[i].sym))
      /\ needs' = needs /\ DepGraph
  BY <1>0, EntersAnew DEF Entered, Frame
<1>3. /\ check' = check \cup Marked(d) /\ Marked(d) \cap check = {} /\ Held(Entered(d)) = Marked(d)
  BY EntersFlags
<1>4. ASSUME NEW i \in 1..L PROVE Held(stack'[i]) = Held(stack[i])
  <2>1. /\ stack'[i].of = stack[i].of /\ stack'[i].sym = stack[i].sym
        /\ stack'[i].of # "choice" \/ stack'[i].todo = stack[i].todo
    BY <1>2
  <2>2. stack'[i].of \in {"deps", "choice", "sym"}
    BY <1>0, <1>1, <2>1, FrameTypes
  <2> QED
    BY <2>1, <2>2, SameHeld
<1>5. \A i \in 1..(L + 1) : i \in 1..L \/ i = L + 1
  OBVIOUS
<1>6. HeldInv'
  <2>1. \A s \in check' : \E i \in 1..(L + 1) : s \in Held(stack'[i])
    BY <1>0, <1>1, <1>2, <1>3, <1>4 DEF HeldInv
  <2>2. \A i \in 1..(L + 1) : Held(stack'[i]) \subseteq check'
    BY <1>0, <1>1, <1>2, <1>3, <1>4, <1>5 DEF HeldInv
  <2>3. \A i \in 1..L : Held(stack'[i]) \subseteq check
    BY <1>0, <1>1, <1>4 DEF HeldInv
  <2>4. \A i, j \in 1..(L + 1) : i # j => Held(stack'[i]) \cap Held(stack'[j]) = {}
    <3>1. \A i, j \in 1..L : i # j => Held(stack'[i]) \cap Held(stack'[j]) = {}
      BY <1>0, <1>1, <1>4 DEF HeldInv
    <3>2. \A i \in 1..L : Held(stack'[i]) \cap Held(stack'[L + 1]) = {}
      BY <1>2, <1>3, <2>3
    <3> QED
      BY <1>5, <3>1, <3>2
  <2> QED
    BY <1>2, <2>1, <2>2, <2>4 DEF HeldInv
<1>7. PathInv'
  <2>1. \A s : Reached(s)' = Reached(s)
    BY <1>2, SameRelations
  <2>2. \A i \in 1..L : stack[i].sym \in DepSyms
    BY <1>0, <1>1, FrameTypes
  <2>3. ASSUME NEW i \in 1..L PROVE d \in Reached(stack[i].sym)
    <3>1. L \in 1..L /\ i <= L
      OBVIOUS
    <3>2. stack[L].sym \in Reached(stack[i].sym)
      BY <1>0, <1>1, <3>1 DEF PathInv
    <3> QED
      BY <1>2, <2>2, <3>1, <3>2, ReachedFacts
  <2>4. d \in Reached(d)
    BY <1>2, ReachedFacts
  <2>5. ASSUME NEW i \in 1..(L + 1), NEW j \in 1..(L + 1), i <= j
        PROVE  stack'[j].sym \in Reached(stack'[i].sym)
    <3>1. CASE j = L + 1 /\ i \in 1..L
      BY <1>2, <2>3, <3>1
    <3>2. CASE j = L + 1 /\ i = L + 1
      BY <1>2, <2>4, <3>2
    <3>3. CASE j \in 1..L
      <4>1. i \in 1..L
        BY <2>5, <3>3
      <4> QED
        BY <1>0, <1>1, <1>2, <2>5, <3>3, <4>1 DEF PathInv
    <3> QED
      BY <1>5, <3>1, <3>2, <3>3
  <2> QED
    BY <1>2, <2>1, <2>5 DEF PathInv
<1> QED
  BY <1>6, <1>7

-----------------------------------------------------------------------------
(* sym_check_choice_deps *)

LEMMA ChoosesWhat ==
    ASSUME DepInv, NEW s \in DepSyms, Chooses(s)
    PROVE  /\ stack \in Seq(Frames) /\ Len(stack) \in Nat /\ Len(stack) > 0 /\ DepGraph
           /\ stack' \in Seq(Frames) /\ Len(stack') = Len(stack) + 1
           /\ stack'[Len(stack) + 1] = Frame("sym", s, Needed(s))
           /\ \A i \in 1..Len(stack) :
                 /\ stack'[i].of = stack[i].of /\ stack'[i].sym = stack[i].sym
                 /\ (i < Len(stack) => stack'[i].todo = stack[i].todo)
                 /\ (i = Len(stack) =>
                       /\ stack'[i].todo = stack[i].todo \ {s} /\ s \in stack[i].todo
                       /\ stack[i].of = "choice" /\ stack[i].sym \in DOMAIN DepChoices
                       /\ stack[i].sym \in checked
                       /\ s \in {stack[i].sym} \cup DepChoices[stack[i].sym]
                       /\ stack'[i].todo \subseteq DepChoices[stack[i].sym]
                       /\ {stack[i].sym} \cap stack[i].todo = {s} \cap {stack[i].sym})
           /\ sym2 = {} /\ sym2' = {} /\ needs' = needs /\ check' = check /\ checked' = checked
<1>1. /\ stack # << >> /\ sym2 = {} /\ Top.of = "choice" /\ s \in Top.todo
      /\ Top.sym \in Top.todo => s = Top.sym
      /\ stack' = Append(Without(s), Frame("sym", s, Needed(s)))
      /\ UNCHANGED <<needs, check, checked, sym2, toparse>>
  BY DEF Chooses, flagvars
<1>2. stack \in Seq(Frames) /\ Len(stack) \in Nat /\ Len(stack) > 0 /\ DepGraph
  BY <1>1 DEF DepInv, DepTypes, DepGraph
<1>3. Frame("sym", s, Needed(s)) \in Frames
  <2>1. Needed(s) \in SUBSET DepSyms
    BY <1>2, Relations
  <2> QED
    BY <2>1 DEF Frame, Frames
<1>4. ASSUME NEW i \in 1..Len(stack), i = Len(stack)
      PROVE  /\ s \in stack[i].todo
             /\ stack[i].of = "choice" /\ stack[i].sym \in DOMAIN DepChoices
             /\ stack[i].sym \in checked
             /\ s \in {stack[i].sym} \cup DepChoices[stack[i].sym]
             /\ stack[i].todo \ {s} \subseteq DepChoices[stack[i].sym]
             /\ {stack[i].sym} \cap stack[i].todo = {s} \cap {stack[i].sym}
  <2>1. /\ s \in stack[i].todo /\ stack[i].of = "choice"
        /\ stack[i].sym \in stack[i].todo => s = stack[i].sym
    BY <1>1, <1>4 DEF Top
  <2>2. ChoiceFrame(i)
    BY <2>1 DEF DepInv, CallsInv
  <2>3. /\ stack[i].sym \in DOMAIN DepChoices /\ stack[i].sym \in checked
        /\ stack[i].todo \subseteq {stack[i].sym} \cup DepChoices[stack[i].sym]
    BY <2>2 DEF ChoiceFrame
  <2> QED
    BY <2>1, <2>3
<1> QED
  BY <1>1, <1>2, <1>3, <1>4, Pushed

LEMMA ChoosesKeepCalls ==
    ASSUME DepInv, NEW s \in DepSyms, Chooses(s)
    PROVE  CallsInv'
<1>1. CallsInv /\ stack \in Seq(Frames)
  BY DEF DepInv, DepTypes
<1>0. PICK L \in Nat : L = Len(stack)
  BY <1>1
<1>2. /\ Len(stack') = L + 1 /\ L > 0
      /\ stack'[L + 1].of = "sym" /\ stack'[L + 1].sym = s /\ stack'[L + 1].todo = Needed(s)
      /\ \A i \in 1..L :
                 /\ stack'[i].of = stack[i].of /\ stack'[i].sym = stack[i].sym
                 /\ (i < L => stack'[i].todo = stack[i].todo)
                 /\ (i = L =>
                       /\ stack'[i].todo = stack[i].todo \ {s} /\ s \in stack[i].todo
                       /\ stack[i].of = "choice" /\ stack[i].sym \in DOMAIN DepChoices
                       /\ stack[i].sym \in checked
                       /\ s \in {stack[i].sym} \cup DepChoices[stack[i].sym]
                       /\ stack'[i].todo \subseteq DepChoices[stack[i].sym])
      /\ sym2 = {} /\ sym2' = {} /\ check' = check /\ checked' = checked
      /\ \A t : Needed(t)' = Needed(t)
  <2>1. stack'[L + 1] = Frame("sym", s, Needed(s))
    BY <1>0, ChoosesWhat
  <2>2. stack'[L + 1].of = "sym" /\ stack'[L + 1].sym = s /\ stack'[L + 1].todo = Needed(s)
    BY <2>1 DEF Frame
  <2>3. \A t : Needed(t)' = Needed(t)
    BY ChoosesWhat, SameRelations
  <2> QED
    BY <1>0, <2>2, <2>3, ChoosesWhat
<1>3. ASSUME NEW i \in 1..L, stack'[i].of = "deps" PROVE DepsFrame(i)'
  <2>1. DepsFrame(i) /\ stack[i].of = "deps" /\ i # L
    BY <1>0, <1>1, <1>2, <1>3 DEF CallsInv
  <2>2. i + 1 \in 1..L /\ i < L /\ i < L + 1
    BY <2>1
  <2> QED
    BY <1>0, <1>2, <2>1, <2>2 DEF DepsFrame
<1>4. ASSUME NEW i \in 1..L, stack'[i].of = "choice" PROVE ChoiceFrame(i)'
  <2>1. ChoiceFrame(i) /\ stack[i].of = "choice"
    BY <1>0, <1>1, <1>2, <1>4 DEF CallsInv
  <2>2. CASE i < L
    <3>1. i + 1 \in 1..L /\ i < L + 1 /\ i # L
      BY <2>2
    <3> QED
      BY <1>0, <1>2, <2>1, <2>2, <3>1 DEF ChoiceFrame
  <2>3. CASE i = L
    BY <1>2, <2>3 DEF ChoiceFrame
  <2> QED
    BY <2>2, <2>3
<1>5. ASSUME NEW i \in 1..L, stack'[i].of = "sym" PROVE SymFrame(i)'
  <2>1. SymFrame(i) /\ stack[i].of = "sym" /\ i # L
    BY <1>0, <1>1, <1>2, <1>5 DEF CallsInv
  <2>2. i + 1 \in 1..L /\ i < L /\ (i > 1 => i - 1 \in 1..L)
    BY <2>1
  <2> QED
    BY <1>0, <1>2, <2>1, <2>2 DEF SymFrame
<1>6. SymFrame(L + 1)'
  <2>1. L + 1 > 1 /\ L + 1 - 1 = L /\ L \in 1..L
    BY <1>2
  <2>2. /\ stack'[L].of = "choice"
        /\ stack'[L + 1].sym \in {stack'[L].sym} \cup DepChoices[stack'[L].sym]
    BY <1>2, <2>1
  <2> QED
    BY <1>2, <2>1, <2>2 DEF SymFrame
<1>7. ASSUME NEW i \in 1..(L + 1), NEW j \in 1..(L + 1), stack'[i].of = "choice",
             stack'[j].of = "choice", stack'[i].sym = stack'[j].sym
      PROVE  i = j
  <2>1. i \in 1..L /\ j \in 1..L
    BY <1>2, <1>7
  <2> QED
    BY <1>0, <1>1, <1>2, <1>7, <2>1 DEF CallsInv
<1> QED
  <2>1. \A i \in 1..Len(stack') : i \in 1..L \/ i = L + 1
    BY <1>2
  <2> QED
    BY <1>2, <1>3, <1>4, <1>5, <1>6, <1>7, <2>1 DEF CallsInv

LEMMA ChoosesKeepFlags ==
    ASSUME DepInv, NEW s \in DepSyms, Chooses(s)
    PROVE  FlagsInv' /\ HeldInv' /\ PathInv'
<1>1. HeldInv /\ PathInv /\ FlagsInv /\ stack \in Seq(Frames)
  BY DEF DepInv, DepTypes
<1>0. PICK L \in Nat : L = Len(stack)
  BY <1>1
<1>2. /\ Len(stack') = L + 1 /\ L > 0 /\ L \in 1..L
      /\ stack'[L + 1].of = "sym" /\ stack'[L + 1].sym = s
      /\ \A i \in 1..L : /\ stack'[i].of = stack[i].of /\ stack'[i].sym = stack[i].sym
                         /\ (i < L => stack'[i].todo = stack[i].todo)
      /\ stack'[L].todo = stack[L].todo \ {s} /\ stack[L].of = "choice"
      /\ stack[L].sym \in DOMAIN DepChoices /\ s \in {stack[L].sym} \cup DepChoices[stack[L].sym]
      /\ {stack[L].sym} \cap stack[L].todo = {s} \cap {stack[L].sym}
      /\ check' = check /\ checked' = checked /\ needs' = needs /\ DepGraph
  <2>1. stack'[L + 1] = Frame("sym", s, Needed(s))
    BY <1>0, ChoosesWhat
  <2>2. stack'[L + 1].of = "sym" /\ stack'[L + 1].sym = s
    BY <2>1 DEF Frame
  <2>3. L > 0 /\ L \in 1..L /\ L = Len(stack)
    BY <1>0, ChoosesWhat
  <2> QED
    BY <1>0, <2>2, <2>3, ChoosesWhat
<1>3. FlagsInv'
  BY <1>1, <1>2 DEF FlagsInv
<1>4. ASSUME NEW i \in 1..L, i < L PROVE Held(stack'[i]) = Held(stack[i])
  <2>1. /\ stack'[i].of = stack[i].of /\ stack'[i].sym = stack[i].sym
        /\ stack'[i].todo = stack[i].todo
    BY <1>2, <1>4
  <2>2. stack'[i].of \in {"deps", "choice", "sym"}
    BY <1>0, <1>1, <2>1, FrameTypes
  <2> QED
    BY <2>1, <2>2, SameHeld
<1>5. /\ Held(stack'[L]) \cup Held(stack'[L + 1]) = Held(stack[L])
      /\ Held(stack'[L]) \cap Held(stack'[L + 1]) = {}
  <2> DEFINE c == stack[L].sym
  <2>1. /\ Held(stack[L]) = DepChoices[c] \cup ({s} \cap {c})
        /\ Held(stack'[L]) = DepChoices[c]
    <3>1. /\ Held(stack[L]) = DepChoices[c] \cup ({c} \cap stack[L].todo)
          /\ Held(stack'[L]) = DepChoices[c] \cup ({c} \cap (stack[L].todo \ {s}))
      BY <1>2, FrameFlags
    <3>2. {c} \cap stack[L].todo = {s} \cap {c}
      BY <1>2
    <3>3. {c} \cap (stack[L].todo \ {s}) = {}
      BY <3>2
    <3> QED
      BY <3>1, <3>2, <3>3
  <2>2. Held(stack'[L + 1]) = {s} \cap {c}
    <3>1. Held(stack'[L + 1]) = {t \in {s} : OwnChoice(t) = {}}
      BY <1>2, FrameFlags
    <3>2. OwnChoice(s) = {} <=> s = c
      <4>1. OwnChoice(c) = {} /\ \A v \in DepChoices[c] : OwnChoice(v) = {c} /\ v # c
        BY <1>2, ChoiceFacts
      <4>2. s = c \/ s \in DepChoices[c]
        BY <1>2
      <4> QED
        BY <4>1, <4>2
    <3>3. CASE s = c
      BY <3>1, <3>2, <3>3
    <3>4. CASE s # c
      BY <3>1, <3>2, <3>4
    <3> QED
      BY <3>3, <3>4
  <2>3. c \notin DepChoices[c]
    BY <1>2, ChoiceFacts
  <2> QED
    BY <2>1, <2>2, <2>3
<1>6. HeldInv'
  <2>1. \A i \in 1..(L + 1) : (i \in 1..L /\ i < L) \/ i = L \/ i = L + 1
    BY <1>2
  <2>2. \A t \in check' : \E i \in 1..(L + 1) : t \in Held(stack'[i])
    <3>1. ASSUME NEW t \in check PROVE \E i \in 1..(L + 1) : t \in Held(stack'[i])
      <4>1. PICK k \in 1..L : t \in Held(stack[k])
        BY <1>0, <1>1 DEF HeldInv
      <4>2. CASE k < L
        BY <1>4, <4>1, <4>2
      <4>3. CASE k = L
        BY <1>5, <4>1, <4>3
      <4> QED
        BY <4>2, <4>3
    <3> QED
      BY <1>2, <3>1
  <2>3. \A i \in 1..(L + 1) : Held(stack'[i]) \subseteq check
    BY <1>0, <1>1, <1>2, <1>4, <1>5, <2>1 DEF HeldInv
  <2>4. \A i \in 1..L : i < L => Held(stack'[i]) \cap Held(stack[L]) = {}
    BY <1>0, <1>1, <1>2, <1>4 DEF HeldInv
  <2>5. \A i, j \in 1..L : i < L /\ j < L /\ i # j => Held(stack'[i]) \cap Held(stack'[j]) = {}
    BY <1>0, <1>1, <1>4 DEF HeldInv
  <2>6. \A i, j \in 1..(L + 1) : i # j => Held(stack'[i]) \cap Held(stack'[j]) = {}
    BY <1>5, <2>1, <2>4, <2>5
  <2> QED
    BY <1>2, <2>2, <2>3, <2>6 DEF HeldInv
<1>7. PathInv'
  <2>1. \A t : Reached(t)' = Reached(t)
    BY <1>2, SameRelations
  <2>2. \A i \in 1..L : stack[i].sym \in DepSyms
    BY <1>0, <1>1, FrameTypes
  <2>3. ASSUME NEW i \in 1..L PROVE s \in Reached(stack[i].sym)
    <3>1. stack[L].sym \in Reached(stack[i].sym)
      BY <1>0, <1>1, <1>2 DEF PathInv
    <3>2. s \in Together(stack[L].sym)
      BY <1>2, ChoiceFacts
    <3> QED
      BY <1>2, <2>2, <3>1, <3>2, ReachedFacts
  <2>4. s \in Reached(s)
    BY <1>2, ReachedFacts
  <2>5. ASSUME NEW i \in 1..(L + 1), NEW j \in 1..(L + 1), i <= j
        PROVE  stack'[j].sym \in Reached(stack'[i].sym)
    <3>1. CASE j = L + 1 /\ i \in 1..L
      BY <1>2, <2>3, <3>1
    <3>2. CASE j = L + 1 /\ i = L + 1
      BY <1>2, <2>4, <3>2
    <3>3. CASE j \in 1..L
      <4>1. i \in 1..L
        BY <2>5, <3>3
      <4> QED
        BY <1>0, <1>1, <1>2, <2>5, <3>3, <4>1 DEF PathInv
    <3> QED
      BY <3>1, <3>2, <3>3
  <2> QED
    BY <1>2, <2>1, <2>5 DEF PathInv
<1> QED
  BY <1>3, <1>6, <1>7

-----------------------------------------------------------------------------
(* Return *)

(* What is returned and the symbol of the function depend on each other.   *)
LEMMA ReturnedKnot ==
    ASSUME DepInv, stack # << >>, sym2 # {}
    PROVE  Knot(stack[Len(stack)].sym)
<1> DEFINE m == stack[Len(stack)].sym
<1>1. /\ stack \in Seq(Frames) /\ DepGraph /\ CallsInv /\ PathInv /\ ReturnInv
      /\ sym2 \subseteq recursive /\ recursive \subseteq DepSyms
  BY DEF DepInv, DepTypes, DepGraph
<1>2. Len(stack) \in 1..Len(stack) /\ m \in DepSyms
  BY <1>1, FrameTypes
<1>3. PICK t \in sym2 : (\E i \in 1..Len(stack) : t \in EndsAt(stack[i])) /\ t \in Reached(m)
  BY <1>1 DEF ReturnInv, Top
<1>4. PICK i \in 1..Len(stack) : t \in EndsAt(stack[i])
  BY <1>3
<1>5. t \in DepSyms /\ Together(t) = Together(stack[i].sym)
  BY <1>1, <1>4, EndsTogether
<1>6. m \in Reached(t)
  <2>1. i <= Len(stack)
    BY <1>2
  <2>2. m \in Reached(stack[i].sym)
    BY <1>1, <1>2, <2>1 DEF PathInv
  <2> QED
    BY <1>5, <2>2 DEF Reached
<1> QED
  BY <1>1, <1>3, <1>6 DEF Knot, SameKnot, Reached

LEMMA Returns ==
    ASSUME DepInv, Return
    PROVE  /\ stack \in Seq(Frames) /\ Len(stack) \in Nat /\ Len(stack) > 0 /\ DepGraph
           /\ Len(stack) \in 1..Len(stack)
           /\ stack' \in Seq(Frames) /\ Len(stack') = Len(stack) - 1
           /\ \A i \in 1..(Len(stack) - 1) : stack'[i] = stack[i]
           /\ stack[Len(stack)].of \in {"deps", "choice", "sym"} /\ stack[Len(stack)].sym \in DepSyms
           /\ stack[Len(stack)].todo = {} \/ sym2 # {}
           /\ check' = check \ Held(stack[Len(stack)])
           /\ Held(stack[Len(stack)]) = Clears(stack[Len(stack)])
           /\ Held(stack[Len(stack)]) \subseteq check
           /\ sym2' = sym2 \ EndsAt(stack[Len(stack)])
           /\ needs' = needs /\ checked' = checked /\ toparse' = toparse
           /\ recursive' = recursive /\ unexpected' = unexpected
<1> DEFINE f == stack[Len(stack)]
<1>1. /\ stack # << >> /\ (f.todo = {} \/ sym2 # {}) /\ stack' = Front(stack)
      /\ check' = check \ Clears(f) /\ sym2' = sym2 \ EndsAt(f)
      /\ UNCHANGED <<needs, checked, toparse, recursive, unexpected>>
  BY DEF Return, Top
<1>2. stack \in Seq(Frames) /\ DepGraph
  BY DEF DepInv, DepTypes, DepGraph
<1>3. /\ Len(stack) \in Nat /\ Len(stack) > 0 /\ Len(stack) \in 1..Len(stack)
      /\ f.of \in {"deps", "choice", "sym"} /\ f.sym \in DepSyms
  BY <1>1, <1>2, FrameTypes
<1>4. Held(f) = Clears(f)
  <2>1. CASE f.of = "choice"
    <3>1. f.sym \in DOMAIN DepChoices /\ f.todo \subseteq DepChoices[f.sym]
      <4>1. ChoiceFrame(Len(stack))
        BY <1>3, <2>1 DEF DepInv, CallsInv
      <4>2. f.sym \in DOMAIN DepChoices
        BY <4>1 DEF ChoiceFrame
      <4>3. ~(sym2 = {} /\ f.todo = {f.sym} \cup DepChoices[f.sym])
        BY <1>1
      <4> QED
        BY <4>1, <4>2, <4>3 DEF ChoiceFrame
    <3>2. f.sym \notin f.todo
      BY <3>1, ChoiceFacts
    <3>3. {f.sym} \cap f.todo = {}
      BY <3>2
    <3>4. /\ Held(f) = DepChoices[f.sym] \cup ({f.sym} \cap f.todo)
          /\ Clears(f) = DepChoices[f.sym]
      BY <2>1, FrameFlags
    <3> QED
      BY <3>3, <3>4
  <2> QED
    BY <1>3, <2>1, FrameFlags
<1>5. Held(f) \subseteq check
  BY <1>3 DEF DepInv, HeldInv
<1> QED
  BY <1>1, <1>2, <1>3, <1>4, <1>5, Popped

(* A symbol that is called from outside its choice is finished then.       *)
LEMMA ReturnFinishes ==
    ASSUME DepInv, Return, NEW m, m = stack[Len(stack)].sym,
           stack[Len(stack)].of = "sym" => OwnChoice(m) = {}
    PROVE  Finished(m)'
<1>1. stack \in Seq(Frames) /\ CallsInv /\ HeldInv /\ check \subseteq checked
  BY DEF DepInv, DepTypes
<1>0. PICK L \in Nat : L = Len(stack)
  BY <1>1
<1>2. /\ L > 0 /\ L \in 1..L /\ stack[L].of \in {"deps", "choice", "sym"}
      /\ stack[L].todo = {} \/ sym2 # {}
      /\ check' = check \ Held(stack[L]) /\ checked' = checked /\ Held(stack[L]) \subseteq check
  BY <1>0, Returns
<1>3. stack[L].sym \in checked /\ (stack[L].sym \notin check \/ stack[L].sym \in Held(stack[L]))
  <2>1. CASE stack[L].of = "deps"
    <3>1. DepsFrame(L)
      BY <1>0, <1>1, <1>2, <2>1 DEF CallsInv
    <3> QED
      BY <1>0, <1>2, <3>1 DEF DepsFrame
  <2>2. CASE stack[L].of = "choice"
    <3>1. ChoiceFrame(L)
      BY <1>0, <1>1, <1>2, <2>2 DEF CallsInv
    <3>2. stack[L].sym \in checked /\ stack[L].todo \subseteq DepChoices[stack[L].sym]
      BY <1>0, <1>2, <3>1 DEF ChoiceFrame
    <3>3. stack[L].sym \notin check
      BY <1>0, <1>1, <1>2, <2>2, <3>2, OwnFlag
    <3> QED
      BY <3>2, <3>3
  <2>3. CASE stack[L].of = "sym"
    <3>1. stack[L].sym \in Held(stack[L])
      BY <1>0, <2>3, FrameFlags
    <3> QED
      BY <1>1, <1>2, <3>1
  <2> QED
    BY <1>2, <2>1, <2>2, <2>3
<1> QED
  BY <1>0, <1>2, <1>3 DEF Finished

LEMMA ReturnKeepsCalls ==
    ASSUME DepInv, Return
    PROVE  CallsInv'
<1>1. CallsInv /\ stack \in Seq(Frames)
  BY DEF DepInv, DepTypes
<1>0. PICK L \in Nat : L = Len(stack)
  BY <1>1
<1>2. /\ L > 0 /\ L \in 1..L /\ Len(stack') = L - 1
      /\ \A i \in 1..(L - 1) : i \in 1..L /\ i < L /\ i + 1 \in 1..L /\ stack'[i] = stack[i]
      /\ check' = check \ Held(stack[L]) /\ checked' = checked
      /\ \A t : Needed(t)' = Needed(t)
  <2>1. \A t : Needed(t)' = Needed(t)
    BY Returns, SameRelations
  <2>2. /\ L > 0 /\ L \in 1..L /\ Len(stack') = L - 1
        /\ \A i \in 1..(L - 1) : stack'[i] = stack[i]
        /\ check' = check \ Held(stack[L]) /\ checked' = checked
    BY <1>0, Returns
  <2> QED
    BY <2>1, <2>2
<1>3. ASSUME NEW i \in 1..(L - 1), stack'[i].of = "deps" PROVE DepsFrame(i)'
  <2>1. DepsFrame(i) /\ i < L
    BY <1>0, <1>1, <1>2, <1>3 DEF CallsInv
  <2>2. /\ OwnChoice(stack[i].sym) # {} /\ stack[i].todo = {} /\ stack[i].sym \in checked
        /\ stack[i + 1].of = "choice" /\ stack[i + 1].sym \in OwnChoice(stack[i].sym)
    BY <1>0, <2>1 DEF DepsFrame
  <2>3. CASE i < L - 1
    <3>1. i + 1 \in 1..(L - 1)
      BY <2>3
    <3> QED
      BY <1>2, <2>2, <2>3, <3>1 DEF DepsFrame
  <2>4. CASE i = L - 1
    <3>1. i + 1 = L /\ stack[L].of = "choice"
      BY <2>2, <2>4
    <3>2. stack[i].sym \in DepChoices[stack[L].sym]
      BY <2>2, <3>1, ChoiceFacts
    <3>3. stack[i].sym \in Held(stack[L])
      BY <3>1, <3>2, FrameFlags
    <3> QED
      BY <1>2, <2>2, <2>4, <3>3 DEF DepsFrame
  <2> QED
    BY <2>3, <2>4
<1>4. ASSUME NEW i \in 1..(L - 1), stack'[i].of = "choice" PROVE ChoiceFrame(i)'
  <2>1. ChoiceFrame(i) /\ i < L
    BY <1>0, <1>1, <1>2, <1>4 DEF CallsInv
  <2>2. i < L - 1 => i + 1 \in 1..(L - 1)
    OBVIOUS
  <2> QED
    BY <1>0, <1>2, <2>1, <2>2 DEF ChoiceFrame
<1>5. ASSUME NEW i \in 1..(L - 1), stack'[i].of = "sym" PROVE SymFrame(i)'
  <2>1. SymFrame(i) /\ i < L
    BY <1>0, <1>1, <1>2, <1>5 DEF CallsInv
  <2>2. /\ i < L - 1 => i + 1 \in 1..(L - 1)
        /\ i > 1 => i - 1 \in 1..(L - 1)
    OBVIOUS
  <2> QED
    BY <1>0, <1>2, <2>1, <2>2 DEF SymFrame
<1>6. \A i, j \in 1..(L - 1) : stack'[i].of = "choice" /\ stack'[j].of = "choice"
                                 /\ stack'[i].sym = stack'[j].sym => i = j
  BY <1>0, <1>1, <1>2 DEF CallsInv
<1> QED
  BY <1>2, <1>3, <1>4, <1>5, <1>6 DEF CallsInv

LEMMA ReturnKeepsFlags ==
    ASSUME DepInv, Return
    PROVE  FlagsInv' /\ HeldInv' /\ PathInv'
<1>1. HeldInv /\ PathInv /\ FlagsInv /\ stack \in Seq(Frames)
  BY DEF DepInv, DepTypes
<1>0. PICK L \in Nat : L = Len(stack)
  BY <1>1
<1>2. /\ L > 0 /\ L \in 1..L /\ Len(stack') = L - 1
      /\ \A i \in 1..(L - 1) : i \in 1..L /\ i # L /\ stack'[i] = stack[i]
      /\ check' = check \ Held(stack[L]) /\ checked' = checked
      /\ \A t : Reached(t)' = Reached(t)
  <2>1. \A t : Reached(t)' = Reached(t)
    BY Returns, SameRelations
  <2>2. /\ L > 0 /\ L \in 1..L /\ Len(stack') = L - 1
        /\ \A i \in 1..(L - 1) : stack'[i] = stack[i]
        /\ check' = check \ Held(stack[L]) /\ checked' = checked
    BY <1>0, Returns
  <2> QED
    BY <2>1, <2>2
<1>3. FlagsInv'
  BY <1>1, <1>2 DEF FlagsInv
<1>4. HeldInv'
  <2>1. ASSUME NEW t \in check, t \notin Held(stack[L])
        PROVE  \E i \in 1..(L - 1) : t \in Held(stack[i])
    <3>1. PICK i \in 1..L : t \in Held(stack[i])
      BY <1>0, <1>1 DEF HeldInv
    <3>2. i \in 1..(L - 1)
      BY <2>1, <3>1
    <3> QED
      BY <3>1, <3>2
  <2>2. \A t \in check' : \E i \in 1..(L - 1) : t \in Held(stack'[i])
    BY <1>2, <2>1
  <2>3. \A i \in 1..(L - 1) : Held(stack[i]) \subseteq check /\ Held(stack[i]) \cap Held(stack[L]) = {}
    BY <1>0, <1>1, <1>2 DEF HeldInv
  <2>4. \A i \in 1..(L - 1) : Held(stack'[i]) \subseteq check'
    BY <1>2, <2>3
  <2>5. \A i, j \in 1..(L - 1) : i # j => Held(stack'[i]) \cap Held(stack'[j]) = {}
    BY <1>0, <1>1, <1>2 DEF HeldInv
  <2> QED
    BY <1>2, <2>2, <2>4, <2>5 DEF HeldInv
<1>5. PathInv'
  BY <1>0, <1>1, <1>2 DEF PathInv
<1> QED
  BY <1>3, <1>4, <1>5

-----------------------------------------------------------------------------
(* What was printed, what is returned and what was looked at *)

LEMMA RankIsKept ==
    ASSUME RankInv, needs' = needs, recursive \subseteq recursive',
           \A s : Finished(s)' <=> Finished(s)
    PROVE  RankInv'
<1>1. PICK r, n : Ranks(r, n)
  BY DEF RankInv
<1>2. /\ Follows' = Follows /\ \A s : Knot(s) => Knot(s)'
  BY SameRelations, KnotGrows
<1>3. Ranks(r, n)'
  BY <1>1, <1>2 DEF Ranks
<1> QED
  BY <1>3 DEF RankInv

(* What is to be shown of the functions after a step.                      *)
LEMMA SeenByStep ==
    ASSUME needs' = needs,
           \A i \in 1..Len(stack') : \A m \in DepSyms :
              (stack'[i].of = "sym" /\ m = stack'[i].sym) =>
                 \A d \in Speaks({m}) \ stack'[i].todo :
                    Knot(m)' \/ (i < Len(stack') /\ stack'[i + 1].sym = d) \/ Finished(d)',
           \A i \in 1..Len(stack') : \A m \in DepSyms :
              (stack'[i].of = "choice" /\ m \in {stack'[i].sym} \cup DepChoices[stack'[i].sym]
                 /\ m \notin stack'[i].todo) =>
                 \/ Knot(m)' \/ (i < Len(stack') /\ stack'[i + 1].sym = m)
                 \/ \A d \in Speaks({m}) : Finished(d)'
    PROVE  SeenInv'
<1>1. \A m : Speaks({m})' = Speaks({m})
  BY SameRelations
<1>2. ASSUME NEW i \in 1..Len(stack'), NEW m \in DepSyms
      PROVE  /\ (stack'[i].of = "sym" /\ m = stack'[i].sym) =>
                   \A d \in Speaks({m})' \ stack'[i].todo :
                      Knot(m)' \/ (i < Len(stack') /\ stack'[i + 1].sym = d) \/ Finished(d)'
             /\ (stack'[i].of = "choice" /\ m \in {stack'[i].sym} \cup DepChoices[stack'[i].sym]) =>
                   m \in stack'[i].todo \/ Seen(i, m)'
  BY <1>1 DEF Seen
<1> QED
  BY <1>2 DEF SeenInv

LEMMA PassesKeepRest ==
    ASSUME DepInv, NEW d \in DepSyms, Passes(d)
    PROVE  DepTypes' /\ ReturnInv' /\ SeenInv' /\ StartInv' /\ RankInv'
<1>1. /\ Called(d) /\ d \in checked /\ d \notin check /\ sym2' = sym2 /\ recursive' = recursive
      /\ unexpected' = unexpected /\ Looks(d) /\ needs' = needs
      /\ check' = check /\ checked' = checked
  BY DEF Passes, Looks, flagvars
<1>2. /\ DepTypes /\ ReturnInv /\ SeenInv /\ StartInv /\ RankInv /\ stack \in Seq(Frames)
  BY DEF DepInv, DepTypes
<1>0. PICK L \in Nat : L = Len(stack)
  BY <1>2
<1>3. /\ stack' \in Seq(Frames) /\ Len(stack') = L
      /\ \A i \in 1..L : /\ stack'[i].of = stack[i].of /\ stack'[i].sym = stack[i].sym
                         /\ (i < L => stack'[i].todo = stack[i].todo)
                         /\ (i = L => stack'[i].todo = stack[i].todo \ {d} /\ stack[i].of = "sym")
  BY <1>0, <1>1, LooksAtOnce
<1>4. sym2 = {} /\ (stack = << >> <=> L = 0) /\ (stack' = << >> <=> L = 0)
  BY <1>0, <1>1, <1>2, <1>3, CallFacts
<1>5. toparse' \subseteq toparse /\ toparse \ {d} \subseteq toparse' /\ (L > 0 => toparse' = toparse)
  BY <1>1, <1>4 DEF Called
<1>6. /\ \A s : Finished(s)' <=> Finished(s)
      /\ \A s : Knot(s)' <=> Knot(s)
      /\ \A s : Speaks({s})' = Speaks({s})
  BY <1>1, SameRelations DEF Finished, Knot
<1>7. DepTypes'
  BY <1>1, <1>2, <1>3, <1>5 DEF DepTypes
<1>8. ReturnInv'
  BY <1>1, <1>2, <1>4, SameRelations DEF ReturnInv
<1>9. SeenInv'
  <2>1. ASSUME NEW i \in 1..L, NEW m \in DepSyms, stack'[i].of = "sym", m = stack'[i].sym,
               NEW e \in Speaks({m}) \ stack'[i].todo
        PROVE  Knot(m) \/ (i < L /\ stack'[i + 1].sym = e) \/ Finished(e)
    <3>1. CASE i = L /\ e = d
      BY <1>1, <3>1 DEF Finished
    <3>2. CASE i < L \/ e # d
      <4>1. e \in Speaks({m}) \ stack[i].todo /\ m = stack[i].sym /\ stack[i].of = "sym"
        BY <1>3, <2>1, <3>2
      <4>2. Knot(m) \/ (i < L /\ stack[i + 1].sym = e) \/ Finished(e)
        BY <1>0, <1>2, <4>1 DEF SeenInv
      <4>3. i < L => i + 1 \in 1..L
        OBVIOUS
      <4> QED
        BY <1>3, <4>2, <4>3
    <3> QED
      BY <3>1, <3>2
  <2>2. ASSUME NEW i \in 1..L, NEW m \in DepSyms, stack'[i].of = "choice",
               m \in {stack'[i].sym} \cup DepChoices[stack'[i].sym], m \notin stack'[i].todo
        PROVE  Knot(m) \/ (i < L /\ stack'[i + 1].sym = m) \/ \A e \in Speaks({m}) : Finished(e)
    <3>1. /\ i < L /\ i + 1 \in 1..L /\ stack[i].of = "choice" /\ m \notin stack[i].todo
          /\ m \in {stack[i].sym} \cup DepChoices[stack[i].sym]
      BY <1>3, <2>2
    <3> QED
      BY <1>0, <1>2, <1>3, <3>1 DEF SeenInv, Seen
  <2> QED
    BY <1>1, <1>3, <1>6, <2>1, <2>2, SeenByStep
<1>10. StartInv'
  <2>1. ASSUME NEW s \in DepSyms \ toparse' 
        PROVE  Finished(s) \/ (L > 0 /\ stack'[1].sym = s)
    <3>1. CASE s = d
      BY <1>1, <3>1 DEF Finished
    <3>2. CASE s # d
      <4>1. s \in DepSyms \ toparse
        BY <1>5, <3>2
      <4>2. Finished(s) \/ (L > 0 /\ stack[1].sym = s)
        BY <1>2, <1>4, <4>1 DEF StartInv
      <4> QED
        BY <1>3, <4>2
    <3> QED
      BY <3>1, <3>2
  <2> QED
    BY <1>4, <1>6, <2>1 DEF StartInv
<1>11. RankInv'
  BY <1>1, <1>2, <1>6, RankIsKept
<1> QED
  BY <1>7, <1>8, <1>9, <1>10, <1>11

(* A recursion is printed for what the function speaks of.                 *)
LEMMA PrintedIsSpokenOf ==
    ASSUME DepInv, NEW d \in DepSyms, Prints(d)
    PROVE  /\ stack # << >> /\ Recursion(d)
           /\ SameKnot(stack[Len(stack)].sym, d) /\ d \in Reached(stack[Len(stack)].sym)
<1>1. Called(d) /\ d \in check
  BY DEF Prints
<1>2. /\ CallsInv /\ HeldInv /\ PathInv /\ stack \in Seq(Frames) /\ check \subseteq checked
      /\ DepGraph
  BY DEF DepInv, DepTypes, DepGraph
<1>0. PICK L \in Nat : L = Len(stack)
  BY <1>2
<1>3. stack # << >> /\ L > 0 /\ L \in 1..L
  BY <1>0, <1>1, CallFacts
<1>4. PICK v \in DepSyms : v = stack[L].sym
  BY <1>0, <1>1, <1>3, CallFacts
<1>5. stack[L].of = "sym" /\ d \in Needed(v)
  BY <1>0, <1>1, <1>2, <1>3, <1>4, CallFacts
<1>6. d \notin OwnChoice(v)
  <2> SUFFICES ASSUME d \in OwnChoice(v) PROVE FALSE
    OBVIOUS
  <2>1. /\ d \in DOMAIN DepChoices /\ v \in DepChoices[d] /\ OwnChoice(v) = {d}
        /\ v \notin DOMAIN DepChoices /\ v # d
    BY ChoiceFacts DEF OwnChoice
  <2>2. SymFrame(L)
    BY <1>0, <1>2, <1>3, <1>5 DEF CallsInv
  <2>3. /\ L > 1 /\ stack[L - 1].of = "choice"
        /\ v \in {stack[L - 1].sym} \cup DepChoices[stack[L - 1].sym]
    BY <1>4, <2>1, <2>2 DEF SymFrame, Plain
  <2>4. L - 1 \in 1..L /\ L - 1 < L
    BY <2>3
  <2>5. ChoiceFrame(L - 1)
    BY <1>0, <1>2, <2>3, <2>4 DEF CallsInv
  <2>6. /\ stack[L - 1].sym \in DOMAIN DepChoices
        /\ stack[L - 1].todo \subseteq DepChoices[stack[L - 1].sym]
    BY <1>0, <2>4, <2>5 DEF ChoiceFrame
  <2>7. stack[L - 1].sym = d
    BY <2>1, <2>3, <2>6, ChoiceFacts
  <2>8. stack[L - 1 + 1].sym = d
    BY <1>0, <1>1, <1>2, <2>3, <2>4, <2>6, <2>7, OwnFlag
  <2> QED
    BY <1>4, <2>1, <2>8
<1>7. d \in Speaks({v})
  BY <1>2, <1>5, <1>6, Relations DEF Needed
<1>8. v \in Reached(d)
  <2>1. PICK i \in 1..L : d \in EndsAt(stack[i])
    BY <1>0, <1>1, <1>2, FlagsAreHeld
  <2>2. Together(d) = Together(stack[i].sym)
    BY <1>0, <1>2, <2>1, EndsTogether
  <2>3. v \in Reached(stack[i].sym)
    BY <1>0, <1>2, <1>3, <1>4 DEF PathInv
  <2> QED
    BY <2>2, <2>3 DEF Reached
<1>9. d \in Reached(v)
  BY <1>2, <1>5, ReachedFacts
<1> QED
  BY <1>0, <1>2, <1>3, <1>4, <1>7, <1>8, <1>9, BackIsRecursion

LEMMA PrintsKeepRest ==
    ASSUME DepInv, NEW d \in DepSyms, Prints(d)
    PROVE  DepTypes' /\ ReturnInv' /\ SeenInv' /\ StartInv' /\ RankInv'
<1>1. /\ Called(d) /\ d \in check /\ sym2' = {d} /\ recursive' = recursive \cup {d}
      /\ unexpected' = (unexpected \/ \A i \in DOMAIN stack : stack[i].sym \notin
                            (IF OwnChoice(d) = {} THEN {d} ELSE OwnChoice(d)))
      /\ needs' = needs /\ check' = check /\ checked' = checked
  BY DEF Prints, flagvars, sym_check_print_recursive
<1>2. /\ DepTypes /\ ReturnInv /\ SeenInv /\ StartInv /\ RankInv /\ stack \in Seq(Frames)
      /\ CallsInv /\ HeldInv /\ DepGraph
  BY DEF DepInv, DepTypes, DepGraph
<1>0. PICK L \in Nat : L = Len(stack)
  BY <1>2
<1>3. Looks(d)
  BY <1>1, <1>2 DEF Prints, Looks, DepTypes
<1>4. /\ stack' \in Seq(Frames) /\ Len(stack') = L
      /\ \A i \in 1..L : /\ stack'[i].of = stack[i].of /\ stack'[i].sym = stack[i].sym
                         /\ (i < L => stack'[i].todo = stack[i].todo)
                         /\ (i = L => stack'[i].todo = stack[i].todo \ {d} /\ stack[i].of = "sym")
  BY <1>0, <1>3, LooksAtOnce
<1>5. /\ stack # << >> /\ L > 0 /\ L \in 1..L /\ Recursion(d)
      /\ SameKnot(stack[L].sym, d) /\ d \in Reached(stack[L].sym) /\ stack' # << >>
  BY <1>0, <1>2, <1>4, PrintedIsSpokenOf
<1>6. toparse' = toparse
  BY <1>1, <1>5 DEF Called
<1>7. /\ \A s : Finished(s)' <=> Finished(s)
      /\ \A s : Knot(s) => Knot(s)'
      /\ \A s : Speaks({s})' = Speaks({s})
  BY <1>1, SameRelations, KnotGrows DEF Finished
<1>8. DepTypes'
  BY <1>1, <1>2, <1>4, <1>6 DEF DepTypes
<1>9. ReturnInv'
  <2>1. ~unexpected'
    <3>1. DOMAIN stack = 1..L
      BY <1>0, <1>2
    <3> QED
      BY <1>0, <1>1, <1>2, <3>1, FlagsAreHeld DEF ReturnInv
  <2>2. PICK i \in 1..L : d \in EndsAt(stack[i])
    BY <1>0, <1>1, <1>2, FlagsAreHeld
  <2>3. EndsAt(stack'[i]) = EndsAt(stack[i])
    BY <1>4 DEF EndsAt
  <2>4. Top'.sym = stack[L].sym /\ \A s : Reached(s)' = Reached(s)
    BY <1>1, <1>4, <1>5, SameRelations DEF Top
  <2>5. /\ \A s \in recursive' : Recursion(s)'
    BY <1>1, <1>2, <1>5, SameRelations DEF ReturnInv
  <2>6. \A s \in sym2' : /\ sym2' = {s} /\ \E k \in 1..Len(stack') : s \in EndsAt(stack'[k])
                         /\ s \in Reached(stack[L].sym)
    BY <1>1, <1>4, <1>5, <2>2, <2>3
  <2> QED
    BY <2>1, <2>4, <2>5, <2>6, SameRelations, <1>1 DEF ReturnInv, Reached
<1>10. SeenInv'
  <2>0. ASSUME NEW m \in DepSyms, m = stack[L].sym PROVE Knot(m)'
    <3>1. SameKnot(m, d)
      BY <1>5, <2>0
    <3> QED
      BY <1>1, <3>1, SameRelations DEF Knot
  <2>1. ASSUME NEW i \in 1..L, NEW m \in DepSyms, stack'[i].of = "sym", m = stack'[i].sym,
               NEW e \in Speaks({m}) \ stack'[i].todo
        PROVE  Knot(m)' \/ (i < L /\ stack'[i + 1].sym = e) \/ Finished(e)
    <3>1. CASE i = L
      BY <1>4, <2>0, <2>1, <3>1
    <3>2. CASE i < L
      <4>1. /\ e \in Speaks({m}) \ stack[i].todo /\ m = stack[i].sym /\ stack[i].of = "sym"
            /\ i + 1 \in 1..L
        BY <1>4, <2>1, <3>2
      <4>2. Knot(m) \/ (i < L /\ stack[i + 1].sym = e) \/ Finished(e)
        BY <1>0, <1>2, <4>1 DEF SeenInv
      <4> QED
        BY <1>4, <1>7, <4>1, <4>2
    <3> QED
      BY <3>1, <3>2
  <2>2. ASSUME NEW i \in 1..L, NEW m \in DepSyms, stack'[i].of = "choice",
               m \in {stack'[i].sym} \cup DepChoices[stack'[i].sym], m \notin stack'[i].todo
        PROVE  Knot(m)' \/ (i < L /\ stack'[i + 1].sym = m) \/ \A e \in Speaks({m}) : Finished(e)
    <3>1. /\ i < L /\ i + 1 \in 1..L /\ stack[i].of = "choice" /\ m \notin stack[i].todo
          /\ m \in {stack[i].sym} \cup DepChoices[stack[i].sym]
      BY <1>4, <2>2
    <3> QED
      BY <1>0, <1>2, <1>4, <1>7, <3>1 DEF SeenInv, Seen
  <2> QED
    BY <1>1, <1>4, <1>7, <2>1, <2>2, SeenByStep
<1>11. StartInv'
  BY <1>2, <1>4, <1>5, <1>6, <1>7 DEF StartInv
<1>12. RankInv'
  BY <1>1, <1>2, <1>7, RankIsKept
<1> QED
  BY <1>8, <1>9, <1>10, <1>11, <1>12

LEMMA EntersKeepRest ==
    ASSUME DepInv, NEW d \in DepSyms, Enters(d)
    PROVE  DepTypes' /\ ReturnInv' /\ SeenInv' /\ StartInv' /\ RankInv'
<1>1. /\ Called(d) /\ recursive' = recursive /\ unexpected' = unexpected /\ needs' = needs
      /\ sym2' = {}
  <2>1. sym2' = {}
    BY EntersAnew
  <2> QED
    BY <2>1 DEF Enters
<1>2. /\ DepTypes /\ ReturnInv /\ SeenInv /\ StartInv /\ RankInv /\ stack \in Seq(Frames)
  BY DEF DepInv, DepTypes
<1>0. PICK L \in Nat : L = Len(stack)
  BY <1>2
<1>3. /\ stack' \in Seq(Frames) /\ Len(stack') = L + 1 /\ stack'[L + 1] = Entered(d)
      /\ \A i \in 1..L : /\ stack'[i].of = stack[i].of /\ stack'[i].sym = stack[i].sym
                         /\ (i < L => stack'[i].todo = stack[i].todo)
                         /\ (i = L => /\ stack'[i].todo = stack[i].todo \ {d}
                                      /\ stack[i].of \in {"deps", "sym"})
  BY <1>0, EntersAnew
<1>4. (stack = << >> <=> L = 0) /\ stack' # << >>
  BY <1>0, <1>2, <1>3
<1>5. /\ toparse' \subseteq toparse /\ toparse \ {d} \subseteq toparse' /\ (L > 0 => toparse' = toparse)
  BY <1>1, <1>4 DEF Called
<1>6. /\ check' = check \cup Marked(d) /\ checked' = checked \cup Marked(d)
      /\ Marked(d) \in SUBSET DepSyms /\ check \subseteq checked
      /\ \A s : Finished(s)' <=> Finished(s)
  BY EntersFlags
<1>7. \A s : Knot(s)' <=> Knot(s)
  BY <1>1, SameRelations DEF Knot
<1>8. /\ Entered(d).sym = d
      /\ Entered(d).of = "sym" => Entered(d).todo = Needed(d)
      /\ Entered(d).of = "choice" => Entered(d).todo = {d} \cup DepChoices[d]
  BY DEF Entered, Frame
<1>9. DepTypes'
  BY <1>1, <1>2, <1>3, <1>5, <1>6 DEF DepTypes
<1>10. ReturnInv'
  BY <1>1, <1>2, SameRelations DEF ReturnInv
<1>11. SeenInv'
  <2>0. \A i \in 1..(L + 1) : i \in 1..L \/ i = L + 1
    OBVIOUS
  <2>1. ASSUME NEW i \in 1..(L + 1), NEW m \in DepSyms, stack'[i].of = "sym", m = stack'[i].sym,
               NEW e \in Speaks({m}) \ stack'[i].todo
        PROVE  Knot(m) \/ (i < L + 1 /\ stack'[i + 1].sym = e) \/ Finished(e)
    <3>1. CASE i = L + 1
      <4>1. m = d /\ stack'[i].todo = Needed(d)
        BY <1>3, <1>8, <2>1, <3>1
      <4>2. Speaks({d}) = needs[d] \ OwnChoice(d)
        BY <1>2, Relations DEF DepTypes, DepGraph
      <4> QED
        BY <2>1, <4>1, <4>2 DEF Needed
    <3>2. CASE i = L /\ e = d
      BY <1>3, <1>8, <3>2
    <3>3. CASE i \in 1..L /\ (i < L \/ e # d)
      <4>1. e \in Speaks({m}) \ stack[i].todo /\ m = stack[i].sym /\ stack[i].of = "sym"
        BY <1>3, <2>1, <3>3
      <4>2. Knot(m) \/ (i < L /\ stack[i + 1].sym = e) \/ Finished(e)
        BY <1>0, <1>2, <3>3, <4>1 DEF SeenInv
      <4>3. i < L + 1 /\ (i < L => i + 1 \in 1..L)
        BY <3>3
      <4> QED
        BY <1>3, <4>2, <4>3
    <3> QED
      BY <2>0, <3>1, <3>2, <3>3
  <2>2. ASSUME NEW i \in 1..(L + 1), NEW m \in DepSyms, stack'[i].of = "choice",
               m \in {stack'[i].sym} \cup DepChoices[stack'[i].sym], m \notin stack'[i].todo
        PROVE  Knot(m) \/ (i < L + 1 /\ stack'[i + 1].sym = m) \/ \A e \in Speaks({m}) : Finished(e)
    <3>1. CASE i = L + 1
      BY <1>3, <1>8, <2>2, <3>1
    <3>2. CASE i \in 1..L
      <4>1. /\ i < L /\ i + 1 \in 1..L /\ i < L + 1 /\ stack[i].of = "choice" /\ m \notin stack[i].todo
            /\ m \in {stack[i].sym} \cup DepChoices[stack[i].sym]
        BY <1>3, <2>2, <3>2
      <4> QED
        BY <1>0, <1>2, <1>3, <4>1 DEF SeenInv, Seen
    <3> QED
      BY <2>0, <3>1, <3>2
  <2> QED
    BY <1>1, <1>3, <1>6, <1>7, <2>1, <2>2, SeenByStep
<1>12. StartInv'
  <2>1. ASSUME NEW s \in DepSyms \ toparse' PROVE Finished(s) \/ stack'[1].sym = s
    <3>1. CASE L = 0
      <4>1. stack'[1].sym = d
        BY <1>3, <1>8, <3>1
      <4>2. s # d => Finished(s)
        BY <1>2, <1>4, <1>5, <3>1 DEF StartInv
      <4> QED
        BY <4>1, <4>2
    <3>2. CASE L > 0
      <4>1. s \in DepSyms \ toparse /\ 1 \in 1..L
        BY <1>5, <3>2
      <4>2. Finished(s) \/ stack[1].sym = s
        BY <1>2, <4>1 DEF StartInv
      <4> QED
        BY <1>3, <4>1, <4>2
    <3> QED
      BY <3>1, <3>2
  <2> QED
    BY <1>4, <1>6, <2>1 DEF StartInv
<1>13. RankInv'
  BY <1>1, <1>2, <1>6, RankIsKept
<1> QED
  BY <1>9, <1>10, <1>11, <1>12, <1>13

LEMMA ChoosesKeepRest ==
    ASSUME DepInv, NEW s \in DepSyms, Chooses(s)
    PROVE  DepTypes' /\ ReturnInv' /\ SeenInv' /\ StartInv' /\ RankInv'
<1>1. /\ recursive' = recursive /\ unexpected' = unexpected /\ needs' = needs /\ toparse' = toparse
      /\ sym2' = sym2 /\ sym2 = {} /\ check' = check /\ checked' = checked
  BY DEF Chooses, flagvars
<1>2. /\ DepTypes /\ ReturnInv /\ SeenInv /\ StartInv /\ RankInv /\ stack \in Seq(Frames)
  BY DEF DepInv, DepTypes
<1>0. PICK L \in Nat : L = Len(stack)
  BY <1>2
<1>3. /\ stack' \in Seq(Frames) /\ Len(stack') = L + 1 /\ L > 0 /\ L \in 1..L /\ 1 \in 1..L
      /\ stack'[L + 1].of = "sym" /\ stack'[L + 1].sym = s /\ stack'[L + 1].todo = Needed(s)
      /\ \A i \in 1..L : /\ stack'[i].of = stack[i].of /\ stack'[i].sym = stack[i].sym
                         /\ (i < L => stack'[i].todo = stack[i].todo)
                         /\ (i = L => /\ stack'[i].todo = stack[i].todo \ {s}
                                      /\ stack[i].of = "choice")
  <2>1. stack'[L + 1] = Frame("sym", s, Needed(s))
    BY <1>0, ChoosesWhat
  <2>2. stack'[L + 1].of = "sym" /\ stack'[L + 1].sym = s /\ stack'[L + 1].todo = Needed(s)
    BY <2>1 DEF Frame
  <2>3. L > 0 /\ L \in 1..L /\ 1 \in 1..L
    BY <1>0, ChoosesWhat
  <2> QED
    BY <1>0, <2>2, <2>3, ChoosesWhat
<1>4. stack # << >> /\ stack' # << >>
  BY <1>0, <1>2, <1>3
<1>5. /\ \A t : Finished(t)' <=> Finished(t)
      /\ \A t : Knot(t)' <=> Knot(t)
  BY <1>1, SameRelations DEF Knot, Finished
<1>6. DepTypes'
  BY <1>1, <1>2, <1>3 DEF DepTypes
<1>7. ReturnInv'
  BY <1>1, <1>2, SameRelations DEF ReturnInv
<1>8. SeenInv'
  <2>0. \A i \in 1..(L + 1) : i \in 1..L \/ i = L + 1
    OBVIOUS
  <2>1. ASSUME NEW i \in 1..(L + 1), NEW m \in DepSyms, stack'[i].of = "sym", m = stack'[i].sym,
               NEW e \in Speaks({m}) \ stack'[i].todo
        PROVE  Knot(m) \/ (i < L + 1 /\ stack'[i + 1].sym = e) \/ Finished(e)
    <3>1. CASE i = L + 1
      <4>1. m = s /\ stack'[i].todo = Needed(s)
        BY <1>3, <2>1, <3>1
      <4>2. Speaks({s}) = needs[s] \ OwnChoice(s)
        BY <1>2, Relations DEF DepTypes, DepGraph
      <4> QED
        BY <2>1, <4>1, <4>2 DEF Needed
    <3>2. CASE i \in 1..L
      <4>1. i < L /\ i + 1 \in 1..L /\ i < L + 1
        BY <1>3, <2>1, <3>2
      <4>2. e \in Speaks({m}) \ stack[i].todo /\ m = stack[i].sym /\ stack[i].of = "sym"
        BY <1>3, <2>1, <3>2, <4>1
      <4>3. Knot(m) \/ (i < L /\ stack[i + 1].sym = e) \/ Finished(e)
        BY <1>0, <1>2, <3>2, <4>2 DEF SeenInv
      <4> QED
        BY <1>3, <4>1, <4>3
    <3> QED
      BY <2>0, <3>1, <3>2
  <2>2. ASSUME NEW i \in 1..(L + 1), NEW m \in DepSyms, stack'[i].of = "choice",
               m \in {stack'[i].sym} \cup DepChoices[stack'[i].sym], m \notin stack'[i].todo
        PROVE  Knot(m) \/ (i < L + 1 /\ stack'[i + 1].sym = m) \/ \A e \in Speaks({m}) : Finished(e)
    <3>1. i \in 1..L /\ i < L + 1
      BY <1>3, <2>0, <2>2
    <3>2. CASE i = L /\ m = s
      BY <1>3, <3>1, <3>2
    <3>3. CASE i < L \/ m # s
      <4>1. /\ stack[i].of = "choice" /\ m \notin stack[i].todo
            /\ m \in {stack[i].sym} \cup DepChoices[stack[i].sym]
        BY <1>3, <2>2, <3>1, <3>3
      <4>2. Seen(i, m)
        BY <1>0, <1>2, <3>1, <4>1 DEF SeenInv
      <4>3. i < L => i + 1 \in 1..L
        BY <3>1
      <4> QED
        BY <1>0, <1>3, <3>1, <4>2, <4>3 DEF Seen
    <3> QED
      BY <3>1, <3>2, <3>3
  <2> QED
    BY <1>1, <1>3, <1>5, <2>1, <2>2, SeenByStep
<1>9. StartInv'
  BY <1>1, <1>2, <1>3, <1>4, <1>5 DEF StartInv
<1>10. RankInv'
  BY <1>1, <1>2, <1>5, RankIsKept
<1> QED
  BY <1>6, <1>7, <1>8, <1>9, <1>10

LEMMA ReturnKeepsRest ==
    ASSUME DepInv, Return
    PROVE  DepTypes' /\ ReturnInv' /\ SeenInv' /\ StartInv'
<1>1. /\ DepTypes /\ ReturnInv /\ SeenInv /\ StartInv /\ CallsInv /\ PathInv /\ stack \in Seq(Frames)
      /\ sym2 \subseteq recursive /\ recursive \subseteq DepSyms
  BY DEF DepInv, DepTypes
<1>0. PICK L \in Nat : L = Len(stack)
  BY <1>1
<1>2. /\ L > 0 /\ L \in 1..L /\ stack' \in Seq(Frames) /\ Len(stack') = L - 1
      /\ \A i \in 1..(L - 1) : stack'[i] = stack[i]
      /\ stack[L].of \in {"deps", "choice", "sym"} /\ stack[L].sym \in DepSyms
      /\ stack[L].todo = {} \/ sym2 # {}
      /\ check' = check \ Held(stack[L]) /\ sym2' = sym2 \ EndsAt(stack[L])
      /\ needs' = needs /\ checked' = checked /\ toparse' = toparse
      /\ recursive' = recursive /\ unexpected' = unexpected /\ DepGraph
  BY <1>0, Returns
<1>3. /\ \A i \in 1..(L - 1) : i \in 1..L /\ i < L /\ i + 1 \in 1..L
      /\ \A i \in 1..(L - 1) : i < L - 1 => i + 1 \in 1..(L - 1)
  OBVIOUS
<1>4. /\ \A t : Finished(t) => Finished(t)'
      /\ \A t : Knot(t)' <=> Knot(t)
  BY <1>2, SameRelations DEF Knot, Finished
<1>5. DepTypes'
  BY <1>1, <1>2 DEF DepTypes
<1>6. ReturnInv'
  <2>1. \A s \in recursive' : Recursion(s)'
    BY <1>1, <1>2, SameRelations DEF ReturnInv
  <2>2. ASSUME NEW s \in sym2'
        PROVE  /\ sym2' = {s} /\ \E i \in 1..(L - 1) : s \in EndsAt(stack'[i])
               /\ L > 1 /\ s \in Reached(stack[L - 1].sym)
    <3>1. s \in sym2 /\ s \notin EndsAt(stack[L])
      BY <1>2
    <3>2. /\ sym2 = {s} /\ s \in Reached(stack[L].sym)
          /\ \E i \in 1..L : s \in EndsAt(stack[i])
      BY <1>0, <1>1, <3>1 DEF ReturnInv, Top
    <3>3. PICK i \in 1..(L - 1) : s \in EndsAt(stack[i])
      BY <3>1, <3>2
    <3>4. L > 1 /\ L - 1 \in 1..L
      BY <3>3
    <3>5. stack[L].sym \in Reached(stack[L - 1].sym) /\ stack[L - 1].sym \in DepSyms
      BY <1>0, <1>1, <1>2, <3>4, FrameTypes DEF PathInv
    <3>6. s \in Reached(stack[L - 1].sym)
      BY <1>2, <3>2, <3>5, ReachedFacts
    <3> QED
      BY <1>2, <3>1, <3>2, <3>3, <3>4, <3>6
  <2>3. L > 1 => Top'.sym = stack[L - 1].sym
    BY <1>2 DEF Top
  <2>4. \A s : Reached(s)' = Reached(s)
    BY <1>2, SameRelations
  <2>5. L > 1 => \A s \in sym2' : s \in Reached(Top.sym)'
    BY <1>2, <2>2, <2>3, SameRelations DEF Reached
  <2> QED
    BY <1>1, <1>2, <2>1, <2>2, <2>5 DEF ReturnInv
<1>7. SeenInv'
  <2>1. ASSUME NEW i \in 1..(L - 1), NEW m \in DepSyms, stack'[i].of = "sym", m = stack'[i].sym,
               NEW e \in Speaks({m}) \ stack'[i].todo
        PROVE  Knot(m) \/ (i < L - 1 /\ stack'[i + 1].sym = e) \/ Finished(e)'
    <3>1. /\ e \in Speaks({m}) \ stack[i].todo /\ m = stack[i].sym /\ stack[i].of = "sym"
          /\ i \in 1..L
      BY <1>2, <1>3, <2>1
    <3>2. Knot(m) \/ stack[i + 1].sym = e \/ Finished(e)
      BY <1>0, <1>1, <3>1 DEF SeenInv
    <3>3. CASE i < L - 1
      BY <1>2, <1>3, <1>4, <3>2, <3>3
    <3>4. CASE i = L - 1
      <4>1. stack[L].of = "sym" => OwnChoice(stack[L].sym) = {}
        <5>1. SymFrame(i) /\ i < L /\ i + 1 = L
          BY <1>0, <1>1, <3>1, <3>4 DEF CallsInv
        <5> QED
          BY <1>0, <5>1 DEF SymFrame, Plain
      <4>2. stack[L].sym = e => Finished(e)'
        BY <1>0, <4>1, ReturnFinishes
      <4> QED
        BY <1>4, <3>2, <3>4, <4>2
    <3>5. i < L - 1 \/ i = L - 1
      BY <1>1, <2>1
    <3> QED
      BY <3>3, <3>4, <3>5
  <2>2. ASSUME NEW i \in 1..(L - 1), NEW m \in DepSyms, stack'[i].of = "choice",
               m \in {stack'[i].sym} \cup DepChoices[stack'[i].sym], m \notin stack'[i].todo
        PROVE  \/ Knot(m) \/ (i < L - 1 /\ stack'[i + 1].sym = m)
               \/ \A e \in Speaks({m}) : Finished(e)'
    <3>1. /\ stack[i].of = "choice" /\ m \in {stack[i].sym} \cup DepChoices[stack[i].sym]
          /\ m \notin stack[i].todo /\ i \in 1..L
      BY <1>2, <1>3, <2>2
    <3>2. Knot(m) \/ stack[i + 1].sym = m \/ \A e \in Speaks({m}) : Finished(e)
      BY <1>0, <1>1, <3>1 DEF SeenInv, Seen
    <3>3. CASE i < L - 1
      BY <1>2, <1>3, <1>4, <3>2, <3>3
    <3>4. CASE i = L - 1
      <4>1. stack[L].of = "sym"
        <5>1. ChoiceFrame(i) /\ i < L /\ i + 1 = L
          BY <1>0, <1>1, <3>1, <3>4 DEF CallsInv
        <5> QED
          BY <1>0, <5>1 DEF ChoiceFrame
      <4>2. ASSUME stack[L].sym = m PROVE Knot(m) \/ \A e \in Speaks({m}) : Finished(e)
        <5>1. CASE sym2 # {}
          <6>1. stack # << >>
            BY <1>0, <1>2
          <6> QED
            BY <1>0, <4>2, <5>1, <6>1, ReturnedKnot
        <5>2. CASE stack[L].todo = {}
          BY <1>0, <1>1, <1>2, <4>1, <4>2, <5>2 DEF SeenInv
        <5> QED
          BY <1>2, <5>1, <5>2
      <4>3. i + 1 = L
        BY <3>4
      <4>4. Knot(m) \/ \A e \in Speaks({m}) : Finished(e)
        BY <3>2, <4>2, <4>3
      <4> QED
        BY <1>4, <4>4
    <3>5. i < L - 1 \/ i = L - 1
      BY <1>1, <2>2
    <3> QED
      BY <3>3, <3>4, <3>5
  <2> QED
    BY <1>2, <1>4, <2>1, <2>2, SeenByStep
<1>8. StartInv'
  <2>1. ASSUME NEW s \in DepSyms \ toparse' PROVE Finished(s)' \/ (L > 1 /\ stack'[1].sym = s)
    <3>1. Finished(s) \/ stack[1].sym = s
      BY <1>1, <1>2 DEF StartInv
    <3>2. CASE L > 1
      BY <1>2, <1>4, <3>1, <3>2
    <3>3. CASE L = 1
      <4>1. stack[L].of = "sym" => OwnChoice(stack[L].sym) = {}
        <5>1. stack[L].of = "sym" => SymFrame(L)
          BY <1>0, <1>1, <1>2 DEF CallsInv
        <5> QED
          BY <3>3, <5>1 DEF SymFrame, Plain
      <4>2. stack[L].sym = s => Finished(s)'
        BY <1>0, <4>1, ReturnFinishes
      <4> QED
        BY <1>4, <3>1, <3>3, <4>2
    <3> QED
      BY <1>2, <3>2, <3>3
  <2>2. L > 1 => stack' # << >>
    BY <1>2
  <2> QED
    BY <2>1, <2>2 DEF StartInv
<1> QED
  BY <1>5, <1>6, <1>7, <1>8

-----------------------------------------------------------------------------
(* The ranks *)

(* What a function finishes without a message follows what is finished.    *)
LEMMA FinishedFollows ==
    ASSUME DepInv, Return, NEW w \in Held(stack[Len(stack)]), ~Knot(w)
    PROVE  w \in DepSyms /\ \A d \in Follows[w] : d \in DepSyms /\ Finished(d)
<1>1. /\ SeenInv /\ CallsInv /\ stack \in Seq(Frames) /\ recursive \subseteq DepSyms /\ DepGraph
      /\ check \subseteq DepSyms
  BY DEF DepInv, DepTypes, DepGraph
<1>0. PICK L \in Nat : L = Len(stack)
  BY <1>1
<1>2. /\ L > 0 /\ L \in 1..L /\ stack # << >>
      /\ stack[L].of \in {"deps", "choice", "sym"} /\ stack[L].sym \in DepSyms
      /\ (stack[L].todo = {} \/ sym2 # {}) /\ w \in Held(stack[L])
      /\ Held(stack[L]) \subseteq check
  BY <1>0, Returns
<1>3. PICK x \in DepSyms : x = stack[L].sym
  BY <1>2
<1>4. w \in DepSyms
  BY <1>1, <1>2, <1>0
<1>5. CASE stack[L].of = "sym"
  <2>1. w = x /\ OwnChoice(w) = {}
    BY <1>0, <1>3, <1>5, FrameFlags
  <2>2. stack[L].todo = {}
    BY <1>0, <1>2, <1>3, <2>1, ReturnedKnot
  <2>3. \A d \in Speaks({w}) : Finished(d)
    BY <1>0, <1>1, <1>2, <1>3, <1>5, <2>1, <2>2 DEF SeenInv
  <2>4. Follows[w] = Speaks({w})
    <3>1. CASE w \in DOMAIN DepChoices
      BY <1>4, <3>1 DEF Follows
    <3>2. CASE w \notin DOMAIN DepChoices
      <4>1. Together(w) = {w}
        BY <2>1, <3>2, ChoiceFacts DEF Plain
      <4> QED
        BY <1>4, <3>2, <4>1 DEF Follows
    <3> QED
      BY <3>1, <3>2
  <2>5. Follows[w] \in SUBSET DepSyms
    BY <1>1, <1>4, Relations
  <2> QED
    BY <1>4, <2>3, <2>4, <2>5
<1>6. CASE stack[L].of = "choice"
  <2>1. x \in DOMAIN DepChoices /\ stack[L].todo \subseteq {x} \cup DepChoices[x]
    <3>1. ChoiceFrame(L)
      BY <1>0, <1>1, <1>2, <1>6 DEF CallsInv
    <3> QED
      BY <1>3, <3>1 DEF ChoiceFrame
  <2>2. w \in DepChoices[x]
    <3>1. Held(stack[L]) = Clears(stack[L])
      BY <1>0, Returns
    <3> QED
      BY <1>0, <1>3, <1>6, <3>1, FrameFlags
  <2>3. /\ Together(w) = {x} \cup DepChoices[x] /\ w \notin DOMAIN DepChoices
    BY <2>1, <2>2, ChoiceFacts
  <2>4. \A m \in Together(w) : ~Knot(m)
    BY <1>1, <1>4, KnotTogether
  <2>5. stack[L].todo = {}
    BY <1>0, <1>2, <1>3, <2>3, <2>4, ReturnedKnot
  <2>6. ASSUME NEW m \in Together(w), NEW d \in Speaks({m}) PROVE Finished(d)
    <3>1. m \in DepSyms
      BY <1>4, TogetherIsOne
    <3>2. Seen(L, m)
      BY <1>0, <1>1, <1>2, <1>3, <1>6, <2>3, <2>5, <3>1 DEF SeenInv
    <3>3. ~(L < Len(stack)) /\ ~Knot(m)
      BY <1>0, <2>4
    <3>4. \A e \in Speaks({m}) : Finished(e)
      BY <3>2, <3>3 DEF Seen
    <3> QED
      BY <3>4
  <2>7. Follows[w] = Speaks(Together(w))
    BY <1>4, <2>3 DEF Follows
  <2> QED
    BY <1>1, <1>4, <2>6, <2>7, Relations
<1>7. stack[L].of # "deps"
  BY <1>0, <1>2, FrameFlags
<1> QED
  BY <1>2, <1>5, <1>6, <1>7

(* The values of a choice are finished together.                           *)
LEMMA HeldTogether ==
    ASSUME DepInv, Return
    PROVE  \A c \in DOMAIN DepChoices : \A v, w \in DepChoices[c] :
              v \in Held(stack[Len(stack)]) => w \in Held(stack[Len(stack)])
<1> DEFINE f == stack[Len(stack)]
<1>1. /\ CallsInv /\ Len(stack) \in 1..Len(stack) /\ f.of \in {"deps", "choice", "sym"}
      /\ Held(f) = Clears(f)
  BY Returns DEF DepInv
<1>2. CASE f.of = "choice"
  <2>1. f.sym \in DOMAIN DepChoices
    BY <1>1, <1>2 DEF CallsInv, ChoiceFrame
  <2>2. Held(f) = DepChoices[f.sym]
    BY <1>1, <1>2, FrameFlags
  <2>3. \A c \in DOMAIN DepChoices : \A v \in DepChoices[c] :
           v \in DepChoices[f.sym] => c = f.sym
    BY <2>1, ChoiceFacts
  <2> QED
    BY <2>2, <2>3
<1>3. CASE f.of = "sym"
  <2>1. \A v \in Held(f) : OwnChoice(v) = {}
    BY <1>3, FrameFlags
  <2>2. \A c \in DOMAIN DepChoices : \A v \in DepChoices[c] : OwnChoice(v) # {}
    BY DEF OwnChoice
  <2> QED
    BY <2>1, <2>2
<1>4. CASE f.of = "deps"
  BY <1>4, FrameFlags
<1> QED
  BY <1>1, <1>2, <1>3, <1>4

LEMMA ReturnKeepsRanks ==
    ASSUME DepInv, Return
    PROVE  RankInv'
<1>1. PICK r, n : Ranks(r, n)
  BY DEF DepInv, RankInv
<1>2. PICK C \in SUBSET check : C = Held(stack[Len(stack)])
  BY Returns
<1>3. /\ check' = check \ C /\ checked' = checked /\ needs' = needs /\ recursive' = recursive
      /\ check \subseteq checked /\ checked \subseteq DepSyms /\ DepGraph
  BY <1>2, Returns DEF DepInv, DepTypes
<1>4. /\ Follows' = Follows /\ \A s : Knot(s)' <=> Knot(s)
      /\ Follows \in [DepSyms -> SUBSET DepSyms]
  BY <1>3, SameRelations, Relations DEF Knot
<1>5. \A s : Finished(s)' <=> (Finished(s) \/ s \in C)
  BY <1>3 DEF Finished
<1>6. /\ r \in [DepSyms -> Nat] /\ n \in Nat /\ \A s \in DepSyms : r[s] <= n
      /\ \A c \in DOMAIN DepChoices : \A v, w \in DepChoices[c] : r[v] = r[w]
      /\ \A s \in DepSyms : (Finished(s) /\ ~Knot(s)) =>
            \A d \in Follows[s] : Finished(d) /\ (Knot(d) \/ r[d] < r[s])
  BY <1>1 DEF Ranks
<1>7. PICK q \in [DepSyms -> Nat] : \A s \in DepSyms : q[s] = IF s \in C THEN n + 1 ELSE r[s]
  <2> DEFINE p == [s \in DepSyms |-> IF s \in C THEN n + 1 ELSE r[s]]
  <2>1. p \in [DepSyms -> Nat] /\ \A s \in DepSyms : p[s] = IF s \in C THEN n + 1 ELSE r[s]
    BY <1>6
  <2> HIDE DEF p
  <2> QED
    BY <2>1
<1>8. n + 1 \in Nat /\ \A s \in DepSyms : q[s] <= n + 1
  BY <1>6, <1>7
<1>9. \A c \in DOMAIN DepChoices : \A v, w \in DepChoices[c] : q[v] = q[w]
  <2>1. \A c \in DOMAIN DepChoices : \A v, w \in DepChoices[c] : v \in C <=> w \in C
    BY <1>2, HeldTogether
  <2>2. \A c \in DOMAIN DepChoices : DepChoices[c] \subseteq DepSyms
    BY ChoiceFacts
  <2> QED
    BY <1>6, <1>7, <2>1, <2>2
<1>10. ASSUME NEW s \in DepSyms, Finished(s) \/ s \in C, ~Knot(s), NEW d \in Follows[s]
       PROVE  Finished(d) /\ (Knot(d) \/ q[d] < q[s])
  <2>1. \A e : Finished(e) => e \notin C
    BY DEF Finished
  <2>2. d \in DepSyms
    BY <1>4
  <2>3. CASE Finished(s)
    <3>1. Finished(d) /\ (Knot(d) \/ r[d] < r[s])
      BY <1>6, <1>10, <2>3
    <3> QED
      BY <1>7, <2>1, <2>2, <2>3, <3>1
  <2>4. CASE s \in C
    <3>1. Finished(d)
      BY <1>2, <1>10, <2>4, FinishedFollows
    <3>2. q[d] = r[d] /\ r[d] <= n /\ q[s] = n + 1 /\ r[d] \in Nat
      BY <1>6, <1>7, <2>1, <2>2, <2>4, <3>1
    <3>3. q[d] < q[s]
      BY <1>6, <3>2
    <3> QED
      BY <3>1, <3>3
  <2> QED
    BY <1>10, <2>3, <2>4
<1>11. Ranks(q, n + 1)'
  BY <1>4, <1>5, <1>7, <1>8, <1>9, <1>10 DEF Ranks
<1> QED
  BY <1>11 DEF RankInv

-----------------------------------------------------------------------------
(* The theorems *)

LEMMA InitDeps == DepInit => DepInv
<1> SUFFICES ASSUME DepInit PROVE DepInv
  OBVIOUS
<1>1. /\ needs \in [DepSyms -> SUBSET DepSyms] /\ check = {} /\ checked = {} /\ stack = << >>
      /\ sym2 = {} /\ toparse = DepSyms /\ recursive = {} /\ unexpected = FALSE
  BY RecursionAssumption DEF DepInit
<1>2. DepTypes
  BY <1>1 DEF DepTypes
<1>3. Len(stack) = 0 /\ 1..Len(stack) = {}
  BY <1>1
<1>4. FlagsInv /\ CallsInv /\ HeldInv /\ PathInv /\ ReturnInv /\ SeenInv /\ StartInv
  BY <1>1, <1>3 DEF FlagsInv, CallsInv, HeldInv, PathInv, ReturnInv, SeenInv, StartInv
<1>5. RankInv
  <2> DEFINE r == [s \in DepSyms |-> 0]
  <2>1. r \in [DepSyms -> Nat] /\ \A s \in DepSyms : r[s] = 0
    OBVIOUS
  <2>2. \A c \in DOMAIN DepChoices : DepChoices[c] \subseteq DepSyms
    BY ChoiceFacts
  <2>3. \A s : ~Finished(s)
    BY <1>1 DEF Finished
  <2> HIDE DEF r
  <2>4. Ranks(r, 0)
    BY <2>1, <2>2, <2>3 DEF Ranks
  <2> QED
    BY <2>4 DEF RankInv
<1> QED
  BY <1>2, <1>4, <1>5 DEF DepInv

LEMMA StepDeps == DepInv /\ [DepNext]_depvars => DepInv'
<1> SUFFICES ASSUME DepInv, [DepNext]_depvars PROVE DepInv'
  OBVIOUS
<1>1. ASSUME NEW d \in DepSyms, Passes(d) PROVE DepInv'
  <2>1. Looks(d)
    BY <1>1 DEF Passes, Looks
  <2> QED
    BY <1>1, <2>1, LooksKeepCalls, LooksKeepFlags, PassesKeepRest DEF DepInv
<1>2. ASSUME NEW d \in DepSyms, Prints(d) PROVE DepInv'
  <2>1. Looks(d)
    BY <1>2 DEF Prints, Looks, DepInv, DepTypes
  <2> QED
    BY <1>2, <2>1, LooksKeepCalls, LooksKeepFlags, PrintsKeepRest DEF DepInv
<1>3. ASSUME NEW d \in DepSyms, Enters(d) PROVE DepInv'
  BY <1>3, EntersFlags, EntersKeepCalls, EntersKeepFlags, EntersKeepRest DEF DepInv
<1>4. ASSUME NEW d \in DepSyms, Chooses(d) PROVE DepInv'
  BY <1>4, ChoosesKeepCalls, ChoosesKeepFlags, ChoosesKeepRest DEF DepInv
<1>5. ASSUME Return PROVE DepInv'
  BY <1>5, ReturnKeepsCalls, ReturnKeepsFlags, ReturnKeepsRest, ReturnKeepsRanks DEF DepInv
<1>6. ASSUME UNCHANGED depvars PROVE DepInv'
  <2>1. /\ needs' = needs /\ check' = check /\ checked' = checked /\ stack' = stack
        /\ sym2' = sym2 /\ toparse' = toparse /\ recursive' = recursive /\ unexpected' = unexpected
    BY <1>6 DEF depvars
  <2>2. \A s : (Finished(s)' <=> Finished(s)) /\ (Knot(s)' <=> Knot(s))
    BY <2>1, SameRelations DEF Finished, Knot
  <2>3. DepTypes' /\ FlagsInv'
    BY <2>1 DEF DepInv, DepTypes, FlagsInv
  <2>4. CallsInv' /\ HeldInv' /\ StartInv'
    BY <2>1 DEF DepInv, CallsInv, DepsFrame, ChoiceFrame, SymFrame, Needed, HeldInv, StartInv, Finished
  <2>5. PathInv' /\ ReturnInv'
    BY <2>1, SameRelations DEF DepInv, PathInv, ReturnInv, Reached, Uses, Speaks, Top, Recursion
  <2>6. SeenInv'
    BY <2>1, <2>2, SeenByStep DEF DepInv, SeenInv, Seen
  <2>7. RankInv'
    BY <2>1, <2>2, RankIsKept DEF DepInv
  <2> QED
    BY <2>3, <2>4, <2>5, <2>6, <2>7 DEF DepInv
<1> QED
  <2>1. DepTypes
    BY DEF DepInv
  <2> QED
    BY <1>1, <1>2, <1>3, <1>4, <1>5, <1>6, <2>1, StepsAreThese

(* The flags, the calls under way and the ranks of what is finished agree  *)
(* (symbol.c, sym_check_deps and the functions it calls).                  *)
THEOREM DepsInvariant == DepSpec => []DepInv
<1>1. DepInit => DepInv
  BY InitDeps
<1>2. DepInv /\ [DepNext]_depvars => DepInv'
  BY StepDeps
<1> QED
  BY <1>1, <1>2, PTL DEF DepSpec

(* To come back by what one follows is impossible where ranks fall.        *)
LEMMA FoundAtTheEnd ==
    ASSUME DepInv, stack = << >>, toparse = {}, NEW s \in DepSyms, MustBeFound(s)
    PROVE  Knot(s)
<1> SUFFICES ASSUME ~Knot(s) PROVE FALSE
  OBVIOUS
<1>1. DepGraph /\ recursive \subseteq DepSyms
  BY DEF DepInv, DepTypes, DepGraph
<1>2. \A x \in DepSyms : Finished(x)
  BY DEF DepInv, StartInv
<1>3. PICK r, n : Ranks(r, n)
  BY DEF DepInv, RankInv
<1>4. /\ r \in [DepSyms -> Nat]
      /\ \A c \in DOMAIN DepChoices : \A v, w \in DepChoices[c] : r[v] = r[w]
      /\ \A x \in DepSyms : ~Knot(x) => \A d \in Follows[x] : Knot(d) \/ r[d] < r[x]
  BY <1>2, <1>3 DEF Ranks
<1>5. /\ Follows \in [DepSyms -> SUBSET DepSyms] /\ Follows[s] \in SUBSET DepSyms
      /\ \A x \in DepSyms : x \in Reached(x) /\ Reached(x) \in SUBSET DepSyms
      /\ \A x, y \in DepSyms : y \in Reached(x) => Reached(y) \subseteq Reached(x)
      /\ \A x \in DepSyms : Follows[x] \subseteq Reached(x)
  BY <1>1, Relations, ReachedFacts
<1>6. ASSUME NEW x \in DepSyms, x \in Reached(s), s \in Reached(x) PROVE ~Knot(x)
  <2> SUFFICES ASSUME Knot(x) PROVE FALSE
    OBVIOUS
  <2>1. PICK t \in recursive : x \in Reached(t) /\ t \in Reached(x)
    BY DEF Knot, SameKnot, Reached
  <2>2. s \in Reached(t) /\ t \in Reached(s)
    BY <1>1, <1>5, <1>6, <2>1
  <2> QED
    BY <2>1, <2>2 DEF Knot, SameKnot, Reached
<1> DEFINE T == {x \in Reached(s) : s \notin Reached(x) \/ r[x] < r[s]}
<1>7. T \in SUBSET DepSyms
  BY <1>5
<1>8. Follows[s] \subseteq T
  <2>1. ASSUME NEW d \in Follows[s], s \in Reached(d) PROVE r[d] < r[s]
    <3>1. d \in DepSyms /\ d \in Reached(s)
      BY <1>5
    <3>2. ~Knot(d)
      BY <1>6, <2>1, <3>1
    <3> QED
      BY <1>4, <3>2
  <2> QED
    BY <1>5, <2>1
<1>9. ASSUME NEW x \in T, NEW d \in Follows[x] PROVE d \in T
  <2>1. x \in DepSyms /\ x \in Reached(s) /\ d \in DepSyms /\ d \in Reached(x)
    BY <1>5
  <2>2. d \in Reached(s) /\ Reached(d) \subseteq Reached(x)
    BY <1>5, <2>1
  <2>3. ASSUME s \in Reached(d) PROVE r[d] < r[s]
    <3>1. s \in Reached(x) /\ r[x] < r[s]
      BY <2>2, <2>3
    <3>2. ~Knot(x) /\ ~Knot(d)
      BY <1>6, <2>1, <2>2, <2>3, <3>1
    <3>3. r[d] < r[x]
      BY <1>4, <2>1, <3>2
    <3> QED
      BY <1>4, <2>1, <3>1, <3>3
  <2> QED
    BY <2>2, <2>3
<1> HIDE DEF T
<1>10. From(Follows, Follows[s]) \subseteq T
  BY <1>5, <1>7, <1>8, <1>9, FromIsLeast
<1>11. PICK x \in Itself(s) : x \in T
  BY <1>10 DEF MustBeFound
<1>12. x \in Together(s) /\ r[x] = r[s]
  <2>1. CASE s \in DOMAIN DepChoices
    BY <2>1, TogetherIsOne DEF Itself
  <2>2. CASE Plain(s)
    BY <2>2, ChoiceFacts DEF Itself, Plain
  <2>3. CASE OwnChoice(s) # {}
    <3>1. PICK c \in DOMAIN DepChoices : s \in DepChoices[c]
      BY <2>3, ChoiceFacts
    <3>2. Together(s) = {c} \cup DepChoices[c] /\ s \notin DOMAIN DepChoices
      BY <3>1, ChoiceFacts
    <3>3. x \in DepChoices[c] /\ x \in Together(s)
      BY <3>2 DEF Itself
    <3> QED
      BY <1>4, <3>1, <3>3
  <2> QED
    BY <2>1, <2>2, <2>3 DEF Plain
<1>13. s \in Reached(x)
  BY <1>1, <1>12, ReachedFacts
<1> QED
  BY <1>4, <1>11, <1>12, <1>13 DEF T

(* Only recursions are printed, the stack holds them when they are, no     *)
(* flag is left at the end, and of each knot at least one was printed.     *)
THEOREM RecursionsFound == DepSpec => []RecursionsAreFound
<1>1. DepInv => RecursionsAreFound
  <2> SUFFICES ASSUME DepInv PROVE RecursionsAreFound
    OBVIOUS
  <2>1. ~unexpected /\ \A s \in recursive : Recursion(s)
    BY DEF DepInv, ReturnInv
  <2>2. ASSUME stack = << >>, toparse = {}
        PROVE  /\ check = {} /\ checked = DepSyms
               /\ \A s \in DepSyms : MustBeFound(s) => \E t \in recursive : SameKnot(s, t)
    <3>1. check = {}
      BY <2>2 DEF DepInv, HeldInv
    <3>2. checked = DepSyms
      BY <2>2 DEF DepInv, DepTypes, StartInv, Finished
    <3>3. \A s \in DepSyms : MustBeFound(s) => \E t \in recursive : SameKnot(s, t)
      BY <2>2, FoundAtTheEnd DEF Knot
    <3> QED
      BY <3>1, <3>2, <3>3
  <2> QED
    BY <2>1, <2>2 DEF RecursionsAreFound
<1> QED
  BY <1>1, DepsInvariant, PTL

-----------------------------------------------------------------------------
(* The terms of a dependency.  What the configurator makes of one term or  *)
(* of two has the value it had, for any symbols and any values of them.    *)

Symbols == BoolSyms \cup TriSyms \cup Consts
Environments == [BoolSyms -> {no, yes}] \X [TriSyms -> {no, mod, yes}]
Terms == {Sym(s) : s \in Symbols}
         \cup {<<op, s, t>> : op \in {"eq", "ne"}, s \in Symbols, t \in Symbols}
LeafForms == Terms \cup {<<"not", Sym(s)>> : s \in Symbols}
LeafValue(e, env) == IF e[1] = "not" THEN EXPR_NOT(TermValue(e[2], env)) ELSE TermValue(e, env)

(* Each symbol has a value, the constants theirs, and no boolean has m.    *)
LEMMA SymbolValues ==
    ASSUME NEW env \in Environments
    PROVE  /\ \A s \in Symbols : SymTri(env, s) \in {no, mod, yes}
           /\ SymTri(env, "n") = no /\ SymTri(env, "m") = mod /\ SymTri(env, "y") = yes
           /\ \A s \in BoolSyms : SymTri(env, s) # mod
<1>1. env[1] \in [BoolSyms -> {no, yes}] /\ env[2] \in [TriSyms -> {no, mod, yes}]
  BY DEF Environments
<1>2. SymTri(env, "n") = no /\ SymTri(env, "m") = mod /\ SymTri(env, "y") = yes
  BY TermsAssumption DEF SymTri, Consts
<1>3. ASSUME NEW s \in BoolSyms PROVE SymTri(env, s) \in {no, yes}
  <2>1. s \notin {"n", "m", "y"} /\ s \notin TriSyms
    BY TermsAssumption DEF Consts
  <2>2. SymTri(env, s) = env[1][s]
    BY <2>1 DEF SymTri
  <2> QED
    BY <1>1, <2>2
<1>4. ASSUME NEW s \in TriSyms PROVE SymTri(env, s) \in {no, mod, yes}
  <2>1. s \notin {"n", "m", "y"} /\ s \notin BoolSyms
    BY TermsAssumption DEF Consts
  <2>2. SymTri(env, s) = env[2][s]
    BY <2>1 DEF SymTri
  <2> QED
    BY <1>1, <2>2
<1> QED
  BY <1>2, <1>3, <1>4 DEF Symbols, Consts, no, mod, yes

(* What a comparison of two symbols comes to.                              *)
LEMMA TermValues ==
    ASSUME NEW env \in Environments, NEW s \in Symbols
    PROVE  /\ TermValue(Sym(s), env) = SymTri(env, s)
           /\ \A t \in Symbols :
                /\ TermValue(<<"eq", s, t>>, env) = IF SymTri(env, s) = SymTri(env, t) THEN yes ELSE no
                /\ TermValue(<<"ne", s, t>>, env) = IF SymTri(env, s) = SymTri(env, t) THEN no ELSE yes
<1>1. ASSUME NEW t \in Symbols
      PROVE  SymString(env, s) = SymString(env, t) <=> SymTri(env, s) = SymTri(env, t)
  <2>1. SymTri(env, s) \in {0, 1, 2} /\ SymTri(env, t) \in {0, 1, 2}
    BY SymbolValues DEF no, mod, yes
  <2>2. \A i, j \in {0, 1, 2} : <<"n", "m", "y">>[i + 1] = <<"n", "m", "y">>[j + 1] => i = j
    OBVIOUS
  <2> QED
    BY <2>1, <2>2 DEF SymString
<1>2. TermValue(Sym(s), env) = SymTri(env, s)
  BY DEF TermValue, Sym
<1>3. ASSUME NEW t \in Symbols
      PROVE  /\ TermValue(<<"eq", s, t>>, env) = IF SymTri(env, s) = SymTri(env, t) THEN yes ELSE no
             /\ TermValue(<<"ne", s, t>>, env) = IF SymTri(env, s) = SymTri(env, t) THEN no ELSE yes
  BY <1>1, <1>3 DEF TermValue
<1> QED
  BY <1>2, <1>3

(* The shapes of a leaf, with its value.                                   *)
Shape(e, s, v, env) ==
    \/ e = Sym(s) /\ v = SymTri(env, s)
    \/ e = <<"not", Sym(s)>> /\ v = 2 - SymTri(env, s)
    \/ \E t \in Symbols : e = <<"eq", s, t>> /\ v = IF SymTri(env, s) = SymTri(env, t) THEN yes ELSE no
    \/ \E t \in Symbols : e = <<"ne", s, t>> /\ v = IF SymTri(env, s) = SymTri(env, t) THEN no ELSE yes
LEMMA LeafShape ==
    ASSUME NEW env \in Environments, NEW e \in LeafForms
    PROVE  \E s \in Symbols : Shape(e, s, LeafValue(e, env), env)
<1>1. CASE \E s \in Symbols : e = Sym(s)
  <2>1. PICK s \in Symbols : e = Sym(s)
    BY <1>1
  <2>2. e[1] # "not"
    BY <2>1 DEF Sym
  <2> QED
    BY <2>1, <2>2, TermValues DEF Shape, LeafValue
<1>2. CASE \E s \in Symbols : e = <<"not", Sym(s)>>
  <2>1. PICK s \in Symbols : e = <<"not", Sym(s)>>
    BY <1>2
  <2>2. e[1] = "not" /\ e[2] = Sym(s)
    BY <2>1
  <2> QED
    BY <2>1, <2>2, TermValues DEF Shape, LeafValue, EXPR_NOT
<1>3. CASE \E op \in {"eq", "ne"}, s \in Symbols, t \in Symbols : e = <<op, s, t>>
  <2>1. PICK op \in {"eq", "ne"}, s \in Symbols, t \in Symbols : e = <<op, s, t>>
    BY <1>3
  <2>2. e[1] # "not"
    BY <2>1
  <2>3. LeafValue(e, env) = TermValue(e, env)
    BY <2>2 DEF LeafValue
  <2>4. CASE op = "eq"
    <3>1. LeafValue(e, env) = IF SymTri(env, s) = SymTri(env, t) THEN yes ELSE no
      BY <2>1, <2>3, <2>4, TermValues
    <3> QED
      BY <2>1, <2>4, <3>1 DEF Shape
  <2>5. CASE op = "ne"
    <3>1. LeafValue(e, env) = IF SymTri(env, s) = SymTri(env, t) THEN no ELSE yes
      BY <2>1, <2>3, <2>5, TermValues
    <3> QED
      BY <2>1, <2>5, <3>1 DEF Shape
  <2> QED
    BY <2>4, <2>5
<1> QED
  BY <1>1, <1>2, <1>3 DEF LeafForms, Terms

(* The value of a leaf of a given shape.                                   *)
LEMMA ShapeValue ==
    ASSUME NEW env \in Environments, NEW s \in Symbols
    PROVE  /\ LeafValue(Sym(s), env) = SymTri(env, s) /\ Sym(s) \in LeafForms
           /\ LeafValue(<<"not", Sym(s)>>, env) = 2 - SymTri(env, s) /\ <<"not", Sym(s)>> \in LeafForms
           /\ \A t \in Symbols :
                /\ LeafValue(<<"eq", s, t>>, env) = IF SymTri(env, s) = SymTri(env, t) THEN yes ELSE no
                /\ LeafValue(<<"ne", s, t>>, env) = IF SymTri(env, s) = SymTri(env, t) THEN no ELSE yes
                /\ <<"eq", s, t>> \in LeafForms /\ <<"ne", s, t>> \in LeafForms
<1>1. LeafValue(Sym(s), env) = SymTri(env, s)
  BY TermValues DEF LeafValue, Sym
<1>2. LeafValue(<<"not", Sym(s)>>, env) = 2 - SymTri(env, s)
  BY TermValues DEF LeafValue, EXPR_NOT
<1>3. ASSUME NEW t \in Symbols
      PROVE  /\ LeafValue(<<"eq", s, t>>, env) = IF SymTri(env, s) = SymTri(env, t) THEN yes ELSE no
             /\ LeafValue(<<"ne", s, t>>, env) = IF SymTri(env, s) = SymTri(env, t) THEN no ELSE yes
  BY TermValues DEF LeafValue
<1> QED
  BY <1>1, <1>2, <1>3 DEF LeafForms, Terms

(* Both leaves speak of the symbol JoinedSym finds.                        *)
LEMMA JoinedIs ==
    ASSUME NEW e \in LeafForms, NEW f \in LeafForms, NEW env \in Environments, JoinedSym(e, f) # ""
    PROVE  /\ JoinedSym(e, f) \in BoolSyms \cup TriSyms
           /\ Shape(e, JoinedSym(e, f), LeafValue(e, env), env)
           /\ Shape(f, JoinedSym(e, f), LeafValue(f, env), env)
<1>1. PICK s \in Symbols : Shape(e, s, LeafValue(e, env), env)
  BY LeafShape
<1>2. PICK t \in Symbols : Shape(f, t, LeafValue(f, env), env)
  BY LeafShape
<1>3. ASSUME NEW a, NEW r, Shape(a, r, LeafValue(a, env), env)
      PROVE  \/ a[1] # "not" /\ a[2] = r
             \/ a[1] = "not" /\ a[2][1] = "sym" /\ a[2][2] = r
  <2>1. CASE a = Sym(r)
    BY <2>1 DEF Sym
  <2>2. CASE a = <<"not", Sym(r)>>
    BY <2>2 DEF Sym
  <2>3. CASE \E u \in Symbols : a = <<"eq", r, u>>
    <3>1. PICK u \in Symbols : a = <<"eq", r, u>>
      BY <2>3
    <3>2. a[1] = "eq" /\ a[2] = r
      BY <3>1
    <3> QED
      BY <3>2
  <2>4. CASE \E u \in Symbols : a = <<"ne", r, u>>
    <3>1. PICK u \in Symbols : a = <<"ne", r, u>>
      BY <2>4
    <3>2. a[1] = "ne" /\ a[2] = r
      BY <3>1
    <3> QED
      BY <3>2
  <2> QED
    BY <1>3, <2>1, <2>2, <2>3, <2>4, Zenon DEF Shape
<1>4. s = IF e[1] = "not" THEN IF IsLeafForm(e[2]) THEN e[2][2] ELSE "" ELSE e[2]
  BY <1>1, <1>3 DEF IsLeafForm
<1>5. t = IF f[1] = "not" THEN IF f[2][1] = "sym" THEN f[2][2] ELSE "" ELSE f[2]
  BY <1>2, <1>3
<1>6. s = t /\ JoinedSym(e, f) = s /\ s \in BoolSyms \cup TriSyms
  BY <1>4, <1>5 DEF JoinedSym
<1> QED
  BY <1>1, <1>2, <1>6

(* A leaf that speaks of s, by its first word.                             *)
LEMMA ThirdOf ==
    ASSUME NEW env \in Environments, NEW e \in LeafForms, NEW s \in Symbols,
           Shape(e, s, LeafValue(e, env), env)
    PROVE  /\ e[1] \in {"sym", "not", "eq", "ne"}
           /\ e[1] = "sym" => e = Sym(s) /\ LeafValue(e, env) = SymTri(env, s)
           /\ e[1] = "not" => e = <<"not", Sym(s)>> /\ LeafValue(e, env) = 2 - SymTri(env, s)
           /\ e[1] = "eq" =>
                /\ e[3] \in Symbols /\ e = <<"eq", s, e[3]>>
                /\ LeafValue(e, env) = IF SymTri(env, s) = SymTri(env, e[3]) THEN yes ELSE no
           /\ e[1] = "ne" =>
                /\ e[3] \in Symbols /\ e = <<"ne", s, e[3]>>
                /\ LeafValue(e, env) = IF SymTri(env, s) = SymTri(env, e[3]) THEN no ELSE yes
<1>1. CASE e = Sym(s)
  <2>1. e[1] = "sym"
    BY <1>1 DEF Sym
  <2> QED
    BY <2>1, <1>1, ShapeValue
<1>2. CASE e = <<"not", Sym(s)>>
  <2>1. e[1] = "not"
    BY <1>2
  <2> QED
    BY <2>1, <1>2, ShapeValue
<1>3. CASE \E t \in Symbols : e = <<"eq", s, t>>
  <2>1. PICK t \in Symbols : e = <<"eq", s, t>>
    BY <1>3
  <2>2. e[1] = "eq" /\ e[3] = t
    BY <2>1
  <2> QED
    BY <2>1, <2>2, ShapeValue
<1>4. CASE \E t \in Symbols : e = <<"ne", s, t>>
  <2>1. PICK t \in Symbols : e = <<"ne", s, t>>
    BY <1>4
  <2>2. e[1] = "ne" /\ e[3] = t
    BY <2>1
  <2> QED
    BY <2>1, <2>2, ShapeValue
<1> QED
  BY <1>1, <1>2, <1>3, <1>4, Zenon DEF Shape

(* Two pairs are equal in one of two ways.                                 *)
LEMMA PairIs ==
    ASSUME NEW a, NEW b, NEW x, NEW y, {a, b} = {x, y}
    PROVE  (a = x /\ b = y) \/ (a = y /\ b = x)
<1>1. (a = x \/ a = y) /\ (b = x \/ b = y) /\ (x = a \/ x = b) /\ (y = a \/ y = b)
  BY Zenon
<1> QED
  BY <1>1

(* Where expr_join_or (expr.c:346) puts one leaf in the place of two, its  *)
(* value is that of the two under ||, m included.                          *)
THEOREM OrJoinKeepsValue ==
    ASSUME NEW env \in Environments, NEW e \in LeafForms, NEW f \in LeafForms,
           OneSymOr(e, f, JoinedSym(e, f)) # None
    PROVE  /\ OneSymOr(e, f, JoinedSym(e, f)) \in LeafForms
           /\ LeafValue(OneSymOr(e, f, JoinedSym(e, f)), env)
                = EXPR_OR(LeafValue(e, env), LeafValue(f, env))
<1>1. PICK s : s = JoinedSym(e, f)
  OBVIOUS
<1>2. s \in BoolSyms \/ s \in TriSyms
  BY <1>1 DEF OneSymOr
<1>3. /\ s \in Symbols /\ Shape(e, s, LeafValue(e, env), env) /\ Shape(f, s, LeafValue(f, env), env)
  <2>1. s # ""
    BY <1>2, TermsAssumption
  <2> QED
    BY <1>1, <1>2, <2>1, JoinedIs DEF Symbols
<1>4. /\ SymTri(env, s) \in {0, 1, 2} /\ (s \in BoolSyms => SymTri(env, s) # 1)
      /\ SymTri(env, "n") = 0 /\ SymTri(env, "m") = 1 /\ SymTri(env, "y") = 2
      /\ {"n", "m", "y"} \subseteq Symbols
  BY <1>3, SymbolValues DEF no, mod, yes, Symbols, Consts
<1>5. \A t \in Symbols :
         /\ LeafValue(<<"ne", s, t>>, env) = IF SymTri(env, s) = SymTri(env, t) THEN 0 ELSE 2
         /\ <<"ne", s, t>> \in LeafForms
  BY <1>3, ShapeValue DEF no, yes
<1>6. /\ e[1] = "eq" => LeafValue(e, env) = IF SymTri(env, s) = SymTri(env, e[3]) THEN 2 ELSE 0
      /\ f[1] = "eq" => LeafValue(f, env) = IF SymTri(env, s) = SymTri(env, f[3]) THEN 2 ELSE 0
  BY <1>3, ThirdOf DEF no, yes
<1>7. ASSUME NEW x \in {"n", "m", "y"}, NEW y \in {"n", "m", "y"}, NEW z \in {"n", "m", "y"},
             x # y, x # z, y # z, BothEq(e, f, {x, y})
      PROVE  /\ <<"ne", s, z>> \in LeafForms
             /\ LeafValue(<<"ne", s, z>>, env) = EXPR_OR(LeafValue(e, env), LeafValue(f, env))
  <2>1. e[1] = "eq" /\ f[1] = "eq" /\ ((e[3] = x /\ f[3] = y) \/ (e[3] = y /\ f[3] = x))
    BY <1>7, PairIs, Zenon DEF BothEq
  <2>2. /\ <<"ne", s, z>> \in LeafForms
        /\ LeafValue(<<"ne", s, z>>, env) = IF SymTri(env, s) = SymTri(env, z) THEN 0 ELSE 2
    BY <1>4, <1>5
  <2>3. LeafValue(e, env) = 2 \/ LeafValue(f, env) = 2 <=> SymTri(env, s) # SymTri(env, z)
    BY <2>1, <1>4, <1>6, <1>7
  <2>4. LeafValue(e, env) \in {0, 2} /\ LeafValue(f, env) \in {0, 2}
    BY <2>1, <1>6
  <2> QED
    BY <2>2, <2>3, <2>4 DEF EXPR_OR
<1>8. CASE s \in TriSyms /\ BothEq(e, f, {"y", "m"})
  <2>1. OneSymOr(e, f, s) = <<"ne", s, "n">>
    BY <1>8, TermsAssumption DEF OneSymOr, BothEq
  <2> QED
    BY <1>1, <1>8, <2>1, <1>7
<1>9. CASE s \in TriSyms /\ BothEq(e, f, {"y", "n"})
  <2>1. OneSymOr(e, f, s) = <<"ne", s, "m">>
    BY <1>9, TermsAssumption DEF OneSymOr, BothEq
  <2> QED
    BY <1>1, <1>9, <2>1, <1>7
<1>10. CASE s \in TriSyms /\ BothEq(e, f, {"m", "n"})
  <2>1. OneSymOr(e, f, s) = <<"ne", s, "y">>
    BY <1>10, TermsAssumption DEF OneSymOr, BothEq
  <2> QED
    BY <1>1, <1>10, <2>1, <1>7
<1>11. CASE s \in BoolSyms /\ (e = <<"not", f>> \/ f = <<"not", e>>) /\ "sym" \in {e[1], f[1]}
  <2>1. s \notin TriSyms
    BY <1>11, TermsAssumption
  <2>2. OneSymOr(e, f, s) = Yes
    BY <1>11, <2>1 DEF OneSymOr
  <2>3. Yes \in LeafForms /\ LeafValue(Yes, env) = 2
    BY <1>4, ShapeValue DEF Yes
  <2>4. e[1] = "not" \/ f[1] = "not"
    BY <1>11
  <2>5. /\ LeafValue(e, env) \in {0, 2} /\ LeafValue(f, env) \in {0, 2}
        /\ LeafValue(e, env) = 2 - LeafValue(f, env)
    <3>1. SymTri(env, s) \in {0, 2}
      BY <1>4, <1>11
    <3>2. CASE e[1] = "sym" /\ f[1] = "not"
      BY <3>1, <3>2, <1>3, ThirdOf
    <3>3. CASE e[1] = "not" /\ f[1] = "sym"
      BY <3>1, <3>3, <1>3, ThirdOf
    <3> QED
      BY <3>2, <3>3, <2>4, <1>11
  <2> QED
    BY <1>1, <2>2, <2>3, <2>5 DEF EXPR_OR
<1> QED
  <2>1. \/ s \in TriSyms /\ BothEq(e, f, {"y", "m"})
        \/ s \in TriSyms /\ BothEq(e, f, {"y", "n"})
        \/ s \in TriSyms /\ BothEq(e, f, {"m", "n"})
        \/ s \in BoolSyms /\ (e = <<"not", f>> \/ f = <<"not", e>>) /\ "sym" \in {e[1], f[1]}
    BY <1>1 DEF OneSymOr
  <2> QED
    BY <2>1, <1>8, <1>9, <1>10, <1>11

(* The same of expr_join_and (expr.c:410) and &&.                          *)
THEOREM AndJoinKeepsValue ==
    ASSUME NEW env \in Environments, NEW e \in LeafForms, NEW f \in LeafForms,
           OneSymAnd(e, f, JoinedSym(e, f)) # None
    PROVE  /\ OneSymAnd(e, f, JoinedSym(e, f)) \in LeafForms
           /\ LeafValue(OneSymAnd(e, f, JoinedSym(e, f)), env)
                = EXPR_AND(LeafValue(e, env), LeafValue(f, env))
<1>1. PICK s : s = JoinedSym(e, f)
  OBVIOUS
<1>2. s # ""
  BY <1>1, TermsAssumption DEF OneSymAnd
<1>3. /\ s \in Symbols /\ Shape(e, s, LeafValue(e, env), env) /\ Shape(f, s, LeafValue(f, env), env)
  BY <1>1, <1>2, JoinedIs DEF Symbols
<1>4. /\ SymTri(env, s) \in {0, 1, 2}
      /\ SymTri(env, "n") = 0 /\ SymTri(env, "m") = 1 /\ SymTri(env, "y") = 2
      /\ {"n", "m", "y"} \subseteq Symbols
  BY <1>3, SymbolValues DEF no, mod, yes, Symbols, Consts
<1>5. /\ Sym(s) \in LeafForms /\ LeafValue(Sym(s), env) = SymTri(env, s)
      /\ \A t \in Symbols :
           /\ LeafValue(<<"eq", s, t>>, env) = IF SymTri(env, s) = SymTri(env, t) THEN 2 ELSE 0
           /\ <<"eq", s, t>> \in LeafForms
  BY <1>3, ShapeValue DEF no, yes
<1>6. \A g \in {e, f} :
         /\ g[1] = "sym" => LeafValue(g, env) = SymTri(env, s)
         /\ g[1] = "eq" => LeafValue(g, env) = IF SymTri(env, s) = SymTri(env, g[3]) THEN 2 ELSE 0
         /\ g[1] = "ne" => LeafValue(g, env) = IF SymTri(env, s) = SymTri(env, g[3]) THEN 0 ELSE 2
  BY <1>3, ThirdOf DEF no, yes
<1>7. ASSUME NEW x \in {"n", "m", "y"}, NEW y \in {"n", "m", "y"}, NEW z \in {"n", "m", "y"},
             x # y, x # z, y # z, BothNe(e, f, {x, y})
      PROVE  /\ <<"eq", s, z>> \in LeafForms
             /\ LeafValue(<<"eq", s, z>>, env) = EXPR_AND(LeafValue(e, env), LeafValue(f, env))
  <2>1. e[1] = "ne" /\ f[1] = "ne" /\ ((e[3] = x /\ f[3] = y) \/ (e[3] = y /\ f[3] = x))
    BY <1>7, PairIs, Zenon DEF BothNe
  <2>2. /\ <<"eq", s, z>> \in LeafForms
        /\ LeafValue(<<"eq", s, z>>, env) = IF SymTri(env, s) = SymTri(env, z) THEN 2 ELSE 0
    BY <1>4, <1>5
  <2>3. LeafValue(e, env) = 2 /\ LeafValue(f, env) = 2 <=> SymTri(env, s) = SymTri(env, z)
    BY <2>1, <1>4, <1>6, <1>7
  <2>4. LeafValue(e, env) \in {0, 2} /\ LeafValue(f, env) \in {0, 2}
    BY <2>1, <1>6
  <2> QED
    BY <2>2, <2>3, <2>4 DEF EXPR_AND
<1>8. CASE With(e, f, "eq", "y")
  <2>1. OneSymAnd(e, f, s) = <<"eq", s, "y">>
    BY <1>2, <1>8 DEF OneSymAnd, With, BothEq, BothNe
  <2>2. /\ <<"eq", s, "y">> \in LeafForms
        /\ LeafValue(<<"eq", s, "y">>, env) = EXPR_AND(LeafValue(e, env), LeafValue(f, env))
    <3>1. \/ e[1] = "sym" /\ f[1] = "eq" /\ f[3] = "y"
          \/ f[1] = "sym" /\ e[1] = "eq" /\ e[3] = "y"
      BY <1>8 DEF With
    <3> QED
      BY <3>1, <1>4, <1>5, <1>6 DEF EXPR_AND
  <2> QED
    BY <1>1, <2>1, <2>2
<1>9. CASE With(e, f, "ne", "n")
  <2>1. OneSymAnd(e, f, s) = Sym(s)
    BY <1>2, <1>9 DEF OneSymAnd, With, BothEq, BothNe
  <2>2. /\ Sym(s) \in LeafForms
        /\ LeafValue(Sym(s), env) = EXPR_AND(LeafValue(e, env), LeafValue(f, env))
    <3>1. \/ e[1] = "sym" /\ f[1] = "ne" /\ f[3] = "n"
          \/ f[1] = "sym" /\ e[1] = "ne" /\ e[3] = "n"
      BY <1>9 DEF With
    <3> QED
      BY <3>1, <1>4, <1>5, <1>6 DEF EXPR_AND
  <2> QED
    BY <1>1, <2>1, <2>2
<1>10. CASE With(e, f, "ne", "m")
  <2>1. OneSymAnd(e, f, s) = <<"eq", s, "y">>
    BY <1>2, <1>10 DEF OneSymAnd, With, BothEq, BothNe
  <2>2. /\ <<"eq", s, "y">> \in LeafForms
        /\ LeafValue(<<"eq", s, "y">>, env) = EXPR_AND(LeafValue(e, env), LeafValue(f, env))
    <3>1. \/ e[1] = "sym" /\ f[1] = "ne" /\ f[3] = "m"
          \/ f[1] = "sym" /\ e[1] = "ne" /\ e[3] = "m"
      BY <1>10 DEF With
    <3> QED
      BY <3>1, <1>4, <1>5, <1>6 DEF EXPR_AND
  <2> QED
    BY <1>1, <2>1, <2>2
<1>11. CASE s \in TriSyms /\ e[1] = "eq" /\ f[1] = "ne" /\ {e[3], f[3]} \subseteq Consts
  <2>1. OneSymAnd(e, f, s) = IF e[3] # f[3] THEN e ELSE No
    BY <1>2, <1>11 DEF OneSymAnd, With, BothEq, BothNe
  <2>2. No \in LeafForms /\ LeafValue(No, env) = 0
    BY <1>4, ShapeValue DEF No
  <2>3. e[3] \in {"n", "m", "y"} /\ f[3] \in {"n", "m", "y"}
    BY <1>11 DEF Consts
  <2>4. EXPR_AND(LeafValue(e, env), LeafValue(f, env)) = IF e[3] # f[3] THEN LeafValue(e, env) ELSE 0
    BY <1>11, <2>3, <1>4, <1>6 DEF EXPR_AND
  <2> QED
    BY <1>1, <2>1, <2>2, <2>4
<1>12. CASE s \in TriSyms /\ e[1] = "ne" /\ f[1] = "eq" /\ {e[3], f[3]} \subseteq Consts
  <2>1. OneSymAnd(e, f, s) = IF e[3] # f[3] THEN f ELSE No
    BY <1>2, <1>12 DEF OneSymAnd, With, BothEq, BothNe
  <2>2. No \in LeafForms /\ LeafValue(No, env) = 0
    BY <1>4, ShapeValue DEF No
  <2>3. e[3] \in {"n", "m", "y"} /\ f[3] \in {"n", "m", "y"}
    BY <1>12 DEF Consts
  <2>4. EXPR_AND(LeafValue(e, env), LeafValue(f, env)) = IF e[3] # f[3] THEN LeafValue(f, env) ELSE 0
    BY <1>12, <2>3, <1>4, <1>6 DEF EXPR_AND
  <2> QED
    BY <1>1, <2>1, <2>2, <2>4
<1>13. CASE s \in TriSyms /\ BothNe(e, f, {"y", "n"})
  <2>1. OneSymAnd(e, f, s) = <<"eq", s, "m">>
    BY <1>2, <1>13 DEF OneSymAnd, With, BothEq, BothNe
  <2> QED
    BY <1>1, <1>13, <2>1, <1>7
<1>14. CASE s \in TriSyms /\ BothNe(e, f, {"y", "m"})
  <2>1. OneSymAnd(e, f, s) = <<"eq", s, "n">>
    BY <1>2, <1>14 DEF OneSymAnd, With, BothEq, BothNe
  <2> QED
    BY <1>1, <1>14, <2>1, <1>7
<1>15. CASE s \in TriSyms /\ BothNe(e, f, {"m", "n"})
  <2>1. OneSymAnd(e, f, s) = <<"eq", s, "y">>
    BY <1>2, <1>15 DEF OneSymAnd, With, BothEq, BothNe
  <2> QED
    BY <1>1, <1>15, <2>1, <1>7
<1> QED
  <2>1. \/ With(e, f, "eq", "y") \/ With(e, f, "ne", "n") \/ With(e, f, "ne", "m")
        \/ s \in TriSyms /\ e[1] = "eq" /\ f[1] = "ne" /\ {e[3], f[3]} \subseteq Consts
        \/ s \in TriSyms /\ e[1] = "ne" /\ f[1] = "eq" /\ {e[3], f[3]} \subseteq Consts
        \/ s \in TriSyms /\ BothNe(e, f, {"y", "n"})
        \/ s \in TriSyms /\ BothNe(e, f, {"y", "m"})
        \/ s \in TriSyms /\ BothNe(e, f, {"m", "n"})
    BY <1>1 DEF OneSymAnd
  <2> QED
    BY <2>1, <1>8, <1>9, <1>10, <1>11, <1>12, <1>13, <1>14, <1>15

(* What expr_transform makes of a comparison and of the negation of a term *)
(* has their value (expr.c:654, :708); FOO in the place of FOO!=n          *)
(* (expr.c:329) is n when that is; and the comparison expr_trans_compare   *)
(* builds (expr.c:909) is that of the value.                               *)
THEOREM TermsKeepValue ==
    ASSUME NEW env \in Environments, NEW e \in Terms
    PROVE  /\ e[1] # "sym" => AsBool(e) \in LeafForms /\ LeafValue(AsBool(e), env) = TermValue(e, env)
           /\ NotTerm(e) \in LeafForms /\ LeafValue(NotTerm(e), env) = EXPR_NOT(TermValue(e, env))
           /\ NotN(e) \in Terms /\ (TermValue(NotN(e), env) = no <=> TermValue(e, env) = no)
           /\ \A c \in {"n", "y"} :
                /\ Compared(e, "eq", c) \in {e, <<"not", e>>} \cup Terms
                /\ LeafValue(Compared(e, "eq", c), env)
                     = IF TermValue(e, env) = SymTri(env, c) THEN yes ELSE no
                /\ LeafValue(Compared(e, "ne", c), env)
                     = IF TermValue(e, env) = SymTri(env, c) THEN no ELSE yes
<1>1. /\ SymTri(env, "n") = 0 /\ SymTri(env, "m") = 1 /\ SymTri(env, "y") = 2
      /\ {"n", "m", "y"} \subseteq Symbols /\ no = 0 /\ mod = 1 /\ yes = 2
      /\ \A s \in Symbols : SymTri(env, s) \in {0, 1, 2}
      /\ \A s \in BoolSyms : SymTri(env, s) # 1
  BY SymbolValues DEF no, mod, yes, Symbols, Consts
<1>2. /\ Yes \in LeafForms /\ LeafValue(Yes, env) = 2 /\ No \in LeafForms /\ LeafValue(No, env) = 0
      /\ Sym("m") \in LeafForms /\ LeafValue(Sym("m"), env) = 1
  BY <1>1, ShapeValue DEF Yes, No
<1>3. CASE \E s \in Symbols : e = Sym(s)
  <2>1. PICK s \in Symbols : e = Sym(s)
    BY <1>3
  <2>2. e[1] = "sym" /\ e[2] = s /\ TermValue(e, env) = SymTri(env, s)
    BY <2>1, TermValues DEF Sym
  <2>3. NotTerm(e) \in LeafForms /\ LeafValue(NotTerm(e), env) = EXPR_NOT(TermValue(e, env))
    <3>1. CASE e = Yes
      <4>1. NotTerm(e) = No /\ s = "y"
        BY <3>1, <2>1, <2>2 DEF NotTerm, Yes, No, Sym
      <4> QED
        BY <4>1, <1>1, <1>2, <2>2 DEF EXPR_NOT
    <3>2. CASE e = Sym("m")
      <4>1. NotTerm(e) = Sym("m") /\ s = "m"
        BY <3>2, <2>1, <2>2 DEF NotTerm, Yes, No, Sym
      <4> QED
        BY <4>1, <1>1, <1>2, <2>2 DEF EXPR_NOT
    <3>3. CASE e = No
      <4>1. NotTerm(e) = Yes /\ s = "n"
        BY <3>3, <2>1, <2>2 DEF NotTerm, Yes, No, Sym
      <4> QED
        BY <4>1, <1>1, <1>2, <2>2 DEF EXPR_NOT
    <3>4. CASE e \notin {Yes, Sym("m"), No}
      <4>1. NotTerm(e) = <<"not", Sym(s)>>
        BY <3>4, <2>1, <2>2 DEF NotTerm
      <4> QED
        BY <4>1, <2>2, ShapeValue DEF EXPR_NOT
    <3> QED
      BY <3>1, <3>2, <3>3, <3>4
  <2>4. NotN(e) = e
    BY <2>2 DEF NotN
  <2>5. ASSUME NEW c \in {"n", "y"}
        PROVE  /\ Compared(e, "eq", c) \in Terms
               /\ LeafValue(Compared(e, "eq", c), env)
                     = IF TermValue(e, env) = SymTri(env, c) THEN yes ELSE no
               /\ LeafValue(Compared(e, "ne", c), env)
                     = IF TermValue(e, env) = SymTri(env, c) THEN no ELSE yes
    <3>1. Compared(e, "eq", c) = <<"eq", s, c>> /\ Compared(e, "ne", c) = <<"ne", s, c>>
      BY <2>2 DEF Compared
    <3>2. c \in Symbols
      BY <1>1
    <3>3. <<"eq", s, c>> \in Terms
      BY <3>2 DEF Terms
    <3>4. /\ LeafValue(<<"eq", s, c>>, env) = IF SymTri(env, s) = SymTri(env, c) THEN yes ELSE no
          /\ LeafValue(<<"ne", s, c>>, env) = IF SymTri(env, s) = SymTri(env, c) THEN no ELSE yes
      BY <3>2, ShapeValue
    <3> QED
      BY <3>1, <3>3, <3>4, <2>2
  <2> QED
    BY <2>2, <2>3, <2>4, <2>5
<1>4. CASE \E op \in {"eq", "ne"}, s \in Symbols, t \in Symbols : e = <<op, s, t>>
  <2>1. PICK op \in {"eq", "ne"}, s \in Symbols, t \in Symbols : e = <<op, s, t>>
    BY <1>4
  <2>2. e[1] = op /\ e[2] = s /\ e[3] = t
    BY <2>1
  <2>3. TermValue(e, env) = IF op = "eq" THEN IF SymTri(env, s) = SymTri(env, t) THEN 2 ELSE 0
                            ELSE IF SymTri(env, s) = SymTri(env, t) THEN 0 ELSE 2
    <3>1. CASE op = "eq"
      BY <3>1, <2>1, TermValues DEF no, yes
    <3>2. CASE op = "ne"
      BY <3>2, <2>1, TermValues DEF no, yes
    <3> QED
      BY <3>1, <3>2
  <2>4. AsBool(e) \in LeafForms /\ LeafValue(AsBool(e), env) = TermValue(e, env)
    <3>1. CASE s \notin BoolSyms \/ t \notin Consts
      <4>1. AsBool(e) = e
        BY <3>1, <2>2 DEF AsBool
      <4>2. LeafValue(e, env) = TermValue(e, env)
        BY <2>2 DEF LeafValue
      <4> QED
        BY <4>1, <4>2 DEF LeafForms
    <3>2. CASE s \in BoolSyms /\ t = "m"
      <4>1. AsBool(e) = IF op = "eq" THEN No ELSE Yes
        BY <3>2, <2>2 DEF AsBool, Consts
      <4> QED
        BY <4>1, <3>2, <2>3, <1>1, <1>2
    <3>3. CASE s \in BoolSyms /\ t = "n"
      <4>1. AsBool(e) = IF op = "eq" THEN <<"not", Sym(s)>> ELSE Sym(s)
        BY <3>3, <2>2 DEF AsBool, Consts
      <4> QED
        BY <4>1, <3>3, <2>3, <1>1, ShapeValue
    <3>4. CASE s \in BoolSyms /\ t = "y"
      <4>1. AsBool(e) = IF op = "eq" THEN Sym(s) ELSE <<"not", Sym(s)>>
        BY <3>4, <2>2 DEF AsBool, Consts
      <4> QED
        BY <4>1, <3>4, <2>3, <1>1, ShapeValue
    <3> QED
      BY <3>1, <3>2, <3>3, <3>4 DEF Consts
  <2>5. NotTerm(e) \in LeafForms /\ LeafValue(NotTerm(e), env) = EXPR_NOT(TermValue(e, env))
    <3>1. NotTerm(e) = IF op = "eq" THEN <<"ne", s, t>> ELSE <<"eq", s, t>>
      BY <2>2 DEF NotTerm, Yes, No, Sym
    <3>2. CASE op = "eq"
      <4>1. NotTerm(e) = <<"ne", s, t>> /\ NotTerm(e) \in LeafForms
        BY <3>1, <3>2, ShapeValue
      <4>2. LeafValue(<<"ne", s, t>>, env) = IF SymTri(env, s) = SymTri(env, t) THEN 0 ELSE 2
        BY ShapeValue DEF no, yes
      <4>3. TermValue(e, env) = IF SymTri(env, s) = SymTri(env, t) THEN 2 ELSE 0
        BY <3>2, <2>3
      <4> QED
        BY <4>1, <4>2, <4>3 DEF EXPR_NOT
    <3>3. CASE op = "ne"
      <4>1. NotTerm(e) = <<"eq", s, t>> /\ NotTerm(e) \in LeafForms
        BY <3>1, <3>3, ShapeValue
      <4>2. LeafValue(<<"eq", s, t>>, env) = IF SymTri(env, s) = SymTri(env, t) THEN 2 ELSE 0
        BY ShapeValue DEF no, yes
      <4>3. TermValue(e, env) = IF SymTri(env, s) = SymTri(env, t) THEN 0 ELSE 2
        BY <3>3, <2>3
      <4> QED
        BY <4>1, <4>2, <4>3 DEF EXPR_NOT
    <3> QED
      BY <3>2, <3>3
  <2>6. NotN(e) \in Terms /\ (TermValue(NotN(e), env) = no <=> TermValue(e, env) = no)
    <3>1. CASE op = "ne" /\ s \in TriSyms /\ t = "n"
      <4>1. NotN(e) = Sym(s)
        BY <3>1, <2>2 DEF NotN
      <4>2. TermValue(Sym(s), env) = SymTri(env, s) /\ Sym(s) \in Terms
        BY TermValues DEF Terms
      <4> QED
        BY <4>1, <4>2, <3>1, <2>3, <1>1
    <3>2. CASE ~(op = "ne" /\ s \in TriSyms /\ t = "n")
      BY <3>2, <2>2 DEF NotN
    <3> QED
      BY <3>1, <3>2
  <2>7. ASSUME NEW c \in {"n", "y"}
        PROVE  /\ Compared(e, "eq", c) \in {e, <<"not", e>>}
               /\ LeafValue(Compared(e, "eq", c), env)
                     = IF TermValue(e, env) = SymTri(env, c) THEN yes ELSE no
               /\ LeafValue(Compared(e, "ne", c), env)
                     = IF TermValue(e, env) = SymTri(env, c) THEN no ELSE yes
    <3>1. /\ Compared(e, "eq", c) = IF c = "y" THEN e ELSE <<"not", e>>
          /\ Compared(e, "ne", c) = IF c = "y" THEN <<"not", e>> ELSE e
      BY <2>2 DEF Compared
    <3>2. LeafValue(e, env) = TermValue(e, env) /\ LeafValue(<<"not", e>>, env) = 2 - TermValue(e, env)
      BY <2>2 DEF LeafValue, EXPR_NOT
    <3>3. TermValue(e, env) \in {0, 2}
      BY <2>3
    <3> QED
      BY <3>1, <3>2, <3>3, <1>1
  <2> QED
    BY <2>4, <2>5, <2>6, <2>7
<1> QED
  <2>1. \/ \E s \in Symbols : e = Sym(s)
        \/ \E op \in {"eq", "ne"}, s \in Symbols, t \in Symbols : e = <<op, s, t>>
    BY DEF Terms
  <2> QED
    BY <2>1, <1>3, <1>4, Zenon

(* What keeps a definite value of a part keeps that of the whole, and one  *)
(* after the other does; so does the rule that is none for m (expr.c:577). *)
KeepsDefinite(v, w) == v # mod => w = v
LEMMA DefiniteThroughout ==
    ASSUME NEW a \in no..yes, NEW b \in no..yes, NEW c \in no..yes, NEW d \in no..yes,
           KeepsDefinite(a, c), KeepsDefinite(b, d)
    PROVE  /\ KeepsDefinite(EXPR_AND(a, b), EXPR_AND(c, d))
           /\ KeepsDefinite(EXPR_OR(a, b), EXPR_OR(c, d))
           /\ KeepsDefinite(EXPR_NOT(a), EXPR_NOT(c))
           /\ b = c => KeepsDefinite(a, d)
           /\ KeepsDefinite(EXPR_AND(EXPR_OR(a, b), EXPR_AND(EXPR_NOT(a), EXPR_NOT(b))), no)
           /\ KeepsDefinite(EXPR_OR(EXPR_AND(a, b), EXPR_OR(EXPR_NOT(a), EXPR_NOT(b))), yes)
<1>1. /\ a \in {0, 1, 2} /\ b \in {0, 1, 2} /\ c \in {0, 1, 2} /\ d \in {0, 1, 2}
      /\ (a # 1 => c = a) /\ (b # 1 => d = b)
  BY DEF KeepsDefinite, no, mod, yes
<1>2. KeepsDefinite(EXPR_AND(a, b), EXPR_AND(c, d))
  BY <1>1 DEF KeepsDefinite, EXPR_AND, mod
<1>3. KeepsDefinite(EXPR_OR(a, b), EXPR_OR(c, d))
  BY <1>1 DEF KeepsDefinite, EXPR_OR, mod
<1>4. KeepsDefinite(EXPR_NOT(a), EXPR_NOT(c)) /\ (b = c => KeepsDefinite(a, d))
  BY <1>1 DEF KeepsDefinite, EXPR_NOT, mod
<1>5. KeepsDefinite(EXPR_AND(EXPR_OR(a, b), EXPR_AND(EXPR_NOT(a), EXPR_NOT(b))), no)
  BY <1>1 DEF KeepsDefinite, EXPR_AND, EXPR_OR, EXPR_NOT, no, mod
<1>6. KeepsDefinite(EXPR_OR(EXPR_AND(a, b), EXPR_OR(EXPR_NOT(a), EXPR_NOT(b))), yes)
  BY <1>1 DEF KeepsDefinite, EXPR_AND, EXPR_OR, EXPR_NOT, mod, yes
<1> QED
  BY <1>2, <1>3, <1>4, <1>5, <1>6
=============================================================================
