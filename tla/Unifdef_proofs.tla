--------------------------- MODULE Unifdef_proofs ----------------------------
(***************************************************************************)
(* The output of unifdef is the input to any compiler, as long as no       *)
(* comment loses its start: what the program decides of a condition is     *)
(* right whatever the unknown symbol is, and the groups of the output      *)
(* follow those of the input.  For any symbols and conditions, however     *)
(* deep, and any file.                                                     *)
(***************************************************************************)
EXTENDS Unifdef, WellFoundedInduction, TLAPS

-----------------------------------------------------------------------------
(* Induction, and functions defined by recursion *)

LEMMA Least ==
    ASSUME NEW S \in SUBSET Nat, S # {}
    PROVE  \E n \in S : \A m \in S : n <= m
<1>1. PICK n \in S : \A m \in S : ~(<<m, n>> \in OpToRel(<, Nat))
  BY WFMin, NatLessThanWellFounded, Zenon
<1>2. \A m \in S : ~(m < n)
  BY <1>1 DEF OpToRel
<1>3. QED
  BY <1>2

LEMMA SetInduction ==
    ASSUME NEW S \in SUBSET Nat, 0 \in S, \A n \in S : n + 1 \in S
    PROVE  S = Nat
<1>1. SUFFICES ASSUME Nat \ S # {} PROVE FALSE
  OBVIOUS
<1>2. PICK n \in Nat \ S : \A m \in Nat \ S : n <= m
  BY <1>1, Least
<1>3. n # 0 /\ n - 1 \in Nat /\ n - 1 \in S
  BY <1>2
<1>4. QED
  BY <1>3, <1>2

(* A function on S whose value at e is H of its values at the elements of  *)
(* lower rank.                                                             *)
IsRecursion(S, V, rank, H) ==
    /\ V # {} /\ rank \in [S -> Nat] /\ H \in [[S -> V] \X S -> V]
    /\ \A f, g \in [S -> V], e \in S :
          (\A d \in S : rank[d] < rank[e] => f[d] = g[d]) => H[<<f, e>>] = H[<<g, e>>]

LEMMA RecursiveFunction ==
    ASSUME NEW S, NEW V, NEW rank, NEW H, IsRecursion(S, V, rank, H)
    PROVE  \E f \in [S -> V] : \A e \in S : f[e] = H[<<f, e>>]
<1> USE DEF IsRecursion
<1> DEFINE Upto(f, n) == \A e \in S : rank[e] < n => f[e] = H[<<f, e>>]
           Reached == {n \in Nat : \E f \in [S -> V] : Upto(f, n)}
<1>1. Reached = Nat
  <2>1. 0 \in Reached
    <3>1. PICK v \in V : TRUE
      OBVIOUS
    <3>2. [e \in S |-> v] \in [S -> V] /\ Upto([e \in S |-> v], 0)
      BY <3>1
    <3>3. QED
      BY <3>2
  <2>2. ASSUME NEW n \in Reached PROVE n + 1 \in Reached
    <3>1. PICK f \in [S -> V] : Upto(f, n)
      OBVIOUS
    <3> DEFINE g == [e \in S |-> H[<<f, e>>]]
    <3>2. g \in [S -> V]
      OBVIOUS
    <3>3. ASSUME NEW e \in S, rank[e] < n + 1 PROVE g[e] = H[<<g, e>>]
      <4>1. \A d \in S : rank[d] < rank[e] => g[d] = f[d]
        BY <3>1, <3>3
      <4>2. H[<<g, e>>] = H[<<f, e>>]
        BY <3>2, <4>1
      <4>3. QED
        BY <4>2
    <3>4. n \in Nat
      OBVIOUS
    <3>5. Upto(g, n + 1)
      <4> HIDE DEF g
      <4>1. QED
        BY <3>3
    <3>6. \E h \in [S -> V] : Upto(h, n + 1)
      <4> HIDE DEF g, Upto
      <4>1. QED
        BY <3>2, <3>5
    <3>7. QED
      <4> HIDE DEF Upto
      <4>1. QED
        BY <3>4, <3>6
  <2>3. QED
    <3> HIDE DEF Reached
    <3>1. Reached \in SUBSET Nat
      BY DEF Reached
    <3>2. QED
      BY <2>1, <2>2, <3>1, SetInduction
<1> DEFINE F == [n \in Nat |-> CHOOSE f \in [S -> V] : Upto(f, n)]
<1>2. ASSUME NEW n \in Nat PROVE F[n] \in [S -> V] /\ Upto(F[n], n)
  <2>1. \E f \in [S -> V] : Upto(f, n)
    BY <1>1
  <2> HIDE DEF Upto
  <2>2. QED
    BY <2>1
<1> HIDE DEF F
<1>3. ASSUME NEW n \in Nat, NEW m \in Nat, NEW e \in S, rank[e] < n, rank[e] < m
      PROVE  F[n][e] = F[m][e]
  <2> DEFINE Bad == {k \in Nat : \E d \in S : rank[d] = k /\ k < n /\ k < m /\ F[n][d] # F[m][d]}
  <2>1. SUFFICES ASSUME Bad # {} PROVE FALSE
    BY <1>3
  <2>2. PICK k \in Bad : \A j \in Bad : k <= j
    <3>1. Bad \in SUBSET Nat
      OBVIOUS
    <3> HIDE DEF Bad
    <3>2. QED
      BY <2>1, <3>1, Least
  <2>3. PICK d \in S : rank[d] = k /\ k < n /\ k < m /\ F[n][d] # F[m][d]
    BY <2>2
  <2>4. \A c \in S : rank[c] < rank[d] => F[n][c] = F[m][c]
    BY <2>2, <2>3
  <2>5. H[<<F[n], d>>] = H[<<F[m], d>>]
    BY <1>2, <2>4
  <2>6. QED
    BY <1>2, <2>3, <2>5
<1> DEFINE g == [e \in S |-> F[rank[e] + 1][e]]
<1>4. g \in [S -> V]
  BY <1>2
<1>5. ASSUME NEW e \in S PROVE g[e] = H[<<g, e>>]
  <2>1. \A d \in S : rank[d] < rank[e] => g[d] = F[rank[e] + 1][d]
    BY <1>3
  <2>2. F[rank[e] + 1] \in [S -> V] /\ rank[e] < rank[e] + 1 /\ rank[e] + 1 \in Nat
    BY <1>2
  <2>3. H[<<g, e>>] = H[<<F[rank[e] + 1], e>>]
    BY <1>4, <2>1, <2>2
  <2>4. QED
    BY <1>2, <2>2, <2>3
<1>6. QED
  BY <1>4, <1>5

-----------------------------------------------------------------------------
(* What is known of a condition (eval_unary, eval_table) *)

Results == [lt : {"TRUE", "FALSE", "IF", "ERROR"}, val : Int, const : BOOLEAN]

(* A result that decides is the value v.                                   *)
Right(r, v) == r.lt \in {"TRUE", "FALSE"} => r.val = v /\ r.lt = Bool(v # 0)

LEMMA NumberRight ==
    ASSUME NEW n \in Int, NEW const \in BOOLEAN
    PROVE  Number(n, const) \in Results /\ Right(Number(n, const), n)
  BY DEF Number, Results, Right, Bool

LEMMA NotKnownRight ==
    ASSUME NEW n \in Int, NEW const \in BOOLEAN
    PROVE  NotKnown(const) \in Results /\ Right(NotKnown(const), n)
  BY DEF NotKnown, Results, Right, Bool

LEMMA TruthType == \A b \in BOOLEAN : Truth(b) \in {0, 1} /\ (Truth(b) # 0 <=> b)
  BY DEF Truth

(* A symbol: what is known of it is its value.                             *)
LEMMA SymbolRight ==
    ASSUME NEW s \in DOMAIN Known \cup {Unknown}, NEW x \in Seq(Int)
    PROVE  /\ eval_symbol(s) \in Results /\ Right(eval_symbol(s), CppSymbol(ValueOf(s, x)))
           /\ eval_defined(s) \in Results
           /\ Right(eval_defined(s), Truth(ValueOf(s, x) # Undef))
           /\ CppSymbol(ValueOf(s, x)) \in Int
<1>1. CASE s = Unknown
  <2>1. eval_symbol(s) = NotKnown(FALSE) /\ eval_defined(s) = NotKnown(FALSE) /\ ValueOf(s, x) = x
    BY <1>1, UnifdefAssumption DEF UnifdefAssumption, eval_symbol, eval_defined, ValueOf
  <2>2. CppSymbol(x) \in Int /\ Truth(x # Undef) \in Int
    BY DEF CppSymbol, Undef, Text, Truth
  <2>3. QED
    BY <2>1, <2>2, NotKnownRight
<1>2. CASE s \in DOMAIN Known
  <2>1. Known[s] \in Seq(Int) /\ ValueOf(s, x) = Known[s] /\ s # Unknown
    BY <1>2, UnifdefAssumption DEF UnifdefAssumption, ValueOf
  <2>2. Right(eval_defined(s), Truth(ValueOf(s, x) # Undef)) /\ eval_defined(s) \in Results
    <3>1. Truth(Known[s] # Undef) \in Int
      BY DEF Truth
    <3>2. eval_defined(s) = Number(Truth(Known[s] # Undef), FALSE)
      BY <1>2 DEF eval_defined
    <3>3. QED
      BY <2>1, <3>1, <3>2, NumberRight
  <2> DEFINE SymbolIs == /\ eval_symbol(s) \in Results /\ Right(eval_symbol(s), CppSymbol(Known[s]))
                         /\ CppSymbol(Known[s]) \in Int
  <2>3. CASE Known[s] = Undef
    <3>1. eval_symbol(s) = Number(0, FALSE)
      BY <1>2, <2>3 DEF eval_symbol
    <3>2. eval_symbol(s) \in Results /\ Right(eval_symbol(s), 0)
      BY <3>1 DEF Number, Results, Right, Bool
    <3>3. SymbolIs
      BY <2>3, <3>2 DEF CppSymbol
    <3>4. QED
      BY <2>1, <2>2, <3>3, Zenon
  <2>4. CASE Known[s] # Undef /\ Known[s] = Text
    <3>1. eval_symbol(s) = [lt |-> "ERROR", val |-> 0, const |-> FALSE] /\ CppSymbol(Known[s]) = 0
      BY <1>2, <2>4 DEF eval_symbol, CppSymbol
    <3>2. SymbolIs
      BY <3>1 DEF Results, Right
    <3>3. QED
      BY <2>1, <2>2, <3>2, Zenon
  <2>5. CASE Known[s] # Undef /\ Known[s] # Text
    <3>1. eval_symbol(s) = Number(Known[s][1], FALSE) /\ CppSymbol(Known[s]) = Known[s][1]
      BY <1>2, <2>5 DEF eval_symbol, CppSymbol
    <3>2. Known[s][1] \in Int
      BY <2>1, <2>5 DEF Undef
    <3>3. SymbolIs
      BY <3>1, <3>2, NumberRight
    <3>4. QED
      BY <2>1, <2>2, <3>3, Zenon
  <2>6. QED
    BY <2>3, <2>4, <2>5
<1>3. QED
  BY <1>1, <1>2

(* The operators: of parts that are known the value, and of those that are *)
(* not what the one that is known decides alone.                           *)
LEMMA StrictRight ==
    ASSUME NEW a \in Results, NEW b \in Results, NEW v \in Int, NEW w \in Int
    PROVE  /\ op_strict(a, b, w) \in Results
           /\ a.lt \in {"TRUE", "FALSE"} /\ b.lt \in {"TRUE", "FALSE"} /\ w = v
                 => Right(op_strict(a, b, w), v)
           /\ "IF" \in {a.lt, b.lt} => Right(op_strict(a, b, w), v)
<1>1. CASE "IF" \in {a.lt, b.lt}
  <2>1. op_strict(a, b, w) = NotKnown(TRUE)
    BY <1>1 DEF op_strict
  <2>2. QED
    BY <1>1, <2>1, NotKnownRight
<1>2. CASE "IF" \notin {a.lt, b.lt}
  <2>1. op_strict(a, b, w) = Number(w, TRUE)
    BY <1>2 DEF op_strict
  <2>2. QED
    BY <1>2, <2>1, NumberRight
<1>3. QED
  BY <1>1, <1>2

LEMMA OpType ==
    ASSUME NEW o \in Binary, NEW strict \in BOOLEAN, NEW a \in Results, NEW b \in Results
    PROVE  op(o, strict, a, b) \in Results
<1>1. \A n \in {0, 1} : Number(n, TRUE) \in Results /\ op_strict(a, b, n) \in Results
  BY DEF Number, NotKnown, op_strict, Results, Bool
<1>2. \A p \in BOOLEAN : op_strict(a, b, Truth(p)) \in Results
  BY <1>1, TruthType
<1>3. /\ (a.val # 0 \/ b.val # 0) \in BOOLEAN /\ (a.val # 0 /\ b.val # 0) \in BOOLEAN
      /\ (a.val = b.val) \in BOOLEAN /\ (a.val < b.val) \in BOOLEAN
  BY DEF Results
<1>4. /\ op_or(strict, a, b) \in Results /\ op_and(strict, a, b) \in Results
  BY <1>1, <1>2, <1>3 DEF op_or, op_and
<1>5. QED
  BY <1>2, <1>3, <1>4 DEF op, Binary

LEMMA OpRight ==
    ASSUME NEW o \in Binary, NEW strict \in BOOLEAN, NEW a \in Results, NEW b \in Results,
           a.lt # "ERROR", b.lt # "ERROR", NEW v \in Int, NEW w \in Int, Right(a, v), Right(b, w)
    PROVE  /\ op(o, strict, a, b) \in Results
           /\ o = "||" => Right(op(o, strict, a, b), Truth(v # 0 \/ w # 0))
           /\ o = "&&" => Right(op(o, strict, a, b), Truth(v # 0 /\ w # 0))
           /\ o = "==" => Right(op(o, strict, a, b), Truth(v = w))
           /\ o = "<"  => Right(op(o, strict, a, b), Truth(v < w))
<1> DEFINE Known2 == a.lt \in {"TRUE", "FALSE"} /\ b.lt \in {"TRUE", "FALSE"}
<1>1. a.val \in Int /\ b.val \in Int /\ (Known2 => a.val = v /\ b.val = w)
  BY DEF Results, Right
<1>2. Known2 \/ "IF" \in {a.lt, b.lt}
  BY DEF Results
<1>3. \A p, q \in BOOLEAN : (Known2 => (p <=> q)) =>
        op_strict(a, b, Truth(p)) \in Results /\ Right(op_strict(a, b, Truth(p)), Truth(q))
  BY <1>2, StrictRight, TruthType
<1>4. CASE o = "||"
  <2>1. CASE ~strict /\ "TRUE" \in {a.lt, b.lt}
    <3>1. op(o, strict, a, b) = Number(1, TRUE)
      BY <1>4, <2>1 DEF op, op_or
    <3>2. v # 0 \/ w # 0
      BY <2>1 DEF Right, Bool
    <3>3. Truth(v # 0 \/ w # 0) = 1
      BY <3>2 DEF Truth
    <3>4. Number(1, TRUE) \in Results /\ Right(Number(1, TRUE), 1)
      BY DEF Number, Results, Right, Bool
    <3>5. QED
      BY <1>4, <3>1, <3>3, <3>4
  <2>2. CASE ~(~strict /\ "TRUE" \in {a.lt, b.lt})
    <3>1. op(o, strict, a, b) = op_strict(a, b, Truth(a.val # 0 \/ b.val # 0))
      BY <1>4, <2>2 DEF op, op_or
    <3>2. (a.val # 0 \/ b.val # 0) \in BOOLEAN /\ (v # 0 \/ w # 0) \in BOOLEAN
      OBVIOUS
    <3>3. Known2 => ((a.val # 0 \/ b.val # 0) <=> (v # 0 \/ w # 0))
      BY <1>1
    <3>4. QED
      BY <1>3, <1>4, <3>1, <3>2, <3>3
  <2>3. QED
    BY <2>1, <2>2
<1>5. CASE o = "&&"
  <2>1. CASE ~strict /\ "FALSE" \in {a.lt, b.lt}
    <3>1. op(o, strict, a, b) = Number(0, TRUE)
      BY <1>5, <2>1 DEF op, op_and
    <3>2. ~(v # 0 /\ w # 0)
      BY <2>1 DEF Right, Bool
    <3>3. Truth(v # 0 /\ w # 0) = 0
      BY <3>2 DEF Truth
    <3>4. Number(0, TRUE) \in Results /\ Right(Number(0, TRUE), 0)
      BY DEF Number, Results, Right, Bool
    <3>5. QED
      BY <1>5, <3>1, <3>3, <3>4
  <2>2. CASE ~(~strict /\ "FALSE" \in {a.lt, b.lt})
    <3>1. op(o, strict, a, b) = op_strict(a, b, Truth(a.val # 0 /\ b.val # 0))
      BY <1>5, <2>2 DEF op, op_and
    <3>2. (a.val # 0 /\ b.val # 0) \in BOOLEAN /\ (v # 0 /\ w # 0) \in BOOLEAN
      OBVIOUS
    <3>3. Known2 => ((a.val # 0 /\ b.val # 0) <=> (v # 0 /\ w # 0))
      BY <1>1
    <3>4. QED
      BY <1>3, <1>5, <3>1, <3>2, <3>3
  <2>3. QED
    BY <2>1, <2>2
<1>6. CASE o = "=="
  <2>1. op(o, strict, a, b) = op_strict(a, b, Truth(a.val = b.val))
    BY <1>6 DEF op
  <2>2. (a.val = b.val) \in BOOLEAN /\ (v = w) \in BOOLEAN /\ (Known2 => (a.val = b.val <=> v = w))
    BY <1>1
  <2>3. QED
    BY <1>3, <1>6, <2>1, <2>2
<1>7. CASE o = "<"
  <2>1. op(o, strict, a, b) = op_strict(a, b, Truth(a.val < b.val))
    BY <1>7 DEF op
  <2>2. (a.val < b.val) \in BOOLEAN /\ (v < w) \in BOOLEAN /\ (Known2 => (a.val < b.val <=> v < w))
    BY <1>1
  <2>3. QED
    BY <1>3, <1>7, <2>1, <2>2
<1>8. QED
  BY <1>4, <1>5, <1>6, <1>7 DEF Binary

-----------------------------------------------------------------------------
(* eval and CppValue are recursive: they are what their definitions say *)

LEMMA ExprsRank ==
    \E rank \in [Exprs -> Nat] :
       \A e \in Exprs :
          \/ e[1] = "num" /\ e[2] \in Int
          \/ e[1] \in {"sym", "def"} /\ e[2] \in DOMAIN Known \cup {Unknown}
          \/ /\ e[1] \in {"!"} \cup Binary /\ e[2] \in Exprs /\ rank[e[2]] < rank[e]
             /\ e[1] \in Binary => e[3] \in Exprs /\ rank[e[3]] < rank[e]
<1> DEFINE At(e) == {n \in DOMAIN Conds : e \in Conds[n]}
           rank == [e \in Exprs |-> CHOOSE n \in At(e) : \A m \in At(e) : n <= m]
<1>1. DOMAIN Conds \subseteq Nat /\ (\A n \in DOMAIN Conds : 1..n \subseteq DOMAIN Conds)
  BY UnifdefAssumption DEF UnifdefAssumption
<1>2. ASSUME NEW e \in Exprs PROVE rank[e] \in At(e) /\ \A m \in At(e) : rank[e] <= m
  <2>1. At(e) # {} /\ At(e) \in SUBSET Nat
    BY <1>1 DEF Exprs
  <2>2. \E n \in At(e) : \A m \in At(e) : n <= m
    <3> HIDE DEF At
    <3>1. QED
      BY <2>1, Least
  <2>3. QED
    <3> HIDE DEF At
    <3>1. QED
      BY <2>2
<1>3. ASSUME NEW e \in Exprs, NEW n \in DOMAIN Conds, rank[e] = n, NEW d, Earlier(d, n)
      PROVE  d \in Exprs /\ rank[d] < n
  <2>1. PICK m \in 1..(n - 1) : d \in Conds[m]
    BY <1>3 DEF Earlier
  <2>2. m \in DOMAIN Conds /\ m < n
    BY <1>1, <2>1
  <2>3. d \in Exprs /\ m \in At(d)
    BY <2>1, <2>2 DEF Exprs
  <2>4. rank[d] \in Nat /\ rank[d] <= m
    BY <1>1, <1>2, <2>3
  <2>5. QED
    BY <1>1, <2>2, <2>3, <2>4
<1>4. rank \in [Exprs -> Nat]
  BY <1>1, <1>2
<1>5. ASSUME NEW e \in Exprs
      PROVE  \/ e[1] = "num" /\ e[2] \in Int
             \/ e[1] \in {"sym", "def"} /\ e[2] \in DOMAIN Known \cup {Unknown}
             \/ /\ e[1] \in {"!"} \cup Binary /\ e[2] \in Exprs /\ rank[e[2]] < rank[e]
                /\ e[1] \in Binary => e[3] \in Exprs /\ rank[e[3]] < rank[e]
  <2> DEFINE n == rank[e]
  <2>1. n \in DOMAIN Conds /\ e \in Conds[n]
    BY <1>2
  <2> HIDE DEF rank
  <2>2. \/ e[1] = "num" /\ e[2] \in Int
        \/ e[1] \in {"sym", "def"} /\ e[2] \in DOMAIN Known \cup {Unknown}
        \/ /\ e[1] \in {"!"} \cup Binary /\ Earlier(e[2], n)
           /\ e[1] \in Binary => Earlier(e[3], n)
    BY <2>1, UnifdefAssumption DEF UnifdefAssumption
  <2>3. QED
    BY <1>3, <2>1, <2>2
<1>6. QED
  <2> HIDE DEF rank
  <2>1. QED
    BY <1>4, <1>5

EvalBody(strict, ev, e) ==
    IF e[1] \in Binary THEN eval_table(strict, ev, e) ELSE eval_unary(ev, e)

LEMMA EvalBodyType ==
    ASSUME NEW strict \in BOOLEAN, NEW f, NEW e,
           \/ e[1] = "num" /\ e[2] \in Int
           \/ e[1] \in {"sym", "def"} /\ e[2] \in DOMAIN Known \cup {Unknown}
           \/ /\ e[1] \in {"!"} \cup Binary /\ f[e[2]] \in Results
              /\ e[1] \in Binary => f[e[3]] \in Results
    PROVE  EvalBody(strict, f, e) \in Results
<1>1. CASE e[1] = "num" /\ e[2] \in Int
  <2>1. EvalBody(strict, f, e) = Number(e[2], TRUE)
    BY <1>1 DEF EvalBody, eval_unary, Binary
  <2>2. QED
    BY <1>1, <2>1, NumberRight
<1>2. CASE e[1] = "sym" /\ e[2] \in DOMAIN Known \cup {Unknown}
  <2>1. EvalBody(strict, f, e) = eval_symbol(e[2])
    BY <1>2 DEF EvalBody, eval_unary, Binary
  <2>2. << >> \in Seq(Int)
    OBVIOUS
  <2>3. QED
    BY <1>2, <2>1, <2>2, SymbolRight
<1>3. CASE e[1] = "def" /\ e[2] \in DOMAIN Known \cup {Unknown}
  <2>1. EvalBody(strict, f, e) = eval_defined(e[2])
    BY <1>3 DEF EvalBody, eval_unary, Binary
  <2>2. << >> \in Seq(Int)
    OBVIOUS
  <2>3. QED
    BY <1>3, <2>1, <2>2, SymbolRight
<1>4. CASE e[1] = "!" /\ f[e[2]] \in Results
  <2> DEFINE r == f[e[2]]
  <2>1. EvalBody(strict, f, e) = IF r.lt \in {"IF", "ERROR"} THEN r ELSE Number(Truth(r.val = 0), r.const)
    BY <1>4 DEF EvalBody, eval_unary, Binary
  <2>2. r.const \in BOOLEAN /\ Truth(r.val = 0) \in Int
    BY <1>4 DEF Results, Truth
  <2>3. QED
    BY <1>4, <2>1, <2>2, NumberRight
<1>5. CASE e[1] \in Binary /\ f[e[2]] \in Results /\ f[e[3]] \in Results
  <2> DEFINE a == f[e[2]]
             b == f[e[3]]
             r == op(e[1], strict, a, b)
  <2>1. EvalBody(strict, f, e) = IF a.lt = "ERROR" THEN a ELSE IF b.lt = "ERROR" THEN b
                                 ELSE [r EXCEPT !.const = a.const /\ b.const]
    BY <1>5 DEF EvalBody, eval_table
  <2>2. CASE a.lt # "ERROR" /\ b.lt # "ERROR"
    <3>1. r \in Results
      BY <1>5, OpType
    <3>2. (a.const /\ b.const) \in BOOLEAN
      BY <1>5 DEF Results
    <3> HIDE DEF r, a, b
    <3>3. QED
      BY <2>1, <2>2, <3>1, <3>2 DEF Results
  <2>3. QED
    BY <1>5, <2>1, <2>2
<1>6. QED
  BY <1>1, <1>2, <1>3, <1>4, <1>5

LEMMA EvalIs ==
    ASSUME NEW strict \in BOOLEAN
    PROVE  eval(strict) = [e \in Exprs |-> EvalBody(strict, eval(strict), e)]
<1>1. PICK rank \in [Exprs -> Nat] : \A e \in Exprs :
          \/ e[1] = "num" /\ e[2] \in Int
          \/ e[1] \in {"sym", "def"} /\ e[2] \in DOMAIN Known \cup {Unknown}
          \/ /\ e[1] \in {"!"} \cup Binary /\ e[2] \in Exprs /\ rank[e[2]] < rank[e]
             /\ e[1] \in Binary => e[3] \in Exprs /\ rank[e[3]] < rank[e]
  BY ExprsRank
<1> DEFINE H == [p \in [Exprs -> Results] \X Exprs |-> EvalBody(strict, p[1], p[2])]
<1>2. ASSUME NEW f \in [Exprs -> Results], NEW e \in Exprs PROVE EvalBody(strict, f, e) \in Results
  BY <1>1, EvalBodyType
<1>3. Results # {}
  BY NumberRight, 0 \in Int, TRUE \in BOOLEAN
<1>4. H \in [[Exprs -> Results] \X Exprs -> Results]
  BY <1>2
<1>5. ASSUME NEW f \in [Exprs -> Results], NEW g \in [Exprs -> Results], NEW e \in Exprs,
             \A d \in Exprs : rank[d] < rank[e] => f[d] = g[d]
      PROVE  EvalBody(strict, f, e) = EvalBody(strict, g, e)
  BY <1>1, <1>5 DEF EvalBody, eval_table, eval_unary, Binary
<1>6. \E f \in [Exprs -> Results] : \A e \in Exprs : f[e] = H[<<f, e>>]
  <2>1. \A f, g \in [Exprs -> Results], e \in Exprs :
              (\A d \in Exprs : rank[d] < rank[e] => f[d] = g[d]) => H[<<f, e>>] = H[<<g, e>>]
    BY <1>5
  <2>2. IsRecursion(Exprs, Results, rank, H)
    <3> HIDE DEF H
    <3>1. QED
      BY <1>3, <1>4, <2>1 DEF IsRecursion
  <2> HIDE DEF H
  <2>3. QED
    BY <2>2, RecursiveFunction
<1>7. \E f : f = [e \in Exprs |-> EvalBody(strict, f, e)]
  <2>1. PICK f \in [Exprs -> Results] : \A e \in Exprs : f[e] = H[<<f, e>>]
    BY <1>6
  <2>2. f = [e \in Exprs |-> EvalBody(strict, f, e)]
    BY <2>1
  <2>3. QED
    BY <2>2
<1>8. QED
  BY <1>7 DEF eval, EvalBody

LEMMA CppOfType ==
    ASSUME NEW x \in Seq(Int), NEW f, NEW e,
           \/ e[1] = "num" /\ e[2] \in Int
           \/ e[1] \in {"sym", "def"} /\ e[2] \in DOMAIN Known \cup {Unknown}
           \/ e[1] \in {"!"} \cup Binary
    PROVE  CppOf(x, f, e) \in Int
<1>1. \A b \in BOOLEAN : Truth(b) \in Int
  BY DEF Truth
<1>2. CASE e[1] = "num" /\ e[2] \in Int
  BY <1>2 DEF CppOf
<1>3. CASE e[1] = "sym" /\ e[2] \in DOMAIN Known \cup {Unknown}
  <2>1. CppOf(x, f, e) = CppSymbol(ValueOf(e[2], x))
    BY <1>3 DEF CppOf
  <2>2. QED
    BY <1>3, <2>1, SymbolRight
<1>4. CASE e[1] \in {"def", "!"} \cup Binary
  BY <1>4 DEF CppOf, Truth, Binary
<1>5. QED
  BY <1>2, <1>3, <1>4

LEMMA CppIs ==
    ASSUME NEW x \in Seq(Int)
    PROVE  CppValue(x) = [e \in Exprs |-> CppOf(x, CppValue(x), e)]
<1>1. PICK rank \in [Exprs -> Nat] : \A e \in Exprs :
          \/ e[1] = "num" /\ e[2] \in Int
          \/ e[1] \in {"sym", "def"} /\ e[2] \in DOMAIN Known \cup {Unknown}
          \/ /\ e[1] \in {"!"} \cup Binary /\ e[2] \in Exprs /\ rank[e[2]] < rank[e]
             /\ e[1] \in Binary => e[3] \in Exprs /\ rank[e[3]] < rank[e]
  BY ExprsRank
<1> DEFINE H == [p \in [Exprs -> Int] \X Exprs |-> CppOf(x, p[1], p[2])]
<1>2. H \in [[Exprs -> Int] \X Exprs -> Int]
  BY <1>1, CppOfType
<1>3. ASSUME NEW f \in [Exprs -> Int], NEW g \in [Exprs -> Int], NEW e \in Exprs,
             \A d \in Exprs : rank[d] < rank[e] => f[d] = g[d]
      PROVE  CppOf(x, f, e) = CppOf(x, g, e)
  BY <1>1, <1>3 DEF CppOf, Binary
<1>4. \E f \in [Exprs -> Int] : \A e \in Exprs : f[e] = H[<<f, e>>]
  <2>1. \A f, g \in [Exprs -> Int], e \in Exprs :
              (\A d \in Exprs : rank[d] < rank[e] => f[d] = g[d]) => H[<<f, e>>] = H[<<g, e>>]
    BY <1>3
  <2>2. IsRecursion(Exprs, Int, rank, H)
    <3>1. Int # {}
      OBVIOUS
    <3> HIDE DEF H
    <3>2. QED
      BY <1>2, <2>1, <3>1 DEF IsRecursion
  <2> HIDE DEF H
  <2>3. QED
    BY <2>2, RecursiveFunction
<1>5. \E f : f = [e \in Exprs |-> CppOf(x, f, e)]
  <2>1. PICK f \in [Exprs -> Int] : \A e \in Exprs : f[e] = H[<<f, e>>]
    BY <1>4
  <2>2. f = [e \in Exprs |-> CppOf(x, f, e)]
    BY <2>1
  <2>3. QED
    BY <2>2
<1>6. QED
  BY <1>5 DEF CppValue

-----------------------------------------------------------------------------
(* What the program decides of a condition is right *)

LEMMA BodyRight ==
    ASSUME NEW strict \in BOOLEAN, NEW x \in Seq(Int), NEW ev, NEW cv, NEW e,
           \/ e[1] = "num" /\ e[2] \in Int
           \/ e[1] \in {"sym", "def"} /\ e[2] \in DOMAIN Known \cup {Unknown}
           \/ /\ e[1] \in {"!"} \cup Binary
              /\ ev[e[2]] \in Results /\ cv[e[2]] \in Int /\ Right(ev[e[2]], cv[e[2]])
              /\ e[1] \in Binary =>
                    ev[e[3]] \in Results /\ cv[e[3]] \in Int /\ Right(ev[e[3]], cv[e[3]])
    PROVE  Right(EvalBody(strict, ev, e), CppOf(x, cv, e))
<1>1. CASE e[1] = "num" /\ e[2] \in Int
  <2>1. EvalBody(strict, ev, e) = Number(e[2], TRUE)
    BY <1>1 DEF EvalBody, eval_unary, Binary
  <2>2. CppOf(x, cv, e) = e[2]
    BY <1>1 DEF CppOf
  <2>3. QED
    BY <1>1, <2>1, <2>2, NumberRight
<1>2. CASE e[1] = "sym" /\ e[2] \in DOMAIN Known \cup {Unknown}
  <2>1. EvalBody(strict, ev, e) = eval_symbol(e[2])
    BY <1>2 DEF EvalBody, eval_unary, Binary
  <2>2. CppOf(x, cv, e) = CppSymbol(ValueOf(e[2], x))
    BY <1>2 DEF CppOf
  <2>3. QED
    BY <1>2, <2>1, <2>2, SymbolRight
<1>3. CASE e[1] = "def" /\ e[2] \in DOMAIN Known \cup {Unknown}
  <2>1. EvalBody(strict, ev, e) = eval_defined(e[2])
    BY <1>3 DEF EvalBody, eval_unary, Binary
  <2>2. CppOf(x, cv, e) = Truth(ValueOf(e[2], x) # Undef)
    BY <1>3 DEF CppOf
  <2>3. QED
    BY <1>3, <2>1, <2>2, SymbolRight
<1>4. CASE e[1] = "!"
  <2> DEFINE r == ev[e[2]]
             v == cv[e[2]]
  <2>1. EvalBody(strict, ev, e) = IF r.lt \in {"IF", "ERROR"} THEN r ELSE Number(Truth(r.val = 0), r.const)
    BY <1>4 DEF EvalBody, eval_unary, Binary
  <2>2. CppOf(x, cv, e) = Truth(v = 0)
    BY <1>4 DEF CppOf
  <2>3. r \in Results /\ v \in Int /\ Right(r, v)
    BY <1>4
  <2> HIDE DEF r, v
  <2>4. CASE r.lt \in {"IF", "ERROR"}
    BY <2>1, <2>4 DEF Right
  <2>5. CASE r.lt \in {"TRUE", "FALSE"}
    <3>1. r.val = v /\ r.const \in BOOLEAN
      BY <2>3, <2>5 DEF Right, Results
    <3>2. EvalBody(strict, ev, e) = Number(Truth(v = 0), r.const)
      BY <2>1, <2>5, <3>1
    <3>3. Truth(v = 0) \in Int
      BY DEF Truth
    <3>4. QED
      BY <2>2, <3>1, <3>2, <3>3, NumberRight
  <2>6. QED
    BY <2>3, <2>4, <2>5 DEF Results
<1>5. CASE e[1] \in Binary
  <2> DEFINE a == ev[e[2]]
             b == ev[e[3]]
             v == cv[e[2]]
             w == cv[e[3]]
             r == op(e[1], strict, a, b)
  <2>1. EvalBody(strict, ev, e) = IF a.lt = "ERROR" THEN a ELSE IF b.lt = "ERROR" THEN b
                                  ELSE [r EXCEPT !.const = a.const /\ b.const]
    BY <1>5 DEF EvalBody, eval_table
  <2>2. a \in Results /\ b \in Results /\ v \in Int /\ w \in Int /\ Right(a, v) /\ Right(b, w)
    BY <1>5 DEF Binary
  <2>3. CASE a.lt = "ERROR" \/ b.lt = "ERROR"
    BY <2>1, <2>3 DEF Right
  <2>4. CASE a.lt # "ERROR" /\ b.lt # "ERROR"
    <3>1. r \in Results /\ Right(r, CppOf(x, cv, e))
      <4>1. CASE e[1] = "||"
        BY <1>5, <2>2, <2>4, <4>1, OpRight DEF CppOf
      <4>2. CASE e[1] = "&&"
        BY <1>5, <2>2, <2>4, <4>2, OpRight DEF CppOf
      <4>3. CASE e[1] = "=="
        BY <1>5, <2>2, <2>4, <4>3, OpRight DEF CppOf
      <4>4. CASE e[1] = "<"
        BY <1>5, <2>2, <2>4, <4>4, OpRight DEF CppOf
      <4>5. QED
        BY <1>5, <4>1, <4>2, <4>3, <4>4 DEF Binary
    <3> DEFINE c == (a.const /\ b.const)
    <3>2. c \in BOOLEAN /\ EvalBody(strict, ev, e) = [r EXCEPT !.const = c]
      BY <2>1, <2>2, <2>4 DEF Results
    <3> HIDE DEF r, c, a, b
    <3>3. QED
      BY <3>1, <3>2 DEF Results, Right
  <2>5. QED
    BY <2>3, <2>4
<1>6. QED
  BY <1>1, <1>2, <1>3, <1>4, <1>5

LEMMA EvalRight ==
    ASSUME NEW strict \in BOOLEAN, NEW x \in Seq(Int), NEW e \in Exprs
    PROVE  /\ eval(strict)[e] \in Results /\ CppValue(x)[e] \in Int
           /\ Right(eval(strict)[e], CppValue(x)[e])
<1> DEFINE ev == eval(strict)
           cv == CppValue(x)
           Ok(d) == ev[d] \in Results /\ cv[d] \in Int /\ Right(ev[d], cv[d])
<1>1. PICK rank \in [Exprs -> Nat] : \A d \in Exprs :
          \/ d[1] = "num" /\ d[2] \in Int
          \/ d[1] \in {"sym", "def"} /\ d[2] \in DOMAIN Known \cup {Unknown}
          \/ /\ d[1] \in {"!"} \cup Binary /\ d[2] \in Exprs /\ rank[d[2]] < rank[d]
             /\ d[1] \in Binary => d[3] \in Exprs /\ rank[d[3]] < rank[d]
  BY ExprsRank
<1>2. \A d \in Exprs : ev[d] = EvalBody(strict, ev, d) /\ cv[d] = CppOf(x, cv, d)
  BY EvalIs, CppIs
<1> HIDE DEF ev, cv
<1> DEFINE Bad == {n \in Nat : \E d \in Exprs : rank[d] = n /\ ~Ok(d)}
<1>3. SUFFICES ASSUME Bad # {} PROVE FALSE
  <2>1. rank[e] \in Nat
    OBVIOUS
  <2>2. QED
    BY <2>1 DEF ev, cv
<1>4. PICK n \in Bad : \A m \in Bad : n <= m
  <2>1. Bad \in SUBSET Nat
    OBVIOUS
  <2> HIDE DEF Bad
  <2>2. QED
    BY <1>3, <2>1, Least
<1>5. PICK d \in Exprs : rank[d] = n /\ ~Ok(d)
  BY <1>4
<1>6. \A c \in Exprs : rank[c] < rank[d] => Ok(c)
  BY <1>4, <1>5
<1>7. \/ d[1] = "num" /\ d[2] \in Int
      \/ d[1] \in {"sym", "def"} /\ d[2] \in DOMAIN Known \cup {Unknown}
      \/ /\ d[1] \in {"!"} \cup Binary /\ Ok(d[2])
         /\ d[1] \in Binary => Ok(d[3])
  <2> HIDE DEF Ok
  <2>1. QED
    BY <1>1, <1>6
<1>8. EvalBody(strict, ev, d) \in Results
  BY <1>7, EvalBodyType
<1>9. CppOf(x, cv, d) \in Int
  BY <1>7, CppOfType
<1>10. Right(EvalBody(strict, ev, d), CppOf(x, cv, d))
  BY <1>7, BodyRight
<1>11. QED
  BY <1>2, <1>5, <1>8, <1>9, <1>10

(* A condition that is decided is so whatever the unknown symbol is; one   *)
(* that is left alone may be anything.                                     *)
DecidedRight(o) ==
    /\ o[1] \in {"TRUE", "FALSE", "TRUEI", "FALSEI", "IF"} /\ o[2] \in BOOLEAN
    /\ o[1] \in {"TRUE", "TRUEI"} => o[2]
    /\ o[1] \in {"FALSE", "FALSEI"} => ~o[2]

LEMMA OutcomesRight ==
    ASSUME NEW strict \in BOOLEAN, NEW kill \in BOOLEAN, NEW x \in Seq(Int),
           NEW o \in Outcomes(strict, kill, x)
    PROVE  DecidedRight(o) /\ o[1] \in {"TRUE", "FALSE", "IF"}
<1>1. PICK e \in Exprs : o = <<ifeval(kill, eval(strict)[e]), CppValue(x)[e] # 0>>
  BY DEF Outcomes
<1> DEFINE r == eval(strict)[e]
           v == CppValue(x)[e]
<1>2. r \in Results /\ v \in Int /\ Right(r, v)
  BY EvalRight
<1>3. o[1] = ifeval(kill, r) /\ o[2] = (v # 0)
  BY <1>1
<1> HIDE DEF r, v
<1>4. o[1] \in {"TRUE", "FALSE", "IF"} /\ (o[1] # "IF" => o[1] = r.lt)
  BY <1>2, <1>3 DEF ifeval, Results
<1>5. o[1] # "IF" => o[1] = Bool(v # 0)
  BY <1>2, <1>4 DEF Right
<1>6. QED
  BY <1>3, <1>4, <1>5 DEF DecidedRight, Bool

LEMMA IfdefsRight ==
    ASSUME NEW x, NEW o \in Ifdefs(x) PROVE DecidedRight(o)
<1>1. PICK s \in DOMAIN Known \cup {Unknown}, yes \in BOOLEAN :
        o = <<IF s \notin DOMAIN Known THEN "IF" ELSE Ignoring(s, (Known[s] # Undef) = yes),
              (ValueOf(s, x) # Undef) = yes>>
  BY DEF Ifdefs
<1>2. o[2] \in BOOLEAN /\ o[2] = ((ValueOf(s, x) # Undef) = yes)
  BY <1>1
<1>3. CASE s \notin DOMAIN Known
  BY <1>1, <1>2, <1>3 DEF DecidedRight
<1>4. CASE s \in DOMAIN Known
  <2>1. ValueOf(s, x) = Known[s]
    BY <1>4, UnifdefAssumption DEF UnifdefAssumption, ValueOf
  <2>2. o[1] = Ignoring(s, o[2])
    BY <1>1, <1>2, <1>4, <2>1
  <2>3. QED
    BY <1>2, <2>2 DEF Ignoring, Bool, DecidedRight
<1>5. QED
  BY <1>3, <1>4

-----------------------------------------------------------------------------
(* Groups: what the program knows of each, and how the output follows the  *)
(* input                                                                   *)

GroupStates == {"TRUE_PREFIX", "FALSE_PREFIX", "FALSE_TRAILER", "PASS_MIDDLE", "FALSE_MIDDLE",
                "TRUE_MIDDLE", "PASS_ELSE", "FALSE_ELSE", "TRUE_ELSE"}
(* The states of the groups whose #if is in the output.                    *)
Shown == {"PASS_MIDDLE", "FALSE_MIDDLE", "TRUE_MIDDLE", "PASS_ELSE"}
(* Within what is dropped everything is.                                   *)
Buried == {"FALSE_TRAILER", "FALSE_ELSE"}
Group == [on : BOOLEAN, had : BOOLEAN, else : BOOLEAN]

(* A group in the state st, in lines that are used or not (up): g is what  *)
(* the compiler makes of the input, h of the output where the group is     *)
(* shown.                                                                  *)
Level(st, up, g, h) ==
    /\ st \in {"TRUE_PREFIX", "TRUE_ELSE"} => (g.on <=> up)
    /\ st \notin Keeping => ~g.on
    /\ st \in {"TRUE_PREFIX", "TRUE_MIDDLE"} => g.had
    /\ st = "FALSE_PREFIX" => ~g.had
    /\ st = "FALSE_TRAILER" => g.had \/ ~up
    /\ st \in Shown => (h.had <=> g.had)
    /\ st \in Shown \cap Keeping => (h.on <=> g.on)
    /\ g.else <=> st \in {"PASS_ELSE", "FALSE_ELSE", "TRUE_ELSE"}

(* d[i] is how many of the groups up to s[i] are shown.                    *)
OnAt(p, n) == n = 0 \/ p[n].on
Follows(s, p, q, d) ==
    /\ d[1] = 0 /\ d[Len(s)] = Len(q)
    /\ \A i, j \in 1..Len(s) : i <= j => d[i] <= d[j]
    /\ \A i \in 2..Len(s) :
         /\ d[i] = IF s[i] \in Shown THEN d[i - 1] + 1 ELSE d[i - 1]
         /\ s[i - 1] \notin Keeping => s[i] \in Buried
         /\ Level(s[i], OnAt(p, i - 2), p[i - 1], q[d[i]])
    /\ \A i \in 1..Len(s) : s[i] \in Keeping => (OnAt(p, i - 1) <=> OnAt(q, d[i]))

Shape(s, p, q) ==
    /\ s \in Seq(GroupStates \cup {"OUTSIDE"}) /\ p \in Seq(Group) /\ q \in Seq(Group)
    /\ Len(s) = Len(p) + 1 /\ \A i \in 1..Len(s) : s[i] = "OUTSIDE" <=> i = 1
Agree(s, p, q) ==
    Shape(s, p, q) /\ \E d \in [1..Len(s) -> 0..Len(q)] : Follows(s, p, q, d)

-----------------------------------------------------------------------------
(* Sequences *)

LEMMA FrontType ==
    ASSUME NEW S, NEW s \in Seq(S), s # << >>
    PROVE  /\ Front(s) \in Seq(S) /\ Len(Front(s)) = Len(s) - 1
           /\ \A i \in 1..(Len(s) - 1) : Front(s)[i] = s[i]
           /\ Last(s) \in S /\ Last(s) = s[Len(s)] /\ Len(s) \in Nat \ {0}
<1>1. Len(s) \in Nat \ {0} /\ Last(s) \in S /\ Last(s) = s[Len(s)]
  BY DEF Last
<1>2. \A i \in 1..(Len(s) - 1) : s[i] \in S
  BY <1>1
<1>3. Front(s) = [i \in 1..(Len(s) - 1) |-> s[i]]
  BY <1>1 DEF Front
<1>4. Front(s) \in Seq(S)
  BY <1>1, <1>2, <1>3
<1>5. Len(Front(s)) = Len(s) - 1
  BY <1>1, <1>3
<1>6. QED
  BY <1>1, <1>3, <1>4, <1>5

LEMMA AppendType ==
    ASSUME NEW S, NEW s \in Seq(S), NEW x \in S
    PROVE  /\ Append(s, x) \in Seq(S) /\ Len(Append(s, x)) = Len(s) + 1
           /\ \A i \in 1..Len(s) : Append(s, x)[i] = s[i]
           /\ Append(s, x)[Len(s) + 1] = x /\ Last(Append(s, x)) = x
           /\ Front(Append(s, x)) = s /\ Append(s, x) # << >>
  BY DEF Front, Last

LEMMA FrontAppend ==
    ASSUME NEW S, NEW s \in Seq(S), s # << >>
    PROVE  /\ Append(Front(s), Last(s)) = s
           /\ \A x \in S : [s EXCEPT ![Len(s)] = x] = Append(Front(s), x)
<1>1. /\ Front(s) \in Seq(S) /\ Len(Front(s)) = Len(s) - 1
      /\ \A i \in 1..(Len(s) - 1) : Front(s)[i] = s[i]
      /\ Len(s) \in Nat \ {0} /\ Last(s) \in S /\ Last(s) = s[Len(s)]
  BY FrontType
<1> HIDE DEF Front, Last
<1>2. ASSUME NEW x \in S, NEW t \in Seq(S), Len(t) = Len(s), t[Len(s)] = x, 
             \A i \in 1..(Len(s) - 1) : t[i] = s[i] PROVE t = Append(Front(s), x)
  <2>1. Append(Front(s), x) \in Seq(S) /\ Len(Append(Front(s), x)) = Len(s)
    BY <1>1
  <2>2. \A i \in 1..Len(s) : Append(Front(s), x)[i] = t[i]
    BY <1>1, <1>2
  <2>3. QED
    BY <1>2, <2>1, <2>2
<1>3. Append(Front(s), Last(s)) = s
  BY <1>1, <1>2
<1>4. ASSUME NEW x \in S PROVE [s EXCEPT ![Len(s)] = x] = Append(Front(s), x)
  <2> DEFINE t == [s EXCEPT ![Len(s)] = x]
  <2>1. t \in Seq(S) /\ Len(t) = Len(s) /\ t[Len(s)] = x /\ \A i \in 1..(Len(s) - 1) : t[i] = s[i]
    BY <1>1
  <2>2. QED
    BY <1>2, <2>1
<1>5. QED
  BY <1>3, <1>4

-----------------------------------------------------------------------------
(* One group more, or less *)

LEMMA ShapeFacts ==
    ASSUME NEW s, NEW p, NEW q, Shape(s, p, q)
    PROVE  /\ s # << >> /\ Len(s) \in Nat /\ Len(p) \in Nat /\ Len(q) \in Nat
           /\ Last(s) \in GroupStates \cup {"OUTSIDE"}
           /\ Last(s) = "OUTSIDE" <=> Len(s) = 1
           /\ Len(s) = 1 <=> p = << >>
           /\ Used(p) <=> OnAt(p, Len(p))
           /\ Used(q) <=> OnAt(q, Len(q))
<1>1. s \in Seq(GroupStates \cup {"OUTSIDE"}) /\ p \in Seq(Group) /\ q \in Seq(Group) /\ Len(s) = Len(p) + 1
  BY DEF Shape
<1>2. Len(s) \in Nat /\ Len(p) \in Nat /\ Len(q) \in Nat /\ s # << >> /\ Len(s) \in 1..Len(s)
  BY <1>1
<1>3. Last(s) = s[Len(s)] /\ Last(s) \in GroupStates \cup {"OUTSIDE"}
  BY <1>1, <1>2, FrontType
<1>4. Last(s) = "OUTSIDE" <=> Len(s) = 1
  BY <1>2, <1>3 DEF Shape
<1>5. (Len(s) = 1 <=> p = << >>) /\ (Len(p) = 0 <=> p = << >>) /\ (Len(q) = 0 <=> q = << >>)
  BY <1>1, <1>2
<1>6. (Used(p) <=> OnAt(p, Len(p))) /\ (Used(q) <=> OnAt(q, Len(q)))
  BY <1>5 DEF Used, OnAt, Last
<1>7. QED
  BY <1>2, <1>3, <1>4, <1>5, <1>6

(* A line that is kept is used in the input as it is in the output; one    *)
(* that is dropped is used in neither.                                     *)
LEMMA SameUse ==
    ASSUME NEW s, NEW p, NEW q, Agree(s, p, q)
    PROVE  /\ Last(s) \in Keeping => (Used(p) <=> Used(q))
           /\ Last(s) \notin Keeping => ~Used(p)
<1>1. Shape(s, p, q)
  BY DEF Agree
<1>2. PICK d \in [1..Len(s) -> 0..Len(q)] : Follows(s, p, q, d)
  BY DEF Agree
<1>3. Len(s) \in 1..Len(s) /\ Last(s) = s[Len(s)] /\ Len(s) - 1 = Len(p) /\ Len(p) \in Nat
  BY <1>1, ShapeFacts DEF Shape, Last
<1>4. Last(s) \in Keeping => (OnAt(p, Len(p)) <=> OnAt(q, Len(q)))
  BY <1>2, <1>3 DEF Follows
<1>5. ASSUME Last(s) \notin Keeping PROVE ~OnAt(p, Len(p))
  <2>1. Len(s) # 1
    BY <1>1, <1>5, ShapeFacts DEF Keeping
  <2>2. Len(s) \in 2..Len(s)
    BY <1>3, <2>1
  <2>3. ~p[Len(p)].on
    BY <1>2, <1>3, <1>5, <2>2 DEF Follows, Level
  <2>4. QED
    BY <1>3, <2>1, <2>3 DEF OnAt
<1>6. QED
  BY <1>1, <1>4, <1>5, ShapeFacts

(* The output without the group s ends in.                                 *)
Under(s, q) == IF Last(s) \in Shown THEN Front(q) ELSE q

LEMMA Leave ==
    ASSUME NEW s, NEW p, NEW q, Agree(s, p, q), Last(s) # "OUTSIDE"
    PROVE  /\ Agree(Front(s), Front(p), Under(s, q))
           /\ p # << >> /\ Last(p) \in Group /\ Last(s) \in GroupStates
           /\ Last(Front(s)) \notin Keeping => Last(s) \in Buried
           /\ Level(Last(s), Used(Front(p)), Last(p), Last(q))
           /\ Last(s) \in Shown => q # << >> /\ Last(q) \in Group
<1>1. Shape(s, p, q)
  BY DEF Agree
<1>2. PICK d \in [1..Len(s) -> 0..Len(q)] : Follows(s, p, q, d)
  BY DEF Agree
<1> DEFINE n == Len(s)
           s0 == Front(s)
           p0 == Front(p)
           q0 == Under(s, q)
           d0 == [i \in 1..(n - 1) |-> d[i]]
<1>a. \A i \in 1..n : d[i] \in Nat /\ d[i] <= Len(q)
  BY <1>1, ShapeFacts
<1>b. /\ \A i, j \in 1..n : i <= j => d[i] <= d[j]
      /\ d[1] = 0 /\ d[n] = Len(q)
      /\ \A i \in 2..n : d[i] = IF s[i] \in Shown THEN d[i - 1] + 1 ELSE d[i - 1]
      /\ \A i \in 2..n : s[i - 1] \notin Keeping => s[i] \in Buried
      /\ \A i \in 2..n : Level(s[i], OnAt(p, i - 2), p[i - 1], q[d[i]])
  BY <1>2, Zenon DEF Follows
<1>3. /\ s \in Seq(GroupStates \cup {"OUTSIDE"}) /\ p \in Seq(Group) /\ q \in Seq(Group)
      /\ n \in Nat /\ n > 1 /\ Len(p) = n - 1 /\ s # << >> /\ p # << >>
  BY <1>1, ShapeFacts DEF Shape
<1>4. /\ s0 \in Seq(GroupStates \cup {"OUTSIDE"}) /\ Len(s0) = n - 1 /\ Last(s) = s[n]
      /\ \A i \in 1..(n - 1) : s0[i] = s[i]
      /\ p0 \in Seq(Group) /\ Len(p0) = n - 2 /\ Last(p) = p[n - 1] /\ Last(p) \in Group
      /\ \A i \in 1..(n - 2) : p0[i] = p[i]
  <2>1. /\ s0 \in Seq(GroupStates \cup {"OUTSIDE"}) /\ Len(s0) = n - 1 /\ Last(s) = s[n]
        /\ \A i \in 1..(n - 1) : s0[i] = s[i]
    BY <1>3, FrontType
  <2>2. /\ p0 \in Seq(Group) /\ Len(p0) = Len(p) - 1 /\ Last(p) = p[Len(p)] /\ Last(p) \in Group
        /\ \A i \in 1..(Len(p) - 1) : p0[i] = p[i]
    BY <1>3, FrontType
  <2> HIDE DEF s0, p0, n
  <2>3. Len(p) = n - 1 /\ Len(p) - 1 = n - 2
    BY <1>3
  <2>4. QED
    BY <2>1, <2>2, <2>3
<1>5. n \in 2..n /\ n - 1 \in 1..n /\ n \in 1..n /\ n - 1 <= n
  BY <1>3
<1>6. /\ d[n] = IF s[n] \in Shown THEN d[n - 1] + 1 ELSE d[n - 1]
      /\ s[n - 1] \notin Keeping => s[n] \in Buried
      /\ Level(s[n], OnAt(p, n - 2), p[n - 1], q[d[n]])
      /\ d[n] = Len(q) /\ d[n - 1] \in Nat /\ Len(q) \in Nat
  <2>1. (n - 1) + 1 = n /\ n - 2 = (n - 1) - 1 /\ Len(q) \in Nat
    BY <1>1, <1>3, ShapeFacts
  <2>2. Level(s[n], OnAt(p, n - 2), p[n - 1], q[d[n]])
    BY <1>b, <1>5
  <2>3. QED
    BY <1>a, <1>b, <1>5, <2>1, <2>2
<1>7. Last(s) \in Shown => q # << >> /\ Last(q) \in Group
  BY <1>3, <1>4, <1>6, FrontType, SMTT(30)
<1>8. q0 \in Seq(Group) /\ Len(q0) = d[n - 1] /\ \A i \in 1..d[n - 1] : q0[i] = q[i]
  <2>1. CASE Last(s) \in Shown
    <3>1. q0 = Front(q) /\ Len(q) = d[n - 1] + 1 /\ q # << >>
      BY <1>4, <1>6, <1>7, <2>1 DEF Under
    <3>2. /\ Front(q) \in Seq(Group) /\ Len(Front(q)) = Len(q) - 1
          /\ \A i \in 1..(Len(q) - 1) : Front(q)[i] = q[i]
      BY <1>3, <3>1, FrontType
    <3>3. Len(q) - 1 = d[n - 1]
      BY <1>6, <3>1
    <3> HIDE DEF q0, n
    <3>4. QED
      BY <3>1, <3>2, <3>3
  <2>2. CASE Last(s) \notin Shown
    BY <1>3, <1>4, <1>6, <2>2 DEF Under
  <2>3. QED
    BY <2>1, <2>2
<1>9. Shape(s0, p0, q0)
  <2>1. \A i \in 1..Len(s0) : s0[i] = "OUTSIDE" <=> i = 1
    BY <1>1, <1>3, <1>4 DEF Shape
  <2>2. QED
    BY <1>3, <1>4, <1>8, <2>1 DEF Shape
<1> HIDE DEF s0, p0, q0
<1>10. d0 \in [1..Len(s0) -> 0..Len(q0)]
  <2>1. ASSUME NEW i \in 1..(n - 1) PROVE d[i] \in 0..Len(q0)
    <3>1. i \in 1..n /\ i <= n - 1
      BY <1>3
    <3>2. d[i] <= d[n - 1] /\ d[i] \in Nat
      BY <1>a, <1>b, <1>5, <3>1
    <3>3. QED
      BY <1>6, <1>8, <3>2
  <2>2. QED
    BY <1>4, <2>1
<1>11. Follows(s0, p0, q0, d0)
  <2>1. d0[1] = 0 /\ d0[Len(s0)] = Len(q0)
    BY <1>2, <1>3, <1>4, <1>8 DEF Follows
  <2>2. \A i, j \in 1..Len(s0) : i <= j => d0[i] <= d0[j]
    BY <1>2, <1>3, <1>4 DEF Follows
  <2>3. ASSUME NEW i \in 1..(n - 1) PROVE d0[i] = d[i] /\ d[i] \in 0..d[n - 1] /\ i \in 1..n
    <3>1. i \in 1..n /\ i <= n - 1
      BY <1>3
    <3>2. d[i] <= d[n - 1] /\ d[i] \in Nat
      BY <1>a, <1>b, <1>5, <3>1
    <3>3. QED
      BY <1>6, <3>1, <3>2
  <2>4. \A i \in 0..(n - 2) : OnAt(p0, i) <=> OnAt(p, i)
    BY <1>3, <1>4 DEF OnAt
  <2>5. \A i \in 0..d[n - 1] : OnAt(q0, i) <=> OnAt(q, i)
    BY <1>6, <1>8 DEF OnAt
  <2>6. ASSUME NEW i \in 1..Len(s0), s0[i] \in Keeping
        PROVE  OnAt(p0, i - 1) <=> OnAt(q0, d0[i])
    <3>1. i \in 1..n /\ i - 1 \in 0..(n - 2) /\ s[i] = s0[i] /\ i \in 1..(n - 1)
      BY <1>3, <1>4
    <3>2. OnAt(p, i - 1) <=> OnAt(q, d[i])
      BY <1>2, <2>6, <3>1 DEF Follows
    <3>3. QED
      BY <2>3, <2>4, <2>5, <3>1, <3>2
  <2>7. ASSUME NEW i \in 2..Len(s0)
        PROVE  /\ d0[i] = IF s0[i] \in Shown THEN d0[i - 1] + 1 ELSE d0[i - 1]
               /\ s0[i - 1] \notin Keeping => s0[i] \in Buried
               /\ Level(s0[i], OnAt(p0, i - 2), p0[i - 1], q0[d0[i]])
    <3>1. /\ i \in 2..n /\ i - 2 \in 0..(n - 2) /\ i - 1 \in 1..(n - 2)
          /\ i \in 1..(n - 1) /\ i - 1 \in 1..(n - 1)
      BY <1>3, <1>4
    <3>2. /\ s0[i] = s[i] /\ s0[i - 1] = s[i - 1] /\ p0[i - 1] = p[i - 1]
          /\ (OnAt(p0, i - 2) <=> OnAt(p, i - 2)) /\ d0[i] = d[i] /\ d0[i - 1] = d[i - 1]
      BY <1>4, <2>3, <2>4, <3>1
    <3>3. /\ d[i] = IF s[i] \in Shown THEN d[i - 1] + 1 ELSE d[i - 1]
          /\ s[i - 1] \notin Keeping => s[i] \in Buried
          /\ Level(s[i], OnAt(p, i - 2), p[i - 1], q[d[i]])
      BY <1>2, <3>1 DEF Follows
    <3>4. s[i] \in Shown => q0[d[i]] = q[d[i]]
      <4>1. ASSUME s[i] \in Shown PROVE d[i] \in 1..d[n - 1]
        BY <2>3, <3>1, <3>3, <4>1
      <4>2. QED
        BY <1>8, <4>1
    <3>5. Level(s[i], OnAt(p0, i - 2), p[i - 1], q0[d[i]])
      BY <3>2, <3>3, <3>4 DEF Level
    <3>6. QED
      BY <3>2, <3>3, <3>5
  <2>8. QED
    BY <2>1, <2>2, <2>6, <2>7 DEF Follows
<1>12. Agree(s0, p0, q0)
  BY <1>9, <1>10, <1>11 DEF Agree
<1>13. Last(s) \in GroupStates
  BY <1>1, ShapeFacts
<1>14. Last(s0) = s[n - 1]
  <2>1. Last(s0) = s0[n - 1]
    BY <1>4 DEF Last
  <2>2. n - 1 \in 1..(n - 1)
    BY <1>3
  <2>3. QED
    BY <1>4, <2>1, <2>2
<1>15. Level(Last(s), Used(p0), Last(p), Last(q))
  <2>1. Used(p0) <=> OnAt(p, n - 2)
    <3>1. Used(p0) <=> OnAt(p0, n - 2)
      BY <1>4, <1>9, ShapeFacts
    <3>2. QED
      BY <1>3, <1>4, <3>1, SMTT(30) DEF OnAt
  <2>2. Level(s[n], OnAt(p, n - 2), p[n - 1], q[Len(q)])
    BY <1>6
  <2>3. QED
    BY <1>4, <2>1, <2>2 DEF Level, Last
<1>16. QED
  BY <1>3, <1>4, <1>6, <1>7, <1>12, <1>13, <1>14, <1>15 DEF s0, p0, q0

LEMMA Enter ==
    ASSUME NEW s, NEW p, NEW q, Agree(s, p, q), NEW st \in GroupStates,
           NEW g \in Group, NEW h \in Group,
           Last(s) \notin Keeping => st \in Buried, Level(st, Used(p), g, h)
    PROVE  Agree(Append(s, st), Append(p, g), IF st \in Shown THEN Append(q, h) ELSE q)
<1>1. Shape(s, p, q)
  BY DEF Agree
<1>2. PICK d \in [1..Len(s) -> 0..Len(q)] : Follows(s, p, q, d)
  BY DEF Agree
<1> DEFINE n == Len(s)
           more == IF st \in Shown THEN 1 ELSE 0
           s1 == Append(s, st)
           p1 == Append(p, g)
           q1 == IF st \in Shown THEN Append(q, h) ELSE q
           d1 == [i \in 1..(n + 1) |-> IF i = n + 1 THEN Len(q) + more ELSE d[i]]
<1>3. /\ s \in Seq(GroupStates \cup {"OUTSIDE"}) /\ p \in Seq(Group) /\ q \in Seq(Group)
      /\ n \in Nat /\ n >= 1 /\ Len(p) = n - 1 /\ Len(q) \in Nat /\ Last(s) = s[n]
  BY <1>1, ShapeFacts DEF Shape, Last
<1>a. \A i \in 1..n : d[i] \in Nat /\ d[i] <= Len(q)
  BY <1>3
<1>b. /\ \A i, j \in 1..n : i <= j => d[i] <= d[j]
      /\ d[1] = 0 /\ d[n] = Len(q)
  BY <1>2, Zenon DEF Follows
<1>4. /\ s1 \in Seq(GroupStates \cup {"OUTSIDE"}) /\ Len(s1) = n + 1 /\ s1[n + 1] = st
      /\ \A i \in 1..n : s1[i] = s[i]
      /\ p1 \in Seq(Group) /\ Len(p1) = n /\ p1[n] = g /\ \A i \in 1..(n - 1) : p1[i] = p[i]
  BY <1>3, AppendType
<1>5. /\ q1 \in Seq(Group) /\ Len(q1) = Len(q) + more /\ \A i \in 1..Len(q) : q1[i] = q[i]
      /\ st \in Shown => q1[Len(q) + 1] = h
  BY <1>3, AppendType
<1>6. more \in {0, 1} /\ (more = 1 <=> st \in Shown) /\ d[n] = Len(q) /\ d[1] = 0
  BY <1>2 DEF Follows
<1> HIDE DEF s1, p1, q1, more
<1>7. Shape(s1, p1, q1)
  <2>1. \A i \in 1..Len(s1) : s1[i] = "OUTSIDE" <=> i = 1
    <3>1. st # "OUTSIDE"
      BY DEF GroupStates
    <3>2. \A i \in 1..n : s[i] = "OUTSIDE" <=> i = 1
      BY <1>1 DEF Shape
    <3>3. n + 1 # 1 /\ \A i \in 1..(n + 1) : i \in 1..n \/ i = n + 1
      BY <1>3
    <3> HIDE DEF n
    <3>4. QED
      BY <1>4, <3>1, <3>2, <3>3
  <2>2. QED
    BY <1>3, <1>4, <1>5, <2>1 DEF Shape
<1>8. /\ d1[n + 1] = Len(q1) /\ \A i \in 1..n : d1[i] = d[i] /\ d[i] \in 0..Len(q)
      /\ d1 \in [1..Len(s1) -> 0..Len(q1)]
  <2>1. d1[n + 1] = Len(q1) /\ Len(q1) \in Nat /\ Len(q1) >= Len(q)
    BY <1>3, <1>5, <1>6
  <2>2. ASSUME NEW i \in 1..n PROVE d1[i] = d[i] /\ d[i] \in 0..Len(q)
    <3>1. i \in 1..(n + 1) /\ i # n + 1
      BY <1>3
    <3>2. QED
      BY <1>a, <1>3, <3>1
  <2>3. ASSUME NEW i \in 1..(n + 1) PROVE d1[i] \in 0..Len(q1)
    <3>1. i \in 1..n \/ i = n + 1
      BY <1>3
    <3> HIDE DEF d1
    <3>2. QED
      BY <1>3, <2>1, <2>2, <3>1
  <2>4. QED
    BY <1>4, <2>1, <2>2, <2>3
<1> HIDE DEF d1
<1>9. ASSUME NEW i \in 0..(n - 1) PROVE OnAt(p1, i) <=> OnAt(p, i)
  <2>1. i = 0 \/ i \in 1..(n - 1)
    BY <1>3
  <2>2. QED
    BY <1>4, <2>1 DEF OnAt
<1>10. ASSUME NEW i \in 0..Len(q) PROVE OnAt(q1, i) <=> OnAt(q, i)
  <2>1. i = 0 \/ i \in 1..Len(q)
    BY <1>3
  <2>2. QED
    BY <1>5, <2>1 DEF OnAt
<1>11. ASSUME NEW i \in 1..(n + 1), NEW j \in 1..(n + 1), i <= j PROVE d1[i] <= d1[j]
  <2>1. CASE j \in 1..n
    <3>1. i \in 1..n
      BY <1>3, <1>11, <2>1
    <3>2. QED
      BY <1>b, <1>8, <1>11, <2>1, <3>1
  <2>2. CASE j = n + 1
    <3>1. d1[j] = Len(q1) /\ Len(q1) \in Nat
      BY <1>3, <1>5, <1>6, <1>8, <2>2
    <3>2. d1[i] \in 0..Len(q1)
      BY <1>4, <1>8
    <3>3. QED
      BY <3>1, <3>2
  <2>3. QED
    BY <1>3, <2>1, <2>2
<1>12. /\ Used(p) <=> OnAt(p, n - 1)
       /\ Used(q) <=> OnAt(q, Len(q))
       /\ Last(s) \in Keeping => (Used(p) <=> Used(q))
  BY <1>1, <1>3, ShapeFacts, SameUse
<1>13. ASSUME NEW i \in 1..(n + 1), s1[i] \in Keeping
       PROVE  OnAt(p1, i - 1) <=> OnAt(q1, d1[i])
  <2>1. CASE i \in 1..n
    <3>1. i - 1 \in 0..(n - 1)
      BY <1>3, <2>1
    <3>2. OnAt(p, i - 1) <=> OnAt(q, d[i])
      BY <1>2, <1>4, <1>13, <2>1 DEF Follows
    <3>3. QED
      BY <1>8, <1>9, <1>10, <2>1, <3>1, <3>2
  <2>2. CASE i = n + 1
    <3>1. st \in Keeping /\ Last(s) \in Keeping
      BY <1>4, <1>13, <2>2 DEF Keeping, Buried
    <3>2. OnAt(p1, i - 1) <=> g.on
      BY <1>3, <1>4, <2>2 DEF OnAt
    <3>3. CASE st \in Shown
      <4>1. OnAt(q1, d1[i]) <=> h.on
        BY <1>3, <1>5, <1>6, <1>8, <2>2, <3>3 DEF OnAt
      <4>2. QED
        BY <3>1, <3>2, <3>3, <4>1 DEF Level
    <3>4. CASE st \notin Shown
      <4>1. OnAt(q1, d1[i]) <=> Used(q)
        BY <1>3, <1>5, <1>6, <1>8, <1>10, <1>12, <2>2, <3>4
      <4>2. g.on <=> Used(p)
        BY <3>1, <3>4 DEF Level, Keeping, Shown, GroupStates
      <4>3. QED
        BY <1>12, <3>1, <3>2, <4>1, <4>2
    <3>5. QED
      BY <3>3, <3>4
  <2>3. QED
    BY <1>3, <2>1, <2>2
<1>14. ASSUME NEW i \in 2..(n + 1)
       PROVE  /\ d1[i] = IF s1[i] \in Shown THEN d1[i - 1] + 1 ELSE d1[i - 1]
              /\ s1[i - 1] \notin Keeping => s1[i] \in Buried
              /\ Level(s1[i], OnAt(p1, i - 2), p1[i - 1], q1[d1[i]])
  <2>1. CASE i \in 2..n
    <3>1. /\ i \in 1..n /\ i - 1 \in 1..n /\ i - 2 \in 0..(n - 1) /\ i - 1 \in 1..(n - 1)
      BY <1>3, <2>1
    <3>2. /\ d[i] = IF s[i] \in Shown THEN d[i - 1] + 1 ELSE d[i - 1]
          /\ s[i - 1] \notin Keeping => s[i] \in Buried
          /\ Level(s[i], OnAt(p, i - 2), p[i - 1], q[d[i]])
      BY <1>2, <2>1 DEF Follows
    <3>3. s[i] \in Shown => q1[d[i]] = q[d[i]]
      <4>1. ASSUME s[i] \in Shown PROVE d[i] \in 1..Len(q)
        BY <1>8, <3>1, <3>2, <4>1
      <4>2. QED
        BY <1>5, <4>1
    <3>4. Level(s[i], OnAt(p1, i - 2), p[i - 1], q1[d[i]])
      BY <1>9, <3>1, <3>2, <3>3 DEF Level
    <3>5. QED
      BY <1>4, <1>8, <3>1, <3>2, <3>4
  <2>2. CASE i = n + 1
    <3>1. i - 1 = n /\ i - 2 = n - 1 /\ n \in 1..n /\ n - 1 \in 0..(n - 1)
      BY <1>3, <2>2
    <3>2. OnAt(p1, i - 2) <=> Used(p)
      BY <1>9, <1>12, <3>1
    <3>3. st \in Shown => q1[d1[i]] = h
      BY <1>3, <1>5, <1>6, <1>8, <2>2
    <3>4. Level(st, OnAt(p1, i - 2), g, q1[d1[i]])
      BY <3>2, <3>3 DEF Level
    <3>5. d1[i] = IF s1[i] \in Shown THEN d1[i - 1] + 1 ELSE d1[i - 1]
      BY <1>3, <1>4, <1>5, <1>6, <1>8, <2>2, <3>1
    <3>6. QED
      BY <1>3, <1>4, <2>2, <3>1, <3>4, <3>5
  <2>3. QED
    BY <1>3, <2>1, <2>2
<1>15. d1[1] = 0 /\ d1[Len(s1)] = Len(q1)
  BY <1>3, <1>4, <1>6, <1>8
<1>16. Follows(s1, p1, q1, d1)
  BY <1>4, <1>11, <1>13, <1>14, <1>15 DEF Follows
<1>17. QED
  BY <1>7, <1>8, <1>16 DEF Agree, s1, p1, q1

-----------------------------------------------------------------------------
(* The table *)

LineTypes == {"TRUE", "FALSE", "TRUEI", "FALSEI", "IF", ""}

(* The first line of a group: dropped where it is decided or lies in what  *)
(* is dropped, and otherwise printed.                                      *)
FirstTo(st, lt, t) ==
    \/ t.do = "error" /\ t.nest = 0
    \/ t.nest = 1 /\ st \notin Keeping /\ t.do = "drop" /\ t.to = "FALSE_TRAILER"
    \/ t.nest = 1 /\ st \in Keeping /\ t.do = "print" /\ t.to = "PASS_MIDDLE"
    \/ /\ t.nest = 1 /\ st \in Keeping /\ lt \in {"TRUE", "TRUEI"}
       /\ t.do = "drop" /\ t.to = "TRUE_PREFIX"
    \/ /\ t.nest = 1 /\ st \in Keeping /\ lt \in {"FALSE", "FALSEI"}
       /\ t.do = "drop" /\ t.to = "FALSE_PREFIX"

LEMMA FirstIs ==
    ASSUME NEW st, NEW lt \in {"TRUE", "FALSE", "TRUEI", "FALSEI", "IF"}, NEW dodgy \in BOOLEAN
    PROVE  /\ FirstTo(st, lt, First(st, lt, dodgy))
           /\ First(st, lt, dodgy).do = "error" => dodgy
           /\ dodgy => \/ First(st, lt, dodgy).do = "error"
                       \/ st \notin Keeping /\ First(st, lt, dodgy).do = "drop"
                       \/ First(st, lt, dodgy).do = "print"
  BY DEF First, FirstTo, OpenGroup, Block, T, Stop, Ign

(* The later lines of a group.                                             *)
ElseTo(st, t) ==
    \/ st = "FALSE_PREFIX" /\ t.do = "drop" /\ t.to = "TRUE_ELSE"
    \/ st \in {"TRUE_PREFIX", "FALSE_TRAILER"} /\ t.do = "drop" /\ t.to = "FALSE_ELSE"
    \/ st \in {"PASS_MIDDLE", "FALSE_MIDDLE"} /\ t.do = "print" /\ t.to = "PASS_ELSE"
    \/ st = "TRUE_MIDDLE" /\ t.do = "endif" /\ t.to = "FALSE_ELSE"
ElifTo(st, lt, t) ==
    \/ st = "FALSE_PREFIX" /\ lt = "IF" /\ t.do = "if" /\ t.to = "PASS_MIDDLE"
    \/ st = "FALSE_PREFIX" /\ lt = "TRUE" /\ t.do = "drop" /\ t.to = "TRUE_PREFIX"
    \/ st = "FALSE_PREFIX" /\ lt = "FALSE" /\ t.do = "drop" /\ t.to = "FALSE_PREFIX"
    \/ st \in {"TRUE_PREFIX", "FALSE_TRAILER"} /\ t.do = "drop" /\ t.to = "FALSE_TRAILER"
    \/ st \in {"PASS_MIDDLE", "FALSE_MIDDLE"} /\ t.do = "print" /\ t.to = "PASS_MIDDLE"
    \/ st \in {"PASS_MIDDLE", "FALSE_MIDDLE"} /\ lt = "TRUE" /\ t.do = "else" /\ t.to = "TRUE_MIDDLE"
    \/ st \in {"PASS_MIDDLE", "FALSE_MIDDLE"} /\ lt = "FALSE" /\ t.do = "drop" /\ t.to = "FALSE_MIDDLE"
    \/ st = "TRUE_MIDDLE" /\ t.do = "endif" /\ t.to = "FALSE_TRAILER"
LaterTo(st, kind, lt, t) ==
    \/ t.do = "error" /\ t.nest = 0
    \/ /\ kind = "endif" /\ st \in GroupStates /\ t.nest = -1
       /\ t.do = IF st \in Shown THEN "print" ELSE "drop"
    \/ kind = "else" /\ st \in GroupStates /\ t.nest = 0 /\ ElseTo(st, t)
    \/ kind = "elif" /\ st \in GroupStates /\ t.nest = 0 /\ ElifTo(st, lt, t)

LEMMA Transitions ==
    /\ \A do, to : /\ T(do, to).do = do /\ T(do, to).to = to /\ T(do, to).nest = 0
                   /\ T(do, to).off = FALSE
    /\ \A do, to : Block(do, to).do = do /\ Block(do, to).to = to /\ Block(do, to).nest = 0
    /\ \A do : End(do).do = do /\ End(do).nest = -1
    /\ \A why : Stop(why).do = why /\ Stop(why).nest = 0
  BY DEF T, Block, End, Stop

LEMMA LaterIs ==
    ASSUME NEW st \in GroupStates \cup {"OUTSIDE"}, NEW kind \in {"elif", "else", "endif"},
           NEW lt, kind = "elif" <=> lt \in {"TRUE", "FALSE", "IF"}
    PROVE  /\ LaterTo(st, kind, lt, Later(st, kind, lt))
           /\ Later(st, kind, lt).do = "error" =>
                 \/ st = "OUTSIDE"
                 \/ st \in {"PASS_ELSE", "FALSE_ELSE", "TRUE_ELSE"} /\ kind # "endif"
<1> DEFINE t == Later(st, kind, lt)
<1>1. CASE st = "OUTSIDE"
  BY <1>1, Transitions DEF Later, LaterTo
<1>2. CASE st \in {"PASS_ELSE", "FALSE_ELSE", "TRUE_ELSE"}
  <2>1. t = IF kind = "endif" THEN End(IF st = "PASS_ELSE" THEN "print" ELSE "drop") ELSE Stop("error")
    BY <1>2 DEF Later
  <2> HIDE DEF t
  <2>2. CASE kind = "endif"
    <3>1. t.nest = -1 /\ t.do = IF st = "PASS_ELSE" THEN "print" ELSE "drop"
      BY <2>1, <2>2, Transitions
    <3>2. QED
      BY <1>2, <2>2, <3>1 DEF LaterTo, Shown, GroupStates, t
  <2>3. CASE kind # "endif"
    <3>1. t.do = "error" /\ t.nest = 0
      BY <2>1, <2>3, Transitions
    <3>2. QED
      BY <1>2, <2>3, <3>1 DEF LaterTo, t
  <2>4. QED
    BY <2>2, <2>3
<1>3. CASE kind = "endif" /\ st \notin {"OUTSIDE", "PASS_ELSE", "FALSE_ELSE", "TRUE_ELSE"}
  <2>1. \/ st \in {"FALSE_PREFIX", "TRUE_PREFIX", "FALSE_TRAILER"} /\ t = End("drop")
        \/ st \in {"PASS_MIDDLE", "FALSE_MIDDLE", "TRUE_MIDDLE"} /\ t = End("print")
    <3>1. CASE st = "FALSE_PREFIX"
      BY <1>3, <3>1 DEF Later
    <3>2. CASE st \in {"TRUE_PREFIX", "FALSE_TRAILER"}
      BY <1>3, <3>2 DEF Later
    <3>3. CASE st \in {"PASS_MIDDLE", "FALSE_MIDDLE"}
      BY <1>3, <3>3 DEF Later
    <3>4. CASE st = "TRUE_MIDDLE"
      BY <1>3, <3>4 DEF Later
    <3>5. QED
      BY <1>3, <3>1, <3>2, <3>3, <3>4 DEF GroupStates
  <2> HIDE DEF t
  <2>2. t.nest = -1 /\ (t.do = IF st \in Shown THEN "print" ELSE "drop") /\ st \in GroupStates
    BY <2>1, Transitions DEF Shown, GroupStates
  <2>3. QED
    BY <1>3, <2>2 DEF LaterTo, t
<1>4. CASE kind = "else" /\ st \notin {"OUTSIDE", "PASS_ELSE", "FALSE_ELSE", "TRUE_ELSE"}
  <2>1. \/ st = "FALSE_PREFIX" /\ t = T("drop", "TRUE_ELSE")
        \/ st \in {"TRUE_PREFIX", "FALSE_TRAILER"} /\ t = T("drop", "FALSE_ELSE")
        \/ st \in {"PASS_MIDDLE", "FALSE_MIDDLE"} /\ t = T("print", "PASS_ELSE")
        \/ st = "TRUE_MIDDLE" /\ t = T("endif", "FALSE_ELSE")
    <3>1. CASE st = "FALSE_PREFIX"
      BY <1>4, <3>1 DEF Later
    <3>2. CASE st \in {"TRUE_PREFIX", "FALSE_TRAILER"}
      BY <1>4, <3>2 DEF Later
    <3>3. CASE st \in {"PASS_MIDDLE", "FALSE_MIDDLE"}
      BY <1>4, <3>3 DEF Later
    <3>4. CASE st = "TRUE_MIDDLE"
      BY <1>4, <3>4 DEF Later
    <3>5. QED
      BY <1>4, <3>1, <3>2, <3>3, <3>4 DEF GroupStates
  <2> HIDE DEF t
  <2>2. t.nest = 0 /\ ElseTo(st, t) /\ t.do # "error" /\ st \in GroupStates
    <3>1. CASE st = "FALSE_PREFIX" /\ t = T("drop", "TRUE_ELSE")
      BY <3>1, Transitions DEF ElseTo, GroupStates
    <3>2. CASE st \in {"TRUE_PREFIX", "FALSE_TRAILER"} /\ t = T("drop", "FALSE_ELSE")
      BY <3>2, Transitions DEF ElseTo, GroupStates
    <3>3. CASE st \in {"PASS_MIDDLE", "FALSE_MIDDLE"} /\ t = T("print", "PASS_ELSE")
      BY <3>3, Transitions DEF ElseTo, GroupStates
    <3>4. CASE st = "TRUE_MIDDLE" /\ t = T("endif", "FALSE_ELSE")
      BY <3>4, Transitions DEF ElseTo, GroupStates
    <3>5. QED
      BY <2>1, <3>1, <3>2, <3>3, <3>4
  <2>3. QED
    BY <1>4, <2>2 DEF LaterTo, t
<1>5. CASE kind = "elif" /\ st \notin {"OUTSIDE", "PASS_ELSE", "FALSE_ELSE", "TRUE_ELSE"}
  <2>1. \/ st = "FALSE_PREFIX" /\ lt = "IF" /\ t = Block("if", "PASS_MIDDLE")
        \/ st = "FALSE_PREFIX" /\ lt = "TRUE" /\ t = Block("drop", "TRUE_PREFIX")
        \/ st = "FALSE_PREFIX" /\ lt = "FALSE" /\ t = Block("drop", "FALSE_PREFIX")
        \/ st \in {"TRUE_PREFIX", "FALSE_TRAILER"} /\ t = Block("drop", "FALSE_TRAILER")
        \/ st \in {"PASS_MIDDLE", "FALSE_MIDDLE"} /\ lt = "IF" /\ t = Block("print", "PASS_MIDDLE")
        \/ st \in {"PASS_MIDDLE", "FALSE_MIDDLE"} /\ lt = "TRUE" /\ t = T("else", "TRUE_MIDDLE")
        \/ st \in {"PASS_MIDDLE", "FALSE_MIDDLE"} /\ lt = "FALSE" /\ t = Block("drop", "FALSE_MIDDLE")
        \/ st = "TRUE_MIDDLE" /\ t = T("endif", "FALSE_TRAILER")
    <3>1. CASE st = "FALSE_PREFIX"
      BY <1>5, <3>1 DEF Later
    <3>2. CASE st \in {"TRUE_PREFIX", "FALSE_TRAILER"}
      BY <1>5, <3>2 DEF Later
    <3>3. CASE st \in {"PASS_MIDDLE", "FALSE_MIDDLE"}
      BY <1>5, <3>3 DEF Later
    <3>4. CASE st = "TRUE_MIDDLE"
      BY <1>5, <3>4 DEF Later
    <3>5. QED
      BY <1>5, <3>1, <3>2, <3>3, <3>4 DEF GroupStates
  <2> HIDE DEF t
  <2>2. t.nest = 0 /\ ElifTo(st, lt, t) /\ t.do # "error" /\ st \in GroupStates
    <3>1. CASE st = "FALSE_PREFIX" /\ lt = "IF" /\ t = Block("if", "PASS_MIDDLE")
      BY <3>1, Transitions DEF ElifTo, GroupStates
    <3>2. CASE st = "FALSE_PREFIX" /\ lt = "TRUE" /\ t = Block("drop", "TRUE_PREFIX")
      BY <3>2, Transitions DEF ElifTo, GroupStates
    <3>3. CASE st = "FALSE_PREFIX" /\ lt = "FALSE" /\ t = Block("drop", "FALSE_PREFIX")
      BY <3>3, Transitions DEF ElifTo, GroupStates
    <3>4. CASE st \in {"TRUE_PREFIX", "FALSE_TRAILER"} /\ t = Block("drop", "FALSE_TRAILER")
      BY <3>4, Transitions DEF ElifTo, GroupStates
    <3>5. CASE st \in {"PASS_MIDDLE", "FALSE_MIDDLE"} /\ lt = "IF" /\ t = Block("print", "PASS_MIDDLE")
      BY <3>5, Transitions DEF ElifTo, GroupStates
    <3>6. CASE st \in {"PASS_MIDDLE", "FALSE_MIDDLE"} /\ lt = "TRUE" /\ t = T("else", "TRUE_MIDDLE")
      BY <3>6, Transitions DEF ElifTo, GroupStates
    <3>7. CASE st \in {"PASS_MIDDLE", "FALSE_MIDDLE"} /\ lt = "FALSE" /\ t = Block("drop", "FALSE_MIDDLE")
      BY <3>7, Transitions DEF ElifTo, GroupStates
    <3>8. CASE st = "TRUE_MIDDLE" /\ t = T("endif", "FALSE_TRAILER")
      BY <3>8, Transitions DEF ElifTo, GroupStates
    <3>9. QED
      BY <2>1, <3>1, <3>2, <3>3, <3>4, <3>5, <3>6, <3>7, <3>8
  <2>3. QED
    BY <1>5, <2>2 DEF LaterTo, t
<1>6. QED
  BY <1>1, <1>2, <1>3, <1>4, <1>5

(* In the midst of a comment nothing is printed that follows what is       *)
(* dropped, nor dropped that follows what is printed, but for an #elif     *)
(* that becomes #if.                                                       *)
Steady(st, t) ==
    \/ t.do = "error"
    \/ t.do = "if" /\ t.to \in Keeping /\ t.nest = 0
    \/ t.do = "print" /\ st \in Keeping /\ (t.nest = 0 => t.to \in Keeping)
    \/ t.do = "drop" /\ st \notin Keeping /\ t.nest = 0 /\ t.to \notin Keeping

LEMMA DodgyIs ==
    ASSUME NEW st \in GroupStates \cup {"OUTSIDE"}, NEW kind \in {"elif", "else", "endif"},
           NEW lt, kind = "elif" <=> lt \in {"TRUE", "FALSE", "IF"}
    PROVE  LaterTo(st, kind, lt, Dodgy(st, kind, lt)) /\ Steady(st, Dodgy(st, kind, lt))
<1> DEFINE t == Dodgy(st, kind, lt)
           u == Later(st, kind, lt)
<1>1. \/ t = Stop("error")
      \/ st = "FALSE_PREFIX" /\ kind = "elif" /\ lt = "IF" /\ t = u
      \/ st = "PASS_MIDDLE" /\ kind = "elif" /\ lt # "IF" /\ t = Block("print", "PASS_MIDDLE")
      \/ st = "PASS_MIDDLE" /\ (kind # "elif" \/ lt = "IF") /\ t = u
      \/ st = "TRUE_MIDDLE" /\ kind = "endif" /\ t = u
      \/ st = "FALSE_TRAILER" /\ kind # "endif" /\ t = u
      \/ st = "PASS_ELSE" /\ t = u
  BY DEF Dodgy, GroupStates
<1>2. LaterTo(st, kind, lt, u)
  BY LaterIs
<1>3. u.do = "error" => \/ st = "OUTSIDE"
                        \/ st \in {"PASS_ELSE", "FALSE_ELSE", "TRUE_ELSE"} /\ kind # "endif"
  BY LaterIs
<1> HIDE DEF t, u
<1>4. CASE t = Stop("error")
  <2>1. t.do = "error" /\ t.nest = 0
    BY <1>4, Transitions
  <2>2. QED
    BY <2>1 DEF LaterTo, Steady, t
<1>5. CASE st = "PASS_MIDDLE" /\ kind = "elif" /\ lt # "IF" /\ t = Block("print", "PASS_MIDDLE")
  <2>1. t.do = "print" /\ t.to = "PASS_MIDDLE" /\ t.nest = 0
    BY <1>5, Transitions
  <2>2. LaterTo(st, kind, lt, t)
    BY <1>5, <2>1 DEF LaterTo, ElifTo, GroupStates
  <2>3. Steady(st, t)
    BY <1>5, <2>1 DEF Steady, Keeping
  <2>4. QED
    BY <2>2, <2>3 DEF t
<1>6. CASE t = u /\ u.do = "error"
  BY <1>2, <1>6 DEF Steady, t
<1>7. CASE st = "FALSE_PREFIX" /\ kind = "elif" /\ lt = "IF" /\ t = u /\ u.do # "error"
  <2>1. t.nest = 0 /\ t.do = "if" /\ t.to = "PASS_MIDDLE"
    BY <1>2, <1>7 DEF LaterTo, ElifTo
  <2>2. QED
    BY <1>2, <1>7, <2>1 DEF Steady, Keeping, t
<1>8. CASE st = "PASS_MIDDLE" /\ (kind # "elif" \/ lt = "IF") /\ t = u /\ u.do # "error"
  <2>1. \/ t.nest = 0 /\ t.do = "print" /\ t.to \in {"PASS_MIDDLE", "PASS_ELSE"}
        \/ t.nest = -1 /\ t.do = "print"
    <3>1. CASE kind = "endif"
      BY <1>2, <1>8, <3>1 DEF LaterTo, Shown
    <3>2. CASE kind = "else"
      BY <1>2, <1>8, <3>2 DEF LaterTo, ElseTo
    <3>3. CASE kind = "elif"
      BY <1>2, <1>8, <3>3 DEF LaterTo, ElifTo
    <3>4. QED
      BY <3>1, <3>2, <3>3
  <2>2. Steady(st, t)
    BY <1>8, <2>1 DEF Steady, Keeping
  <2>3. QED
    BY <1>2, <1>8, <2>2 DEF t
<1>9. CASE st \in {"TRUE_MIDDLE", "PASS_ELSE"} /\ kind = "endif" /\ t = u /\ u.do # "error"
  <2>1. t.nest = -1 /\ t.do = "print"
    BY <1>2, <1>9 DEF LaterTo, Shown
  <2>2. QED
    BY <1>2, <1>9, <2>1 DEF Steady, Keeping, t
<1>10. CASE st = "FALSE_TRAILER" /\ kind # "endif" /\ t = u /\ u.do # "error"
  <2>1. t.nest = 0 /\ t.do = "drop" /\ t.to \in {"FALSE_ELSE", "FALSE_TRAILER"}
    BY <1>2, <1>10 DEF LaterTo, ElifTo, ElseTo
  <2>2. QED
    BY <1>2, <1>10, <2>1 DEF Steady, Keeping, t
<1>11. CASE st = "PASS_ELSE" /\ kind # "endif" /\ t = u
  <2>1. u.do = "error"
    BY <1>2, <1>11 DEF LaterTo, ElifTo, ElseTo
  <2>2. QED
    BY <1>6, <1>11, <2>1
<1>12. QED
  BY <1>1, <1>4, <1>5, <1>6, <1>7, <1>8, <1>9, <1>10, <1>11

-----------------------------------------------------------------------------
(* What a line does to the groups *)

GroupsOf(t, s) == IF t.nest = 1 THEN Append(s, t.to)
                  ELSE IF t.nest = -1 THEN Front(s) ELSE [s EXCEPT ![Len(s)] = t.to]

LEMMA PlainAgrees ==
    ASSUME NEW s, NEW p, NEW q, Agree(s, p, q), NEW c
    PROVE  LET t == Plain(Last(s))
           IN Agree(GroupsOf(t, s), Cpp(p, "plain", c), Cpp(q, Became(t, "plain"), c))
<1> DEFINE t == Plain(Last(s))
<1>1. Shape(s, p, q) /\ s # << >> /\ s \in Seq(GroupStates \cup {"OUTSIDE"})
  BY ShapeFacts DEF Agree, Shape
<1>2. GroupsOf(t, s) = [s EXCEPT ![Len(s)] = Last(s)]
  BY DEF GroupsOf, Plain, T
<1>3. GroupsOf(t, s) = s
  BY <1>1, <1>2, FrontType, FrontAppend
<1>4. Became(t, "plain") \in {"plain", "dropped"}
  BY DEF Became, Plain, T
<1>5. Cpp(p, "plain", c) = p /\ Cpp(q, Became(t, "plain"), c) = q
  BY <1>4 DEF Cpp
<1>6. QED
  BY <1>3, <1>5

(* A group of which #if was read.                                          *)
LEMMA FirstLevel ==
    ASSUME NEW st, NEW up, NEW uq, NEW g, NEW h, NEW c \in BOOLEAN,
           g.on <=> (up /\ c), g.had <=> c, ~g.else, h.on <=> (uq /\ c), h.had <=> c,
           \/ st = "FALSE_TRAILER" /\ ~up
           \/ st = "PASS_MIDDLE" /\ (up <=> uq)
           \/ st = "TRUE_PREFIX" /\ c
           \/ st = "FALSE_PREFIX" /\ ~c
    PROVE  Level(st, up, g, h)
<1>1. CASE st = "FALSE_TRAILER" /\ ~up
  BY <1>1 DEF Level, Keeping, Shown
<1>2. CASE st = "PASS_MIDDLE" /\ (up <=> uq)
  BY <1>2 DEF Level, Keeping, Shown
<1>3. CASE st = "TRUE_PREFIX" /\ c
  BY <1>3 DEF Level, Keeping, Shown
<1>4. CASE st = "FALSE_PREFIX" /\ ~c
  BY <1>4 DEF Level, Keeping, Shown
<1>5. QED
  BY <1>1, <1>2, <1>3, <1>4

LEMMA FirstAgrees ==
    ASSUME NEW s, NEW p, NEW q, Agree(s, p, q), NEW c \in BOOLEAN, NEW lt, NEW t,
           lt \in {"TRUE", "TRUEI"} => c, lt \in {"FALSE", "FALSEI"} => ~c,
           FirstTo(Last(s), lt, t), t.do # "error"
    PROVE  Agree(GroupsOf(t, s), Cpp(p, "if", c), Cpp(q, Became(t, "if"), c))
<1> DEFINE g == [on |-> Used(p) /\ c, had |-> c, else |-> FALSE]
           h == [on |-> Used(q) /\ c, had |-> c, else |-> FALSE]
<1>1. t.nest = 1 /\ GroupsOf(t, s) = Append(s, t.to) /\ Cpp(p, "if", c) = Append(p, g)
  BY DEF FirstTo, GroupsOf, Cpp
<1>2. Used(p) \in BOOLEAN /\ Used(q) \in BOOLEAN
  <2>1. Shape(s, p, q)
    BY DEF Agree
  <2>2. p \in Seq(Group) /\ q \in Seq(Group)
    BY <2>1 DEF Shape
  <2>3. (p # << >> => Last(p) \in Group) /\ (q # << >> => Last(q) \in Group)
    BY <2>2, FrontType
  <2>4. QED
    BY <2>3 DEF Used, Group
<1>3. g \in Group /\ h \in Group
  BY <1>2 DEF Group
<1>4. /\ (g.on <=> Used(p) /\ c) /\ (g.had <=> c) /\ ~g.else
      /\ (h.on <=> Used(q) /\ c) /\ (h.had <=> c)
  OBVIOUS
<1>5. /\ Last(s) \in Keeping => (Used(p) <=> Used(q))
      /\ Last(s) \notin Keeping => ~Used(p)
  BY SameUse
<1>6. \/ Last(s) \notin Keeping /\ t.do = "drop" /\ t.to = "FALSE_TRAILER"
      \/ Last(s) \in Keeping /\ t.do = "print" /\ t.to = "PASS_MIDDLE"
      \/ Last(s) \in Keeping /\ c /\ t.do = "drop" /\ t.to = "TRUE_PREFIX"
      \/ Last(s) \in Keeping /\ ~c /\ t.do = "drop" /\ t.to = "FALSE_PREFIX"
  BY DEF FirstTo
<1> HIDE DEF g, h
<1>7. t.to \in GroupStates /\ (Last(s) \notin Keeping => t.to \in Buried)
  BY <1>6 DEF GroupStates, Buried
<1>8. Level(t.to, Used(p), g, h)
  <2>1. \/ t.to = "FALSE_TRAILER" /\ ~Used(p)
        \/ t.to = "PASS_MIDDLE" /\ (Used(p) <=> Used(q))
        \/ t.to = "TRUE_PREFIX" /\ c
        \/ t.to = "FALSE_PREFIX" /\ ~c
    BY <1>5, <1>6
  <2>2. QED
    BY <1>4, <2>1, FirstLevel
<1>9. Agree(Append(s, t.to), Append(p, g), IF t.to \in Shown THEN Append(q, h) ELSE q)
  BY <1>3, <1>7, <1>8, Enter
<1>10. Cpp(q, Became(t, "if"), c) = IF t.to \in Shown THEN Append(q, h) ELSE q
  BY <1>6 DEF Became, Cpp, Shown, h
<1>11. QED
  BY <1>1, <1>9, <1>10

LEMMA EndifAgrees ==
    ASSUME NEW s, NEW p, NEW q, Agree(s, p, q), NEW c, NEW t, t.nest = -1,
           Last(s) \in GroupStates, t.do = IF Last(s) \in Shown THEN "print" ELSE "drop"
    PROVE  Agree(GroupsOf(t, s), Cpp(p, "endif", c), Cpp(q, Became(t, "endif"), c))
<1>1. Agree(Front(s), Front(p), Under(s, q))
  BY Leave DEF GroupStates
<1>2. GroupsOf(t, s) = Front(s) /\ Cpp(p, "endif", c) = Front(p)
  BY DEF GroupsOf, Cpp
<1>3. Cpp(q, Became(t, "endif"), c) = Under(s, q)
  BY DEF Became, Cpp, Under
<1>4. QED
  BY <1>1, <1>2, <1>3

(* A group that is in another state after the line: g and h are what the   *)
(* compiler makes of it then.                                              *)
LEMMA Change ==
    ASSUME NEW s, NEW p, NEW q, Agree(s, p, q), Last(s) \in GroupStates, NEW st \in GroupStates,
           NEW g \in Group, NEW h \in Group,
           Last(Front(s)) \notin Keeping => st \in Buried, Level(st, Used(Front(p)), g, h)
    PROVE  Agree([s EXCEPT ![Len(s)] = st], Append(Front(p), g),
                 IF st \in Shown THEN Append(Under(s, q), h) ELSE Under(s, q))
<1>1. Agree(Front(s), Front(p), Under(s, q))
  BY Leave DEF GroupStates
<1>2. s # << >> /\ s \in Seq(GroupStates \cup {"OUTSIDE"})
  BY ShapeFacts DEF Agree, Shape
<1>3. [s EXCEPT ![Len(s)] = st] = Append(Front(s), st)
  BY <1>2, FrontAppend
<1> DEFINE s0 == Front(s)
           p0 == Front(p)
           q0 == Under(s, q)
<1>4. Agree(s0, p0, q0) /\ (Last(s0) \notin Keeping => st \in Buried) /\ Level(st, Used(p0), g, h)
  BY <1>1
<1> HIDE DEF s0, p0, q0
<1>5. Agree(Append(s0, st), Append(p0, g), IF st \in Shown THEN Append(q0, h) ELSE q0)
  BY <1>4, Enter
<1>6. QED
  BY <1>3, <1>5 DEF s0, p0, q0

(* Where a group is shown, or may be, what is around it is used in the     *)
(* output as in the input.                                                 *)
LEMMA AroundUse ==
    ASSUME NEW s, NEW p, NEW q, Agree(s, p, q), Last(s) \in GroupStates
    PROVE  /\ Used(Front(p)) \in BOOLEAN
           /\ Last(Front(s)) \in Keeping => (Used(Front(p)) <=> Used(Under(s, q)))
           /\ Last(Front(s)) \notin Keeping => Last(s) \in Buried /\ ~Used(Front(p))
<1>1. Agree(Front(s), Front(p), Under(s, q)) /\ (Last(Front(s)) \notin Keeping => Last(s) \in Buried)
  BY Leave DEF GroupStates
<1>2. Front(p) \in Seq(Group)
  BY <1>1 DEF Agree, Shape
<1>3. Used(Front(p)) \in BOOLEAN
  BY <1>2, FrontType DEF Used, Group
<1>4. QED
  BY <1>1, <1>3, SameUse

LEMMA ElseAgrees ==
    ASSUME NEW s, NEW p, NEW q, Agree(s, p, q), NEW c, NEW t, t.nest = 0,
           Last(s) \in GroupStates, ElseTo(Last(s), t)
    PROVE  Agree(GroupsOf(t, s), Cpp(p, "else", c), Cpp(q, Became(t, "else"), c))
<1> DEFINE up == Used(Front(p))
           l == Last(p)
           m == Last(q)
           g == [on |-> up /\ ~l.had, had |-> TRUE, else |-> TRUE]
           h == [on |-> Used(Front(q)) /\ ~m.had, had |-> TRUE, else |-> TRUE]
<1>1. /\ l \in Group /\ Level(Last(s), up, l, m) /\ p # << >>
      /\ Last(s) \in Shown => q # << >> /\ m \in Group
  BY Leave DEF GroupStates
<1>2. /\ up \in BOOLEAN
      /\ Last(Front(s)) \in Keeping => (up <=> Used(Under(s, q)))
      /\ Last(Front(s)) \notin Keeping => Last(s) \in Buried /\ ~up
  BY AroundUse
<1>3. GroupsOf(t, s) = [s EXCEPT ![Len(s)] = t.to] /\ Cpp(p, "else", c) = Append(Front(p), g)
  BY DEF GroupsOf, Cpp
<1>4. g \in Group /\ (g.on <=> up /\ ~l.had) /\ g.had = TRUE /\ g.else = TRUE
  BY <1>1, <1>2 DEF Group
<1>5. CASE Last(s) \in {"PASS_MIDDLE", "FALSE_MIDDLE"}
  <2>1. t.do = "print" /\ t.to = "PASS_ELSE" /\ Under(s, q) = Front(q) /\ t.to \in Shown /\ Last(s) \in Shown
    BY <1>5 DEF ElseTo, Under, Shown
  <2>2. up <=> Used(Front(q))
    BY <1>2, <1>5, <2>1 DEF Buried
  <2>3. h \in Group /\ (h.on <=> up /\ ~m.had) /\ h.had = TRUE
    BY <1>1, <1>2, <2>1, <2>2 DEF Group
  <2>4. Cpp(q, Became(t, "else"), c) = Append(Under(s, q), h)
    BY <2>1 DEF Became, Cpp
  <2>5. m.had <=> l.had
    BY <1>1, <2>1 DEF Level
  <2>6. Last(Front(s)) \in Keeping
    BY <1>2, <1>5 DEF Buried
  <2> HIDE DEF g, h, up, l, m
  <2>7. Level(t.to, up, g, h)
    BY <1>4, <2>1, <2>3, <2>5 DEF Level, Keeping
  <2>8. Level(t.to, Used(Front(p)), g, h)
    BY <2>7 DEF up
  <2>9. Agree([s EXCEPT ![Len(s)] = t.to], Append(Front(p), g),
               IF t.to \in Shown THEN Append(Under(s, q), h) ELSE Under(s, q))
    BY <1>4, <2>1, <2>3, <2>4, <2>6, <2>7, <2>8, Change DEF GroupStates
  <2>10. QED
    BY <1>3, <1>4, <2>1, <2>3, <2>4, <2>6, <2>7, <2>9
<1>6. CASE Last(s) \notin {"PASS_MIDDLE", "FALSE_MIDDLE"}
  <2>1. \/ Last(s) = "FALSE_PREFIX" /\ t.do = "drop" /\ t.to = "TRUE_ELSE"
        \/ Last(s) \in {"TRUE_PREFIX", "FALSE_TRAILER"} /\ t.do = "drop" /\ t.to = "FALSE_ELSE"
        \/ Last(s) = "TRUE_MIDDLE" /\ t.do = "endif" /\ t.to = "FALSE_ELSE"
    BY <1>6 DEF ElseTo
  <2>2. Cpp(q, Became(t, "else"), c) = Under(s, q)
    BY <2>1 DEF Became, Cpp, Under, Shown
  <2>3. t.to \in GroupStates /\ t.to \notin Shown /\ (Last(Front(s)) \notin Keeping => t.to \in Buried)
    BY <1>2, <2>1 DEF GroupStates, Shown, Buried
  <2> HIDE DEF g, up, l, m
  <2>4. Level(t.to, up, g, g)
    BY <1>1, <1>4, <2>1 DEF Level, Keeping, Shown
  <2>5. Level(t.to, Used(Front(p)), g, g)
    BY <2>4 DEF up
  <2>6. Agree([s EXCEPT ![Len(s)] = t.to], Append(Front(p), g),
               IF t.to \in Shown THEN Append(Under(s, q), g) ELSE Under(s, q))
    BY <1>4, <2>2, <2>3, <2>4, <2>5, Change
  <2>7. QED
    BY <1>3, <1>4, <2>2, <2>3, <2>4, <2>6
<1>7. QED
  BY <1>5, <1>6

LEMMA ElifAgrees ==
    ASSUME NEW s, NEW p, NEW q, Agree(s, p, q), NEW c \in BOOLEAN, NEW lt, NEW t, t.nest = 0,
           lt = "TRUE" => c, lt = "FALSE" => ~c,
           Last(s) \in GroupStates, ElifTo(Last(s), lt, t)
    PROVE  Agree(GroupsOf(t, s), Cpp(p, "elif", c), Cpp(q, Became(t, "elif"), c))
<1> DEFINE up == Used(Front(p))
           l == Last(p)
           m == Last(q)
           g == [l EXCEPT !.on = up /\ ~l.had /\ c, !.had = @ \/ c]
<1>1. /\ l \in Group /\ Level(Last(s), up, l, m) /\ p # << >>
      /\ Last(s) \in Shown => q # << >> /\ m \in Group
  BY Leave DEF GroupStates
<1>2. /\ up \in BOOLEAN
      /\ Last(Front(s)) \in Keeping => (up <=> Used(Under(s, q)))
      /\ Last(Front(s)) \notin Keeping => Last(s) \in Buried /\ ~up
  BY AroundUse
<1>3. GroupsOf(t, s) = [s EXCEPT ![Len(s)] = t.to] /\ Cpp(p, "elif", c) = Append(Front(p), g)
  BY DEF GroupsOf, Cpp
<1>4. /\ g \in Group /\ (g.on <=> up /\ ~l.had /\ c) /\ (g.had <=> l.had \/ c) /\ g.else = l.else
  BY <1>1, <1>2 DEF Group
<1>5. q \in Seq(Group) /\ \A x \in Group : Append(q, x) \in Seq(Group)
  BY DEF Agree, Shape
<1>6. CASE Last(s) = "FALSE_PREFIX" /\ t.do = "if"
  <2> DEFINE h == [on |-> Used(q) /\ c, had |-> c, else |-> FALSE]
  <2>1. t.to = "PASS_MIDDLE" /\ Under(s, q) = q /\ t.to \in Shown /\ t.to \in GroupStates
    BY <1>6 DEF ElifTo, Under, Shown, GroupStates
  <2>2. (up <=> Used(q)) /\ Last(Front(s)) \in Keeping
    BY <1>2, <1>6, <2>1 DEF Buried
  <2>3. h \in Group /\ (h.on <=> up /\ c) /\ h.had = c
    BY <1>2, <2>2 DEF Group
  <2>4. Cpp(q, Became(t, "elif"), c) = Append(Under(s, q), h)
    BY <1>6, <2>1 DEF Became, Cpp
  <2> HIDE DEF g, h, up, l, m
  <2>5. ~l.had /\ ~l.else
    BY <1>1, <1>6 DEF Level
  <2>6. Level(t.to, up, g, h)
    BY <1>4, <2>1, <2>3, <2>5 DEF Level, Keeping
  <2>7. Level(t.to, Used(Front(p)), g, h)
    BY <2>6 DEF up
  <2>8. Agree([s EXCEPT ![Len(s)] = t.to], Append(Front(p), g),
               IF t.to \in Shown THEN Append(Under(s, q), h) ELSE Under(s, q))
    BY <1>4, <2>1, <2>2, <2>3, <2>4, <2>6, <2>7, Change
  <2>9. QED
    BY <1>3, <1>4, <2>1, <2>2, <2>3, <2>4, <2>6, <2>8
<1>7. CASE Last(s) \in {"PASS_MIDDLE", "FALSE_MIDDLE"} /\ t.do = "print"
  <2> DEFINE h == [m EXCEPT !.on = Used(Front(q)) /\ ~m.had /\ c, !.had = @ \/ c]
  <2>1. t.to = "PASS_MIDDLE" /\ Under(s, q) = Front(q) /\ t.to \in Shown /\ t.to \in GroupStates /\ Last(s) \in Shown
    BY <1>7 DEF ElifTo, Under, Shown, GroupStates
  <2>2. (up <=> Used(Front(q))) /\ Last(Front(s)) \in Keeping
    BY <1>2, <1>7, <2>1 DEF Buried
  <2>3. h \in Group /\ (h.on <=> up /\ ~m.had /\ c) /\ (h.had <=> m.had \/ c)
    BY <1>1, <1>2, <2>1, <2>2 DEF Group
  <2>4. Cpp(q, Became(t, "elif"), c) = Append(Under(s, q), h)
    BY <1>7, <2>1 DEF Became, Cpp
  <2> HIDE DEF g, h, up, l, m
  <2>5. (m.had <=> l.had) /\ ~l.else
    BY <1>1, <1>7, <2>1 DEF Level
  <2>6. Level(t.to, up, g, h)
    BY <1>4, <2>1, <2>3, <2>5 DEF Level, Keeping
  <2>7. Level(t.to, Used(Front(p)), g, h)
    BY <2>6 DEF up
  <2>8. Agree([s EXCEPT ![Len(s)] = t.to], Append(Front(p), g),
               IF t.to \in Shown THEN Append(Under(s, q), h) ELSE Under(s, q))
    BY <1>4, <2>1, <2>2, <2>3, <2>4, <2>6, <2>7, Change
  <2>9. QED
    BY <1>3, <1>4, <2>1, <2>2, <2>3, <2>4, <2>6, <2>8
<1>8. CASE Last(s) \in {"PASS_MIDDLE", "FALSE_MIDDLE"} /\ t.do = "else"
  <2> DEFINE h == [on |-> Used(Front(q)) /\ ~m.had, had |-> TRUE, else |-> TRUE]
  <2>1. t.to = "TRUE_MIDDLE" /\ Under(s, q) = Front(q) /\ t.to \in Shown /\ t.to \in GroupStates /\ Last(s) \in Shown /\ c
    BY <1>8 DEF ElifTo, Under, Shown, GroupStates
  <2>2. (up <=> Used(Front(q))) /\ Last(Front(s)) \in Keeping
    BY <1>2, <1>8, <2>1 DEF Buried
  <2>3. h \in Group /\ (h.on <=> up /\ ~m.had) /\ h.had = TRUE
    BY <1>1, <1>2, <2>1, <2>2 DEF Group
  <2>4. Cpp(q, Became(t, "elif"), c) = Append(Under(s, q), h)
    BY <1>8, <2>1 DEF Became, Cpp
  <2> HIDE DEF g, h, up, l, m
  <2>5. (m.had <=> l.had) /\ ~l.else
    BY <1>1, <1>8, <2>1 DEF Level
  <2>6. Level(t.to, up, g, h)
    BY <1>4, <2>1, <2>3, <2>5 DEF Level, Keeping
  <2>7. Level(t.to, Used(Front(p)), g, h)
    BY <2>6 DEF up
  <2>8. Agree([s EXCEPT ![Len(s)] = t.to], Append(Front(p), g),
               IF t.to \in Shown THEN Append(Under(s, q), h) ELSE Under(s, q))
    BY <1>4, <2>1, <2>2, <2>3, <2>4, <2>6, <2>7, Change
  <2>9. QED
    BY <1>3, <1>4, <2>1, <2>2, <2>3, <2>4, <2>6, <2>8
<1>9. CASE Last(s) \in {"PASS_MIDDLE", "FALSE_MIDDLE"} /\ t.do = "drop"
  <2>1. t.to = "FALSE_MIDDLE" /\ Under(s, q) = Front(q) /\ t.to \in Shown /\ t.to \in GroupStates /\ Last(s) \in Shown /\ ~c
    BY <1>9 DEF ElifTo, Under, Shown, GroupStates
  <2>2. Last(Front(s)) \in Keeping /\ m \in Group
    BY <1>1, <1>2, <1>9, <2>1 DEF Buried
  <2>3. Cpp(q, Became(t, "elif"), c) = Append(Under(s, q), m)
    <3>1. Cpp(q, Became(t, "elif"), c) = q
      BY <1>9 DEF Became, Cpp
    <3>2. QED
      BY <1>1, <1>5, <2>1, <3>1, FrontAppend
  <2> HIDE DEF g, up, l, m
  <2>4. (m.had <=> l.had) /\ ~l.else
    BY <1>1, <1>9, <2>1 DEF Level
  <2>5. Level(t.to, up, g, m)
    BY <1>4, <2>1, <2>4 DEF Level, Keeping
  <2>6. Level(t.to, Used(Front(p)), g, m)
    BY <2>5 DEF up
  <2>7. Agree([s EXCEPT ![Len(s)] = t.to], Append(Front(p), g),
               IF t.to \in Shown THEN Append(Under(s, q), m) ELSE Under(s, q))
    BY <1>4, <2>1, <2>2, <2>3, <2>5, <2>6, Change
  <2>8. QED
    BY <1>3, <1>4, <2>1, <2>2, <2>3, <2>5, <2>7
<1>10. CASE ~(Last(s) \in {"PASS_MIDDLE", "FALSE_MIDDLE"} \/ t.do = "if")
  <2>1. \/ Last(s) = "FALSE_PREFIX" /\ c /\ t.do = "drop" /\ t.to = "TRUE_PREFIX"
        \/ Last(s) = "FALSE_PREFIX" /\ ~c /\ t.do = "drop" /\ t.to = "FALSE_PREFIX"
        \/ Last(s) \in {"TRUE_PREFIX", "FALSE_TRAILER"} /\ t.do = "drop" /\ t.to = "FALSE_TRAILER"
        \/ Last(s) = "TRUE_MIDDLE" /\ t.do = "endif" /\ t.to = "FALSE_TRAILER"
    BY <1>10 DEF ElifTo
  <2>2. Cpp(q, Became(t, "elif"), c) = Under(s, q)
    BY <2>1 DEF Became, Cpp, Under, Shown
  <2>3. t.to \in GroupStates /\ t.to \notin Shown /\ (Last(Front(s)) \notin Keeping => t.to \in Buried)
    BY <1>2, <2>1 DEF GroupStates, Shown, Buried
  <2> HIDE DEF g, up, l, m
  <2>4. Level(t.to, up, g, g)
    BY <1>1, <1>4, <2>1 DEF Level, Keeping, Shown
  <2>5. Level(t.to, Used(Front(p)), g, g)
    BY <2>4 DEF up
  <2>6. Agree([s EXCEPT ![Len(s)] = t.to], Append(Front(p), g),
               IF t.to \in Shown THEN Append(Under(s, q), g) ELSE Under(s, q))
    BY <1>4, <2>2, <2>3, <2>4, <2>5, Change
  <2>7. QED
    BY <1>3, <1>4, <2>2, <2>3, <2>4, <2>6
<1>11. QED
  BY <1>6, <1>7, <1>8, <1>9, <1>10 DEF ElifTo

-----------------------------------------------------------------------------
(* One line *)

Kinds == {"plain", "if", "elif", "else", "endif"}
(* A line as the program reads it, its condition being true or not (c).    *)
Reading(l, c) ==
    /\ l.kind \in Kinds /\ l.dodgy \in BOOLEAN /\ c \in BOOLEAN
    /\ l.kind = "plain" => ~l.dodgy
    /\ l.kind = "if" => l.lt \in {"TRUE", "FALSE", "TRUEI", "FALSEI", "IF"}
    /\ l.kind \in {"elif", "else", "endif"} => (l.kind = "elif" <=> l.lt \in {"TRUE", "FALSE", "IF"})
    /\ l.lt \in {"TRUE", "TRUEI"} => c
    /\ l.lt \in {"FALSE", "FALSEI"} => ~c

LEMMA TableIs ==
    ASSUME NEW st \in GroupStates \cup {"OUTSIDE"}, NEW l, NEW c, Reading(l, c)
    PROVE  LET t == trans_table(st, l)
           IN /\ l.kind = "plain" => t = Plain(st)
              /\ l.kind = "if" => t = First(st, l.lt, l.dodgy)
              /\ l.kind \in {"elif", "else", "endif"} =>
                   /\ LaterTo(st, l.kind, l.lt, t)
                   /\ l.dodgy => Steady(st, t)
                   /\ t.do = "error" =>
                        \/ l.dodgy \/ st = "OUTSIDE"
                        \/ st \in {"PASS_ELSE", "FALSE_ELSE", "TRUE_ELSE"} /\ l.kind # "endif"
<1> DEFINE t == trans_table(st, l)
<1>1. l.kind \in Kinds /\ l.dodgy \in BOOLEAN
  BY DEF Reading
<1>2. CASE l.kind = "plain"
  BY <1>2 DEF trans_table
<1>3. CASE l.kind = "if"
  BY <1>3 DEF trans_table
<1>4. CASE l.kind \in {"elif", "else", "endif"}
  <2>1. l.kind = "elif" <=> l.lt \in {"TRUE", "FALSE", "IF"}
    BY <1>4 DEF Reading
  <2> DEFINE k == l.kind
             lt == l.lt
  <2>2. t = IF l.dodgy THEN Dodgy(st, k, lt) ELSE Later(st, k, lt)
    BY <1>4 DEF trans_table
  <2>3. k \in {"elif", "else", "endif"} /\ (k = "elif" <=> lt \in {"TRUE", "FALSE", "IF"})
    BY <1>4, <2>1
  <2> HIDE DEF t, k, lt
  <2>4. CASE l.dodgy
    <3>1. t = Dodgy(st, k, lt)
      BY <2>2, <2>4
    <3>2. LaterTo(st, k, lt, Dodgy(st, k, lt)) /\ Steady(st, Dodgy(st, k, lt))
      BY <2>3, DodgyIs
    <3>3. LaterTo(st, k, lt, t) /\ Steady(st, t)
      BY <3>1, <3>2
    <3>4. QED
      BY <1>4, <2>4, <3>3 DEF t, k, lt
  <2>5. CASE ~l.dodgy
    <3>1. t = Later(st, k, lt)
      BY <2>2, <2>5
    <3>2. /\ LaterTo(st, k, lt, Later(st, k, lt))
          /\ Later(st, k, lt).do = "error" =>
                 \/ st = "OUTSIDE"
                 \/ st \in {"PASS_ELSE", "FALSE_ELSE", "TRUE_ELSE"} /\ k # "endif"
      BY <2>3, LaterIs
    <3>3. /\ LaterTo(st, k, lt, t)
          /\ t.do = "error" => 
                 \/ st = "OUTSIDE"
                 \/ st \in {"PASS_ELSE", "FALSE_ELSE", "TRUE_ELSE"} /\ k # "endif"
      BY <3>1, <3>2
    <3>4. QED
      BY <1>4, <2>5, <3>3 DEF t, k, lt
  <2>6. QED
    BY <2>4, <2>5
<1>5. QED
  BY <1>1, <1>2, <1>3, <1>4 DEF Kinds

(* The groups still agree after a line that is not refused.                *)
LEMMA LineAgrees ==
    ASSUME NEW s, NEW p, NEW q, Agree(s, p, q), NEW l, NEW c, Reading(l, c),
           NEW t, t = trans_table(Last(s), l), t.do # "error"
    PROVE  Agree(GroupsOf(t, s), Cpp(p, l.kind, c), Cpp(q, Became(t, l.kind), c))
<1>1. Last(s) \in GroupStates \cup {"OUTSIDE"} /\ c \in BOOLEAN /\ l.kind \in Kinds /\ l.dodgy \in BOOLEAN
  BY ShapeFacts DEF Agree, Reading
<1>2. CASE l.kind = "plain"
  <2>1. t = Plain(Last(s))
    BY <1>1, <1>2, TableIs
  <2>2. QED
    BY <1>2, <2>1, PlainAgrees
<1>3. CASE l.kind = "if"
  <2>1. t = First(Last(s), l.lt, l.dodgy)
    BY <1>1, <1>3, TableIs
  <2>2. l.lt \in {"TRUE", "FALSE", "TRUEI", "FALSEI", "IF"}
    BY <1>3 DEF Reading
  <2>3. FirstTo(Last(s), l.lt, t)
    BY <1>1, <2>1, <2>2, FirstIs
  <2>4. (l.lt \in {"TRUE", "TRUEI"} => c) /\ (l.lt \in {"FALSE", "FALSEI"} => ~c)
    BY DEF Reading
  <2>5. QED
    BY <1>1, <1>3, <2>3, <2>4, FirstAgrees
<1>4. CASE l.kind = "endif"
  <2>1. LaterTo(Last(s), "endif", l.lt, t)
    BY <1>1, <1>4, TableIs
  <2>2. Last(s) \in GroupStates /\ t.nest = -1 /\ t.do = IF Last(s) \in Shown THEN "print" ELSE "drop"
    BY <2>1 DEF LaterTo
  <2>3. QED
    BY <1>4, <2>2, EndifAgrees
<1>5. CASE l.kind = "else"
  <2>1. LaterTo(Last(s), "else", l.lt, t)
    BY <1>1, <1>5, TableIs
  <2>2. Last(s) \in GroupStates /\ t.nest = 0 /\ ElseTo(Last(s), t)
    BY <2>1 DEF LaterTo
  <2>3. QED
    BY <1>5, <2>2, ElseAgrees
<1>6. CASE l.kind = "elif"
  <2>1. LaterTo(Last(s), "elif", l.lt, t)
    BY <1>1, <1>6, TableIs
  <2>2. Last(s) \in GroupStates /\ t.nest = 0 /\ ElifTo(Last(s), l.lt, t)
    BY <2>1 DEF LaterTo
  <2>3. (l.lt = "TRUE" => c) /\ (l.lt = "FALSE" => ~c)
    BY DEF Reading
  <2>4. QED
    BY <1>1, <1>6, <2>2, <2>3, ElifAgrees
<1>7. QED
  BY <1>1, <1>2, <1>3, <1>4, <1>5, <1>6 DEF Kinds

(* A line is refused only within a comment or out of place, and none       *)
(* changes the depth or the ignoring of comments outside of all groups,    *)
(* but for the first line of a group.                                      *)
LEMMA LineRefused ==
    ASSUME NEW s, NEW p, NEW q, Agree(s, p, q), NEW l, NEW c, Reading(l, c),
           NEW t, t = trans_table(Last(s), l)
    PROVE  /\ t.nest = 1 => l.kind = "if"
           /\ t.do = "error" => l.dodgy \/ Misplaced(p, l.kind)
           /\ Last(s) = "OUTSIDE" /\ t.do # "error" => ~(t.nest = -1 \/ (t.off /\ t.nest = 0))
<1>1. Last(s) \in GroupStates \cup {"OUTSIDE"} /\ l.kind \in Kinds /\ l.dodgy \in BOOLEAN
  BY ShapeFacts DEF Agree, Reading
<1>2. CASE l.kind = "plain"
  <2>1. t = Plain(Last(s))
    BY <1>1, <1>2, TableIs
  <2>2. t.nest = 0 /\ t.do \in {"print", "drop"} /\ t.off = FALSE
    BY <2>1, Transitions DEF Plain
  <2>3. QED
    BY <1>2, <2>2
<1>3. CASE l.kind = "if"
  <2>1. t = First(Last(s), l.lt, l.dodgy)
    BY <1>1, <1>3, TableIs
  <2>2. l.lt \in {"TRUE", "FALSE", "TRUEI", "FALSEI", "IF"}
    BY <1>3 DEF Reading
  <2>3. FirstTo(Last(s), l.lt, t) /\ (t.do = "error" => l.dodgy)
    BY <1>1, <2>1, <2>2, FirstIs
  <2>4. t.do # "error" => t.nest = 1
    BY <2>3 DEF FirstTo
  <2>5. QED
    BY <1>3, <2>3, <2>4
<1>4. CASE l.kind \in {"elif", "else", "endif"}
  <2>1. /\ LaterTo(Last(s), l.kind, l.lt, t)
        /\ t.do = "error" =>
             \/ l.dodgy \/ Last(s) = "OUTSIDE"
             \/ Last(s) \in {"PASS_ELSE", "FALSE_ELSE", "TRUE_ELSE"} /\ l.kind # "endif"
    BY <1>1, <1>4, TableIs
  <2>2. t.nest \in {0, -1} /\ (t.do # "error" => Last(s) \in GroupStates)
    BY <2>1 DEF LaterTo
  <2>3. "OUTSIDE" \notin GroupStates
    BY DEF GroupStates
  <2>4. Last(s) = "OUTSIDE" => p = << >>
    BY ShapeFacts DEF Agree
  <2>5. Last(s) \in {"PASS_ELSE", "FALSE_ELSE", "TRUE_ELSE"} => p # << >> /\ Last(p).else
    <3>1. SUFFICES ASSUME Last(s) \in {"PASS_ELSE", "FALSE_ELSE", "TRUE_ELSE"}
                   PROVE  p # << >> /\ Last(p).else
      OBVIOUS
    <3>2. Level(Last(s), Used(Front(p)), Last(p), Last(q)) /\ p # << >>
      BY <3>1, Leave
    <3>3. QED
      BY <3>1, <3>2 DEF Level
  <2>6. t.do = "error" => l.dodgy \/ Misplaced(p, l.kind)
    BY <1>4, <2>1, <2>4, <2>5 DEF Misplaced
  <2>7. QED
    BY <2>2, <2>3, <2>6
<1>5. QED
  BY <1>1, <1>2, <1>3, <1>4 DEF Kinds

(* Where a line of text or one in a comment is dropped.                    *)
LEMMA LineSteady ==
    ASSUME NEW s, NEW p, NEW q, Agree(s, p, q), NEW l, NEW c, Reading(l, c),
           NEW t, t = trans_table(Last(s), l), t.do # "error", l.dodgy \/ l.kind = "plain"
    PROVE  /\ Became(t, l.kind) = "dropped" <=> Last(GroupsOf(t, s)) \notin Keeping
           /\ \/ Became(t, l.kind) = "dropped" <=> Last(s) \notin Keeping
              \/ l.kind = "elif" /\ Became(t, l.kind) = "if"
           /\ l.kind = "plain" => (Became(t, "plain") = "plain" <=> Last(s) \in Keeping)
           /\ l.kind = "plain" => Last(GroupsOf(t, s)) = Last(s)
<1>1. /\ Last(s) \in GroupStates \cup {"OUTSIDE"} /\ l.kind \in Kinds /\ l.dodgy \in BOOLEAN
      /\ s # << >> /\ s \in Seq(GroupStates \cup {"OUTSIDE"})
  BY ShapeFacts DEF Agree, Shape, Reading
<1> DEFINE S == GroupStates \cup {"OUTSIDE"}
<1>2. /\ t.nest = 1 => GroupsOf(t, s) = Append(s, t.to)
      /\ t.nest = -1 => GroupsOf(t, s) = Front(s)
      /\ t.nest = 0 => GroupsOf(t, s) = [s EXCEPT ![Len(s)] = t.to]
  BY DEF GroupsOf
<1>3. (t.nest = 1 /\ t.to \in S) => Last(GroupsOf(t, s)) = t.to
  <2>1. SUFFICES ASSUME t.nest = 1, t.to \in S PROVE Last(GroupsOf(t, s)) = t.to
    OBVIOUS
  <2>2. GroupsOf(t, s) = Append(s, t.to) /\ s \in Seq(S)
    BY <1>1, <1>2, <2>1
  <2> HIDE DEF S
  <2>3. QED
    BY <2>1, <2>2, AppendType
<1>4. (t.nest = 0 /\ t.to \in S) => Last(GroupsOf(t, s)) = t.to
  <2>1. SUFFICES ASSUME t.nest = 0, t.to \in S PROVE Last(GroupsOf(t, s)) = t.to
    OBVIOUS
  <2>2. GroupsOf(t, s) = Append(Front(s), t.to)
    BY <1>1, <1>2, <2>1, FrontAppend
  <2>3. Front(s) \in Seq(S)
    BY <1>1, FrontType
  <2>4. QED
    BY <2>1, <2>2, <2>3, AppendType
<1>5. (t.nest = -1 /\ Last(s) \in GroupStates /\ Last(s) \in Keeping) => Last(GroupsOf(t, s)) \in Keeping
  <2>1. SUFFICES ASSUME t.nest = -1, Last(s) \in GroupStates, Last(s) \in Keeping
                 PROVE  Last(Front(s)) \in Keeping
    BY <1>2
  <2>2. Last(s) # "OUTSIDE" /\ Last(s) \notin Buried
    BY <2>1 DEF GroupStates, Keeping, Buried
  <2>3. QED
    BY <2>2, Leave
<1>6. /\ t.do = "drop" => Became(t, l.kind) = "dropped"
      /\ t.do = "print" => Became(t, l.kind) = l.kind
      /\ t.do = "if" => Became(t, l.kind) = "if"
      /\ l.kind # "dropped"
  <2>1. l.kind # "dropped"
    BY <1>1 DEF Kinds
  <2>2. t.do = "drop" => Became(t, l.kind) = "dropped"
    BY DEF Became
  <2>3. t.do = "print" => Became(t, l.kind) = l.kind
    BY DEF Became
  <2>4. t.do = "if" => Became(t, l.kind) = "if"
    BY DEF Became
  <2>5. QED
    BY <2>1, <2>2, <2>3, <2>4
<1>7. CASE l.kind = "plain"
  <2>1. t = Plain(Last(s))
    BY <1>1, <1>7, TableIs
  <2>2. t.nest = 0 /\ t.to = Last(s) /\ (t.do = IF Last(s) \in Keeping THEN "print" ELSE "drop")
    BY <2>1, Transitions DEF Plain
  <2>3. Last(GroupsOf(t, s)) = Last(s)
    BY <1>1, <1>4, <2>2
  <2>4. QED
    BY <1>6, <1>7, <2>2, <2>3
<1>8. CASE l.kind = "if" /\ l.dodgy
  <2>1. t = First(Last(s), l.lt, l.dodgy)
    BY <1>1, <1>8, TableIs
  <2>2. l.lt \in {"TRUE", "FALSE", "TRUEI", "FALSEI", "IF"}
    BY <1>8 DEF Reading
  <2>3. /\ FirstTo(Last(s), l.lt, t)
        /\ (Last(s) \notin Keeping /\ t.do = "drop") \/ t.do = "print"
    <3> DEFINE st == Last(s)
               lt == l.lt
               dodgy == l.dodgy
    <3>1. t = First(st, lt, dodgy) /\ lt \in {"TRUE", "FALSE", "TRUEI", "FALSEI", "IF"} /\ dodgy \in BOOLEAN /\ dodgy
      BY <1>1, <1>8, <2>1, <2>2
    <3> HIDE DEF st, lt, dodgy
    <3>2. /\ FirstTo(st, lt, First(st, lt, dodgy))
          /\ \/ First(st, lt, dodgy).do = "error"
             \/ st \notin Keeping /\ First(st, lt, dodgy).do = "drop"
             \/ First(st, lt, dodgy).do = "print"
      BY <3>1, FirstIs
    <3>3. FirstTo(st, lt, t) /\ ((st \notin Keeping /\ t.do = "drop") \/ t.do = "print")
      BY <3>1, <3>2
    <3>4. QED
      BY <3>3 DEF st, lt
  <2>4. \/ t.nest = 1 /\ Last(s) \notin Keeping /\ t.do = "drop" /\ t.to = "FALSE_TRAILER"
        \/ t.nest = 1 /\ Last(s) \in Keeping /\ t.do = "print" /\ t.to = "PASS_MIDDLE"
    BY <2>3 DEF FirstTo
  <2>5. t.nest = 1 /\ t.to \in S /\ (t.do = "drop" <=> t.to \notin Keeping)
        /\ (t.do = "drop" <=> Last(s) \notin Keeping) /\ t.do \in {"drop", "print"}
    BY <2>4 DEF GroupStates, Keeping
  <2>6. QED
    BY <1>3, <1>6, <1>8, <2>5
<1>9. CASE l.kind \in {"elif", "else", "endif"} /\ l.dodgy
  <2>1. LaterTo(Last(s), l.kind, l.lt, t) /\ Steady(Last(s), t)
    BY <1>1, <1>9, TableIs
  <2>2. /\ Last(s) \in GroupStates /\ t.nest \in {0, -1}
        /\ t.nest = 0 => t.to \in S
        /\ t.do = "if" => l.kind = "elif"
    <3>1. CASE l.kind = "endif"
      BY <2>1, <3>1 DEF LaterTo
    <3>2. CASE l.kind = "else"
      <4>1. Last(s) \in GroupStates /\ t.nest = 0 /\ ElseTo(Last(s), t)
        BY <2>1, <3>2 DEF LaterTo
      <4>2. t.to \in S /\ t.do # "if"
        BY <4>1 DEF ElseTo, GroupStates
      <4>3. QED
        BY <4>1, <4>2
    <3>3. CASE l.kind = "elif"
      <4>1. Last(s) \in GroupStates /\ t.nest = 0 /\ ElifTo(Last(s), l.lt, t)
        BY <2>1, <3>3 DEF LaterTo
      <4>2. t.to \in S
        BY <4>1 DEF ElifTo, GroupStates
      <4>3. QED
        BY <3>3, <4>1, <4>2
    <3>4. QED
      BY <1>9, <3>1, <3>2, <3>3
  <2>3. CASE t.do = "if" /\ t.to \in Keeping /\ t.nest = 0
    BY <1>4, <1>6, <2>2, <2>3
  <2>4. CASE t.do = "print" /\ Last(s) \in Keeping /\ (t.nest = 0 => t.to \in Keeping)
    BY <1>4, <1>5, <1>6, <1>9, <2>2, <2>4
  <2>5. CASE t.do = "drop" /\ Last(s) \notin Keeping /\ t.nest = 0 /\ t.to \notin Keeping
    BY <1>4, <1>6, <1>9, <2>2, <2>5
  <2>6. QED
    BY <2>1, <2>3, <2>4, <2>5 DEF Steady
<1>10. QED
  BY <1>1, <1>7, <1>8, <1>9 DEF Kinds

-----------------------------------------------------------------------------
(* The invariant *)

UnifdefTypes ==
    /\ strictlogic \in BOOLEAN /\ killconsts \in BOOLEAN /\ unknown \in Seq(Int)
    /\ conditions = Outcomes(strictlogic, killconsts, unknown)
    /\ incomment \in BOOLEAN /\ torn \in BOOLEAN
Exits == exit # "abort" /\ (exit = "done" => inp = << >> /\ (torn \/ outp = << >>))
(* The groups the program takes the output for; they are those a compiler  *)
(* sees as long as no comment is torn.                                     *)
Follow(s, p, q) == \E g : Agree(s, p, g) /\ (~torn => g = q)
(* What a line of text became, and the line a comment started in or went   *)
(* on in, is what the state of the group says.                             *)
TextFollows ==
    (exit = "" /\ lastline.kind = "plain") => (printed = "plain" <=> Last(ifstate) \in Keeping)
CommentFollows ==
    (exit = "" /\ incomment) => (printed = "dropped" <=> Last(ifstate) \notin Keeping)

UnifdefInv == /\ UnifdefTypes /\ Follow(ifstate, inp, outp)
              /\ Exits /\ TextFollows /\ CommentFollows
              /\ OnlyDisorderIsRefused /\ CommentsStayWhole

LEMMA Alone ==
    ASSUME NEW s, NEW p, NEW q, Agree(s, p, q), Last(s) = "OUTSIDE"
    PROVE  Len(s) = 1 /\ p = << >> /\ q = << >>
<1>1. Len(s) = 1 /\ p = << >> /\ q \in Seq(Group)
  BY ShapeFacts DEF Agree, Shape
<1>2. PICK d \in [1..Len(s) -> 0..Len(q)] : Follows(s, p, q, d)
  BY DEF Agree
<1>3. Len(q) = 0
  BY <1>1, <1>2 DEF Follows
<1>4. QED
  BY <1>1, <1>3

LEMMA InvInit == UnifdefInit => UnifdefInv
<1> SUFFICES ASSUME UnifdefInit PROVE UnifdefInv
  OBVIOUS
<1>1. UnifdefTypes
  BY UnifdefAssumption DEF UnifdefAssumption, UnifdefInit, UnifdefStart, UnifdefTypes
<1>2. ifstate = <<"OUTSIDE">> /\ inp = << >> /\ outp = << >> /\ exit = "" /\ printed = "plain"
      /\ incomment = FALSE /\ torn = FALSE /\ lastline.was = FALSE
  BY DEF UnifdefInit, UnifdefStart
<1>3. Last(<<"OUTSIDE">>) = "OUTSIDE" /\ "OUTSIDE" \in Keeping
  BY DEF Last, Keeping
<1>4. Agree(<<"OUTSIDE">>, << >>, << >>)
  <2> DEFINE s == <<"OUTSIDE">>
             d == [i \in 1..1 |-> 0]
  <2>1. s \in Seq(GroupStates \cup {"OUTSIDE"}) /\ Len(s) = 1 /\ s[1] = "OUTSIDE"
    OBVIOUS
  <2>2. << >> \in Seq(Group) /\ Len(<< >>) = 0
    OBVIOUS
  <2> HIDE DEF s
  <2>3. Shape(s, << >>, << >>)
    BY <2>1, <2>2 DEF Shape
  <2>4. d \in [1..Len(s) -> 0..Len(<< >>)] /\ d[1] = 0
    BY <2>1, <2>2
  <2>5. \A i \in 1..Len(s) : i = 1
    BY <2>1
  <2>6. \A i \in 2..Len(s) : FALSE
    BY <2>1
  <2> HIDE DEF d
  <2>7. Follows(s, << >>, << >>, d)
    BY <2>1, <2>2, <2>4, <2>5, <2>6 DEF Follows, OnAt
  <2>8. QED
    BY <2>3, <2>4, <2>7 DEF Agree, s
<1>5. Exits /\ TextFollows /\ CommentFollows /\ OnlyDisorderIsRefused /\ CommentsStayWhole
  BY <1>2, <1>3 DEF Exits, TextFollows, CommentFollows, OnlyDisorderIsRefused, CommentsStayWhole
<1>6. QED
  BY <1>1, <1>2, <1>4, <1>5 DEF UnifdefInv, Follow

Readable(kind, lt, c, more) ==
    \A dodgy \in BOOLEAN : (kind = "plain" => ~dodgy) =>
      Reading([kind |-> kind, lt |-> IF more THEN "IF" ELSE lt, dodgy |-> dodgy], c)

LEMMA LineStep ==
    ASSUME UnifdefInv, NEW kind, NEW lt, NEW c, NEW more \in BOOLEAN, NEW ends \in BOOLEAN,
           Line(kind, lt, c, more, ends), Readable(kind, lt, c, more)
    PROVE  UnifdefInv'
<1> DEFINE dodgy == kind # "plain" /\ (incomment \/ ends)
           l == [kind |-> kind, lt |-> IF more THEN "IF" ELSE lt, dodgy |-> dodgy]
           t == trans_table(Last(ifstate), l)
<1>1. /\ exit = "" /\ incomment' = ends
      /\ lastline' = [kind |-> kind, dodgy |-> dodgy, was |-> incomment, before |-> printed]
      /\ UNCHANGED <<strictlogic, killconsts, unknown, conditions>>
      /\ \/ t.nest = 1 /\ Nesting = MAXDEPTH - 1 /\ Halt("error")
         \/ t.do = "error" /\ Halt("error")
         \/ t.do # "error" /\ Nesting = 0 /\ (t.nest = -1 \/ (t.off /\ t.nest = 0)) /\ Halt("abort")
         \/ t.do # "error" /\ Apply(t, kind, c)
  BY DEF Line, options
<1>0. PICK g : Agree(ifstate, inp, g) /\ (~torn => g = outp)
  BY DEF UnifdefInv, Follow
<1>2. /\ Agree(ifstate, inp, g) /\ (~torn => g = outp) /\ UnifdefTypes
      /\ incomment => (printed = "dropped" <=> Last(ifstate) \notin Keeping)
  BY <1>0, <1>1 DEF UnifdefInv, CommentFollows
<1>3. /\ Reading(l, c) /\ l.kind = kind /\ l.dodgy = dodgy /\ dodgy \in BOOLEAN
      /\ kind # "plain" => (dodgy <=> incomment \/ ends)
      /\ kind = "plain" => ~dodgy
  BY <1>2 DEF UnifdefTypes, Readable
<1>4. UnifdefTypes'
  BY <1>1, <1>2 DEF UnifdefTypes, Halt, Apply
<1> HIDE DEF l, t, dodgy
<1>5. /\ t.nest = 1 => kind = "if"
      /\ t.do = "error" => dodgy \/ Misplaced(inp, kind)
      /\ Last(ifstate) = "OUTSIDE" /\ t.do # "error" => ~(t.nest = -1 \/ (t.off /\ t.nest = 0))
  BY <1>2, <1>3, LineRefused DEF t
<1>6. Nesting = Len(inp) /\ (Nesting = 0 => Last(ifstate) = "OUTSIDE")
  BY <1>2, ShapeFacts DEF Agree, Shape, Nesting
<1>7. CASE Halt("error") /\ (t.do = "error" \/ (t.nest = 1 /\ Nesting = MAXDEPTH - 1))
  <2>1. exit' = "error" /\ UNCHANGED <<ifstate, inp, outp, torn>>
    BY <1>7 DEF Halt
  <2>2. Follow(ifstate, inp, outp)'
    BY <1>2, <2>1 DEF Follow
  <2>3. OnlyDisorderIsRefused'
    BY <1>1, <1>5, <1>6, <1>7, <2>1 DEF OnlyDisorderIsRefused, Misplaced
  <2>4. Exits' /\ TextFollows' /\ CommentFollows' /\ CommentsStayWhole'
    BY <2>1 DEF Exits, TextFollows, CommentFollows, CommentsStayWhole
  <2>5. QED
    BY <1>4, <2>2, <2>3, <2>4 DEF UnifdefInv
<1>8. CASE t.do # "error" /\ Apply(t, kind, c)
  <2>1. /\ ifstate' = GroupsOf(t, ifstate) /\ inp' = Cpp(inp, kind, c)
        /\ ~torn' => ~torn /\ outp' = Cpp(outp, Became(t, kind), c)
        /\ printed' = Became(t, kind) /\ exit' = ""
    BY <1>1, <1>8 DEF Apply, GroupsOf
  <2>2. Follow(ifstate, inp, outp)'
    <3>1. Agree(GroupsOf(t, ifstate), Cpp(inp, l.kind, c), Cpp(g, Became(t, l.kind), c))
      BY <1>2, <1>3, <1>8, LineAgrees DEF t
    <3>2. Agree(ifstate', inp', Cpp(g, Became(t, kind), c))
      BY <1>3, <2>1, <3>1
    <3>3. ~torn' => Cpp(g, Became(t, kind), c) = outp'
      BY <1>2, <2>1
    <3>4. QED
      BY <3>2, <3>3 DEF Follow
  <2>3. dodgy \/ kind = "plain" =>
          /\ Became(t, kind) = "dropped" <=> Last(GroupsOf(t, ifstate)) \notin Keeping
          /\ \/ Became(t, kind) = "dropped" <=> Last(ifstate) \notin Keeping
             \/ kind = "elif" /\ Became(t, kind) = "if"
          /\ kind = "plain" => (Became(t, "plain") = "plain" <=> Last(ifstate) \in Keeping)
          /\ kind = "plain" => Last(GroupsOf(t, ifstate)) = Last(ifstate)
    BY <1>2, <1>3, <1>8, LineSteady DEF t
  <2>4. TextFollows'
    BY <1>1, <2>1, <2>3 DEF TextFollows
  <2>5. CommentFollows'
    BY <1>1, <1>3, <2>1, <2>3 DEF CommentFollows
  <2>6. CommentsStayWhole'
    BY <1>1, <1>2, <1>3, <2>1, <2>3 DEF CommentsStayWhole
  <2>7. Exits' /\ OnlyDisorderIsRefused'
    BY <2>1 DEF Exits, OnlyDisorderIsRefused
  <2>8. QED
    BY <1>4, <2>2, <2>4, <2>5, <2>6, <2>7 DEF UnifdefInv
<1>9. ~(t.do # "error" /\ Nesting = 0 /\ (t.nest = -1 \/ (t.off /\ t.nest = 0)))
  BY <1>5, <1>6
<1>10. \/ Halt("error") /\ (t.do = "error" \/ (t.nest = 1 /\ Nesting = MAXDEPTH - 1))
       \/ t.do # "error" /\ Apply(t, kind, c)
  BY <1>1, <1>9
<1>11. QED
  BY <1>7, <1>8, <1>10

LEMMA NoCondition ==
    ASSUME NEW kind \in {"else", "endif", "plain"} PROVE Readable(kind, "", TRUE, FALSE)
<1> SUFFICES ASSUME NEW dodgy \in BOOLEAN, kind = "plain" => ~dodgy
             PROVE  Reading([kind |-> kind, lt |-> IF FALSE THEN "IF" ELSE "", dodgy |-> dodgy], TRUE)
  BY DEF Readable
<1> DEFINE r == [kind |-> kind, lt |-> IF FALSE THEN "IF" ELSE "", dodgy |-> dodgy]
<1>1. r.kind = kind /\ r.lt = "" /\ r.dodgy = dodgy
  OBVIOUS
<1>2. r.lt \notin {"TRUE", "FALSE", "TRUEI", "FALSEI", "IF"}
  BY <1>1
<1> HIDE DEF r
<1>3. Reading(r, TRUE)
  BY <1>1, <1>2 DEF Reading, Kinds
<1>4. QED
  BY <1>3 DEF r

LEMMA InvNext == UnifdefInv /\ [UnifdefNext]_unifdefvars => UnifdefInv'
<1> SUFFICES ASSUME UnifdefInv, [UnifdefNext]_unifdefvars PROVE UnifdefInv'
  OBVIOUS
<1>1. ASSUME NEW ends \in BOOLEAN, If(ends) PROVE UnifdefInv'
  <2>1. PICK o \in conditions, more \in BOOLEAN : Line("if", o[1], o[2], more, ends)
    BY <1>1 DEF If
  <2>2. DecidedRight(o)
    BY OutcomesRight DEF UnifdefInv, UnifdefTypes
  <2>3. QED
    <3>1. Readable("if", o[1], o[2], more)
      BY <2>2 DEF DecidedRight, Readable, Reading, Kinds
    <3>2. QED
      BY <2>1, <3>1, LineStep
<1>2. ASSUME NEW ends \in BOOLEAN, Ifdef(ends) PROVE UnifdefInv'
  <2>1. PICK o \in Ifdefs(unknown), more \in BOOLEAN : Line("if", o[1], o[2], more, ends)
    BY <1>2 DEF Ifdef
  <2>2. DecidedRight(o)
    BY IfdefsRight
  <2>3. QED
    <3>1. Readable("if", o[1], o[2], more)
      BY <2>2 DEF DecidedRight, Readable, Reading, Kinds
    <3>2. QED
      BY <2>1, <3>1, LineStep
<1>3. ASSUME NEW ends \in BOOLEAN, Elif(ends) PROVE UnifdefInv'
  <2>1. PICK o \in conditions, more \in BOOLEAN : Line("elif", o[1], o[2], more, ends)
    BY <1>3 DEF Elif
  <2>2. DecidedRight(o) /\ o[1] \in {"TRUE", "FALSE", "IF"}
    BY OutcomesRight DEF UnifdefInv, UnifdefTypes
  <2>3. QED
    <3>1. Readable("elif", o[1], o[2], more)
      BY <2>2 DEF DecidedRight, Readable, Reading, Kinds
    <3>2. QED
      BY <2>1, <3>1, LineStep
<1>4. ASSUME NEW ends \in BOOLEAN, Else(ends) PROVE UnifdefInv'
  <2>1. Line("else", "", TRUE, FALSE, ends)
    BY <1>4 DEF Else
  <2>2. Readable("else", "", TRUE, FALSE)
    BY NoCondition
  <2>3. QED
    BY <2>1, <2>2, LineStep
<1>5. ASSUME NEW ends \in BOOLEAN, Endif(ends) PROVE UnifdefInv'
  <2>1. Line("endif", "", TRUE, FALSE, ends)
    BY <1>5 DEF Endif
  <2>2. Readable("endif", "", TRUE, FALSE)
    BY NoCondition
  <2>3. QED
    BY <2>1, <2>2, LineStep
<1>6. ASSUME NEW ends \in BOOLEAN, PlainLine(ends) PROVE UnifdefInv'
  <2>1. Line("plain", "", TRUE, FALSE, ends)
    BY <1>6 DEF PlainLine
  <2>2. Readable("plain", "", TRUE, FALSE)
    BY NoCondition
  <2>3. QED
    BY <2>1, <2>2, LineStep
<1>a. PICK g : Agree(ifstate, inp, g) /\ (~torn => g = outp)
  BY DEF UnifdefInv, Follow
<1>b. /\ Last(ifstate) = "OUTSIDE" => inp = << >> /\ (torn \/ outp = << >>)
      /\ Last(ifstate) # "OUTSIDE" => inp # << >>
  BY <1>a, Alone, ShapeFacts DEF Agree
<1> USE DEF UnifdefInv, UnifdefTypes, Follow, Exits, TextFollows, CommentFollows,
            OnlyDisorderIsRefused, CommentsStayWhole
<1>7. CASE Obfuscated
  BY <1>7 DEF Obfuscated, Halt, options
<1>8. CASE done
  <2>1. UNCHANGED <<options, ifstate, incomment, inp, outp, torn>> /\ exit' \in {"error", "done"}
    BY <1>8 DEF done
  <2>2. exit' = "done" => Last(ifstate) = "OUTSIDE"
    BY <1>8 DEF done
  <2>3. exit' = "error" => lastline'.kind = "eof" /\ (inp # << >> \/ incomment)
    <3>1. lastline'.kind = "eof" /\ (exit' = "error" => Last(ifstate) # "OUTSIDE" \/ incomment)
      BY <1>8 DEF done
    <3>2. QED
      BY <1>b, <3>1
  <2>4. QED
    BY <1>b, <2>1, <2>2, <2>3 DEF options
<1>9. CASE UNCHANGED unifdefvars
  BY <1>9 DEF unifdefvars, options
<1>10. QED
  BY <1>1, <1>2, <1>3, <1>4, <1>5, <1>6, <1>7, <1>8, <1>9 DEF UnifdefNext

-----------------------------------------------------------------------------
(* The theorems *)

(* Whatever file is read with whatever options, each group of the output   *)
(* is in the state that the transitions say it is in, as long as the       *)
(* output has no end of a comment without its start.                       *)
THEOREM UnifdefInvariant == UnifdefSpec => []UnifdefInv
  BY InvInit, InvNext, PTL DEF UnifdefSpec

(* The output is the same program as the input, whatever the symbol is     *)
(* that unifdef knows nothing of, up to an #elif at the end of a dropped   *)
(* comment that becomes an #if; and no abort() "bug" is reached.           *)
THEOREM OutputIsSameProgram == UnifdefSpec => []SameProgram
<1>1. UnifdefInv => SameProgram
  <2>1. SUFFICES ASSUME UnifdefInv PROVE SameProgram
    OBVIOUS
  <2>2. Exits /\ TextFollows
    BY <2>1 DEF UnifdefInv
  <2>3. /\ (Last(ifstate) \in Keeping /\ ~torn) => (Used(inp) <=> Used(outp))
        /\ Last(ifstate) \notin Keeping => ~Used(inp)
    BY <2>1, SameUse DEF UnifdefInv, Follow
  <2>4. QED
    BY <2>2, <2>3 DEF SameProgram, Exits, TextFollows
<1>2. QED
  BY <1>1, UnifdefInvariant, PTL

(* Only a file whose directives are out of order, cut by comments, nested  *)
(* too deep or not ended is refused.                                       *)
THEOREM DisorderOnlyIsRefused == UnifdefSpec => []OnlyDisorderIsRefused
<1>1. UnifdefInv => OnlyDisorderIsRefused
  BY DEF UnifdefInv
<1>2. QED
  BY <1>1, UnifdefInvariant, PTL

(* No comment loses its end, nor its start but where #elif becomes #if.    *)
THEOREM CommentsAreWhole == UnifdefSpec => []CommentsStayWhole
<1>1. UnifdefInv => CommentsStayWhole
  BY DEF UnifdefInv
<1>2. QED
  BY <1>1, UnifdefInvariant, PTL
=============================================================================
