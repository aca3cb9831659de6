--------------------------- MODULE DtbWriteProofs ---------------------------
(***************************************************************************)
(* What the device-tree writer guarantees for every list of edits.  For    *)
(* every blob with a header that from_ptr takes, sound or not: nothing is  *)
(* written behind the end of the allocation, and edits for which there is  *)
(* room do not fail for want of it.  For every blob that is sound: it      *)
(* stays sound, and is never called malformed.                             *)
(***************************************************************************)
EXTENDS DtbWrite, FiniteSetTheorems, SequenceTheorems, WellFoundedInduction, TLAPS

-----------------------------------------------------------------------------
(* Walks: every search of the reader goes from offset to offset until it    *)
(* meets one where it stops.                                                *)

\* The least-number principle stands in for induction.
LEMMA LeastOf ==
  ASSUME NEW T, T \subseteq Nat, NEW R, NEW x \in T,
         \A y \in T : ~(<<y, x>> \in R),
         \A a, b \in Nat : a < b => <<a, b>> \in R
  PROVE  \A y \in T : x <= y
<1> SUFFICES ASSUME NEW y \in T PROVE x <= y
  OBVIOUS
<1>1. x \in Nat /\ y \in Nat
  OBVIOUS
<1>2. ~(y < x)
  BY <1>1
<1> QED BY <1>1, <1>2

LEMMA LeastNumber ==
  ASSUME NEW T, T \subseteq Nat, T # {}
  PROVE  \E x \in T : \A y \in T : x <= y
<1> DEFINE R == OpToRel(<, Nat)
<1>1. IsWellFoundedOn(R, Nat)
  BY NatLessThanWellFounded, Zenon
<1>2. \A a, b \in Nat : a < b => <<a, b>> \in R
  BY SMT DEF OpToRel
<1> HIDE DEF R
<1>3. PICK x \in T : \A y \in T : ~(<<y, x>> \in R)
  BY <1>1, WFMin
<1>4. \A y \in T : x <= y
  BY <1>2, <1>3, LeastOf
<1> QED BY <1>4

\* Places X, the ones in D where a walk stops with the result R, and the next
\* place N of the others.
IsWalk(f, X, D, N, R) == f = [x \in X |-> IF x \in D THEN R[x] ELSE f[N[x]]]

\* Every step brings the walk closer to its end.
Closer(X, D, N, mu, B) ==
  /\ \A x \in X : mu[x] \in Nat /\ mu[x] <= B
  /\ \A x \in X : x \notin D => N[x] \in X /\ mu[N[x]] < mu[x]

Partly(f, X, D, N, R, mu, n) ==
  \A x \in X : mu[x] < n => f[x] = IF x \in D THEN R[x] ELSE f[N[x]]

LEMMA WalkExists ==
  ASSUME NEW X, NEW D, NEW N, NEW R, NEW mu, NEW B \in Nat, Closer(X, D, N, mu, B)
  PROVE  \E f : IsWalk(f, X, D, N, R)
<1> DEFINE T == {n \in Nat : ~\E f : f = [x \in X |-> f[x]] /\ Partly(f, X, D, N, R, mu, n)}
<1>1. \A x \in X : mu[x] \in Nat /\ mu[x] <= B
  BY DEF Closer
<1>2. \A x \in X : x \notin D => N[x] \in X /\ mu[N[x]] < mu[x]
  BY DEF Closer
<1>3. T = {}
  <2> SUFFICES ASSUME T # {} PROVE FALSE
    OBVIOUS
  <2>1. PICK m \in T : \A y \in T : m <= y
    BY LeastNumber
  <2>2. m \in Nat /\ ~\E f : f = [x \in X |-> f[x]] /\ Partly(f, X, D, N, R, mu, m)
    OBVIOUS
  <2>3. m # 0
    <3> DEFINE f == [x \in X |-> 0]
    <3>1. f = [x \in X |-> f[x]]
      OBVIOUS
    <3>2. Partly(f, X, D, N, R, mu, 0)
      BY <1>1 DEF Partly
    <3> HIDE DEF f
    <3> QED BY <2>2, <3>1, <3>2
  <2>4. m - 1 \in Nat /\ m - 1 \notin T
    BY <2>1, <2>2, <2>3
  <2>5. PICK f : f = [x \in X |-> f[x]] /\ Partly(f, X, D, N, R, mu, m - 1)
    BY <2>4
  <2> DEFINE h == [x \in X |-> IF mu[x] = m - 1 THEN IF x \in D THEN R[x] ELSE f[N[x]] ELSE f[x]]
  <2>6. h = [x \in X |-> h[x]]
    OBVIOUS
  <2>7. ASSUME NEW x \in X, mu[x] < m
        PROVE  h[x] = IF x \in D THEN R[x] ELSE h[N[x]]
    <3>1. h[x] = IF x \in D THEN R[x] ELSE f[N[x]]
      <4>1. CASE mu[x] = m - 1
        BY <4>1
      <4>2. CASE mu[x] # m - 1
        <5>1. mu[x] < m - 1
          BY <1>1, <2>2, <2>7, <4>2
        <5> QED BY <2>5, <4>2, <5>1 DEF Partly
      <4> QED BY <4>1, <4>2
    <3>2. ASSUME x \notin D PROVE h[N[x]] = f[N[x]]
      <4>1. N[x] \in X /\ mu[N[x]] < mu[x] /\ mu[N[x]] \in Nat /\ mu[x] \in Nat
        BY <1>1, <1>2, <3>2
      <4>2. mu[N[x]] # m - 1
        BY <2>2, <2>7, <4>1
      <4> QED BY <4>1, <4>2
    <3> HIDE DEF h
    <3> QED BY <3>1, <3>2
  <2>8. Partly(h, X, D, N, R, mu, m)
    BY <2>7 DEF Partly
  <2> HIDE DEF h
  <2> QED BY <2>2, <2>6, <2>8
<1>4. PICK f : f = [x \in X |-> f[x]] /\ Partly(f, X, D, N, R, mu, B + 1)
  BY <1>3
<1>5. ASSUME NEW x \in X PROVE f[x] = IF x \in D THEN R[x] ELSE f[N[x]]
  <2>1. mu[x] < B + 1
    BY <1>1
  <2> QED BY <1>4, <2>1 DEF Partly
<1>6. f = [x \in X |-> IF x \in D THEN R[x] ELSE f[N[x]]]
  BY <1>4, <1>5, Zenon
<1> QED BY <1>6 DEF IsWalk

\* The result of a walk is that of a place where it stops, and what holds of
\* every place on the way holds of that one.
LEMMA WalkEnds ==
  ASSUME NEW X, NEW D, NEW N, NEW R, NEW mu, NEW B \in Nat, Closer(X, D, N, mu, B),
         NEW f, IsWalk(f, X, D, N, R),
         NEW I, I \subseteq X, \A y \in I : y \notin D => N[y] \in I, NEW x \in I
  PROVE  \E e \in I : e \in D /\ f[x] = R[e]
<1> DEFINE Ends(y) == \E e \in I : e \in D /\ f[y] = R[e]
           T == {mu[y] : y \in {y \in I : ~Ends(y)}}
<1>1. \A y \in X : mu[y] \in Nat
  BY DEF Closer
<1>2. \A y \in X : y \notin D => N[y] \in X /\ mu[N[y]] < mu[y]
  BY DEF Closer
<1>3. \A y \in X : f[y] = IF y \in D THEN R[y] ELSE f[N[y]]
  BY DEF IsWalk
<1> SUFFICES ASSUME ~Ends(x) PROVE FALSE
  OBVIOUS
<1> HIDE DEF Ends
<1>4. T \subseteq Nat /\ T # {}
  BY <1>1
<1>5. PICK m \in T : \A t \in T : m <= t
  BY <1>4, LeastNumber
<1>6. PICK y \in I : ~Ends(y) /\ m = mu[y]
  BY <1>5
<1>7. y \notin D
  <2>1. y \in D => f[y] = R[y]
    BY <1>3, <1>6
  <2> QED BY <1>6, <2>1 DEF Ends
<1>8. N[y] \in I /\ mu[N[y]] < mu[y] /\ f[y] = f[N[y]]
  BY <1>2, <1>3, <1>6, <1>7
<1>9. Ends(N[y])
  <2> SUFFICES ASSUME ~Ends(N[y]) PROVE FALSE
    OBVIOUS
  <2>1. mu[N[y]] \in T
    BY <1>8
  <2>2. m <= mu[N[y]] /\ m \in Nat /\ mu[N[y]] \in Nat
    BY <1>4, <1>5, <2>1
  <2> QED BY <1>6, <1>8, <2>2
<1>10. Ends(y)
  BY <1>8, <1>9 DEF Ends
<1> QED BY <1>6, <1>10

\* A walk that goes forward through a block of bytes, and stops outside.
LEMMA ForwardIsCloser ==
  ASSUME NEW X, NEW D, NEW N, NEW at, NEW limit \in Int,
         \A x \in X : at[x] \in Int,
         \A x \in X : x \notin D => /\ at[x] >= 0 /\ at[x] < limit
                                    /\ N[x] \in X /\ (N[x] \in D \/ at[N[x]] > at[x])
  PROVE  \E mu : \E B \in Nat : Closer(X, D, N, mu, B)
<1> DEFINE mu == [x \in X |-> IF x \in D THEN 0 ELSE limit - at[x]]
           B == IF limit >= 0 THEN limit ELSE 0
<1>1. B \in Nat
  OBVIOUS
<1>2. ASSUME NEW x \in X PROVE mu[x] \in Nat /\ mu[x] <= B
  <2>1. CASE x \in D
    BY <2>1
  <2>2. CASE x \notin D
    <3>1. at[x] \in Int /\ at[x] >= 0 /\ at[x] < limit
      BY <2>2
    <3>2. mu[x] = limit - at[x]
      BY <2>2
    <3> QED BY <3>1, <3>2
  <2> QED BY <2>1, <2>2
<1>3. ASSUME NEW x \in X, x \notin D PROVE N[x] \in X /\ mu[N[x]] < mu[x]
  <2>1. /\ at[x] \in Int /\ at[x] >= 0 /\ at[x] < limit /\ N[x] \in X
        /\ N[x] \in D \/ at[N[x]] > at[x]
    BY <1>3
  <2>2. mu[x] = limit - at[x]
    BY <1>3
  <2>3. CASE N[x] \in D
    <3>1. mu[N[x]] = 0
      BY <2>1, <2>3
    <3> QED BY <2>1, <2>2, <3>1
  <2>4. CASE N[x] \notin D
    <3>1. mu[N[x]] = limit - at[N[x]] /\ at[N[x]] \in Int
      BY <2>1, <2>4
    <3> QED BY <2>1, <2>2, <2>4, <3>1
  <2> QED BY <2>3, <2>4
<1> HIDE DEF mu, B
<1> QED BY <1>1, <1>2, <1>3 DEF Closer

-----------------------------------------------------------------------------
(* What the reader finds in a blob. *)

Readable ==
  /\ IsHeader(header)
  /\ DOMAIN blob \subseteq Nat
  /\ \A o \in DOMAIN blob : IsRecord(blob[o])

LEMMA HeaderTyped ==
  ASSUME Readable
  PROVE  /\ header.total_size \in Nat /\ header.off_dt_struct \in Nat
         /\ header.size_dt_struct \in Nat /\ header.off_dt_strings \in Nat
         /\ header.size_dt_strings \in Nat
  BY DEF Readable, IsHeader

LEMMA Aligned ==
  ASSUME NEW n \in Nat
  PROVE  align4(n) \in Nat /\ align4(n) >= n
  BY DEF align4

LEMMA TokenTyped ==
  ASSUME Readable, NEW o, TokenAt(o).kind # "junk"
  PROVE  /\ o \in Nat /\ o < header.size_dt_struct
         /\ TokenAt(o).kind \in {"begin", "string"} => LengthOf[TokenAt(o).name] \in Nat
         /\ TokenAt(o).kind = "prop" => TokenAt(o).length \in Nat
<1>1. /\ o \in 0..(header.size_dt_struct - 1) /\ header.off_dt_struct + o \in DOMAIN blob
      /\ TokenAt(o) = blob[header.off_dt_struct + o]
  BY DEF TokenAt, Junk
<1>2. IsRecord(TokenAt(o))
  BY <1>1 DEF Readable
<1>3. o \in Nat /\ o < header.size_dt_struct
  BY <1>1, HeaderTyped
<1> QED BY <1>2, <1>3, HeaderAssumption DEF IsRecord

LEMMA AfterBegin ==
  ASSUME Readable, NEW o, TokenAt(o).kind = "begin"
  PROVE  after_begin_node(o) \in Nat /\ after_begin_node(o) > o
<1> DEFINE n == LengthOf[TokenAt(o).name]
<1>1. o \in Nat /\ n \in Nat
  BY TokenTyped
<1> HIDE DEF n
<1>2. o + 4 + n + 1 \in Nat /\ o + 4 + n + 1 > o
  BY <1>1
<1>3. align4(o + 4 + n + 1) \in Nat /\ align4(o + 4 + n + 1) >= o + 4 + n + 1
  BY <1>2, Aligned
<1> QED BY <1>1, <1>2, <1>3 DEF after_begin_node, n

LEMMA AfterProperty ==
  ASSUME Readable, NEW o, TokenAt(o).kind = "prop"
  PROVE  /\ after_property(o) = None \/ (after_property(o) \in Nat /\ after_property(o) > o)
         /\ property_record_length(TokenAt(o).length) \in Nat \ {0}
<1> DEFINE n == TokenAt(o).length
<1>1. o \in Nat /\ n \in Nat
  BY TokenTyped
<1>2. after_property(o) = None \/ after_property(o) = align4(o + 12 + n)
  BY DEF after_property
<1>3. property_record_length(n) = 12 + align4(n)
  BY DEF property_record_length
<1> HIDE DEF n
<1>4. o + 12 + n \in Nat /\ o + 12 + n > o
  BY <1>1
<1>5. align4(o + 12 + n) \in Nat /\ align4(o + 12 + n) >= o + 12 + n
  BY <1>4, Aligned
<1>6. align4(n) \in Nat
  BY <1>1, Aligned
<1> QED BY <1>1, <1>2, <1>3, <1>4, <1>5, <1>6 DEF n


\* The walk of node_end_offset, over offsets and depths.
Kind(o) == TokenAt(o).kind
EndStops ==
  {p \in Int \X Int :
     \/ Kind(p[1]) \notin {"begin", "end_node", "prop", "nop"}
     \/ Kind(p[1]) = "end_node" /\ p[2] \in {0, 1}
     \/ Kind(p[1]) = "prop" /\ after_property(p[1]) = None}
EndNext ==
  [p \in Int \X Int |->
     IF Kind(p[1]) = "begin" THEN <<after_begin_node(p[1]), p[2] + 1>>
     ELSE IF Kind(p[1]) = "end_node" THEN <<p[1] + 4, p[2] - 1>>
     ELSE IF Kind(p[1]) = "prop" THEN <<after_property(p[1]), p[2]>>
     ELSE <<p[1] + 4, p[2]>>]
EndResult ==
  [p \in Int \X Int |-> IF Kind(p[1]) = "end_node" /\ p[2] = 1 THEN p[1] ELSE None]

LEMMA EndStep ==
  ASSUME Readable, NEW p \in Int \X Int, p \notin EndStops
  PROVE  /\ p[1] >= 0 /\ p[1] < header.size_dt_struct
         /\ EndNext[p] \in Int \X Int /\ EndNext[p][1] > p[1]
<1> DEFINE o == p[1]
           k == p[2]
<1>1. o \in Int /\ k \in Int
  OBVIOUS
<1>2. Kind(o) \in {"begin", "end_node", "prop", "nop"}
      /\ ~(Kind(o) = "prop" /\ after_property(o) = None)
  BY DEF EndStops
<1>3. o \in Nat /\ o < header.size_dt_struct
  BY <1>2, TokenTyped DEF Kind
<1>4. EndNext[p] = IF Kind(o) = "begin" THEN <<after_begin_node(o), k + 1>>
                   ELSE IF Kind(o) = "end_node" THEN <<o + 4, k - 1>>
                   ELSE IF Kind(o) = "prop" THEN <<after_property(o), k>>
                   ELSE <<o + 4, k>>
  BY DEF EndNext
<1> HIDE DEF o, k
<1>5. \E q \in Nat, j \in Int : EndNext[p] = <<q, j>> /\ q > o
  <2>1. CASE Kind(o) = "begin"
    <3>1. after_begin_node(o) \in Nat /\ after_begin_node(o) > o /\ k + 1 \in Int
      BY <1>1, <2>1, AfterBegin DEF Kind
    <3> QED BY <1>4, <2>1, <3>1
  <2>2. CASE Kind(o) = "end_node"
    <3>1. o + 4 \in Nat /\ o + 4 > o /\ k - 1 \in Int
      BY <1>1, <1>3
    <3> QED BY <1>4, <2>2, <3>1
  <2>3. CASE Kind(o) = "prop"
    <3>1. after_property(o) \in Nat /\ after_property(o) > o
      BY <1>2, <2>3, AfterProperty DEF Kind
    <3> QED BY <1>1, <1>4, <2>3, <3>1
  <2>4. CASE Kind(o) = "nop"
    <3>1. o + 4 \in Nat /\ o + 4 > o
      BY <1>3
    <3> QED BY <1>1, <1>4, <2>4, <3>1
  <2> QED BY <1>2, <2>1, <2>2, <2>3, <2>4
<1>6. PICK q \in Nat, j \in Int : EndNext[p] = <<q, j>> /\ q > o
  BY <1>5
<1>7. EndNext[p] \in Int \X Int /\ EndNext[p][1] = q
  BY <1>6
<1> QED BY <1>3, <1>6, <1>7 DEF o

LEMMA EndCloser ==
  ASSUME Readable
  PROVE  \E mu : \E B \in Nat : Closer(Int \X Int, EndStops, EndNext, mu, B)
<1> DEFINE at == [p \in Int \X Int |-> p[1]]
<1>1. \A p \in Int \X Int : at[p] \in Int
  OBVIOUS
<1>2. ASSUME NEW p \in Int \X Int, p \notin EndStops
      PROVE  /\ at[p] >= 0 /\ at[p] < header.size_dt_struct
             /\ EndNext[p] \in Int \X Int /\ at[EndNext[p]] > at[p]
  BY <1>2, EndStep
<1> HIDE DEF at
<1>3. header.size_dt_struct \in Int
  BY HeaderTyped
<1> QED BY <1>1, <1>2, <1>3, ForwardIsCloser

EndBody(f) ==
  [at \in Int \X Int |->
     LET o == at[1]
         depth == at[2]
         t == TokenAt(o)
     IN CASE t.kind = "begin" -> f[<<after_begin_node(o), depth + 1>>]
          [] t.kind = "end_node" -> IF depth = 0 THEN None
                                    ELSE IF depth = 1 THEN o ELSE f[<<o + 4, depth - 1>>]
          [] t.kind = "prop" -> IF after_property(o) = None THEN None
                                ELSE f[<<after_property(o), depth>>]
          [] t.kind = "nop" -> f[<<o + 4, depth>>]
          [] OTHER -> None]

LEMMA EndIsWalk ==
  ASSUME NEW f
  PROVE  EndBody(f) = [x \in Int \X Int |-> IF x \in EndStops THEN EndResult[x] ELSE f[EndNext[x]]]
<1>1. ASSUME NEW p \in Int \X Int
      PROVE  (CASE TokenAt(p[1]).kind = "begin" -> f[<<after_begin_node(p[1]), p[2] + 1>>]
                [] TokenAt(p[1]).kind = "end_node" ->
                     IF p[2] = 0 THEN None
                     ELSE IF p[2] = 1 THEN p[1] ELSE f[<<p[1] + 4, p[2] - 1>>]
                [] TokenAt(p[1]).kind = "prop" ->
                     IF after_property(p[1]) = None THEN None ELSE f[<<after_property(p[1]), p[2]>>]
                [] TokenAt(p[1]).kind = "nop" -> f[<<p[1] + 4, p[2]>>]
                [] OTHER -> None)
             = IF p \in EndStops THEN EndResult[p] ELSE f[EndNext[p]]
  BY DEF EndStops, EndResult, EndNext, Kind
<1> QED BY <1>1 DEF EndBody

\* What holds of all places of the walk holds of the one where it stops.
LEMMA EndWalk ==
  ASSUME Readable, NEW b, NEW I, I \subseteq Int \X Int, <<b, 0>> \in I,
         \A p \in I : p \notin EndStops => EndNext[p] \in I
  PROVE  \E e \in I : e \in EndStops /\ node_end_offset(b) = EndResult[e]
<1> DEFINE X == Int \X Int
           end == CHOOSE f : f = EndBody(f)
<1>1. node_end_offset(b) = end[<<b, 0>>]
  BY Zenon DEF node_end_offset, EndBody
<1>2. PICK mu : \E B \in Nat : Closer(X, EndStops, EndNext, mu, B)
  BY EndCloser
<1>3. PICK B \in Nat : Closer(X, EndStops, EndNext, mu, B)
  BY <1>2
<1>4. \E f : IsWalk(f, X, EndStops, EndNext, EndResult)
  BY <1>3, WalkExists
<1>5. IsWalk(end, X, EndStops, EndNext, EndResult)
  <2>1. \E f : f = EndBody(f)
    BY <1>4, EndIsWalk DEF IsWalk
  <2>2. end = EndBody(end)
    BY <2>1
  <2> HIDE DEF end
  <2> QED BY <2>2, EndIsWalk DEF IsWalk
<1>6. I \subseteq X
  OBVIOUS
<1> HIDE DEF end, X
<1>7. \E e \in I : e \in EndStops /\ end[<<b, 0>>] = EndResult[e]
  BY <1>3, <1>5, <1>6, WalkEnds
<1> QED BY <1>1, <1>7

\* A node ends at an FDT_END_NODE behind its beginning, or is none.
LEMMA NodeEnd ==
  ASSUME Readable, NEW b \in Nat
  PROVE  \/ node_end_offset(b) = None
         \/ /\ node_end_offset(b) \in Nat /\ node_end_offset(b) >= b
            /\ TokenAt(node_end_offset(b)).kind = "end_node"
<1> DEFINE I == {p \in Int \X Int : p[1] >= b}
           n == node_end_offset(b)
<1>1. ASSUME NEW p \in I, p \notin EndStops PROVE EndNext[p] \in I
  BY <1>1, EndStep
<1>2. I \subseteq Int \X Int /\ <<b, 0>> \in I
  OBVIOUS
<1> HIDE DEF I, n
<1>3. PICK e \in I : e \in EndStops /\ n = EndResult[e]
  BY <1>1, <1>2, EndWalk DEF n
<1>4. e \in Int \X Int /\ e[1] >= b
  BY <1>2 DEF I
<1>5. n = None \/ (n = e[1] /\ Kind(e[1]) = "end_node")
  BY <1>3, <1>4 DEF EndResult
<1>6. e[1] \in Int /\ (e[1] >= b => e[1] \in Nat)
  BY <1>4
<1> QED BY <1>4, <1>5, <1>6 DEF Kind, n

\* A search that goes forward through the structure block ends where it stops.
Forward(X, D, N, limit) ==
  /\ X \subseteq Int /\ limit \in Int
  /\ \A o \in X : o \notin D => /\ o >= 0 /\ o < limit
                                /\ N[o] \in X /\ (N[o] \in D \/ N[o] > o)
IsWalkIfAny(f, X, D, N, R) == (\E g : IsWalk(g, X, D, N, R)) => IsWalk(f, X, D, N, R)

LEMMA ForwardWalk ==
  ASSUME NEW X, NEW D, NEW N, NEW R, NEW limit, Forward(X, D, N, limit),
         NEW f, IsWalkIfAny(f, X, D, N, R),
         NEW I, I \subseteq X, \A y \in I : y \notin D => N[y] \in I, NEW x \in I
  PROVE  \E e \in I : e \in D /\ f[x] = R[e]
<1> DEFINE at == [o \in X |-> o]
<1>1. limit \in Int /\ \A o \in X : at[o] \in Int
  BY DEF Forward
<1>2. \A o \in X : o \notin D => /\ at[o] >= 0 /\ at[o] < limit
                                 /\ N[o] \in X /\ (N[o] \in D \/ at[N[o]] > at[o])
  BY DEF Forward
<1> HIDE DEF at
<1>4. PICK mu : \E B \in Nat : Closer(X, D, N, mu, B)
  BY <1>1, <1>2, ForwardIsCloser
<1>5. PICK B \in Nat : Closer(X, D, N, mu, B)
  BY <1>4
<1>6. \E g : IsWalk(g, X, D, N, R)
  BY <1>5, WalkExists
<1>7. IsWalk(f, X, D, N, R)
  BY <1>6 DEF IsWalkIfAny
<1>8. I \subseteq X /\ x \in I /\ \A y \in I : y \notin D => N[y] \in I
  OBVIOUS
<1>9. \E e \in I : e \in D /\ f[x] = R[e]
  BY ONLY <1>5, <1>7, <1>8, WalkEnds
<1> QED BY <1>9

IsNode(n) ==
  /\ n.begin \in Nat /\ n.end \in Nat /\ n.end >= n.begin
  /\ Kind(n.begin) = "begin"

LEMMA NodeAt ==
  ASSUME Readable, NEW o
  PROVE  \/ node_at_offset(o) = NoNode
         \/ /\ IsNode(node_at_offset(o)) /\ node_at_offset(o).begin = o
            /\ Kind(o) = "begin"
<1> SUFFICES ASSUME node_at_offset(o) # NoNode
             PROVE  IsNode(node_at_offset(o)) /\ node_at_offset(o).begin = o /\ Kind(o) = "begin"
  OBVIOUS
<1>1. /\ Kind(o) = "begin" /\ node_end_offset(o) # None
      /\ node_at_offset(o) = [begin |-> o, end |-> node_end_offset(o)]
  BY DEF node_at_offset, Kind
<1>2. o \in Nat
  BY <1>1, TokenTyped DEF Kind
<1>3. node_end_offset(o) \in Nat /\ node_end_offset(o) >= o
  BY <1>1, <1>2, NodeEnd
<1> QED BY <1>1, <1>2, <1>3 DEF IsNode

LEMMA NodeIsNot == \A n : IsNode(n) => n # NoNode
  BY DEF IsNode, NoNode, None

\* The walk of find_child.
ChildStops(parent, name) ==
  {o \in Int : \/ o = None \/ o >= parent.end
               \/ Kind(o) \notin {"prop", "nop", "begin"}
               \/ Kind(o) = "begin" /\ (node_at_offset(o) = NoNode \/ TokenAt(o).name = name)}
ChildNext ==
  [o \in Int |-> IF Kind(o) = "prop" THEN after_property(o)
                 ELSE IF Kind(o) = "nop" THEN o + 4 ELSE node_at_offset(o).end + 4]
ChildResult(parent) ==
  [o \in Int |-> IF o = None \/ o >= parent.end \/ Kind(o) # "begin" THEN NoNode
                 ELSE node_at_offset(o)]
ChildBody(parent, name, from) ==
  [o \in Int |->
     LET t == TokenAt(o)
         child == node_at_offset(o)
     IN IF o = None \/ o >= parent.end THEN NoNode
        ELSE CASE t.kind = "prop" -> from[after_property(o)]
               [] t.kind = "nop" -> from[o + 4]
               [] t.kind = "begin" -> IF child = NoNode \/ t.name = name THEN child
                                      ELSE from[child.end + 4]
               [] OTHER -> NoNode]

LEMMA ChildIsWalk ==
  ASSUME NEW parent, NEW name, NEW f
  PROVE  ChildBody(parent, name, f)
         = [x \in Int |-> IF x \in ChildStops(parent, name) THEN ChildResult(parent)[x]
                          ELSE f[ChildNext[x]]]
<1>1. ASSUME NEW o \in Int
      PROVE  (IF o = None \/ o >= parent.end THEN NoNode
              ELSE CASE TokenAt(o).kind = "prop" -> f[after_property(o)]
                     [] TokenAt(o).kind = "nop" -> f[o + 4]
                     [] TokenAt(o).kind = "begin" ->
                          IF node_at_offset(o) = NoNode \/ TokenAt(o).name = name
                          THEN node_at_offset(o) ELSE f[node_at_offset(o).end + 4]
                     [] OTHER -> NoNode)
             = IF o \in ChildStops(parent, name) THEN ChildResult(parent)[o] ELSE f[ChildNext[o]]
  BY DEF ChildStops, ChildResult, ChildNext, Kind
<1> QED BY <1>1 DEF ChildBody

LEMMA ChildWalk ==
  ASSUME Readable, NEW parent, NEW name,
         NEW I, I \subseteq Int, after_begin_node(parent.begin) \in I,
         \A o \in I : o \notin ChildStops(parent, name) => ChildNext[o] \in I
  PROVE  \E e \in I : /\ e \in ChildStops(parent, name)
                      /\ find_child(parent, name) = ChildResult(parent)[e]
<1> DEFINE D == ChildStops(parent, name)
           from == CHOOSE f : f = ChildBody(parent, name, f)
           x == after_begin_node(parent.begin)
<1>1. find_child(parent, name) = from[x]
  BY Zenon DEF find_child, ChildBody
<1>2. (\E f : IsWalk(f, Int, D, ChildNext, ChildResult(parent)))
        => IsWalk(from, Int, D, ChildNext, ChildResult(parent))
  <2> SUFFICES ASSUME NEW f, IsWalk(f, Int, D, ChildNext, ChildResult(parent))
               PROVE  IsWalk(from, Int, D, ChildNext, ChildResult(parent))
    OBVIOUS
  <2>1. f = ChildBody(parent, name, f)
    BY ChildIsWalk DEF IsWalk
  <2>2. from = ChildBody(parent, name, from)
    BY <2>1
  <2> HIDE DEF from
  <2> QED BY <2>2, ChildIsWalk DEF IsWalk
<1>3. ASSUME NEW o \in Int, o \notin D
      PROVE  /\ o >= 0 /\ o < header.size_dt_struct
             /\ ChildNext[o] \in Int /\ (ChildNext[o] \in D \/ ChildNext[o] > o)
  <2>1. /\ Kind(o) \in {"prop", "nop", "begin"}
        /\ Kind(o) = "begin" => node_at_offset(o) # NoNode
    BY <1>3 DEF ChildStops
  <2>2. o \in Nat /\ o < header.size_dt_struct
    BY <2>1, TokenTyped DEF Kind
  <2>3. CASE Kind(o) = "prop"
    <3>1. ChildNext[o] = after_property(o)
      BY <2>3 DEF ChildNext
    <3>2. after_property(o) = None \/ (after_property(o) \in Nat /\ after_property(o) > o)
      BY <2>3, AfterProperty DEF Kind
    <3>3. None \in Int /\ None \in D
      BY DEF ChildStops, None
    <3> HIDE DEF D
    <3> QED BY <2>2, <3>1, <3>2, <3>3
  <2>4. CASE Kind(o) = "nop"
    <3>1. ChildNext[o] = o + 4
      BY <2>4 DEF ChildNext
    <3> QED BY <2>2, <3>1
  <2>5. CASE Kind(o) = "begin"
    <3>1. ChildNext[o] = node_at_offset(o).end + 4
      BY <2>5 DEF ChildNext
    <3>2. node_at_offset(o).end \in Nat /\ node_at_offset(o).end >= o
      BY <2>1, <2>5, NodeAt DEF IsNode
    <3> QED BY <2>2, <3>1, <3>2
  <2> QED BY <2>1, <2>3, <2>4, <2>5
<1>4. header.size_dt_struct \in Int
  BY HeaderTyped
<1> DEFINE limit == header.size_dt_struct
           R == ChildResult(parent)
           X == Int
<1>5. Forward(X, D, ChildNext, limit)
  BY <1>3, <1>4 DEF Forward
<1>6. IsWalkIfAny(from, X, D, ChildNext, R)
  BY <1>2 DEF IsWalkIfAny
<1>7. x \in I /\ I \subseteq X /\ \A o \in I : o \notin D => ChildNext[o] \in I
  OBVIOUS
<1> HIDE DEF D, from, x, limit, R, X
<1>8. \E e \in I : e \in D /\ from[x] = R[e]
  BY ONLY <1>5, <1>6, <1>7, ForwardWalk
<1> QED BY <1>1, <1>8 DEF D, R

\* A child is a node.
LEMMA FindChild ==
  ASSUME Readable, NEW parent, IsNode(parent), NEW name
  PROVE  find_child(parent, name) = NoNode \/ IsNode(find_child(parent, name))
<1>1. after_begin_node(parent.begin) \in Int
  BY AfterBegin DEF IsNode, Kind
<1>2. ASSUME NEW o \in Int, o \notin ChildStops(parent, name) PROVE ChildNext[o] \in Int
  <2>1. /\ Kind(o) \in {"prop", "nop", "begin"}
        /\ Kind(o) = "begin" => node_at_offset(o) # NoNode
    BY <1>2 DEF ChildStops
  <2>2. Kind(o) = "prop" => after_property(o) \in Int
    BY AfterProperty DEF Kind, None
  <2>3. Kind(o) = "begin" => node_at_offset(o).end + 4 \in Int
    BY <2>1, NodeAt DEF IsNode
  <2> QED BY <2>1, <2>2, <2>3 DEF ChildNext
<1>3. PICK e \in Int : find_child(parent, name) = ChildResult(parent)[e]
  BY <1>1, <1>2, ChildWalk
<1>4. find_child(parent, name) = NoNode \/ find_child(parent, name) = node_at_offset(e)
  BY <1>3 DEF ChildResult
<1> QED BY <1>4, NodeAt

\* The walk of find_direct_property.
DirectStops(n, name) ==
  {o \in Int : \/ o >= n.end \/ Kind(o) \notin {"prop", "nop"}
               \/ Kind(o) = "prop" /\ (\/ string_at(TokenAt(o).nameoff).kind # "string"
                                       \/ IsNamed(TokenAt(o), name))}
DirectNext ==
  [o \in Int |-> IF Kind(o) = "prop" THEN o + property_record_length(TokenAt(o).length) ELSE o + 4]
DirectResult(n) ==
  [o \in Int |-> IF o >= n.end \/ Kind(o) \in {"begin", "end_node"} THEN None
                 ELSE IF Kind(o) = "prop" /\ string_at(TokenAt(o).nameoff).kind = "string" THEN o
                 ELSE Bad]
DirectBody(n, name, from) ==
  [o \in Int |->
     LET t == TokenAt(o)
     IN IF o >= n.end THEN None
        ELSE CASE t.kind = "prop" -> IF string_at(t.nameoff).kind # "string" THEN Bad
                                     ELSE IF IsNamed(t, name) THEN o
                                     ELSE from[o + property_record_length(t.length)]
               [] t.kind = "nop" -> from[o + 4]
               [] t.kind \in {"begin", "end_node"} -> None
               [] OTHER -> Bad]

LEMMA DirectIsWalk ==
  ASSUME NEW n, NEW name, NEW f
  PROVE  DirectBody(n, name, f)
         = [x \in Int |-> IF x \in DirectStops(n, name) THEN DirectResult(n)[x] ELSE f[DirectNext[x]]]
<1>1. ASSUME NEW o \in Int
      PROVE  (IF o >= n.end THEN None
              ELSE CASE TokenAt(o).kind = "prop" ->
                          IF string_at(TokenAt(o).nameoff).kind # "string" THEN Bad
                          ELSE IF IsNamed(TokenAt(o), name) THEN o
                          ELSE f[o + property_record_length(TokenAt(o).length)]
                     [] TokenAt(o).kind = "nop" -> f[o + 4]
                     [] TokenAt(o).kind \in {"begin", "end_node"} -> None
                     [] OTHER -> Bad)
             = IF o \in DirectStops(n, name) THEN DirectResult(n)[o] ELSE f[DirectNext[o]]
  BY DEF DirectStops, DirectResult, DirectNext, Kind
<1> QED BY <1>1 DEF DirectBody

LEMMA DirectWalk ==
  ASSUME Readable, NEW n, NEW name,
         NEW I, I \subseteq Int, after_begin_node(n.begin) \in I,
         \A o \in I : o \notin DirectStops(n, name) => DirectNext[o] \in I
  PROVE  \E e \in I : e \in DirectStops(n, name) /\ find_direct_property(n, name) = DirectResult(n)[e]
<1> DEFINE D == DirectStops(n, name)
           from == CHOOSE f : f = DirectBody(n, name, f)
           x == after_begin_node(n.begin)
           limit == header.size_dt_struct
           R == DirectResult(n)
           X == Int
<1>1. find_direct_property(n, name) = from[x]
  BY Zenon DEF find_direct_property, DirectBody
<1>2. IsWalkIfAny(from, X, D, DirectNext, R)
  <2> SUFFICES ASSUME NEW f, IsWalk(f, X, D, DirectNext, R)
               PROVE  IsWalk(from, X, D, DirectNext, R)
    BY DEF IsWalkIfAny
  <2>1. f = DirectBody(n, name, f)
    BY DirectIsWalk DEF IsWalk
  <2>2. from = DirectBody(n, name, from)
    BY <2>1
  <2> HIDE DEF from
  <2> QED BY <2>2, DirectIsWalk DEF IsWalk
<1>3. limit \in Int
  BY HeaderTyped
<1>4. ASSUME NEW o \in Int, o \notin D
      PROVE  o >= 0 /\ o < limit /\ DirectNext[o] \in Int /\ DirectNext[o] > o
  <2>1. Kind(o) \in {"prop", "nop"}
    BY <1>4 DEF DirectStops
  <2>2. o \in Nat /\ o < limit
    BY <2>1, TokenTyped DEF Kind
  <2>3. CASE Kind(o) = "prop"
    <3>1. DirectNext[o] = o + property_record_length(TokenAt(o).length)
      BY <2>3 DEF DirectNext
    <3>2. property_record_length(TokenAt(o).length) \in Nat \ {0}
      BY <2>3, AfterProperty DEF Kind
    <3> QED BY <2>2, <3>1, <3>2
  <2>4. CASE Kind(o) = "nop"
    <3>1. DirectNext[o] = o + 4
      BY <2>4 DEF DirectNext
    <3> QED BY <2>2, <3>1
  <2> QED BY <2>1, <2>3, <2>4
<1>5. Forward(X, D, DirectNext, limit)
  BY <1>3, <1>4 DEF Forward
<1>6. x \in I /\ I \subseteq X /\ \A o \in I : o \notin D => DirectNext[o] \in I
  OBVIOUS
<1> HIDE DEF D, from, x, limit, R, X
<1>7. \E e \in I : e \in D /\ from[x] = R[e]
  BY ONLY <1>2, <1>5, <1>6, ForwardWalk
<1> QED BY <1>1, <1>7 DEF D, R

\* A property that is found is one.
LEMMA FindDirect ==
  ASSUME Readable, NEW n, IsNode(n), NEW name
  PROVE  LET p == find_direct_property(n, name)
         IN p = None \/ p = Bad \/ (p \in Nat /\ Kind(p) = "prop")
<1>1. after_begin_node(n.begin) \in Int
  BY AfterBegin DEF IsNode, Kind
<1>2. ASSUME NEW o \in Int, o \notin DirectStops(n, name) PROVE DirectNext[o] \in Int
  <2>1. Kind(o) \in {"prop", "nop"}
    BY <1>2 DEF DirectStops
  <2>2. Kind(o) = "prop" => property_record_length(TokenAt(o).length) \in Int
    BY AfterProperty DEF Kind
  <2> QED BY <2>1, <2>2 DEF DirectNext
<1>3. PICK e \in Int : find_direct_property(n, name) = DirectResult(n)[e]
  BY <1>1, <1>2, DirectWalk
<1>4. find_direct_property(n, name) = None \/ find_direct_property(n, name) = Bad \/ (find_direct_property(n, name) = e /\ Kind(e) = "prop")
  BY <1>3 DEF DirectResult
<1>5. Kind(e) = "prop" => e \in Nat
  BY TokenTyped DEF Kind
<1> QED BY <1>4, <1>5

\* The walk of property_insertion_offset.
InsertionStops(n) ==
  {o \in Int : \/ o >= n.end \/ Kind(o) \notin {"prop", "nop"}
               \/ Kind(o) = "prop" /\ after_property(o) = None}
InsertionNext ==
  [o \in Int |-> IF Kind(o) = "prop" THEN after_property(o) ELSE o + 4]
InsertionResult(n) ==
  [o \in Int |-> IF o >= n.end THEN n.end
                 ELSE IF Kind(o) \in {"begin", "end_node"} THEN o ELSE Bad]
InsertionBody(n, from) ==
  [o \in Int |->
     LET t == TokenAt(o)
     IN IF o >= n.end THEN n.end
        ELSE CASE t.kind = "prop" -> IF after_property(o) = None THEN Bad
                                     ELSE from[after_property(o)]
               [] t.kind = "nop" -> from[o + 4]
               [] t.kind \in {"begin", "end_node"} -> o
               [] OTHER -> Bad]

LEMMA InsertionIsWalk ==
  ASSUME NEW n, NEW f
  PROVE  InsertionBody(n, f)
         = [x \in Int |-> IF x \in InsertionStops(n) THEN InsertionResult(n)[x]
                          ELSE f[InsertionNext[x]]]
<1>1. ASSUME NEW o \in Int
      PROVE  (IF o >= n.end THEN n.end
              ELSE CASE TokenAt(o).kind = "prop" ->
                          IF after_property(o) = None THEN Bad ELSE f[after_property(o)]
                     [] TokenAt(o).kind = "nop" -> f[o + 4]
                     [] TokenAt(o).kind \in {"begin", "end_node"} -> o
                     [] OTHER -> Bad)
             = IF o \in InsertionStops(n) THEN InsertionResult(n)[o] ELSE f[InsertionNext[o]]
  BY DEF InsertionStops, InsertionResult, InsertionNext, Kind
<1> QED BY <1>1 DEF InsertionBody

LEMMA InsertionWalk ==
  ASSUME Readable, NEW n,
         NEW I, I \subseteq Int, after_begin_node(n.begin) \in I,
         \A o \in I : o \notin InsertionStops(n) => InsertionNext[o] \in I
  PROVE  \E e \in I : e \in InsertionStops(n) /\ property_insertion_offset(n) = InsertionResult(n)[e]
<1> DEFINE D == InsertionStops(n)
           from == CHOOSE f : f = InsertionBody(n, f)
           x == after_begin_node(n.begin)
           limit == header.size_dt_struct
           R == InsertionResult(n)
           X == Int
<1>1. property_insertion_offset(n) = from[x]
  BY Zenon DEF property_insertion_offset, InsertionBody
<1>2. IsWalkIfAny(from, X, D, InsertionNext, R)
  <2> SUFFICES ASSUME NEW f, IsWalk(f, X, D, InsertionNext, R)
               PROVE  IsWalk(from, X, D, InsertionNext, R)
    BY DEF IsWalkIfAny
  <2>1. f = InsertionBody(n, f)
    BY InsertionIsWalk DEF IsWalk
  <2>2. from = InsertionBody(n, from)
    BY <2>1
  <2> HIDE DEF from
  <2> QED BY <2>2, InsertionIsWalk DEF IsWalk
<1>3. limit \in Int
  BY HeaderTyped
<1>4. ASSUME NEW o \in Int, o \notin D
      PROVE  o >= 0 /\ o < limit /\ InsertionNext[o] \in Int /\ InsertionNext[o] > o
  <2>1. Kind(o) \in {"prop", "nop"} /\ (Kind(o) = "prop" => after_property(o) # None)
    BY <1>4 DEF InsertionStops
  <2>2. o \in Nat /\ o < limit
    BY <2>1, TokenTyped DEF Kind
  <2>3. CASE Kind(o) = "prop"
    <3>1. InsertionNext[o] = after_property(o)
      BY <2>3 DEF InsertionNext
    <3>2. after_property(o) \in Nat /\ after_property(o) > o
      BY <2>1, <2>3, AfterProperty DEF Kind
    <3> QED BY <2>2, <3>1, <3>2
  <2>4. CASE Kind(o) = "nop"
    <3>1. InsertionNext[o] = o + 4
      BY <2>4 DEF InsertionNext
    <3> QED BY <2>2, <3>1
  <2> QED BY <2>1, <2>3, <2>4
<1>5. Forward(X, D, InsertionNext, limit)
  BY <1>3, <1>4 DEF Forward
<1>6. x \in I /\ I \subseteq X /\ \A o \in I : o \notin D => InsertionNext[o] \in I
  OBVIOUS
<1> HIDE DEF D, from, x, limit, R, X
<1>7. \E e \in I : e \in D /\ from[x] = R[e]
  BY ONLY <1>2, <1>5, <1>6, ForwardWalk
<1> QED BY <1>1, <1>7 DEF D, R

LEMMA InsertionOffset ==
  ASSUME Readable, NEW n, IsNode(n)
  PROVE  property_insertion_offset(n) = Bad \/ property_insertion_offset(n) \in Nat
<1>1. after_begin_node(n.begin) \in Int
  BY AfterBegin DEF IsNode, Kind
<1>2. ASSUME NEW o \in Int, o \notin InsertionStops(n) PROVE InsertionNext[o] \in Int
  <2>1. Kind(o) \in {"prop", "nop"}
    BY <1>2 DEF InsertionStops
  <2>2. Kind(o) = "prop" => after_property(o) \in Int
    BY AfterProperty DEF Kind, None
  <2> QED BY <2>1, <2>2 DEF InsertionNext
<1>3. PICK e \in Int : property_insertion_offset(n) = InsertionResult(n)[e]
  BY <1>1, <1>2, InsertionWalk
<1>4. \/ property_insertion_offset(n) = n.end \/ property_insertion_offset(n) = Bad
      \/ property_insertion_offset(n) = e /\ Kind(e) \in {"begin", "end_node"}
  BY <1>3 DEF InsertionResult
<1>5. Kind(e) \in {"begin", "end_node"} => e \in Nat
  BY TokenTyped DEF Kind
<1> QED BY <1>4, <1>5 DEF IsNode

\* The way of find_node along a path.
Along(path, f, k) ==
  IF k = 1 THEN root_node
  ELSE IF f[k - 1] = NoNode \/ path[k] = "" THEN NoNode
  ELSE find_child(f[k - 1], path[k])

LEMMA AlongSame ==
  ASSUME NEW path, NEW f, NEW h, NEW k \in Nat, k # 1 => f[k - 1] = h[k - 1]
  PROVE  Along(path, f, k) = Along(path, h, k)
  BY DEF Along

LEMMA WayExists ==
  ASSUME NEW path, NEW n \in Nat
  PROVE  \E f : f = [k \in 1..n |-> Along(path, f, k)]
<1> DEFINE T == {m \in Nat : ~\E f : f = [k \in 1..m |-> Along(path, f, k)]}
<1> SUFFICES ASSUME n \in T PROVE FALSE
  OBVIOUS
<1>1. PICK m \in T : \A y \in T : m <= y
  BY LeastNumber
<1>2. m \in Nat /\ ~\E f : f = [k \in 1..m |-> Along(path, f, k)]
  BY <1>1
<1>3. m # 0
  <2> SUFFICES ASSUME m = 0 PROVE FALSE
    OBVIOUS
  <2> DEFINE f == [k \in 1..0 |-> 0]
  <2>1. 1..0 = {}
    OBVIOUS
  <2>2. f = [k \in 1..0 |-> Along(path, f, k)]
    BY <2>1, Zenon
  <2> HIDE DEF f
  <2> QED BY <1>2, <2>2
<1>4. m - 1 \in Nat /\ m - 1 \notin T
  BY <1>1, <1>2, <1>3
<1>5. PICK f : f = [k \in 1..(m - 1) |-> Along(path, f, k)]
  BY <1>4
<1> DEFINE h == [k \in 1..m |-> IF k = m THEN Along(path, f, m) ELSE f[k]]
<1>6. ASSUME NEW k \in 1..m PROVE h[k] = Along(path, h, k)
  <2>1. k \in Nat /\ (k # 1 => k - 1 \in 1..m /\ k - 1 # m)
    BY <1>2
  <2>2. k # 1 => h[k - 1] = f[k - 1]
    BY <2>1
  <2>3. h[k] = Along(path, f, k)
    <3>1. CASE k = m
      BY <3>1
    <3>2. CASE k # m
      <4>1. k \in 1..(m - 1)
        BY <1>2, <3>2
      <4>2. f[k] = Along(path, f, k)
        BY <1>5, <4>1, Zenon
      <4> QED BY <3>2, <4>2
    <3> QED BY <3>1, <3>2
  <2> HIDE DEF h
  <2>4. Along(path, f, k) = Along(path, h, k)
    BY <2>1, <2>2, AlongSame
  <2> QED BY <2>3, <2>4
<1>7. h = [k \in 1..m |-> Along(path, h, k)]
  <2>1. h = [k \in 1..m |-> h[k]]
    OBVIOUS
  <2> HIDE DEF h
  <2> QED BY <1>6, <2>1, Zenon
<1> HIDE DEF h
<1> QED BY <1>2, <1>7

LEMMA WayIsNodes ==
  ASSUME Readable, NEW path, NEW n \in Nat, NEW f, f = [k \in 1..n |-> Along(path, f, k)]
  PROVE  \A k \in 1..n : f[k] = NoNode \/ IsNode(f[k])
<1> DEFINE T == {k \in 1..n : ~(f[k] = NoNode \/ IsNode(f[k]))}
<1> SUFFICES ASSUME T # {} PROVE FALSE
  OBVIOUS
<1>1. T \subseteq Nat
  OBVIOUS
<1>2. PICK m \in T : \A y \in T : m <= y
  BY <1>1, LeastNumber
<1>3. m \in 1..n /\ ~(f[m] = NoNode \/ IsNode(f[m]))
  BY <1>2
<1>4. f[m] = Along(path, f, m)
  BY <1>3, Zenon
<1>5. m # 1
  BY <1>3, <1>4, NodeAt DEF Along, root_node
<1>6. m - 1 \in 1..n /\ m - 1 \notin T
  BY <1>2, <1>3, <1>5
<1>7. f[m - 1] = NoNode \/ IsNode(f[m - 1])
  BY <1>6
<1>8. f[m] = NoNode \/ (IsNode(f[m - 1]) /\ f[m] = find_child(f[m - 1], path[m]))
  BY <1>4, <1>5, <1>7 DEF Along
<1> QED BY <1>3, <1>8, FindChild

LEMMA FindNode ==
  ASSUME Readable, NEW S, NEW path \in Seq(S)
  PROVE  find_node(path) = NoNode \/ IsNode(find_node(path))
<1> DEFINE n == Len(path)
           at == CHOOSE f : f = [k \in 1..n |-> Along(path, f, k)]
<1>1. find_node(path) = IF path = RootPath THEN root_node
                        ELSE IF ~IsAbsolute(path) THEN NoNode ELSE at[n]
  BY Zenon DEF find_node, Along
<1>2. root_node = NoNode \/ IsNode(root_node)
  BY NodeAt DEF root_node
<1>3. at = [k \in 1..n |-> Along(path, at, k)]
  <2>1. n \in Nat
    OBVIOUS
  <2> QED BY <2>1, WayExists
<1> HIDE DEF at
<1>4. \A k \in 1..n : at[k] = NoNode \/ IsNode(at[k])
  <2>1. n \in Nat
    OBVIOUS
  <2> QED BY <1>3, <2>1, WayIsNodes
<1>5. IsAbsolute(path) => n \in 1..n
  <2>1. IsAbsolute(path) => n # 0
    BY EmptySeq DEF IsAbsolute
  <2>2. n \in Nat
    OBVIOUS
  <2> QED BY <2>1, <2>2
<1> QED BY <1>1, <1>2, <1>4, <1>5

-----------------------------------------------------------------------------
(* The invariant. *)

\* from_ptr would take the blob, and its strings are behind its structure.
Taken == HeaderError(header) = "none" /\ StructEnd(header) <= header.off_dt_strings

Opened == {"source", "idle", "call", "component", "record"}

CallInv ==
  /\ request \in Requests \cup {<<>>}
  /\ done \in 0..Len(request)
  /\ pc \in {"component", "record"} => done < Len(request) /\ IsNode(node)
  /\ pc = "record" => Call.op # "create"
  /\ rest \in Seq(DOMAIN LengthOf)

TreeInv ==
  /\ Readable
  /\ size \in Nat /\ extra \in Nat
  /\ pc = "passed" /\ HeaderError(header) = "none" => StructEnd(header) <= header.off_dt_strings
  /\ pc \in Opened => Taken /\ header.total_size = size

IndInv ==
  /\ pc \in {"passed", "refused"} \cup Opened
  /\ requests \in 0..MaxRequests
  /\ TreeInv
  /\ CallInv

LEMMA TakenMeans ==
  ASSUME NEW h, IsHeader(h)
  PROVE  HeaderError(h) = "none" /\ StructEnd(h) <= h.off_dt_strings
         <=> /\ h.magic /\ h.version >= 17
             /\ h.total_size >= HeaderSize
             /\ h.off_mem_rsvmap <= h.total_size
             /\ h.off_dt_struct >= HeaderSize
             /\ h.off_dt_struct + h.size_dt_struct <= h.off_dt_strings
             /\ h.off_dt_strings + h.size_dt_strings <= h.total_size
<1>1. /\ h.total_size \in Nat /\ h.off_dt_struct \in Nat
      /\ h.size_dt_struct \in Nat /\ h.off_dt_strings \in Nat
      /\ h.size_dt_strings \in Nat /\ h.version \in Nat /\ h.off_mem_rsvmap \in Nat
      /\ h.magic \in BOOLEAN
  BY DEF IsHeader
<1> QED BY <1>1, HeaderAssumption DEF HeaderError, StructEnd, StringsEnd

\* A splice that is not refused leaves a blob that would be taken again.
LEMMA SpliceKeeps ==
  ASSUME Readable, Taken, header.total_size = size, size \in Nat,
         NEW o \in Nat, NEW old_len \in Nat, NEW new_len \in Nat,
         SpliceError(o, old_len, new_len) = "none",
         NEW new, DOMAIN new \subseteq Nat, \A x \in DOMAIN new : IsRecord(new[x]),
         blob' = Spliced(o, old_len, new_len, new),
         header' = SplicedHeader(old_len, new_len)
  PROVE  /\ Readable' /\ Taken' /\ header'.total_size = size
         /\ header'.off_dt_struct = header.off_dt_struct
         /\ header'.size_dt_struct = header.size_dt_struct + new_len - old_len
<1> DEFINE delta == new_len - old_len
           moved == {x \in DOMAIN blob : x >= o + old_len /\ x < used_blob_end_offset}
           kept == {x \in DOMAIN blob : x < o}
<1>1. /\ header.total_size \in Nat /\ header.off_dt_struct \in Nat
      /\ header.size_dt_struct \in Nat /\ header.off_dt_strings \in Nat
      /\ header.size_dt_strings \in Nat
  BY HeaderTyped
<1>2. /\ o >= header.off_dt_struct
      /\ o + old_len <= header.off_dt_struct + header.size_dt_struct
      /\ header.off_dt_strings + header.size_dt_strings - old_len + new_len <= size
  BY <1>1 DEF SpliceError, SpliceFits, StructEnd, StringsEnd, used_blob_end_offset
<1>3. /\ header.off_dt_struct + header.size_dt_struct <= header.off_dt_strings
      /\ header.off_dt_struct >= HeaderSize
      /\ header.magic /\ header.version >= 17 /\ header.total_size >= HeaderSize
      /\ header.off_mem_rsvmap <= header.total_size
  BY TakenMeans DEF Taken, Readable
<1>4. /\ header'.size_dt_struct = header.size_dt_struct + new_len - old_len
      /\ header'.off_dt_strings = header.off_dt_strings + new_len - old_len
      /\ header'.size_dt_strings = header.size_dt_strings
      /\ header'.off_dt_struct = header.off_dt_struct
      /\ header'.total_size = header.total_size
      /\ header'.magic = header.magic /\ header'.version = header.version
      /\ header'.off_mem_rsvmap = header.off_mem_rsvmap
  BY DEF SplicedHeader, Readable, IsHeader
<1>5. /\ header.size_dt_struct + new_len - old_len \in Nat
      /\ header.off_dt_strings + new_len - old_len \in Nat
  BY <1>1, <1>2, <1>3
<1>6. IsHeader(header)'
  BY <1>5 DEF SplicedHeader, Readable, IsHeader
<1>7. /\ DOMAIN blob' = kept \cup DOMAIN new \cup {x + delta : x \in moved}
      /\ \A x \in DOMAIN blob' :
           blob'[x] = IF x \in kept THEN blob[x] ELSE IF x \in DOMAIN new THEN new[x]
                      ELSE blob[x - delta]
  BY DEF Spliced
<1>8. moved \subseteq DOMAIN blob /\ moved \subseteq Nat /\ kept \subseteq DOMAIN blob
      /\ \A x \in moved : x >= o + old_len
  BY DEF Readable
<1>9. ASSUME NEW x \in DOMAIN blob' PROVE x \in Nat /\ IsRecord(blob'[x])
  <2> HIDE DEF moved, kept
  <2>1. CASE x \in kept
    BY <1>7, <1>8, <2>1 DEF Readable
  <2>2. CASE x \notin kept /\ x \in DOMAIN new
    BY <1>7, <2>2
  <2>3. CASE x \notin kept /\ x \notin DOMAIN new
    <3>1. PICK y \in moved : x = y + delta
      BY <1>7, <2>3
    <3>2. y \in Nat /\ y >= o + old_len /\ y \in DOMAIN blob
      BY <1>8
    <3>3. x \in Nat /\ x - delta = y
      BY <3>1, <3>2
    <3>4. blob'[x] = blob[y]
      BY <1>7, <2>3, <3>3
    <3> QED BY <3>2, <3>3, <3>4 DEF Readable
  <2> QED BY <2>1, <2>2, <2>3
<1>10. Readable'
  BY <1>6, <1>9 DEF Readable
<1>11. /\ header'.off_dt_struct + header'.size_dt_struct <= header'.off_dt_strings
       /\ header'.off_dt_strings + header'.size_dt_strings <= header'.total_size
  BY <1>1, <1>2, <1>3, <1>4
<1>12. Taken'
  <2>1. /\ header'.magic /\ header'.version >= 17 /\ header'.total_size >= HeaderSize
        /\ header'.off_mem_rsvmap <= header'.total_size
        /\ header'.off_dt_struct >= HeaderSize
    BY <1>3, <1>4
  <2>2. HeaderError(header') = "none" /\ StructEnd(header') <= header'.off_dt_strings
    BY <1>6, <1>11, <2>1, TakenMeans
  <2> QED BY <2>2 DEF Taken
<1> QED BY <1>4, <1>10, <1>12

LEMMA DividedAgain ==
  ASSUME NEW a \in Nat, NEW p \in Nat \ {0}
  PROVE  /\ a \div p \in Nat
         /\ (a \div p) * p \in Nat /\ (a \div p) * p + p > a
<1> DEFINE q == a \div p
           r == a % p
<1>1. q \in Nat /\ r \in 0..(p - 1)
  OBVIOUS
<1>2. a = p * q + r
  OBVIOUS
<1> HIDE DEF q, r
<1>3. q * p = p * q /\ p * q \in Nat
  BY <1>1
<1>4. q * p + p > a
  <2> DEFINE m == p * q
  <2>1. m \in Nat /\ a = m + r
    BY <1>2, <1>3
  <2> HIDE DEF m
  <2>2. m + p > a
    BY <1>1, <2>1
  <2> QED BY <1>3, <2>2 DEF m
<1> QED BY <1>1, <1>3, <1>4 DEF q

LEMMA CloneIsRoomy ==
  ASSUME NEW n \in Nat
  PROVE  CloneSize(n) \in Nat /\ CloneSize(n) >= n
<1> DEFINE a == n + PageSize - 1
           m == (a \div PageSize) * PageSize
<1>1. PageSize \in Nat \ {0} /\ a \in Nat
  BY SizeAssumption
<1>2. m \in Nat /\ m + PageSize > a
  BY <1>1, DividedAgain
<1>3. CloneSize(n) = m
  BY DEF CloneSize
<1> HIDE DEF m
<1> QED BY <1>1, <1>2, <1>3

\* What the reader finds is not disturbed by a step that leaves the blob alone.
LEMMA NodeStays ==
  ASSUME blob' = blob, header' = header, NEW n, IsNode(n)
  PROVE  n.begin \in Nat /\ n.end \in Nat /\ n.end >= n.begin /\ Kind(n.begin)' = "begin"
  BY DEF IsNode, Kind, TokenAt, Junk

LEMMA CallTyped ==
  ASSUME CallInv, done < Len(request)
  PROVE  /\ Call.path \in Seq(DOMAIN LengthOf)
         /\ Call.op # "create" => Call.name \in DOMAIN LengthOf /\ Call.length \in Nat
         /\ done \in Nat /\ Len(request) \in Nat /\ done + 1 \in 0..Len(request)
<1>1. request \in Requests
  <2>1. Len(<<>>) = 0
    OBVIOUS
  <2> QED BY <2>1 DEF CallInv
<1>2. Len(request) \in Nat
  BY <1>1, RequestAssumption
<1>3. done \in Nat /\ done + 1 \in 1..Len(request)
  BY <1>2 DEF CallInv
<1>4. /\ request[done + 1].path \in Seq(DOMAIN LengthOf)
      /\ request[done + 1].op # "create" =>
           request[done + 1].name \in DOMAIN LengthOf /\ request[done + 1].length \in Nat
  BY <1>1, <1>3, RequestAssumption
<1> QED BY <1>2, <1>3, <1>4 DEF Call

-----------------------------------------------------------------------------
(* Steps. *)

LEMMA InitIndInv == Init => IndInv
<1> SUFFICES ASSUME Init PROVE IndInv
  OBVIOUS
<1>1. Readable /\ (HeaderError(header) = "none" => StructEnd(header) <= header.off_dt_strings)
  BY SourceAssumption DEF Init, Readable
<1>2. TreeInv
  BY <1>1 DEF Init, TreeInv, Opened
<1>3. rest \in Seq(DOMAIN LengthOf) /\ Len(request) = 0
  BY EmptySeq DEF Init
<1>4. CallInv
  BY <1>3 DEF Init, CallInv
<1> QED BY <1>2, <1>4, SizeAssumption DEF Init, IndInv

LEMMA FromPtrIndInv == IndInv /\ from_ptr => IndInv'
<1> SUFFICES ASSUME IndInv, from_ptr PROVE IndInv'
  OBVIOUS
<1> USE DEF blobVars, callVars
<1>1. blob' = blob /\ header' = header /\ pc' \in {"refused", "source"}
  BY DEF from_ptr
<1>2. Readable'
  BY <1>1 DEF IndInv, TreeInv, Readable
<1>3. TreeInv'
  <2>1. CASE pc' = "refused" /\ size' = size
    BY <1>1, <1>2, <2>1 DEF IndInv, TreeInv, Opened, from_ptr
  <2>2. CASE pc' = "source" /\ HeaderError(header) = "none" /\ size' = header.total_size
    <3>1. Taken' /\ header'.total_size = size'
      BY <1>1, <2>2 DEF IndInv, TreeInv, Taken, from_ptr
    <3>2. size' \in Nat
      BY <2>2, HeaderTyped DEF IndInv, TreeInv
    <3> QED BY <1>2, <2>2, <3>1, <3>2 DEF IndInv, TreeInv, Opened, from_ptr
  <2> QED BY <2>1, <2>2 DEF from_ptr
<1>4. CallInv'
  BY <1>1 DEF IndInv, CallInv, from_ptr
<1> QED BY <1>1, <1>3, <1>4 DEF IndInv, from_ptr, Opened

LEMMA CloneIndInv == IndInv /\ clone => IndInv'
<1> SUFFICES ASSUME IndInv, clone PROVE IndInv'
  OBVIOUS
<1> USE DEF blobVars, callVars
<1>1. extra' \in Nat /\ size \in Nat /\ Readable /\ Taken /\ header.total_size = size
  BY SizeAssumption DEF clone, IndInv, TreeInv, Opened
<1>2. TreeInv' /\ pc' \in {"refused", "idle"}
  <2>1. CASE pc' = "refused" /\ UNCHANGED <<blobVars, size>>
    BY <1>1, <2>1 DEF TreeInv, Readable, Opened
  <2>2. CASE /\ pc' = "idle" /\ size' = CloneSize(size + extra')
             /\ header' = [header EXCEPT !.total_size = size'] /\ blob' = blob
    <3>1. size' \in Nat /\ size' >= size
      <4> DEFINE x == extra'
      <4>0. size \in Nat /\ x \in Nat
        BY <1>1
      <4> HIDE DEF x
      <4>1. size + x \in Nat /\ size + x >= size
        BY <4>0
      <4>2. CloneSize(size + x) \in Nat /\ CloneSize(size + x) >= size + x
        BY <4>1, CloneIsRoomy
      <4>3. size' = CloneSize(size + x)
        BY <2>2 DEF x
      <4> QED BY <4>0, <4>1, <4>2, <4>3
    <3>2. IsHeader(header)'
      BY <1>1, <2>2, <3>1 DEF Readable, IsHeader
    <3>3. /\ header'.total_size = size'
          /\ header'.magic = header.magic /\ header'.version = header.version
          /\ header'.off_mem_rsvmap = header.off_mem_rsvmap
          /\ header'.off_dt_struct = header.off_dt_struct
          /\ header'.size_dt_struct = header.size_dt_struct
          /\ header'.off_dt_strings = header.off_dt_strings
          /\ header'.size_dt_strings = header.size_dt_strings
      BY <1>1, <2>2 DEF Readable, IsHeader
    <3>4. /\ header.magic /\ header.version >= 17
          /\ header.total_size >= HeaderSize
          /\ header.off_mem_rsvmap <= header.total_size
          /\ header.off_dt_struct >= HeaderSize
          /\ header.off_dt_struct + header.size_dt_struct <= header.off_dt_strings
          /\ header.off_dt_strings + header.size_dt_strings <= header.total_size
      BY <1>1, TakenMeans DEF Taken, Readable
    <3>5. /\ header.off_mem_rsvmap \in Nat
          /\ header.off_dt_strings + header.size_dt_strings \in Nat
      BY <1>1 DEF Readable, IsHeader
    <3>6. /\ size' >= HeaderSize /\ header.off_mem_rsvmap <= size'
          /\ header.off_dt_strings + header.size_dt_strings <= size'
      BY <1>1, <3>1, <3>4, <3>5, HeaderAssumption
    <3>7. Taken'
      BY <3>2, <3>3, <3>4, <3>6, TakenMeans DEF Taken
    <3>8. Readable'
      BY <1>1, <2>2, <3>2 DEF Readable
    <3> QED BY <1>1, <2>2, <3>1, <3>3, <3>7, <3>8 DEF TreeInv, Opened
  <2> QED BY <2>1, <2>2 DEF clone
<1>3. CallInv'
  BY <1>2 DEF IndInv, CallInv, clone
<1> QED BY <1>2, <1>3 DEF IndInv, clone, Opened

\* Steps that leave the tree alone.
LEMMA TreeStays ==
  ASSUME IndInv, UNCHANGED <<blob, header, size, extra>>, pc \in Opened, pc' \in Opened
  PROVE  TreeInv'
  BY DEF IndInv, TreeInv, Readable, Taken, Opened

LEMMA BeginRequestIndInv == IndInv /\ begin_request => IndInv'
<1> SUFFICES ASSUME IndInv, begin_request PROVE IndInv'
  OBVIOUS
<1> USE DEF blobVars, callVars, cloneVars
<1>1. TreeInv'
  BY TreeStays DEF begin_request, Opened
<1>2. request' \in Requests /\ Len(request') \in Nat
  BY RequestAssumption DEF begin_request
<1>3. CallInv'
  BY <1>2 DEF IndInv, CallInv, begin_request
<1> QED BY <1>1, <1>3, SizeAssumption DEF IndInv, begin_request, Opened

LEMMA EndRequestIndInv == IndInv /\ end_request => IndInv'
<1> SUFFICES ASSUME IndInv, end_request PROVE IndInv'
  OBVIOUS
<1> USE DEF blobVars, callVars, cloneVars
<1>1. TreeInv'
  BY TreeStays DEF end_request, Opened
<1>2. CallInv'
  BY DEF IndInv, CallInv, end_request
<1> QED BY <1>1, <1>2 DEF IndInv, end_request, Opened

LEMMA CreateNodeIndInv == IndInv /\ create_node => IndInv'
<1> SUFFICES ASSUME IndInv, create_node PROVE IndInv'
  OBVIOUS
<1> USE DEF blobVars, callVars, cloneVars
<1>1. UNCHANGED <<blob, header, size, extra, requests, request>> /\ pc = "call"
      /\ done < Len(request)
  BY DEF create_node
<1>2. Call.path \in Seq(DOMAIN LengthOf)
  BY <1>1, CallTyped DEF IndInv
<1>3. pc' \in Opened /\ CallInv'
  <2>1. CASE pc' = "idle" /\ UNCHANGED <<done, node, rest>>
    BY <1>1, <2>1 DEF IndInv, CallInv, Opened
  <2>2. CASE /\ IsAbsolute(Call.path) /\ root_node # NoNode /\ node' = root_node
             /\ rest' = components(Call.path) /\ pc' = "component" /\ done' = done
    <3>1. IsNode(root_node)
      BY <2>2, NodeAt DEF root_node, IndInv, TreeInv
    <3>2. IsNode(node)'
      BY <1>1, <2>2, <3>1, NodeStays DEF IsNode
    <3>3. rest' \in Seq(DOMAIN LengthOf)
      BY <1>2, <2>2, HeadTailProperties DEF components, IsAbsolute
    <3> QED BY <1>1, <2>2, <3>2, <3>3 DEF IndInv, CallInv, Opened
  <2> QED BY <2>1, <2>2 DEF create_node, Fail
<1>4. TreeInv'
  BY <1>1, <1>3, TreeStays DEF Opened
<1> QED BY <1>1, <1>3, <1>4 DEF IndInv

LEMMA NodeLengthTyped ==
  ASSUME NEW name \in DOMAIN LengthOf
  PROVE  NodeLength(name) \in Nat /\ NodeLength(name) >= 8
<1>1. 4 + LengthOf[name] + 1 \in Nat /\ 4 + LengthOf[name] + 1 >= 5
  BY HeaderAssumption
<1>2. align4(4 + LengthOf[name] + 1) \in Nat
      /\ align4(4 + LengthOf[name] + 1) >= 4 + LengthOf[name] + 1
  BY <1>1, Aligned
<1> DEFINE n == 4 + LengthOf[name] + 1
<1>3. n \in Nat /\ n >= 5 /\ align4(n) \in Nat /\ align4(n) >= n
  BY <1>1, <1>2
<1>4. NodeLength(name) = align4(n) + 4
  BY DEF NodeLength
<1> HIDE DEF n
<1> QED BY <1>3, <1>4

\* The new child is a node.
LEMMA InsertChildKeeps ==
  ASSUME Readable, Taken, header.total_size = size, size \in Nat,
         IsNode(node), NEW name \in DOMAIN LengthOf,
         SpliceError(InBlob(node.end), 0, NodeLength(name)) = "none",
         Splice(InBlob(node.end), 0, NodeLength(name), NewNode(node.end, name)),
         node' = [begin |-> node.end, end |-> node.end + NodeLength(name) - 4]
  PROVE  Readable' /\ Taken' /\ header'.total_size = size /\ IsNode(node)'
<1> DEFINE o == InBlob(node.end)
           len == NodeLength(name)
           new == NewNode(node.end, name)
<1>1. /\ node.end \in Nat /\ len \in Nat /\ len >= 8
      /\ header.off_dt_struct \in Nat /\ header.size_dt_struct \in Nat
  BY NodeLengthTyped, HeaderTyped DEF IsNode
<1>2. o \in Nat /\ o = header.off_dt_struct + node.end
  BY <1>1 DEF InBlob
<1>3. /\ DOMAIN new = {o, o + len - 4}
      /\ new[o] = BeginNode(name)
      /\ \A x \in DOMAIN new : new[x] = BeginNode(name) \/ new[x] = EndNode
  BY DEF NewNode
<1>4. blob' = Spliced(o, 0, len, new) /\ header' = SplicedHeader(0, len)
  BY DEF Splice
<1>5. SpliceError(o, 0, len) = "none"
  OBVIOUS
<1> HIDE DEF o, len, new
<1>6. DOMAIN new \subseteq Nat
  BY <1>1, <1>2, <1>3
<1>7. \A x \in DOMAIN new : IsRecord(new[x])
  BY <1>3 DEF IsRecord, BeginNode, EndNode
<1>8. /\ Readable' /\ Taken' /\ header'.total_size = size
      /\ header'.off_dt_struct = header.off_dt_struct
      /\ header'.size_dt_struct = header.size_dt_struct + len - 0
  BY <1>1, <1>2, <1>4, <1>5, <1>6, <1>7, SpliceKeeps
<1>9. /\ node'.begin \in Nat /\ node'.end \in Nat /\ node'.end >= node'.begin
      /\ node'.begin = node.end
  <2>1. node'.begin = node.end /\ node'.end = node.end + len - 4
    BY DEF len
  <2> QED BY <1>1, <2>1
<1>10. o \in DOMAIN blob' /\ blob'[o] = BeginNode(name)
  BY <1>2, <1>3, <1>4 DEF Spliced
<1>11. node.end <= header.size_dt_struct
  BY <1>1, <1>2, <1>5 DEF SpliceError, StructEnd
<1>12. node.end \in 0..(header'.size_dt_struct - 1) /\ header'.off_dt_struct + node.end = o
  BY <1>1, <1>2, <1>8, <1>11
<1>13. Kind(node.begin)' = "begin"
  BY <1>9, <1>10, <1>12 DEF Kind, TokenAt, BeginNode
<1> QED BY <1>8, <1>9, <1>13 DEF IsNode

LEMMA CreateComponentIndInv == IndInv /\ create_component => IndInv'
<1> SUFFICES ASSUME IndInv, create_component PROVE IndInv'
  OBVIOUS
<1> USE DEF blobVars, callVars, cloneVars
<1>1. /\ UNCHANGED <<size, extra, requests, request>> /\ pc = "component"
      /\ done < Len(request) /\ IsNode(node) /\ Readable /\ Taken
      /\ header.total_size = size /\ size \in Nat /\ extra \in Nat
      /\ rest \in Seq(DOMAIN LengthOf)
  BY DEF create_component, IndInv, CallInv, TreeInv, Opened
<1>2. rest # <<>> => rest[1] \in DOMAIN LengthOf /\ Tail(rest) \in Seq(DOMAIN LengthOf)
  <2>1. rest # <<>> => Head(rest) \in DOMAIN LengthOf /\ Tail(rest) \in Seq(DOMAIN LengthOf)
    BY <1>1, HeadTailProperties
  <2>2. Head(rest) = rest[1]
    BY <1>1
  <2> QED BY <2>1, <2>2
<1>3. CASE /\ pc' = "call" /\ done' = done + 1 /\ UNCHANGED <<blob, header, node, rest>>
  <2>1. TreeInv'
    BY <1>1, <1>3, TreeStays DEF Opened
  <2>2. done + 1 \in 0..Len(request)
    BY <1>1, CallTyped DEF IndInv
  <2>3. CallInv'
    BY <1>1, <1>3, <2>2 DEF IndInv, CallInv
  <2> QED BY <1>1, <1>3, <2>1, <2>3 DEF IndInv, Opened
<1>4. CASE /\ pc' = "idle" /\ UNCHANGED <<blob, header, node, rest, done>>
  <2>1. TreeInv'
    BY <1>1, <1>4, TreeStays DEF Opened
  <2>2. CallInv'
    BY <1>1, <1>4 DEF IndInv, CallInv
  <2> QED BY <1>1, <1>4, <2>1, <2>2 DEF IndInv, Opened
<1>5. CASE /\ rest # <<>> /\ find_child(node, rest[1]) # NoNode
           /\ node' = find_child(node, rest[1]) /\ rest' = Tail(rest)
           /\ UNCHANGED <<blob, header, pc, done>>
  <2>1. TreeInv'
    BY <1>1, <1>5, TreeStays DEF Opened
  <2>2. IsNode(find_child(node, rest[1]))
    BY <1>1, <1>5, FindChild
  <2>3. IsNode(node)'
    BY <1>5, <2>2, NodeStays DEF IsNode
  <2>4. CallInv'
    BY <1>1, <1>2, <1>5, <2>3 DEF IndInv, CallInv
  <2> QED BY <1>1, <1>5, <2>1, <2>4 DEF IndInv, Opened
<1>6. CASE /\ rest # <<>>
           /\ SpliceError(InBlob(node.end), 0, NodeLength(rest[1])) = "none"
           /\ Splice(InBlob(node.end), 0, NodeLength(rest[1]), NewNode(node.end, rest[1]))
           /\ node' = [begin |-> node.end, end |-> node.end + NodeLength(rest[1]) - 4]
           /\ rest' = Tail(rest) /\ UNCHANGED <<pc, done>>
  <2>1. Readable' /\ Taken' /\ header'.total_size = size /\ IsNode(node)'
    BY <1>1, <1>2, <1>6, InsertChildKeeps
  <2>2. TreeInv'
    BY <1>1, <1>6, <2>1 DEF TreeInv, Opened
  <2>3. CallInv'
    BY <1>1, <1>2, <1>6, <2>1 DEF IndInv, CallInv
  <2> QED BY <1>1, <1>6, <2>2, <2>3 DEF IndInv, Opened
<1> QED BY <1>3, <1>4, <1>5, <1>6, Zenon DEF create_component, InsertChild, Ok, Fail

\* A string that is appended is behind the structure block.
LEMMA AppendKeeps ==
  ASSUME Readable, Taken, header.total_size = size, size \in Nat,
         NEW name \in DOMAIN LengthOf, StringFits(name),
         blob' = [o \in DOMAIN blob \cup {used_blob_end_offset} |->
                    IF o = used_blob_end_offset THEN Str(name) ELSE blob[o]],
         header' = [header EXCEPT !.size_dt_strings = @ + LengthOf[name] + 1]
  PROVE  /\ Readable' /\ Taken' /\ header'.total_size = size
         /\ \A o : TokenAt(o)' = TokenAt(o)
<1> DEFINE end == used_blob_end_offset
           len == LengthOf[name] + 1
<1>1. /\ header.total_size \in Nat /\ header.off_dt_struct \in Nat
      /\ header.size_dt_struct \in Nat /\ header.off_dt_strings \in Nat
      /\ header.size_dt_strings \in Nat /\ len \in Nat
      /\ header.size_dt_strings + LengthOf[name] + 1 = header.size_dt_strings + len
  BY HeaderTyped, HeaderAssumption
<1>2. /\ header.magic /\ header.version >= 17
      /\ header.total_size >= HeaderSize
      /\ header.off_mem_rsvmap <= header.total_size
      /\ header.off_dt_struct >= HeaderSize
      /\ header.off_dt_struct + header.size_dt_struct <= header.off_dt_strings
      /\ header.off_dt_strings + header.size_dt_strings <= header.total_size
  BY TakenMeans DEF Taken, Readable
<1>3. end = header.off_dt_strings + header.size_dt_strings /\ end \in Nat
  BY <1>1 DEF used_blob_end_offset, StringsEnd
<1>4. header.off_dt_strings + (header.size_dt_strings + len) <= size
  BY <1>1, <1>3, HeaderAssumption DEF StringFits
<1>5. /\ header'.size_dt_strings = header.size_dt_strings + len
      /\ header'.size_dt_struct = header.size_dt_struct
      /\ header'.off_dt_strings = header.off_dt_strings
      /\ header'.off_dt_struct = header.off_dt_struct
      /\ header'.total_size = header.total_size
      /\ header'.magic = header.magic /\ header'.version = header.version
      /\ header'.off_mem_rsvmap = header.off_mem_rsvmap
  BY <1>1 DEF Readable, IsHeader
<1>6. IsHeader(header)'
  BY <1>1 DEF Readable, IsHeader
<1>7. Readable'
  <2>1. DOMAIN blob' = DOMAIN blob \cup {end} /\ DOMAIN blob' \subseteq Nat
    BY <1>3 DEF Readable
  <2>2. IsRecord(Str(name))
    BY DEF IsRecord, Str
  <2>3. \A o \in DOMAIN blob' : IsRecord(blob'[o])
    BY <2>1, <2>2 DEF Readable
  <2> QED BY <1>6, <2>1, <2>3 DEF Readable
<1>8. Taken'
  <2> HIDE DEF len
  <2>1. HeaderError(header') = "none" /\ StructEnd(header') <= header'.off_dt_strings
    BY <1>2, <1>4, <1>5, <1>6, TakenMeans
  <2> QED BY <2>1 DEF Taken
<1>9. ASSUME NEW o PROVE TokenAt(o)' = TokenAt(o)
  <2>1. CASE o \in 0..(header.size_dt_struct - 1)
    <3>1. header.off_dt_struct + o # end
      BY <1>1, <1>2, <1>3, <2>1
    <3> QED BY <1>5, <2>1, <3>1 DEF TokenAt, Junk
  <2>2. CASE o \notin 0..(header.size_dt_struct - 1)
    BY <1>5, <2>2 DEF TokenAt, Junk
  <2> QED BY <2>1, <2>2
<1> QED BY <1>5, <1>7, <1>8, <1>9

LEMMA FindOrAddStringIndInv == IndInv /\ find_or_add_string => IndInv'
<1> SUFFICES ASSUME IndInv, find_or_add_string PROVE IndInv'
  OBVIOUS
<1> USE DEF blobVars, callVars, cloneVars
<1>1. /\ UNCHANGED <<size, extra, requests, request, rest>> /\ pc = "call"
      /\ done < Len(request) /\ Call.op # "create" /\ Readable /\ Taken
      /\ header.total_size = size /\ size \in Nat /\ extra \in Nat
  BY DEF find_or_add_string, IndInv, CallInv, TreeInv, Opened
<1>2. Call.path \in Seq(DOMAIN LengthOf) /\ Call.name \in DOMAIN LengthOf
  BY <1>1, CallTyped DEF IndInv
<1>3. SetError(Call) = "none" => /\ IsNode(find_node(Call.path))
                                 /\ StringOffset(Call.name) = None => StringFits(Call.name)
  BY <1>1, <1>2, FindNode DEF SetError
<1>4. CASE pc' = "idle" /\ UNCHANGED <<blob, header, node, done>>
  <2>1. TreeInv'
    BY <1>1, <1>4, TreeStays DEF Opened
  <2>2. CallInv'
    BY <1>1, <1>4 DEF IndInv, CallInv
  <2> QED BY <1>1, <1>4, <2>1, <2>2 DEF IndInv, Opened
<1>5. CASE /\ SetError(Call) = "none" /\ node' = find_node(Call.path) /\ pc' = "record"
           /\ UNCHANGED <<blob, header, done>>
  <2>1. TreeInv'
    BY <1>1, <1>5, TreeStays DEF Opened
  <2>2. IsNode(node)'
    BY <1>3, <1>5, NodeStays DEF IsNode
  <2>3. CallInv'
    BY <1>1, <1>5, <2>2 DEF IndInv, CallInv, Call
  <2> QED BY <1>1, <1>5, <2>1, <2>3 DEF IndInv, Opened
<1>6. CASE /\ SetError(Call) = "none" /\ StringOffset(Call.name) = None
           /\ blob' = [o \in DOMAIN blob \cup {used_blob_end_offset} |->
                         IF o = used_blob_end_offset THEN Str(Call.name) ELSE blob[o]]
           /\ header' = [header EXCEPT !.size_dt_strings = @ + LengthOf[Call.name] + 1]
           /\ node' = find_node(Call.path) /\ pc' = "record" /\ done' = done
  <2>1. /\ Readable' /\ Taken' /\ header'.total_size = size
        /\ \A o : TokenAt(o)' = TokenAt(o)
    BY <1>1, <1>2, <1>3, <1>6, AppendKeeps
  <2>2. IsNode(node)'
    BY <1>3, <1>6, <2>1 DEF IsNode, Kind
  <2>3. TreeInv'
    BY <1>1, <1>6, <2>1 DEF TreeInv, Opened
  <2>4. CallInv'
    BY <1>1, <1>6, <2>2 DEF IndInv, CallInv, Call
  <2> QED BY <1>1, <1>6, <2>3, <2>4 DEF IndInv, Opened
<1> QED BY <1>4, <1>5, <1>6, Zenon DEF find_or_add_string, Fail

LEMMA SetPropertyIndInv == IndInv /\ set_property_bytes => IndInv'
<1> SUFFICES ASSUME IndInv, set_property_bytes PROVE IndInv'
  OBVIOUS
<1> USE DEF blobVars, callVars, cloneVars
<1> DEFINE existing == find_direct_property(node, Call.name)
           offset == IF existing = None THEN property_insertion_offset(node) ELSE existing
           old_len == IF existing = None THEN 0
                      ELSE property_record_length(TokenAt(existing).length)
           new_len == property_record_length(Call.length)
           new == [x \in {InBlob(offset)} |-> Prop(Call.length, nameoff, Call.value)]
<1>1. /\ UNCHANGED <<size, extra, requests, request, rest, node>> /\ pc = "record"
      /\ done < Len(request) /\ Call.op # "create" /\ IsNode(node) /\ Readable /\ Taken
      /\ header.total_size = size /\ size \in Nat /\ extra \in Nat
  BY DEF set_property_bytes, IndInv, CallInv, TreeInv, Opened
<1>2. Call.length \in Nat /\ done + 1 \in 0..Len(request)
  BY <1>1, CallTyped DEF IndInv
<1>3. \/ UNCHANGED <<blob, header, done>> /\ pc' = "idle"
      \/ /\ offset # Bad /\ SpliceError(InBlob(offset), old_len, new_len) = "none"
         /\ Splice(InBlob(offset), old_len, new_len, new)
         /\ pc' = "call" /\ done' = done + 1
  BY Zenon DEF set_property_bytes, Fail, Ok
<1>4. existing = None \/ existing = Bad \/ (existing \in Nat /\ Kind(existing) = "prop")
  BY <1>1, FindDirect
<1>5. property_insertion_offset(node) = Bad \/ property_insertion_offset(node) \in Nat
  BY <1>1, InsertionOffset
<1>6. new_len \in Nat
  <2>1. align4(Call.length) \in Nat
    BY <1>2, Aligned
  <2> QED BY <2>1 DEF property_record_length
<1>7. offset # Bad => offset \in Nat /\ old_len \in Nat
  <2>1. existing \in Nat /\ Kind(existing) = "prop"
          => property_record_length(TokenAt(existing).length) \in Nat
    BY <1>1, AfterProperty DEF Kind
  <2> HIDE DEF existing
  <2> QED BY <1>4, <1>5, <2>1 DEF None, Bad
<1>8. InBlob(offset) \in Nat => /\ DOMAIN new \subseteq Nat
                                /\ \A x \in DOMAIN new : IsRecord(new[x])
  BY <1>2 DEF IsRecord, Prop
<1> HIDE DEF existing, offset, old_len, new_len, new
<1>9. CASE UNCHANGED <<blob, header, done>> /\ pc' = "idle"
  <2>1. TreeInv'
    BY <1>1, <1>9, TreeStays DEF Opened
  <2>2. CallInv'
    BY <1>1, <1>9 DEF IndInv, CallInv
  <2> QED BY <1>1, <1>9, <2>1, <2>2 DEF IndInv, Opened
<1>10. CASE /\ offset # Bad /\ SpliceError(InBlob(offset), old_len, new_len) = "none"
            /\ Splice(InBlob(offset), old_len, new_len, new)
            /\ pc' = "call" /\ done' = done + 1
  <2>1. InBlob(offset) \in Nat /\ old_len \in Nat
    BY <1>1, <1>7, <1>10, HeaderTyped DEF InBlob
  <2>2. blob' = Spliced(InBlob(offset), old_len, new_len, new) /\ header' = SplicedHeader(old_len, new_len)
    BY <1>10 DEF Splice
  <2>3. Readable' /\ Taken' /\ header'.total_size = size
    BY <1>1, <1>6, <1>8, <1>10, <2>1, <2>2, SpliceKeeps
  <2>4. TreeInv'
    BY <1>1, <1>10, <2>3 DEF TreeInv, Opened
  <2>5. CallInv'
    BY <1>1, <1>2, <1>10 DEF IndInv, CallInv
  <2> QED BY <1>1, <1>10, <2>4, <2>5 DEF IndInv, Opened
<1> QED BY <1>3, <1>9, <1>10

LEMMA StutterIndInv == IndInv /\ UNCHANGED vars => IndInv'
<1> SUFFICES ASSUME IndInv, UNCHANGED vars PROVE IndInv'
  OBVIOUS
<1> USE DEF vars, blobVars, callVars, cloneVars
<1>1. UNCHANGED <<blob, header, size, extra, pc, requests, request, done, rest, node>>
  OBVIOUS
<1>2. TreeInv'
  BY <1>1 DEF IndInv, TreeInv, Readable, Taken
<1>3. IsNode(node) => IsNode(node)'
  BY <1>1, NodeStays DEF IsNode
<1>4. CallInv'
  BY <1>1, <1>3 DEF IndInv, CallInv, Call
<1> QED BY <1>1, <1>2, <1>4 DEF IndInv

LEMMA NextIndInv == IndInv /\ [Next]_vars => IndInv'
  BY FromPtrIndInv, CloneIndInv, BeginRequestIndInv, EndRequestIndInv, CreateNodeIndInv, CreateComponentIndInv,
     FindOrAddStringIndInv, SetPropertyIndInv, StutterIndInv, Zenon DEF Next, Step, Over

LEMMA IndInvHolds == Spec => []IndInv
  BY InitIndInv, NextIndInv, PTL DEF Spec

-----------------------------------------------------------------------------
\* Whatever blob the firmware is passed, if from_ptr takes its header, no list
\* of edits writes behind the end of the clone's pages: the used part of the
\* blob, strings included, never outgrows them.
THEOREM DtbTypeCorrect == Spec => []TypeOK
<1>1. IndInv => TypeOK
  <2> SUFFICES ASSUME IndInv PROVE TypeOK
    OBVIOUS
  <2>1. pc \in Opened => used_blob_end_offset <= size
    <3>1. pc \in Opened => header.off_dt_strings + header.size_dt_strings <= header.total_size
                           /\ header.total_size = size
      BY TakenMeans DEF IndInv, TreeInv, Taken, Readable
    <3> QED BY <3>1 DEF used_blob_end_offset, StringsEnd
  <2> QED BY <2>1 DEF IndInv, TreeInv, CallInv, Readable, Opened, TypeOK
<1> QED BY <1>1, IndInvHolds, PTL

\* What every edit leaves is a blob whose header from_ptr would take, whose
\* total size is that of the pages and whose blocks do not overlap, so that
\* fdt_view, which the writer calls before every search, does not fail.
ViewIsValid ==
  pc \in {"idle", "call", "component", "record"} =>
    /\ HeaderError(header) = "none" /\ header.total_size = size
    /\ StructEnd(header) <= header.off_dt_strings

THEOREM EditsKeepTheView == Spec => []ViewIsValid
<1>1. IndInv => ViewIsValid
  BY DEF IndInv, TreeInv, Taken, Opened, ViewIsValid
<1> QED BY <1>1, IndInvHolds, PTL


-----------------------------------------------------------------------------
(* The room that the edits need. *)

\* Sums from the end: f[k] is the sum of the values behind k.
IsSum(f, d, n) == f = [k \in 0..n |-> IF k = n THEN 0 ELSE d[k + 1] + f[k + 1]]

SumFrom(f, d, n, m) == f[n] = 0 /\ \A k \in 0..(n - 1) : k >= n - m => f[k] = d[k + 1] + f[k + 1]

LEMMA SumExists ==
  ASSUME NEW n \in Nat, NEW d, \A k \in 1..n : d[k] \in Nat
  PROVE  \E f : IsSum(f, d, n)
<1> DEFINE T == {m \in Nat : m <= n /\ ~\E f \in [0..n -> Nat] : SumFrom(f, d, n, m)}
<1>1. T = {}
  <2> SUFFICES ASSUME T # {} PROVE FALSE
    OBVIOUS
  <2>1. PICK m \in T : \A y \in T : m <= y
    BY LeastNumber
  <2>2. m \in Nat /\ m <= n /\ ~\E f \in [0..n -> Nat] : SumFrom(f, d, n, m)
    BY <2>1
  <2>3. m # 0
    <3> DEFINE f == [k \in 0..n |-> 0]
    <3>1. f \in [0..n -> Nat] /\ SumFrom(f, d, n, 0)
      BY DEF SumFrom
    <3> QED BY <2>2, <3>1
  <2>4. m - 1 \in Nat /\ m - 1 \notin T
    <3> HIDE DEF T
    <3> QED BY <2>1, <2>2, <2>3
  <2>5. PICK f \in [0..n -> Nat] : SumFrom(f, d, n, m - 1)
    BY <2>2, <2>4
  <2> DEFINE b == n - m
             h == [k \in 0..n |-> IF k = b THEN d[b + 1] + f[b + 1] ELSE f[k]]
  <2>6. b \in 0..(n - 1) /\ b + 1 \in 1..n /\ n # b /\ b + 1 \in 0..n
    BY <2>2, <2>3
  <2>7. d[b + 1] \in Nat /\ f[b + 1] \in Nat
    BY <2>6
  <2>8. h \in [0..n -> Nat]
    BY <2>7
  <2>9. SumFrom(h, d, n, m)
    <3>1. h[n] = 0
      BY <2>5, <2>6 DEF SumFrom
    <3>2. ASSUME NEW k \in 0..(n - 1), k >= n - m PROVE h[k] = d[k + 1] + h[k + 1]
      <4>1. k + 1 \in 0..n /\ k \in 0..n /\ k + 1 # b
        BY <2>2, <3>2
      <4>2. h[k + 1] = f[k + 1]
        BY <4>1
      <4>3. CASE k = b
        BY <4>1, <4>2, <4>3
      <4>4. CASE k # b
        <5>1. k >= n - (m - 1)
          BY <2>2, <3>2, <4>4
        <5>2. f[k] = d[k + 1] + f[k + 1]
          BY <2>5, <5>1 DEF SumFrom
        <5> QED BY <4>1, <4>2, <4>4, <5>2
      <4> QED BY <4>3, <4>4
    <3> HIDE DEF h
    <3> QED BY <3>1, <3>2 DEF SumFrom
  <2> HIDE DEF h
  <2> QED BY <2>2, <2>8, <2>9
<1>2. PICK f \in [0..n -> Nat] : SumFrom(f, d, n, n)
  <2>1. n \notin T /\ n <= n
    BY <1>1
  <2> QED BY <2>1, Zenon
<1>3. ASSUME NEW k \in 0..n PROVE f[k] = IF k = n THEN 0 ELSE d[k + 1] + f[k + 1]
  BY <1>2 DEF SumFrom
<1>4. f = [k \in 0..n |-> f[k]]
  OBVIOUS
<1>5. f = [k \in 0..n |-> IF k = n THEN 0 ELSE d[k + 1] + f[k + 1]]
  BY <1>3, <1>4, Zenon
<1> QED BY <1>5 DEF IsSum

LEMMA SumTyped ==
  ASSUME NEW n \in Nat, NEW d, \A k \in 1..n : d[k] \in Nat, NEW f, IsSum(f, d, n)
  PROVE  \A k \in 0..n : f[k] \in Nat
<1> DEFINE T == {m \in Nat : m <= n /\ f[n - m] \notin Nat}
<1>1. \A k \in 0..n : f[k] = IF k = n THEN 0 ELSE d[k + 1] + f[k + 1]
  BY DEF IsSum
<1>2. T = {}
  <2> SUFFICES ASSUME T # {} PROVE FALSE
    OBVIOUS
  <2>1. PICK m \in T : \A y \in T : m <= y
    BY LeastNumber
  <2>2. m \in Nat /\ m <= n /\ f[n - m] \notin Nat
    BY <2>1
  <2>3. m # 0
    BY <1>1, <2>2
  <2>4. m - 1 \in Nat /\ m - 1 \notin T
    <3> HIDE DEF T
    <3> QED BY <2>1, <2>2, <2>3
  <2>5. f[n - (m - 1)] \in Nat
    BY <2>2, <2>4
  <2> DEFINE k == n - m
  <2>6. k \in 0..n /\ k # n /\ k + 1 \in 1..n /\ n - (m - 1) = k + 1
    BY <2>2, <2>3
  <2> HIDE DEF k
  <2>7. f[k] = d[k + 1] + f[k + 1] /\ d[k + 1] \in Nat /\ f[k + 1] \in Nat
    BY <1>1, <2>5, <2>6
  <2> QED BY <2>2, <2>7 DEF k
<1>3. ASSUME NEW k \in 0..n PROVE f[k] \in Nat
  <2>1. n - k \in Nat /\ n - k <= n /\ n - (n - k) = k
    OBVIOUS
  <2>2. n - k \notin T
    BY <1>2
  <2> QED BY <2>1, <2>2
<1> QED BY <1>3

LEMMA Times ==
  ASSUME NEW a \in Nat, NEW b \in Nat
  PROVE  a * b \in Nat /\ (a + 1) * b = a * b + b /\ (a # 0 => a * b = (a - 1) * b + b)
  OBVIOUS

\* A call of a request.
IsCall(c) ==
  /\ c.path \in Seq(DOMAIN LengthOf)
  /\ c.op # "create" => c.name \in DOMAIN LengthOf /\ c.length \in Nat

LEMMA NeedsTyped ==
  ASSUME NEW c, IsCall(c)
  PROVE  CallNeeds(c) \in Nat
<1>1. CASE c.op = "create"
  <2>1. Len(c.path) \in Nat /\ MaxNodeBytes \in Nat
    BY SizeAssumption DEF IsCall
  <2> QED BY <1>1, <2>1, Times DEF CallNeeds
<1>2. CASE c.op # "create"
  <2>1. align4(c.length) \in Nat /\ LengthOf[c.name] \in Nat
    BY <1>2, Aligned, HeaderAssumption DEF IsCall
  <2> QED BY <1>2, <2>1 DEF CallNeeds, property_record_length
<1> QED BY <1>1, <1>2

LEMMA CallsTyped ==
  ASSUME NEW q \in Requests
  PROVE  /\ Len(q) \in Nat
         /\ \A k \in 0..Len(q) : CallsNeed(q)[k] \in Nat
         /\ CallsNeed(q)[Len(q)] = 0
         /\ \A k \in 0..(Len(q) - 1) :
              CallsNeed(q)[k] = CallNeeds(q[k + 1]) + CallsNeed(q)[k + 1]
<1> DEFINE n == Len(q)
           d == [k \in 1..n |-> CallNeeds(q[k])]
           f == CallsNeed(q)
<1>1. n \in Nat /\ \A k \in 1..n : IsCall(q[k])
  BY RequestAssumption DEF IsCall
<1>2. \A k \in 1..n : d[k] \in Nat
  BY <1>1, NeedsTyped
<1>3. ASSUME NEW g
      PROVE  IsSum(g, d, n)
             <=> g = [k \in 0..n |-> IF k = n THEN 0 ELSE CallNeeds(q[k + 1]) + g[k + 1]]
  <2>1. ASSUME NEW k \in 0..n
        PROVE  (IF k = n THEN 0 ELSE d[k + 1] + g[k + 1])
                 = (IF k = n THEN 0 ELSE CallNeeds(q[k + 1]) + g[k + 1])
    <3>1. k # n => k + 1 \in 1..n
      BY <1>1
    <3> QED BY <3>1
  <2>2. [k \in 0..n |-> IF k = n THEN 0 ELSE d[k + 1] + g[k + 1]]
          = [k \in 0..n |-> IF k = n THEN 0 ELSE CallNeeds(q[k + 1]) + g[k + 1]]
    BY <2>1, Zenon
  <2> HIDE DEF d
  <2> QED BY <2>2 DEF IsSum
<1>4. f = CHOOSE g : g = [k \in 0..n |-> IF k = n THEN 0 ELSE CallNeeds(q[k + 1]) + g[k + 1]]
  BY Zenon DEF CallsNeed
<1> HIDE DEF d, f
<1>5. \E g : g = [k \in 0..n |-> IF k = n THEN 0 ELSE CallNeeds(q[k + 1]) + g[k + 1]]
  BY <1>1, <1>2, <1>3, SumExists
<1>6. f = [k \in 0..n |-> IF k = n THEN 0 ELSE CallNeeds(q[k + 1]) + f[k + 1]]
  BY <1>4, <1>5, Zenon
<1>7. \A k \in 0..n : f[k] \in Nat
  BY <1>1, <1>2, <1>3, <1>6, SumTyped
<1>8. ASSUME NEW k \in 0..(n - 1) PROVE f[k] = CallNeeds(q[k + 1]) + f[k + 1]
  <2>1. k \in 0..n /\ k # n
    BY <1>1
  <2> QED BY <1>6, <2>1, Zenon
<1>9. f[n] = 0
  <2>1. n \in 0..n
    BY <1>1
  <2> QED BY <1>6, <2>1, Zenon
<1> QED BY <1>1, <1>7, <1>8, <1>9 DEF f


LEMMA ShareIsEnough ==
  ASSUME NEW m \in Nat \ {0}, NEW x \in Nat, NEW l \in Nat, m * x <= l
  PROVE  x <= l \div m
<1> DEFINE d == l \div m
           r == l % m
<1>1. d \in Nat /\ r \in Nat /\ r < m /\ l = m * d + r
  OBVIOUS
<1> HIDE DEF d, r
<1>2. ASSUME x > d PROVE FALSE
  <2> DEFINE y == x - (d + 1)
  <2>1. y \in Nat /\ x = d + 1 + y
    BY <1>1, <1>2
  <2> HIDE DEF y
  <2>2. m * x = m * d + m + m * y
    BY <1>1, <2>1
  <2> DEFINE a == m * d
             b == m * y
             c == m * x
  <2>3. a \in Nat /\ b \in Nat /\ c = a + m + b /\ l = a + r /\ c <= l
    BY <1>1, <2>1, <2>2, Times
  <2> HIDE DEF a, b, c
  <2> QED BY <1>1, <2>3
<1> QED BY <1>1, <1>2 DEF d

LEMMA ShareIsPart ==
  ASSUME NEW m \in Nat \ {0}, NEW l \in Nat
  PROVE  l \div m \in Nat /\ m * (l \div m) <= l
<1> DEFINE d == l \div m
           r == l % m
<1>1. d \in Nat /\ r \in Nat /\ r < m /\ l = m * d + r
  OBVIOUS
<1> HIDE DEF d, r
<1> DEFINE a == m * d
<1>2. a \in Nat /\ l = a + r
  BY <1>1, Times
<1> HIDE DEF a
<1>3. a <= l
  BY <1>1, <1>2
<1> QED BY <1>1, <1>3 DEF a, d

LEMMA TimesGrows ==
  ASSUME NEW a \in Nat, NEW b \in Nat, NEW c \in Nat, a <= b
  PROVE  a * c <= b * c
<1> DEFINE e == b - a
<1>1. e \in Nat /\ b = a + e
  OBVIOUS
<1> HIDE DEF e
<1>2. b * c = a * c + e * c
  BY <1>1
<1>3. a * c \in Nat /\ e * c \in Nat
  BY <1>1, Times
<1> DEFINE x == a * c
           y == e * c
           z == b * c
<1>4. x \in Nat /\ y \in Nat /\ z = x + y
  BY <1>2, <1>3
<1> HIDE DEF x, y, z
<1>5. x <= z
  BY <1>4
<1> QED BY <1>5 DEF x, z

\* The part of the room that is there for one request.
Share == IF MaxRequests = 0 THEN 0 ELSE LinuxExtraSize \div MaxRequests

LEMMA ShareTyped ==
  ASSUME NEW n \in 0..MaxRequests
  PROVE  Share \in Nat /\ n * Share \in Nat /\ n * Share <= LinuxExtraSize
<1>1. MaxRequests \in Nat /\ LinuxExtraSize \in Nat
  BY SizeAssumption
<1>2. CASE MaxRequests = 0
  <2>1. n = 0 /\ Share = 0
    BY <1>1, <1>2 DEF Share
  <2> QED BY <1>1, <2>1
<1>3. CASE MaxRequests # 0
  <2>1. Share \in Nat /\ MaxRequests * Share <= LinuxExtraSize
    BY <1>1, <1>3, ShareIsPart DEF Share
  <2>2. n \in Nat /\ n <= MaxRequests
    BY <1>1
  <2>3. n * Share <= MaxRequests * Share /\ n * Share \in Nat /\ MaxRequests * Share \in Nat
    BY <1>1, <2>1, <2>2, TimesGrows, Times
  <2> DEFINE a == n * Share
             b == MaxRequests * Share
  <2>4. a \in Nat /\ b \in Nat /\ a <= b /\ b <= LinuxExtraSize
    BY <2>1, <2>3
  <2> HIDE DEF a, b
  <2>5. a <= LinuxExtraSize
    BY <1>1, <2>4
  <2> QED BY <2>1, <2>4, <2>5 DEF a
<1> QED BY <1>2, <1>3

LEMMA RequestFits ==
  ASSUME EditsFit, NEW q \in Requests, MaxRequests # 0
  PROVE  CallsNeed(q)[0] <= Share
<1>1. MaxRequests \in Nat \ {0} /\ LinuxExtraSize \in Nat
  BY SizeAssumption
<1>2. CallsNeed(q)[0] \in Nat
  <2>1. Len(q) \in Nat /\ \A k \in 0..Len(q) : CallsNeed(q)[k] \in Nat
    BY CallsTyped
  <2> QED BY <2>1
<1>3. MaxRequests * CallsNeed(q)[0] <= LinuxExtraSize
  BY DEF EditsFit
<1> QED BY <1>1, <1>2, <1>3, ShareIsEnough DEF Share

-----------------------------------------------------------------------------
(* The room that is left. *)

\* What the calls that are still to come may add.
Ahead ==
  IF pc = "call" THEN CallsNeed(request)[done]
  ELSE IF pc = "component" THEN Len(rest) * MaxNodeBytes + CallsNeed(request)[done + 1]
  ELSE IF pc = "record" THEN property_record_length(Call.length) + CallsNeed(request)[done + 1]
  ELSE 0

\* The components still to come are some of the path's.
FromPath == \A j \in 1..Len(rest) : \E k \in DOMAIN Call.path : rest[j] = Call.path[k]

\* What is used and what is still to come fit, since every request so far had a
\* share of the room.
Room ==
  /\ pc \in {"idle", "call", "component", "record"} /\ extra = LinuxExtraSize =>
       used_blob_end_offset + extra + Ahead <= size + requests * Share
  /\ pc \in {"call", "component", "record"} => request \in Requests
  /\ pc = "component" => Call.op = "create" /\ FromPath
  /\ pc # "idle" => result # "BufferTooSmall"
  /\ extra = LinuxExtraSize /\ result = "BufferTooSmall" => TooLong(Call)

LEMMA AheadTyped ==
  ASSUME IndInv, Room
  PROVE  /\ Ahead \in Nat /\ used_blob_end_offset \in Nat
         /\ pc \in {"component", "record"} => CallsNeed(request)[done + 1] \in Nat
         /\ pc = "call" /\ done < Len(request) =>
              /\ CallsNeed(request)[done] = CallNeeds(Call) + CallsNeed(request)[done + 1]
              /\ CallNeeds(Call) \in Nat /\ CallsNeed(request)[done + 1] \in Nat
<1>1. used_blob_end_offset \in Nat
  BY HeaderTyped DEF IndInv, TreeInv, used_blob_end_offset, StringsEnd
<1>2. ASSUME pc \in {"call", "component", "record"}
      PROVE  /\ Len(request) \in Nat /\ done \in 0..Len(request)
             /\ \A k \in 0..Len(request) : CallsNeed(request)[k] \in Nat
             /\ \A k \in 0..(Len(request) - 1) :
                  CallsNeed(request)[k] = CallNeeds(request[k + 1]) + CallsNeed(request)[k + 1]
  BY <1>2, CallsTyped DEF Room, IndInv, CallInv
<1>3. ASSUME pc \in {"call", "component", "record"}, done < Len(request)
      PROVE  CallsNeed(request)[done + 1] \in Nat /\ IsCall(Call)
  <2>1. done + 1 \in 0..Len(request)
    BY <1>2, <1>3
  <2>2. IsCall(Call)
    BY <1>3, CallTyped DEF IndInv, IsCall
  <2> QED BY <1>2, <1>3, <2>1, <2>2
<1>4. CASE pc = "call"
  <2>1. Ahead \in Nat
    BY <1>2, <1>4 DEF Ahead
  <2>2. ASSUME done < Len(request)
        PROVE  CallsNeed(request)[done] = CallNeeds(Call) + CallsNeed(request)[done + 1]
    <3>1. done \in 0..(Len(request) - 1)
      BY <1>2, <1>4, <2>2
    <3> QED BY <1>2, <1>4, <3>1 DEF Call
  <2> QED BY <1>1, <1>3, <1>4, <2>1, <2>2, NeedsTyped
<1>5. CASE pc = "component"
  <2>1. done < Len(request) /\ rest \in Seq(DOMAIN LengthOf)
    BY <1>5 DEF IndInv, CallInv
  <2>2. Len(rest) \in Nat /\ Len(rest) * MaxNodeBytes \in Nat
    BY <2>1, Times, SizeAssumption
  <2>3. CallsNeed(request)[done + 1] \in Nat
    BY <1>3, <1>5, <2>1
  <2> QED BY <1>1, <1>5, <2>2, <2>3 DEF Ahead
<1>6. CASE pc = "record"
  <2>1. done < Len(request) /\ Call.op # "create"
    BY <1>6 DEF IndInv, CallInv
  <2>2. CallsNeed(request)[done + 1] \in Nat /\ Call.length \in Nat
    BY <1>3, <1>6, <2>1 DEF IsCall
  <2>3. align4(Call.length) \in Nat
    BY <2>2, Aligned
  <2> QED BY <1>1, <1>6, <2>2, <2>3 DEF Ahead, property_record_length
<1>7. CASE pc \notin {"call", "component", "record"}
  BY <1>1, <1>7 DEF Ahead
<1> QED BY <1>4, <1>5, <1>6, <1>7

\* What is still to come fits.
LEMMA RoomIsLeft ==
  ASSUME IndInv, Room, pc \in {"idle", "call", "component", "record"}, extra = LinuxExtraSize
  PROVE  used_blob_end_offset + Ahead <= size
<1>1. Ahead \in Nat /\ used_blob_end_offset \in Nat
  BY AheadTyped
<1>2. size \in Nat /\ extra \in Nat /\ requests \in 0..MaxRequests
  BY DEF IndInv, TreeInv
<1>3. requests * Share \in Nat /\ requests * Share <= extra
  BY <1>2, ShareTyped
<1>4. used_blob_end_offset + extra + Ahead <= size + requests * Share
  BY DEF Room
<1> DEFINE s == requests * Share
<1>5. s \in Nat /\ s <= extra /\ used_blob_end_offset + extra + Ahead <= size + s
  BY <1>3, <1>4
<1> HIDE DEF s
<1> QED BY <1>1, <1>2, <1>5


Writing == {"idle", "call", "component", "record"}

\* A step that uses no more than it takes off what is still to come.
RoomStays == pc \in Writing /\ extra = LinuxExtraSize =>
               used_blob_end_offset + extra + Ahead <= size + requests * Share

LEMMA RoomKept ==
  ASSUME IndInv, Room, pc \in Writing, UNCHANGED <<size, extra, requests>>,
         NEW u \in Int, NEW a \in Int, used_blob_end_offset' = u, Ahead' = a,
         extra = LinuxExtraSize => u + a <= used_blob_end_offset + Ahead
  PROVE  RoomStays'
<1>1. Ahead \in Nat /\ used_blob_end_offset \in Nat
  BY AheadTyped
<1>2. size \in Nat /\ extra \in Nat /\ requests * Share \in Nat
  BY ShareTyped DEF IndInv, TreeInv
<1>3. Share' = Share
  BY DEF Share
<1> DEFINE s == requests * Share
           b == Ahead
           v == used_blob_end_offset
<1>4. s \in Nat /\ b \in Nat /\ v \in Nat
  BY <1>1, <1>2
<1>5. extra = LinuxExtraSize => v + extra + b <= size + s
  BY DEF Room, Writing
<1>6. extra = LinuxExtraSize => u + a <= v + b
  OBVIOUS
<1> HIDE DEF s, b, v
<1>7. extra = LinuxExtraSize => u + extra + a <= size + s
  BY <1>2, <1>4, <1>5, <1>6
<1>8. (requests * Share)' = s
  BY <1>3 DEF s
<1> QED BY <1>7, <1>8 DEF RoomStays

LEMMA InitRoom == Init => Room
  BY DEF Init, Room

LEMMA FromPtrRoom == IndInv /\ Room /\ from_ptr => Room'
<1> SUFFICES ASSUME IndInv, Room, from_ptr PROVE Room'
  OBVIOUS
<1>1. pc = "passed" /\ pc' \in {"refused", "source"} /\ UNCHANGED <<extra, request, done>>
  BY DEF from_ptr
<1>2. HeaderError(header) # "BufferTooSmall"
  BY DEF HeaderError
<1>3. result' # "BufferTooSmall"
  BY <1>1, <1>2 DEF from_ptr, Room
<1> QED BY <1>1, <1>3 DEF Room

LEMMA CloneRoom == IndInv /\ Room /\ clone => Room'
<1> SUFFICES ASSUME IndInv, Room, clone PROVE Room'
  OBVIOUS
<1>1. /\ pc = "source" /\ pc' \in {"refused", "idle"} /\ UNCHANGED <<requests, request, done>>
      /\ extra' \in Nat
  BY SizeAssumption DEF clone
<1>2. result' # "BufferTooSmall"
  BY <1>1 DEF clone, Room
<1>3. CASE pc' = "refused"
  BY <1>1, <1>2, <1>3 DEF Room
<1>4. CASE pc' = "idle"
  <2>1. size' = CloneSize(size + extra') /\ header' = [header EXCEPT !.total_size = size']
    BY <1>4 DEF clone
  <2>2. /\ Readable /\ Taken /\ header.total_size = size /\ size \in Nat
    BY <1>1 DEF IndInv, TreeInv, Opened
  <2>3. used_blob_end_offset <= size /\ used_blob_end_offset \in Nat
    <3>1. header.off_dt_strings + header.size_dt_strings <= header.total_size
      BY <2>2, TakenMeans DEF Taken, Readable
    <3> QED BY <2>2, <3>1, HeaderTyped DEF used_blob_end_offset, StringsEnd
  <2>4. used_blob_end_offset' = used_blob_end_offset
    BY <2>1, <2>2 DEF used_blob_end_offset, StringsEnd, Readable, IsHeader
  <2>5. Ahead' = 0
    BY <1>4 DEF Ahead
  <2>6. (requests * Share)' = requests * Share /\ requests * Share \in Nat
    <3>1. Share' = Share
      BY DEF Share
    <3> QED BY <1>1, <3>1, ShareTyped DEF IndInv
  <2> DEFINE x == extra'
             s == requests * Share
             u == used_blob_end_offset
             y == size'
  <2>7. x \in Nat /\ s \in Nat /\ u \in Nat /\ u <= size /\ y = CloneSize(size + x)
    BY <1>1, <2>1, <2>3, <2>6
  <2> HIDE DEF x, s, u, y
  <2>8. size + x \in Nat
    BY <2>2, <2>7
  <2>9. y \in Nat /\ y >= size + x
    BY <2>7, <2>8, CloneIsRoomy
  <2>10. u + x + 0 <= y + s
    BY <2>2, <2>7, <2>9
  <2>11. (used_blob_end_offset + extra + Ahead <= size + requests * Share)'
    BY <2>4, <2>5, <2>6, <2>10 DEF u, x, y, s
  <2> QED BY <1>1, <1>2, <1>4, <2>11 DEF Room
<1> QED BY <1>1, <1>3, <1>4

LEMMA BeginRequestRoom == EditsFit /\ IndInv /\ Room /\ begin_request => Room'
<1> SUFFICES ASSUME EditsFit, IndInv, Room, begin_request PROVE Room'
  OBVIOUS
<1>1. /\ pc = "idle" /\ pc' = "call" /\ requests < MaxRequests /\ requests' = requests + 1
      /\ request' \in Requests /\ done' = 0 /\ result' = "none" /\ UNCHANGED <<header, size, extra>>
  BY DEF begin_request, blobVars, cloneVars
<1>2. MaxRequests # 0 /\ requests \in Nat
  BY <1>1, SizeAssumption DEF IndInv
<1>3. CallsNeed(request')[0] <= Share /\ CallsNeed(request')[0] \in Nat
  <2>1. Len(request') \in Nat /\ \A k \in 0..Len(request') : CallsNeed(request')[k] \in Nat
    BY <1>1, CallsTyped
  <2> QED BY <1>1, <1>2, <2>1, RequestFits
<1>4. Ahead' = CallsNeed(request')[0]
  <2>1. CallsNeed(request)' = CallsNeed(request')
    BY DEF CallsNeed, CallNeeds, TooLong, property_record_length, align4
  <2> QED BY <1>1, <2>1 DEF Ahead
<1>5. used_blob_end_offset' = used_blob_end_offset /\ Share' = Share
  BY <1>1 DEF used_blob_end_offset, StringsEnd, Share
<1>6. Ahead = 0
  BY <1>1 DEF Ahead
<1>7. /\ Share \in Nat /\ requests * Share \in Nat
      /\ (requests + 1) * Share = requests * Share + Share
  BY <1>2, ShareTyped, Times DEF IndInv
<1> DEFINE s == requests * Share
           u == used_blob_end_offset
           a == CallsNeed(request')[0]
           t == (requests + 1) * Share
<1>8. s \in Nat /\ u \in Nat /\ t = s + Share /\ a \in Nat /\ a <= Share /\ size \in Nat
      /\ extra \in Nat
  BY <1>3, <1>7, AheadTyped DEF IndInv, TreeInv
<1>9. extra = LinuxExtraSize => u + extra + 0 <= size + s
  BY <1>1, <1>6 DEF Room
<1> HIDE DEF s, u, a, t
<1>10. extra = LinuxExtraSize => u + extra + a <= size + t
  BY <1>7, <1>8, <1>9
<1>11. extra' = LinuxExtraSize =>
         (used_blob_end_offset + extra + Ahead <= size + requests * Share)'
  BY <1>1, <1>4, <1>5, <1>10 DEF u, a, t
<1> QED BY <1>1, <1>11 DEF Room

LEMMA EndRequestRoom == IndInv /\ Room /\ end_request => Room'
<1> SUFFICES ASSUME IndInv, Room, end_request PROVE Room'
  OBVIOUS
<1>1. /\ pc = "call" /\ pc' = "idle" /\ result' = "Ok"
      /\ UNCHANGED <<header, size, extra, requests>>
  BY DEF end_request, blobVars, cloneVars
<1>2. used_blob_end_offset' = used_blob_end_offset /\ Ahead' = 0
  BY <1>1 DEF used_blob_end_offset, StringsEnd, Ahead
<1>3. Ahead \in Nat /\ used_blob_end_offset \in Nat
  BY AheadTyped
<1>4. RoomStays'
  <2>1. used_blob_end_offset + 0 <= used_blob_end_offset + Ahead
    BY <1>3
  <2> QED BY <1>1, <1>2, <1>3, <2>1, RoomKept DEF Writing
<1> QED BY <1>1, <1>4 DEF Room, RoomStays, Writing


LEMMA NeedsFrame ==
  ASSUME UNCHANGED request
  PROVE  /\ CallsNeed(request)' = CallsNeed(request)
         /\ UNCHANGED done => Call' = Call /\ TooLong(Call)' = TooLong(Call)
                              /\ property_record_length(Call.length)' = property_record_length(Call.length)
<1>1. CallsNeed(request)' = CallsNeed(request)
  BY DEF CallsNeed, CallNeeds, TooLong, property_record_length, align4
<1>2. ASSUME UNCHANGED done PROVE Call' = Call
  BY <1>2 DEF Call
<1>3. ASSUME UNCHANGED done PROVE TooLong(Call)' = TooLong(Call)
  BY <1>2, <1>3, Zenon DEF TooLong
<1>4. ASSUME UNCHANGED done
      PROVE  property_record_length(Call.length)' = property_record_length(Call.length)
  BY <1>2, <1>4 DEF property_record_length, align4
<1> QED BY <1>1, <1>2, <1>3, <1>4

\* A call that fails for want of room has asked for something too long.
LEMMA FailRoom ==
  ASSUME IndInv, Room, pc \in Writing, pc' = "idle",
         UNCHANGED <<header, size, extra, requests, request, done>>,
         extra = LinuxExtraSize /\ result' = "BufferTooSmall" => TooLong(Call)
  PROVE  Room'
<1>1. used_blob_end_offset' = used_blob_end_offset /\ Ahead' = 0
  BY DEF used_blob_end_offset, StringsEnd, Ahead
<1>2. Ahead \in Nat /\ used_blob_end_offset \in Nat
  BY AheadTyped
<1>3. RoomStays'
  <2>1. used_blob_end_offset + 0 <= used_blob_end_offset + Ahead
    BY <1>2
  <2> QED BY <1>1, <1>2, <2>1, RoomKept
<1>4. TooLong(Call)' = TooLong(Call)
  BY NeedsFrame
<1> QED BY <1>3, <1>4 DEF Room, RoomStays, Writing

LEMMA CreateNodeRoom == IndInv /\ Room /\ create_node => Room'
<1> SUFFICES ASSUME IndInv, Room, create_node PROVE Room'
  OBVIOUS
<1>1. /\ pc = "call" /\ done < Len(request) /\ Call.op = "create"
      /\ UNCHANGED <<header, size, extra, requests, request, done>>
  BY DEF create_node, blobVars, cloneVars, Fail
<1>2. CASE pc' = "idle" /\ result' \in {"InvalidPath", "BadStructure"}
  BY <1>1, <1>2, FailRoom DEF Writing
<1>3. CASE /\ IsAbsolute(Call.path) /\ rest' = components(Call.path) /\ pc' = "component"
           /\ UNCHANGED result
  <2>1. Call.path \in Seq(DOMAIN LengthOf) /\ Call.path # <<>>
    BY <1>1, <1>3, CallTyped DEF IndInv, IsAbsolute
  <2>2. Len(Call.path) \in Nat \ {0} /\ Len(rest') = Len(Call.path) - 1
        /\ DOMAIN Call.path = 1..Len(Call.path)
    BY <1>3, <2>1, HeadTailProperties, EmptySeq DEF components
  <2>3. \A j \in 1..Len(rest') : rest'[j] = Call.path[j + 1]
    BY <1>3, <2>1 DEF components
  <2>4. FromPath'
    <3>1. Call' = Call
      BY <1>1, NeedsFrame
    <3>2. ASSUME NEW j \in 1..Len(rest') PROVE j + 1 \in DOMAIN Call.path
      BY <2>2
    <3> QED BY <2>3, <3>1, <3>2 DEF FromPath
  <2>5. /\ CallsNeed(request)[done] = CallNeeds(Call) + CallsNeed(request)[done + 1]
        /\ CallsNeed(request)[done + 1] \in Nat
    BY <1>1, AheadTyped
  <2>6. CallNeeds(Call) = Len(Call.path) * MaxNodeBytes
    BY <1>1 DEF CallNeeds
  <2>7. Len(Call.path) * MaxNodeBytes = Len(rest') * MaxNodeBytes + MaxNodeBytes
        /\ Len(rest') * MaxNodeBytes \in Nat
    BY <2>2, Times, SizeAssumption
  <2>8. Ahead' = Len(rest') * MaxNodeBytes + CallsNeed(request)[done + 1]
    BY <1>1, <1>3, NeedsFrame DEF Ahead
  <2>9. Ahead = CallsNeed(request)[done]
    BY <1>1 DEF Ahead
  <2> DEFINE a == Len(rest') * MaxNodeBytes
             b == CallsNeed(request)[done + 1]
             u == used_blob_end_offset
  <2>10. a \in Nat /\ b \in Nat /\ u \in Nat /\ Ahead = a + MaxNodeBytes + b /\ Ahead' = a + b
         /\ MaxNodeBytes \in Nat /\ used_blob_end_offset' = u
    BY <1>1, <2>5, <2>6, <2>7, <2>8, <2>9, AheadTyped, SizeAssumption DEF used_blob_end_offset, StringsEnd
  <2> HIDE DEF a, b
  <2>11. u + (a + b) <= u + Ahead /\ a + b \in Nat
    BY <2>10
  <2>12. RoomStays'
    BY <1>1, <2>10, <2>11, RoomKept DEF Writing
  <2>13. Call' = Call
    BY <1>1, NeedsFrame
  <2> QED BY <1>1, <1>3, <2>4, <2>12, <2>13 DEF Room, RoomStays, Writing
<1> QED BY <1>2, <1>3 DEF create_node, Fail

LEMMA NodeFits ==
  ASSUME NEW name \in DOMAIN LengthOf, ~(4 + LengthOf[name] + 1 + 3 + 4 > MaxNodeBytes)
  PROVE  NodeLength(name) \in Nat /\ NodeLength(name) <= MaxNodeBytes
<1>1. LengthOf[name] \in Nat /\ MaxNodeBytes \in Nat
  BY HeaderAssumption, SizeAssumption
<1> DEFINE n == 4 + LengthOf[name] + 1
<1>2. n \in Nat /\ n + 7 <= MaxNodeBytes
  BY <1>1
<1>3. NodeLength(name) = align4(n) + 4
  BY DEF NodeLength
<1> HIDE DEF n
<1>4. align4(n) <= n + 3 /\ align4(n) \in Nat
  BY <1>2 DEF align4
<1> QED BY <1>1, <1>2, <1>3, <1>4

LEMMA SplicedEnd ==
  ASSUME Readable, NEW old_len \in Nat, NEW new_len \in Nat, header' = SplicedHeader(old_len, new_len)
  PROVE  used_blob_end_offset' = used_blob_end_offset - old_len + new_len
<1>1. /\ header'.off_dt_strings = header.off_dt_strings + new_len - old_len
      /\ header'.size_dt_strings = header.size_dt_strings
  BY DEF SplicedHeader, Readable, IsHeader
<1>2. header.off_dt_strings \in Nat /\ header.size_dt_strings \in Nat
  BY HeaderTyped
<1> QED BY <1>1, <1>2 DEF used_blob_end_offset, StringsEnd

LEMMA CreateComponentRoom == IndInv /\ Room /\ create_component => Room'
<1> SUFFICES ASSUME IndInv, Room, create_component PROVE Room'
  OBVIOUS
<1> USE DEF blobVars, cloneVars
<1>1. /\ pc = "component" /\ UNCHANGED <<size, extra, requests, request>>
      /\ done < Len(request) /\ rest \in Seq(DOMAIN LengthOf) /\ Readable
      /\ Call.op = "create" /\ FromPath /\ request \in Requests /\ result # "BufferTooSmall"
  BY DEF create_component, IndInv, CallInv, TreeInv, Room
<1>2. /\ used_blob_end_offset \in Nat /\ CallsNeed(request)[done + 1] \in Nat
      /\ Len(rest) \in Nat /\ Len(rest) * MaxNodeBytes \in Nat /\ MaxNodeBytes \in Nat
  BY <1>1, AheadTyped, Times, SizeAssumption
<1>3. Ahead = Len(rest) * MaxNodeBytes + CallsNeed(request)[done + 1]
  BY <1>1 DEF Ahead
<1> DEFINE u == used_blob_end_offset
           b == CallsNeed(request)[done + 1]
           a == Len(rest) * MaxNodeBytes
           c == Len(Tail(rest)) * MaxNodeBytes
<1>4. rest # <<>> =>
        /\ a = c + MaxNodeBytes /\ c \in Nat /\ rest[1] \in DOMAIN LengthOf
        /\ 1 \in 1..Len(rest)
        /\ Len(Tail(rest)) = Len(rest) - 1 /\ \A j \in 1..Len(Tail(rest)) : Tail(rest)[j] = rest[j + 1]
  <2> SUFFICES ASSUME rest # <<>>
               PROVE  /\ a = c + MaxNodeBytes /\ c \in Nat /\ rest[1] \in DOMAIN LengthOf
                      /\ 1 \in 1..Len(rest)
                      /\ Len(Tail(rest)) = Len(rest) - 1
                      /\ \A j \in 1..Len(Tail(rest)) : Tail(rest)[j] = rest[j + 1]
    OBVIOUS
  <2>1. Len(rest) \in Nat \ {0} /\ Len(Tail(rest)) = Len(rest) - 1
    BY <1>1, HeadTailProperties, EmptySeq
  <2>2. a = c + MaxNodeBytes /\ c \in Nat
    BY <1>2, <2>1, Times
  <2>3. \A j \in 1..Len(Tail(rest)) : Tail(rest)[j] = rest[j + 1]
    BY <1>1
  <2>4. 1 \in 1..Len(rest) /\ rest[1] \in DOMAIN LengthOf
    BY <1>1, <2>1
  <2> QED BY <2>1, <2>2, <2>3, <2>4
<1>5. CASE /\ pc' = "call" /\ done' = done + 1 /\ UNCHANGED <<header, result>>
  <2>1. Ahead' = b
    BY <1>1, <1>5, NeedsFrame DEF Ahead
  <2>2. used_blob_end_offset' = u
    BY <1>5 DEF used_blob_end_offset, StringsEnd
  <2>3. u \in Nat /\ b \in Nat /\ a \in Nat /\ Ahead = a + b
    BY <1>2, <1>3
  <2> HIDE DEF a, b
  <2>4. u + b <= u + Ahead
    BY <2>3
  <2>5. RoomStays'
    BY <1>1, <2>1, <2>2, <2>3, <2>4, RoomKept DEF Writing
  <2> QED BY <1>1, <1>5, <2>5 DEF Room, RoomStays, Writing
<1>6. CASE pc' = "idle" /\ result' = "InvalidPath" /\ UNCHANGED <<header, done>>
  BY <1>1, <1>6, FailRoom DEF Writing
<1>7. ASSUME rest # <<>>, rest' = Tail(rest), UNCHANGED <<pc, done, result>>,
             NEW n \in Nat, n <= MaxNodeBytes, used_blob_end_offset' = u + n
      PROVE  Room'
  <2>1. Ahead' = c + b
    BY <1>1, <1>7, NeedsFrame DEF Ahead
  <2>2. u \in Nat /\ b \in Nat /\ a = c + MaxNodeBytes /\ c \in Nat /\ MaxNodeBytes \in Nat
        /\ Ahead = a + b
    BY <1>2, <1>3, <1>4, <1>7
  <2> HIDE DEF a, b, c
  <2>3. u + n + (c + b) <= u + Ahead /\ u + n \in Nat /\ c + b \in Nat
    BY <1>7, <2>2
  <2>4. RoomStays'
    BY <1>1, <1>7, <2>1, <2>3, RoomKept DEF Writing
  <2>5. FromPath'
    <3>1. Call' = Call
      BY <1>1, <1>7, NeedsFrame
    <3>2. Len(rest') = Len(rest) - 1 /\ \A j \in 1..Len(rest') : rest'[j] = rest[j + 1]
      BY <1>4, <1>7
    <3>3. ASSUME NEW j \in 1..Len(rest') PROVE \E k \in DOMAIN Call.path : rest'[j] = Call.path[k]
      <4>1. j + 1 \in 1..Len(rest)
        BY <1>2, <3>2
      <4> QED BY <1>1, <3>2, <4>1 DEF FromPath
    <3> QED BY <3>1, <3>3 DEF FromPath
  <2>6. Call' = Call
    BY <1>1, <1>7, NeedsFrame
  <2> QED BY <1>1, <1>7, <2>4, <2>5, <2>6 DEF Room, RoomStays, Writing
<1>8. CASE /\ rest # <<>> /\ rest' = Tail(rest) /\ UNCHANGED <<header, pc, done, result>>
  <2>1. used_blob_end_offset' = u + 0
    BY <1>2, <1>8 DEF used_blob_end_offset, StringsEnd
  <2>2. 0 \in Nat /\ 0 <= MaxNodeBytes
    BY <1>2
  <2> QED BY <1>7, <1>8, <2>1, <2>2
<1>9. CASE rest # <<>> /\ InsertChild(rest[1])
  <2> DEFINE name == rest[1]
             o == node.end
             long == 4 + LengthOf[name] + 1 + 3 + 4 > MaxNodeBytes
             error == IF long THEN "BufferTooSmall"
                      ELSE SpliceError(InBlob(o), 0, NodeLength(name))
  <2>1. name \in DOMAIN LengthOf /\ LengthOf[name] \in Nat
    BY <1>4, <1>9, HeaderAssumption
  <2>2. \/ error # "none" /\ Fail(error) /\ UNCHANGED blobVars
        \/ /\ error = "none" /\ Splice(InBlob(o), 0, NodeLength(name), NewNode(o, name))
           /\ rest' = Tail(rest) /\ UNCHANGED <<pc, done, result>>
    BY <1>9, Zenon DEF InsertChild
  <2>3. long => TooLong(Call)
    <3> SUFFICES ASSUME long PROVE TooLong(Call)
      OBVIOUS
    <3>1. PICK k \in DOMAIN Call.path : name = Call.path[k]
      BY <1>1, <1>4, <1>9 DEF FromPath
    <3>2. LengthOf[name] + 12 > MaxNodeBytes
      BY <1>2, <2>1
    <3> QED BY <1>1, <3>1, <3>2 DEF TooLong
  <2>4. ~long => NodeLength(name) \in Nat /\ NodeLength(name) <= MaxNodeBytes
    BY <2>1, NodeFits
  <2> HIDE DEF long
  <2>5. CASE error # "none" /\ Fail(error) /\ UNCHANGED blobVars
    <3>1. ASSUME extra = LinuxExtraSize, error = "BufferTooSmall", ~long PROVE FALSE
      <4>1. ~SpliceFits(0, NodeLength(name))
        BY <3>1 DEF SpliceError
      <4>2. u + Ahead <= size
        BY <1>1, <3>1, RoomIsLeft
      <4>3. u \in Nat /\ b \in Nat /\ a = c + MaxNodeBytes /\ c \in Nat /\ MaxNodeBytes \in Nat
            /\ Ahead = a + b /\ size \in Nat
        BY <1>2, <1>3, <1>4, <1>9 DEF IndInv, TreeInv
      <4>4. NodeLength(name) \in Nat /\ NodeLength(name) <= MaxNodeBytes
        BY <2>4, <3>1
      <4>5. ~(u - 0 + NodeLength(name) <= size)
        BY <4>1 DEF SpliceFits
      <4> HIDE DEF a, b, c, u
      <4> QED BY <4>2, <4>3, <4>4, <4>5
    <3>2. pc' = "idle" /\ result' = error /\ UNCHANGED <<header, done>>
      BY <2>5 DEF Fail
    <3>3. extra = LinuxExtraSize /\ result' = "BufferTooSmall" => TooLong(Call)
      BY <2>3, <3>1, <3>2
    <3> QED BY <1>1, <3>2, <3>3, FailRoom DEF Writing
  <2>6. CASE /\ error = "none" /\ Splice(InBlob(o), 0, NodeLength(name), NewNode(o, name))
             /\ rest' = Tail(rest) /\ UNCHANGED <<pc, done, result>>
    <3>1. ~long /\ NodeLength(name) \in Nat /\ NodeLength(name) <= MaxNodeBytes
      BY <2>4, <2>6
    <3>2. header' = SplicedHeader(0, NodeLength(name))
      BY <2>6 DEF Splice
    <3>3. used_blob_end_offset' = u - 0 + NodeLength(name)
      BY <1>1, <3>1, <3>2, SplicedEnd
    <3>4. used_blob_end_offset' = u + NodeLength(name)
      BY <1>2, <3>1, <3>3
    <3> QED BY <1>7, <1>9, <2>6, <3>1, <3>4
  <2> QED BY <2>2, <2>5, <2>6
<1> QED BY <1>5, <1>6, <1>8, <1>9, Zenon DEF create_component, Ok, Fail


LEMMA FindOrAddStringRoom == IndInv /\ Room /\ find_or_add_string => Room'
<1> SUFFICES ASSUME IndInv, Room, find_or_add_string PROVE Room'
  OBVIOUS
<1> USE DEF blobVars, cloneVars
<1>1. /\ pc = "call" /\ UNCHANGED <<size, extra, requests, request>>
      /\ done < Len(request) /\ Readable /\ Call.op # "create"
      /\ request \in Requests /\ result # "BufferTooSmall" /\ size \in Nat
  BY DEF find_or_add_string, IndInv, CallInv, TreeInv, Room
<1>2. Call.name \in DOMAIN LengthOf /\ Call.length \in Nat
  BY <1>1, CallTyped DEF IndInv
<1> DEFINE u == used_blob_end_offset
           b == CallsNeed(request)[done + 1]
           l == LengthOf[Call.name]
           r == property_record_length(Call.length)
<1>3. u \in Nat /\ b \in Nat /\ l \in Nat /\ r \in Nat
  <2>1. align4(Call.length) \in Nat
    BY <1>2, Aligned
  <2> QED BY <1>1, <1>2, <2>1, AheadTyped, HeaderAssumption DEF property_record_length
<1>4. ~TooLong(Call) => Ahead = r + l + 1 + b
  <2>1. Ahead = CallNeeds(Call) + b
    BY <1>1, AheadTyped DEF Ahead
  <2>2. ~TooLong(Call) => CallNeeds(Call) = r + l + 1
    BY <1>1 DEF CallNeeds
  <2> QED BY <1>3, <2>1, <2>2
<1>5. CASE SetError(Call) # "none" /\ Fail(SetError(Call)) /\ UNCHANGED blobVars
  <2>1. pc' = "idle" /\ result' = SetError(Call) /\ UNCHANGED <<header, done>>
    BY <1>5 DEF Fail
  <2>2. ASSUME extra = LinuxExtraSize, SetError(Call) = "BufferTooSmall", ~TooLong(Call) PROVE FALSE
    <3>1. ~(Call.op = "string" /\ Call.length > MaxString)
      BY <1>1, <2>2 DEF TooLong
    <3>2. ~StringFits(Call.name)
      BY <2>2, <3>1 DEF SetError
    <3>3. u + Ahead <= size
      BY <1>1, <2>2, RoomIsLeft
    <3>4. ~(u + l + 1 <= size) /\ Ahead = r + l + 1 + b
      BY <1>4, <2>2, <3>2 DEF StringFits
    <3> HIDE DEF u, l, r, b
    <3> QED BY <1>1, <1>3, <3>3, <3>4
  <2>3. extra = LinuxExtraSize /\ result' = "BufferTooSmall" => TooLong(Call)
    BY <2>1, <2>2
  <2> QED BY <1>1, <2>1, <2>3, FailRoom DEF Writing
<1>6. ASSUME SetError(Call) = "none", pc' = "record", UNCHANGED <<done, result>>,
             NEW n \in Nat, n <= l + 1, used_blob_end_offset' = u + n
      PROVE  Room'
  <2>1. ~TooLong(Call)
    BY <1>1, <1>6 DEF SetError, TooLong
  <2>2. Ahead' = r + b
    BY <1>1, <1>6, NeedsFrame DEF Ahead
  <2>3. Ahead = r + l + 1 + b
    BY <1>4, <2>1
  <2> HIDE DEF u, l, r, b
  <2>4. u + n + (r + b) <= u + Ahead /\ u + n \in Nat /\ r + b \in Nat
    BY <1>3, <1>6, <2>3
  <2>5. RoomStays'
    BY <1>1, <1>6, <2>2, <2>4, RoomKept DEF Writing, u
  <2> QED BY <1>1, <1>6, <2>5 DEF Room, RoomStays, Writing
<1>7. CASE SetError(Call) = "none" /\ pc' = "record" /\ UNCHANGED <<header, done, result>>
  <2>1. used_blob_end_offset' = u + 0
    BY <1>3, <1>7 DEF used_blob_end_offset, StringsEnd
  <2>2. 0 \in Nat /\ 0 <= l + 1
    BY <1>3
  <2> QED BY <1>6, <1>7, <2>1, <2>2
<1>8. CASE /\ SetError(Call) = "none" /\ pc' = "record" /\ UNCHANGED <<done, result>>
           /\ header' = [header EXCEPT !.size_dt_strings = @ + LengthOf[Call.name] + 1]
  <2>1. /\ header'.off_dt_strings = header.off_dt_strings
        /\ header'.size_dt_strings = header.size_dt_strings + l + 1
    BY <1>1, <1>8 DEF Readable, IsHeader
  <2>2. header.off_dt_strings \in Nat /\ header.size_dt_strings \in Nat
    BY <1>1, HeaderTyped
  <2>3. used_blob_end_offset' = u + (l + 1)
    BY <1>3, <2>1, <2>2 DEF used_blob_end_offset, StringsEnd
  <2>4. l + 1 \in Nat /\ l + 1 <= l + 1
    BY <1>3
  <2> QED BY <1>6, <1>8, <2>3, <2>4
<1> QED BY <1>5, <1>7, <1>8, Zenon DEF find_or_add_string

LEMMA SetPropertyRoom == IndInv /\ Room /\ set_property_bytes => Room'
<1> SUFFICES ASSUME IndInv, Room, set_property_bytes PROVE Room'
  OBVIOUS
<1> USE DEF blobVars, callVars, cloneVars
<1> DEFINE existing == find_direct_property(node, Call.name)
           offset == IF existing = None THEN property_insertion_offset(node) ELSE existing
           old_len == IF existing = None THEN 0
                      ELSE property_record_length(TokenAt(existing).length)
           new_len == property_record_length(Call.length)
           error == IF offset = Bad THEN "BadStructure"
                    ELSE SpliceError(InBlob(offset), old_len, new_len)
<1>1. /\ pc = "record" /\ UNCHANGED <<size, extra, requests, request>>
      /\ done < Len(request) /\ Call.op # "create" /\ IsNode(node) /\ Readable
      /\ request \in Requests /\ result # "BufferTooSmall" /\ size \in Nat
  BY DEF set_property_bytes, IndInv, CallInv, TreeInv, Room
<1>2. Call.length \in Nat
  BY <1>1, CallTyped DEF IndInv
<1>3. \/ error # "none" /\ Fail(error) /\ UNCHANGED header
      \/ offset # Bad /\ error = "none" /\ header' = SplicedHeader(old_len, new_len) /\ Ok
  BY Zenon DEF set_property_bytes, Splice
<1>4. offset # Bad => old_len \in Nat
  <2>1. existing = None \/ existing = Bad \/ (existing \in Nat /\ Kind(existing) = "prop")
    BY <1>1, FindDirect
  <2>2. existing \in Nat /\ Kind(existing) = "prop"
          => property_record_length(TokenAt(existing).length) \in Nat
    BY <1>1, AfterProperty DEF Kind
  <2> HIDE DEF existing
  <2> QED BY <2>1, <2>2 DEF None, Bad
<1>5. error = "BufferTooSmall" => offset # Bad /\ ~SpliceFits(old_len, new_len)
  BY DEF SpliceError
<1> DEFINE u == used_blob_end_offset
           b == CallsNeed(request)[done + 1]
<1>6. u \in Nat /\ b \in Nat /\ new_len \in Nat /\ Ahead = new_len + b
  <2>1. align4(Call.length) \in Nat
    BY <1>2, Aligned
  <2> QED BY <1>1, <2>1, AheadTyped DEF Ahead, property_record_length
<1> HIDE DEF existing, offset, old_len, error
<1>7. CASE error # "none" /\ Fail(error) /\ UNCHANGED header
  <2>1. pc' = "idle" /\ result' = error /\ UNCHANGED <<header, done>>
    BY <1>7 DEF Fail
  <2>2. ASSUME extra = LinuxExtraSize, error = "BufferTooSmall" PROVE FALSE
    <3>1. u + Ahead <= size
      BY <1>1, <2>2, RoomIsLeft DEF Writing
    <3>2. ~(u - old_len + new_len <= size) /\ old_len \in Nat
      BY <1>4, <1>5, <2>2 DEF SpliceFits
    <3> HIDE DEF u, b, new_len
    <3> QED BY <1>1, <1>6, <3>1, <3>2
  <2>3. extra = LinuxExtraSize /\ result' = "BufferTooSmall" => TooLong(Call)
    BY <2>1, <2>2
  <2> QED BY <1>1, <2>1, <2>3, FailRoom DEF Writing
<1>8. CASE offset # Bad /\ error = "none" /\ header' = SplicedHeader(old_len, new_len) /\ Ok
  <2>1. pc' = "call" /\ done' = done + 1 /\ result' = result
    BY <1>8 DEF Ok
  <2>2. Ahead' = b
    BY <1>1, <2>1, NeedsFrame DEF Ahead
  <2>3. used_blob_end_offset' = u - old_len + new_len /\ old_len \in Nat
    BY <1>1, <1>4, <1>6, <1>8, SplicedEnd
  <2> HIDE DEF u, b, new_len
  <2>4. u - old_len + new_len \in Int /\ u - old_len + new_len + b <= u + Ahead
    BY <1>6, <2>3
  <2>5. RoomStays'
    BY <1>1, <1>6, <2>2, <2>3, <2>4, RoomKept DEF Writing, u
  <2> QED BY <1>1, <2>1, <2>5 DEF Room, RoomStays, Writing
<1> QED BY <1>3, <1>7, <1>8

LEMMA StutterRoom == IndInv /\ Room /\ UNCHANGED vars => Room'
<1> SUFFICES ASSUME IndInv, Room, UNCHANGED vars PROVE Room'
  OBVIOUS
<1> USE DEF vars, blobVars, callVars, cloneVars
<1>1. UNCHANGED <<header, size, extra, pc, requests, request, done, rest, result>>
  OBVIOUS
<1>2. used_blob_end_offset' = used_blob_end_offset /\ Share' = Share
  BY <1>1 DEF used_blob_end_offset, StringsEnd, Share
<1>3. Call' = Call /\ TooLong(Call)' = TooLong(Call) /\ CallsNeed(request)' = CallsNeed(request)
      /\ property_record_length(Call.length)' = property_record_length(Call.length)
  BY <1>1, NeedsFrame
<1>4. Ahead' = Ahead
  BY <1>1, <1>3, Zenon DEF Ahead
<1>5. FromPath' = FromPath
  BY <1>1, <1>3, Zenon DEF FromPath
<1> QED BY <1>1, <1>2, <1>3, <1>4, <1>5 DEF Room

LEMMA NextRoom == EditsFit /\ IndInv /\ Room /\ [Next]_vars => Room'
  BY FromPtrRoom, CloneRoom, BeginRequestRoom, EndRequestRoom, CreateNodeRoom, CreateComponentRoom,
     FindOrAddStringRoom, SetPropertyRoom, StutterRoom, Zenon DEF Next, Step, Over

\* When the requests made of one clone, each path and name counted with its
\* worst case, need no more than LINUX_DTB_EXTRA_SIZE, no edit of a clone with
\* that much room fails for want of it, whatever tree the firmware is passed,
\* and whichever nodes and strings it already has: create_node, set_property_bytes
\* and set_property_string return BufferTooSmall only for a name or a string that
\* is too long by itself.
THEOREM DtbHeadroomIsEnough ==
  ASSUME EditsFit
  PROVE  Spec => []HeadroomIsEnough
<1>1. Room => HeadroomIsEnough
  BY DEF Room, HeadroomIsEnough
<1>2. Init => Room
  BY InitRoom
<1>3. IndInv /\ Room /\ [Next]_vars => Room'
  BY NextRoom
<1> QED BY <1>1, <1>2, <1>3, IndInvHolds, PTL DEF Spec


-----------------------------------------------------------------------------
(* The edits of boot. *)

\* The sizes of the code, and requests that are those of update_device_tree,
\* with an initrd or without, and with a command line of any length.
CodeSizes ==
  /\ MaxNodeBytes = 267 /\ MaxString = 256 /\ LinuxExtraSize = 8192
  /\ MaxRequests <= 9
  /\ LengthOf["bootargs"] = 8

LinuxEdits ==
  /\ CodeSizes
  /\ LengthOf["linux,initrd-start"] = 18 /\ LengthOf["linux,initrd-end"] = 16
  /\ \A q \in Requests : \E i \in BOOLEAN : \E l \in Nat : q = update_device_tree(i, l)

LEMMA LinuxSizes ==
  ASSUME LinuxEdits
  PROVE  /\ MaxNodeBytes = 267 /\ MaxString = 256 /\ LinuxExtraSize = 8192
         /\ MaxRequests <= 9 /\ LengthOf["bootargs"] = 8
<1>1. CodeSizes
  BY Zenon DEF LinuxEdits
<1> QED BY <1>1 DEF CodeSizes

LEMMA CreateNeeds ==
  ASSUME LinuxEdits
  PROVE  CallNeeds(CreateNode(Chosen)) = 534
<1>1. Len(Chosen) = 2
  BY DEF Chosen
<1>2. MaxNodeBytes = 267
  BY LinuxSizes
<1>3. CallNeeds(CreateNode(Chosen)) = Len(Chosen) * MaxNodeBytes
  BY DEF CallNeeds, CreateNode
<1> QED BY <1>1, <1>2, <1>3

LEMMA NumberNeeds ==
  ASSUME NEW name, NEW value, LengthOf[name] \in 0..18
  PROVE  CallNeeds(SetProperty(Chosen, name, 8, value)) \in 0..39
<1>1. property_record_length(8) = 20
  BY DEF property_record_length, align4
<1>2. CallNeeds(SetProperty(Chosen, name, 8, value)) = 20 + LengthOf[name] + 1
  BY <1>1 DEF CallNeeds, SetProperty, TooLong
<1> QED BY <1>2

LEMMA StringNeeds ==
  ASSUME LinuxEdits, NEW name, LengthOf[name] = 8, NEW l \in Nat, NEW value
  PROVE  CallNeeds(SetString(Chosen, name, l, value)) \in 0..277
<1> DEFINE c == SetString(Chosen, name, l, value)
<1>1. c.op = "string" /\ c.length = l + 1 /\ c.name = name
  BY DEF SetString
<1> HIDE DEF c
<1>2. MaxString = 256 /\ LengthOf[c.name] = 8
  <2>1. MaxString = 256
    BY LinuxSizes
  <2> QED BY <1>1, <2>1
<1>3. TooLong(c) <=> l + 1 > 256
  BY <1>1, <1>2 DEF TooLong
<1>4. CallNeeds(c) = IF TooLong(c) THEN 0 ELSE property_record_length(l + 1) + LengthOf[c.name] + 1
  BY <1>1 DEF CallNeeds
<1>5. CASE l + 1 > 256
  <2>1. CallNeeds(c) = 0
    BY <1>3, <1>4, <1>5
  <2> QED BY <2>1 DEF c
<1>6. CASE l + 1 <= 256
  <2>1. align4(l + 1) \in 0..256
    BY <1>6 DEF align4
  <2>2. CallNeeds(c) = 12 + align4(l + 1) + 8 + 1
    BY <1>2, <1>3, <1>4, <1>6 DEF property_record_length
  <2>3. CallNeeds(c) \in 0..277
    BY <2>1, <2>2
  <2> QED BY <2>3 DEF c
<1> QED BY <1>5, <1>6

LEMMA LinuxEditsFit ==
  ASSUME LinuxEdits
  PROVE  EditsFit
<1> SUFFICES ASSUME NEW q \in Requests PROVE MaxRequests * CallsNeed(q)[0] <= LinuxExtraSize
  BY DEF EditsFit
<1>1. PICK i \in BOOLEAN : \E l \in Nat : q = update_device_tree(i, l)
  BY DEF LinuxEdits
<1>2. PICK l \in Nat : q = update_device_tree(i, l)
  BY <1>1
<1> DEFINE a == CreateNode(Chosen)
           b == SetProperty(Chosen, "linux,initrd-start", 8, "start")
           c == SetProperty(Chosen, "linux,initrd-end", 8, "end")
           d == SetString(Chosen, "bootargs", l, "command line")
           f == CallsNeed(q)
<1>3. /\ CallNeeds(a) = 534 /\ CallNeeds(d) \in 0..277
      /\ CallNeeds(b) \in 0..39 /\ CallNeeds(c) \in 0..39
  <2>1. LengthOf["linux,initrd-start"] = 18 /\ LengthOf["linux,initrd-end"] = 16
    BY Zenon DEF LinuxEdits
  <2>2. LengthOf["linux,initrd-start"] \in 0..18 /\ LengthOf["linux,initrd-end"] \in 0..18
    <3>1. ASSUME NEW x, NEW y, x = 18, y = 16 PROVE x \in 0..18 /\ y \in 0..18
      BY <3>1
    <3> QED BY <2>1, <3>1, Zenon
  <2>3. CallNeeds(a) = 534
    BY CreateNeeds
  <2>4. CallNeeds(d) \in 0..277
    <3>1. LengthOf["bootargs"] = 8
      BY LinuxSizes
    <3> QED BY <3>1, StringNeeds, Zenon
  <2>5. CallNeeds(b) \in 0..39 /\ CallNeeds(c) \in 0..39
    BY <2>2, NumberNeeds, Zenon
  <2> HIDE DEF a, b, c, d
  <2> QED BY <2>3, <2>4, <2>5
<1>4. q = <<a>> \o (IF i THEN <<b, c>> ELSE <<>>) \o <<d>>
  BY <1>2 DEF update_device_tree
<1>5. /\ Len(q) \in Nat /\ f[Len(q)] = 0
      /\ \A k \in 0..(Len(q) - 1) : f[k] = CallNeeds(q[k + 1]) + f[k + 1]
  BY CallsTyped
<1> HIDE DEF a, b, c, d, f
<1>6. f[0] \in 0..889
  <2>1. CASE i
    <3>1. Len(q) = 4 /\ q[1] = a /\ q[2] = b /\ q[3] = c /\ q[4] = d
      BY <1>4, <2>1
    <3>2. /\ f[4] = 0 /\ f[3] = CallNeeds(d) + f[4] /\ f[2] = CallNeeds(c) + f[3]
          /\ f[1] = CallNeeds(b) + f[2] /\ f[0] = CallNeeds(a) + f[1]
      BY <1>5, <3>1
    <3>3. f[3] \in 0..277
      BY <1>3, <3>2
    <3>4. f[2] \in 0..316
      BY <1>3, <3>2, <3>3
    <3>5. f[1] \in 0..355
      BY <1>3, <3>2, <3>4
    <3> QED BY <1>3, <3>2, <3>5
  <2>2. CASE ~i
    <3>1. Len(q) = 2 /\ q[1] = a /\ q[2] = d
      BY <1>4, <2>2
    <3>2. f[2] = 0 /\ f[1] = CallNeeds(d) + f[2] /\ f[0] = CallNeeds(a) + f[1]
      BY <1>5, <3>1
    <3> QED BY <1>3, <3>2
  <2> QED BY <2>1, <2>2
<1>7. MaxRequests \in 0..9 /\ LinuxExtraSize = 8192
  BY SizeAssumption, LinuxSizes
<1>8. ASSUME NEW m \in 0..9, NEW n \in 0..889 PROVE m * n <= 8192
  <2>1. m \in Nat /\ n \in Nat /\ m <= 9
    BY <1>8
  <2>2. m * n <= 9 * n
    BY <2>1, TimesGrows
  <2>3. m * n \in Nat
    BY <2>1, Times
  <2> DEFINE x == m * n
  <2>4. x \in Nat /\ x <= 9 * n
    BY <2>2, <2>3
  <2> HIDE DEF x
  <2>5. x <= 8192
    BY <1>8, <2>4
  <2> QED BY <2>5 DEF x
<1> DEFINE n == f[0]
<1>9. n \in 0..889
  BY <1>6
<1> HIDE DEF n
<1>10. MaxRequests * n <= 8192
  BY <1>7, <1>8, <1>9
<1> QED BY <1>7, <1>10 DEF n, f

\* LINUX_DTB_EXTRA_SIZE is enough for what boot does: even when update_device_tree
\* is called nine times on one clone (it is called once), with any command line and
\* for any tree that is passed, BufferTooSmall is returned only for a command line
\* that is longer than MAX_PROPERTY_STRING_LEN.
THEOREM LinuxHeadroomIsEnough ==
  ASSUME LinuxEdits
  PROVE  Spec => []HeadroomIsEnough
  BY LinuxEditsFit, DtbHeadroomIsEnough

-----------------------------------------------------------------------------
(* Counting the records in front of an offset. *)

Count(S, x) == Cardinality({s \in S : s < x})

LEMMA CountTyped ==
  ASSUME NEW S, S \subseteq Nat, NEW x \in Nat
  PROVE  Count(S, x) \in Nat /\ IsFiniteSet({s \in S : s < x})
<1>1. IsFiniteSet(0..x)
  BY FS_Interval
<1>2. \A s \in S : s \in Nat /\ (s < x => s \in 0..x)
  OBVIOUS
<1>2a. {s \in S : s < x} \subseteq 0..x
  BY <1>2, Zenon
<1>3. IsFiniteSet({s \in S : s < x})
  BY <1>1, <1>2a, FS_Subset
<1> QED BY <1>3, FS_CardinalityType DEF Count

LEMMA CountZero ==
  ASSUME NEW S, S \subseteq Nat
  PROVE  Count(S, 0) = 0
<1>0. \A s \in S : ~(s < 0)
  OBVIOUS
<1>1. {s \in S : s < 0} = {}
  BY <1>0, Zenon
<1> QED BY <1>1, FS_EmptySet DEF Count

LEMMA CountStep ==
  ASSUME NEW S, S \subseteq Nat, NEW x \in Nat
  PROVE  Count(S, x + 1) = Count(S, x) + IF x \in S THEN 1 ELSE 0
<1> DEFINE T == {s \in S : s < x}
<1>0. /\ \A s \in S : s < x + 1 <=> s < x \/ s = x
      /\ ~(x < x)
  OBVIOUS
<1>1. IsFiniteSet(T) /\ Cardinality(T) \in Nat /\ Count(S, x) = Cardinality(T)
  BY CountTyped DEF Count
<1>2. CASE x \in S
  <2>1. {s \in S : s < x + 1} = T \cup {x} /\ x \notin T
    BY <1>0, <1>2, Zenon
  <2> HIDE DEF T
  <2>2. Cardinality(T \cup {x}) = Cardinality(T) + 1
    BY <1>1, <2>1, FS_AddElement
  <2> QED BY <1>1, <1>2, <2>1, <2>2 DEF Count
<1>3. CASE x \notin S
  <2>1. {s \in S : s < x + 1} = T
    BY <1>0, <1>3, Zenon
  <2> HIDE DEF T
  <2> QED BY <1>1, <1>3, <2>1 DEF Count
<1> QED BY <1>2, <1>3

\* Stretches of two sets that look the same count the same.
Alike(S, T, a, b, m) == \A n \in Nat : n < m => (a + n \in S <=> b + n \in T)
CountsAlike(S, T, a, b, m) == Count(S, a + m) - Count(S, a) = Count(T, b + m) - Count(T, b)

LEMMA CountAlike ==
  ASSUME NEW S, S \subseteq Nat, NEW T, T \subseteq Nat, NEW a \in Nat, NEW b \in Nat,
         NEW m \in Nat, Alike(S, T, a, b, m)
  PROVE  CountsAlike(S, T, a, b, m)
<1> DEFINE P(n) == Count(S, a + n) - Count(S, a) = Count(T, b + n) - Count(T, b)
           U == {n \in 0..m : ~P(n)}
<1> SUFFICES ASSUME m \in U PROVE FALSE
  BY DEF CountsAlike
<1>0. \A x \in Nat : /\ Count(S, x) \in Nat /\ Count(T, x) \in Nat
                     /\ Count(S, x + 1) = Count(S, x) + IF x \in S THEN 1 ELSE 0
                     /\ Count(T, x + 1) = Count(T, x) + IF x \in T THEN 1 ELSE 0
  <2> HIDE DEF P, U
  <2> QED BY CountTyped, CountStep, Zenon
<1>1. U \subseteq Nat
  OBVIOUS
<1>2. PICK n \in U : \A k \in U : n <= k
  BY <1>1, LeastNumber
<1>3. n \in 0..m /\ ~P(n)
  BY <1>2
<1>4. n # 0
  <2>1. a + 0 = a /\ b + 0 = b
    OBVIOUS
  <2> QED BY <1>0, <1>3, <2>1
<1>5. n - 1 \in 0..m /\ n - 1 \notin U /\ n - 1 < m /\ n - 1 \in Nat
  BY <1>2, <1>3, <1>4
<1>6. P(n - 1)
  BY <1>5
<1>7. /\ a + (n - 1) \in Nat /\ a + n = (a + (n - 1)) + 1
      /\ b + (n - 1) \in Nat /\ b + n = (b + (n - 1)) + 1
  BY <1>5
<1>8. /\ Count(S, a + n) = Count(S, a + (n - 1)) + IF a + (n - 1) \in S THEN 1 ELSE 0
      /\ Count(T, b + n) = Count(T, b + (n - 1)) + IF b + (n - 1) \in T THEN 1 ELSE 0
  BY <1>0, <1>7
<1>9. a + (n - 1) \in S <=> b + (n - 1) \in T
  BY <1>5 DEF Alike
<1>10. /\ Count(S, a + (n - 1)) \in Nat /\ Count(T, b + (n - 1)) \in Nat
       /\ Count(S, a) \in Nat /\ Count(T, b) \in Nat
  BY <1>0, <1>7
<1> QED BY <1>3, <1>6, <1>8, <1>9, <1>10
\* What the structure block spells: kind, length and name of every record, the
\* name of a property being the string that it refers to.
Begins(v) == {o \in DOMAIN v : v[o].kind = "begin"}
NodeEnds(v) == {o \in DOMAIN v : v[o].kind = "end_node"}
Props(v) == {o \in DOMAIN v : v[o].kind = "prop"}

\* Nodes that are open in front of an offset, and at a record.
Depth(v, x) == Count(Begins(v), x) - Count(NodeEnds(v), x)
LevelOf(v, o) == Depth(v, o) + IF v[o].kind = "begin" THEN 1 ELSE 0

LEMMA DepthStep ==
  ASSUME NEW v, DOMAIN v \subseteq Nat, NEW x \in Nat
  PROVE  /\ Depth(v, x) \in Int
         /\ Depth(v, 0) = 0
         /\ x \in Begins(v) => Depth(v, x + 1) = Depth(v, x) + 1
         /\ x \in NodeEnds(v) => Depth(v, x + 1) = Depth(v, x) - 1
         /\ x \notin Begins(v) /\ x \notin NodeEnds(v) => Depth(v, x + 1) = Depth(v, x)
<1> DEFINE B == Begins(v)
           E == NodeEnds(v)
<1>1. B \subseteq Nat /\ E \subseteq Nat /\ ~(x \in B /\ x \in E)
  BY DEF Begins, NodeEnds
<1>2. \A y : Depth(v, y) = Count(B, y) - Count(E, y)
  BY DEF Depth
<1> HIDE DEF B, E
<1>3. /\ Count(B, x) \in Nat /\ Count(E, x) \in Nat /\ Count(B, 0) = 0 /\ Count(E, 0) = 0
      /\ Count(B, x + 1) = Count(B, x) + IF x \in B THEN 1 ELSE 0
      /\ Count(E, x + 1) = Count(E, x) + IF x \in E THEN 1 ELSE 0
  BY <1>1, CountTyped, CountStep, CountZero, Zenon
<1> QED BY <1>1, <1>2, <1>3 DEF B, E

LEMMA DepthTyped ==
  ASSUME NEW v, DOMAIN v \subseteq Nat
  PROVE  \A x \in Nat : Depth(v, x) \in Int
  BY DepthStep, Zenon

NodesAlike(v, w, a, b, m) ==
  \A n \in Nat : n < m => /\ a + n \in Begins(v) <=> b + n \in Begins(w)
                          /\ a + n \in NodeEnds(v) <=> b + n \in NodeEnds(w)
DepthsAlike(v, w, a, b, m) == Depth(v, a + m) - Depth(v, a) = Depth(w, b + m) - Depth(w, b)

LEMMA DepthAlike ==
  ASSUME NEW v, DOMAIN v \subseteq Nat, NEW w, DOMAIN w \subseteq Nat,
         NEW a \in Nat, NEW b \in Nat, NEW m \in Nat, NodesAlike(v, w, a, b, m)
  PROVE  DepthsAlike(v, w, a, b, m)
<1> DEFINE B == Begins(v)
           E == NodeEnds(v)
           C == Begins(w)
           F == NodeEnds(w)
<1>1. B \subseteq Nat /\ E \subseteq Nat /\ C \subseteq Nat /\ F \subseteq Nat
  BY DEF Begins, NodeEnds
<1>2. \A y : /\ Depth(v, y) = Count(B, y) - Count(E, y)
             /\ Depth(w, y) = Count(C, y) - Count(F, y)
  BY DEF Depth
<1>3. Alike(B, C, a, b, m) /\ Alike(E, F, a, b, m)
  BY DEF Alike, NodesAlike
<1> HIDE DEF B, E, C, F
<1>4. CountsAlike(B, C, a, b, m) /\ CountsAlike(E, F, a, b, m)
  BY <1>1, <1>3, CountAlike, Zenon
<1>5. /\ Count(B, a + m) - Count(B, a) = Count(C, b + m) - Count(C, b)
      /\ Count(E, a + m) - Count(E, a) = Count(F, b + m) - Count(F, b)
  BY <1>4 DEF CountsAlike
<1>6. a + m \in Nat /\ b + m \in Nat
  OBVIOUS
<1>7. /\ Count(B, a + m) \in Nat /\ Count(B, a) \in Nat /\ Count(C, b + m) \in Nat /\ Count(C, b) \in Nat
      /\ Count(E, a + m) \in Nat /\ Count(E, a) \in Nat /\ Count(F, b + m) \in Nat /\ Count(F, b) \in Nat
  BY <1>1, <1>6, CountTyped, Zenon
<1>8. Depth(v, a + m) - Depth(v, a) = Depth(w, b + m) - Depth(w, b)
  BY <1>2, <1>5, <1>7
<1> QED BY <1>8 DEF DepthsAlike

\* Nothing opens or ends between two offsets.
LEMMA DepthSame ==
  ASSUME NEW v, DOMAIN v \subseteq Nat, NEW a \in Nat, NEW b \in Nat, a <= b,
         \A x \in Nat : a <= x /\ x < b => x \notin Begins(v) /\ x \notin NodeEnds(v)
  PROVE  Depth(v, b) = Depth(v, a)
<1> DEFINE T == {x \in Nat : a <= x /\ x <= b /\ Depth(v, x) # Depth(v, a)}
<1> SUFFICES ASSUME b \in T PROVE FALSE
  OBVIOUS
<1>1. T \subseteq Nat
  OBVIOUS
<1>2. PICK x \in T : \A y \in T : x <= y
  BY <1>1, LeastNumber
<1>3. x \in Nat /\ a <= x /\ x <= b /\ Depth(v, x) # Depth(v, a)
  BY <1>2
<1>4. x - 1 \in Nat /\ a <= x - 1 /\ x - 1 < b /\ (x - 1) + 1 = x
  BY <1>3
<1>5. x - 1 \notin T
  BY <1>2, <1>3
<1>6. Depth(v, x - 1) = Depth(v, a)
  BY <1>4, <1>5
<1>7. Depth(v, (x - 1) + 1) = Depth(v, x - 1)
  <2> HIDE DEF T
  <2>1. x - 1 \notin Begins(v) /\ x - 1 \notin NodeEnds(v)
    BY <1>4
  <2> QED BY <1>4, <2>1, DepthStep
<1> QED BY <1>3, <1>4, <1>6, <1>7

\* Between an offset inside of a node and one that is not, the node ends.
LEMMA Drops ==
  ASSUME NEW v, DOMAIN v \subseteq Nat, NEW x \in Nat, NEW y \in Nat, x <= y, NEW l \in Int,
         Depth(v, x) >= l, Depth(v, y) < l
  PROVE  \E e \in NodeEnds(v) : x <= e /\ e < y /\ Depth(v, e) = l
<1> DEFINE T == {u \in Nat : x <= u /\ u <= y /\ Depth(v, u) < l}
<1>1. T \subseteq Nat /\ y \in T
  OBVIOUS
<1>2. PICK u \in T : \A t \in T : u <= t
  BY <1>1, LeastNumber
<1>3. u \in Nat /\ x <= u /\ u <= y /\ Depth(v, u) < l
  BY <1>2
<1>4. u # x
  BY <1>3, DepthTyped
<1> DEFINE e == u - 1
<1>5. e \in Nat /\ x <= e /\ e < y /\ e + 1 = u
  BY <1>3, <1>4
<1>6. e \notin T
  BY <1>2, <1>3, <1>5
<1>7. Depth(v, e) \in Int /\ Depth(v, u) \in Int
  <2> HIDE DEF T, e
  <2> QED BY <1>3, <1>5, DepthTyped
<1>8. Depth(v, e) >= l
  BY <1>5, <1>6, <1>7
<1> HIDE DEF e, T
<1>9. /\ e \in Begins(v) => Depth(v, e + 1) = Depth(v, e) + 1
      /\ e \in NodeEnds(v) => Depth(v, e + 1) = Depth(v, e) - 1
      /\ e \notin Begins(v) /\ e \notin NodeEnds(v) => Depth(v, e + 1) = Depth(v, e)
  BY <1>5, DepthStep
<1>10. e \in NodeEnds(v) /\ Depth(v, e) = l
  BY <1>3, <1>5, <1>7, <1>8, <1>9
<1> QED BY <1>5, <1>10

-----------------------------------------------------------------------------
(* Structure blocks that spell a tree. *)

\* Records from a to z, the last of them the FDT_END.
Tiled(v, a, z) ==
  /\ DOMAIN v \subseteq Nat /\ a \in DOMAIN v /\ z \in Nat
  /\ \A o \in DOMAIN v :
       /\ o >= a /\ o < z
       /\ v[o].kind \in {"begin", "end_node", "prop", "nop", "end"}
       /\ v[o].len \in Nat \ {0}
       /\ v[o].kind \in {"end_node", "nop", "end"} => v[o].len = 4
       /\ o + v[o].len \in DOMAIN v \cup {z}
       /\ v[o].kind = "end" <=> o = z - 4
  /\ z - 4 \in DOMAIN v
  /\ \A o, q \in DOMAIN v : q > o => q >= o + v[o].len

Balanced(v, a, z) ==
  /\ v[a].kind = "begin"
  /\ \A o \in DOMAIN v : v[o].kind # "end" => LevelOf(v, o) >= 1
  /\ LevelOf(v, z - 4) = 0

PropsFirst(v) ==
  \A p \in Props(v), e \in NodeEnds(v) :
    e < p => \E b \in Begins(v) : b > e /\ b < p /\ LevelOf(v, b) = LevelOf(v, p)

NodesDiffer(v) ==
  \A b, c \in Begins(v) :
    b < c /\ LevelOf(v, b) = LevelOf(v, c) /\ v[b].name = v[c].name =>
      \E e \in NodeEnds(v) : e > b /\ e < c /\ LevelOf(v, e) < LevelOf(v, b)
PropsDiffer(v) ==
  \A p, q \in Props(v) :
    p < q /\ LevelOf(v, p) = LevelOf(v, q) /\ v[p].name = v[q].name =>
      \E e \in NodeEnds(v) : e > p /\ e < q /\ LevelOf(v, e) <= LevelOf(v, p)

\* A node that begins at b and ends at e.
Span(v, b, e) ==
  /\ b \in Begins(v) /\ e \in NodeEnds(v) /\ b < e
  /\ Depth(v, e) = Depth(v, b) + 1
  /\ \A x \in DOMAIN v : b < x /\ x <= e => Depth(v, x) >= Depth(v, b) + 1

\* The record behind a record.
After(v, o) == o + v[o].len

LEMMA TiledAfter ==
  ASSUME NEW v, NEW a, NEW z, Tiled(v, a, z), NEW o \in DOMAIN v, v[o].kind # "end"
  PROVE  /\ After(v, o) \in DOMAIN v /\ After(v, o) > o /\ o \in Nat /\ After(v, o) \in Nat
         /\ \A q \in DOMAIN v : q > o => q >= After(v, o)
         /\ \A q \in DOMAIN v : q < After(v, o) => q <= o
         /\ v[o].kind \in {"begin", "end_node", "prop", "nop"}
         /\ v[o].kind \in {"end_node", "nop"} => After(v, o) = o + 4
<1> DEFINE n == After(v, o)
<1>1. /\ DOMAIN v \subseteq Nat /\ z \in Nat /\ o \in Nat /\ o < z /\ v[o].len \in Nat \ {0}
      /\ o + v[o].len \in DOMAIN v \cup {z} /\ o # z - 4 /\ z - 4 \in DOMAIN v
      /\ v[o].kind \in {"begin", "end_node", "prop", "nop"}
      /\ v[o].kind \in {"end_node", "nop"} => v[o].len = 4
      /\ v[z - 4].kind = "end" /\ v[z - 4].len = 4
  BY DEF Tiled
<1>2. /\ \A q \in DOMAIN v : q > o => q >= o + v[o].len
      /\ o > z - 4 => o >= (z - 4) + 4
  BY <1>1 DEF Tiled
<1>3. n = o + v[o].len /\ n \in Nat /\ n > o
  BY <1>1 DEF After
<1>4. n \in DOMAIN v
  <2>1. z - 4 > o => z - 4 >= n
    BY <1>1, <1>2, <1>3
  <2>2. n # z
    BY <1>1, <1>2, <1>3, <2>1
  <2> QED BY <1>1, <1>3, <2>2
<1> QED BY <1>1, <1>2, <1>3, <1>4 DEF n

LEMMA DepthAfter ==
  ASSUME NEW v, NEW a, NEW z, Tiled(v, a, z), NEW o \in DOMAIN v, v[o].kind # "end"
  PROVE  Depth(v, After(v, o)) =
           Depth(v, o) + IF v[o].kind = "begin" THEN 1 ELSE IF v[o].kind = "end_node" THEN -1 ELSE 0
<1> DEFINE n == After(v, o)
<1>0. DOMAIN v \subseteq Nat
  BY DEF Tiled
<1>1. /\ DOMAIN v \subseteq Nat /\ n \in Nat /\ n > o /\ o \in Nat
      /\ \A q \in DOMAIN v : q < n => q <= o
  BY <1>0, TiledAfter
<1> HIDE DEF n
<1>2. Begins(v) \subseteq DOMAIN v /\ NodeEnds(v) \subseteq DOMAIN v
  BY DEF Begins, NodeEnds
<1>3. \A x \in Nat : o + 1 <= x /\ x < n => x \notin Begins(v) /\ x \notin NodeEnds(v)
  BY <1>1, <1>2
<1>4. Depth(v, n) = Depth(v, o + 1)
  BY <1>1, <1>3, DepthSame
<1>5. /\ Depth(v, o) \in Int
      /\ o \in Begins(v) => Depth(v, o + 1) = Depth(v, o) + 1
      /\ o \in NodeEnds(v) => Depth(v, o + 1) = Depth(v, o) - 1
      /\ o \notin Begins(v) /\ o \notin NodeEnds(v) => Depth(v, o + 1) = Depth(v, o)
  BY <1>1, DepthStep
<1>6. (o \in Begins(v) <=> v[o].kind = "begin") /\ (o \in NodeEnds(v) <=> v[o].kind = "end_node")
  BY DEF Begins, NodeEnds
<1> QED BY <1>4, <1>5, <1>6 DEF n

-----------------------------------------------------------------------------
(* The records of a sound blob. *)

Rec(o) ==
  [kind |-> blob[o].kind, len |-> RecordLength(blob[o]),
   name |-> IF blob[o].kind = "begin" THEN blob[o].name
            ELSE IF blob[o].kind = "prop" THEN NameOf(o) ELSE ""]
View == [o \in InStruct |-> Rec(o)]

Words(S, a) == \A o \in S : (o - a) % 4 = 0
NamesThere == \A p \in OfKind("prop") : string_at(blob[p].nameoff).kind = "string"

StructIsSound ==
  /\ Tiled(View, header.off_dt_struct, StructEnd(header))
  /\ Balanced(View, header.off_dt_struct, StructEnd(header))
  /\ PropsFirst(View) /\ NodesDiffer(View) /\ PropsDiffer(View)
  /\ Words(InStruct, header.off_dt_struct) /\ NamesThere

LEMMA ViewTyped ==
  /\ DOMAIN View = InStruct
  /\ \A o \in InStruct :
       /\ View[o].kind = blob[o].kind /\ View[o].len = RecordLength(blob[o])
       /\ blob[o].kind = "begin" => View[o].name = blob[o].name
       /\ blob[o].kind = "prop" => View[o].name = NameOf(o)
  /\ Begins(View) = OfKind("begin") /\ NodeEnds(View) = OfKind("end_node")
  /\ Props(View) = OfKind("prop")
<1>1. /\ DOMAIN View = InStruct
      /\ \A o \in InStruct :
           /\ View[o].kind = blob[o].kind /\ View[o].len = RecordLength(blob[o])
           /\ blob[o].kind = "begin" => View[o].name = blob[o].name
           /\ blob[o].kind = "prop" => View[o].name = NameOf(o)
  BY DEF View, Rec
<1>2. /\ Begins(View) = OfKind("begin") /\ NodeEnds(View) = OfKind("end_node")
      /\ Props(View) = OfKind("prop")
  BY <1>1, Zenon DEF Begins, NodeEnds, Props, OfKind
<1> QED BY <1>1, <1>2

LEMMA AlignShift ==
  ASSUME NEW o \in Nat, o % 4 = 0, NEW n \in Nat
  PROVE  align4(o + n) = o + align4(n) /\ align4(n) % 4 = 0 /\ align4(n) >= n
  BY DEF align4

LEMMA LengthTyped ==
  ASSUME NEW r, IsRecord(r), r.kind # "string"
  PROVE  /\ RecordLength(r) \in Nat \ {0} /\ RecordLength(r) % 4 = 0
         /\ r.kind = "begin" => RecordLength(r) = align4(4 + LengthOf[r.name] + 1)
         /\ r.kind = "prop" => RecordLength(r) = property_record_length(r.length)
         /\ r.kind \notin {"begin", "prop"} => RecordLength(r) = 4
<1>1. CASE r.kind = "begin"
  <2> DEFINE n == 4 + LengthOf[r.name] + 1
  <2>1. n \in Nat /\ n >= 4
    BY <1>1, HeaderAssumption DEF IsRecord
  <2>2. RecordLength(r) = align4(n)
    BY <1>1 DEF RecordLength
  <2>3. align4(n) \in Nat /\ align4(n) >= n /\ align4(n) % 4 = 0
    <3> HIDE DEF n
    <3> QED BY <2>1, Aligned, AlignShift DEF align4
  <2> HIDE DEF n
  <2>4. align4(n) \in Nat \ {0}
    BY <2>1, <2>3
  <2> QED BY <1>1, <2>2, <2>3, <2>4 DEF n
<1>2. CASE r.kind = "prop"
  <2> DEFINE n == r.length
  <2>1. n \in Nat
    BY <1>2 DEF IsRecord
  <2>2. RecordLength(r) = 12 + align4(n) /\ RecordLength(r) = property_record_length(n)
    BY <1>2 DEF RecordLength, property_record_length
  <2> HIDE DEF n
  <2>3. align4(n) \in Nat /\ align4(n) % 4 = 0
    BY <2>1, Aligned, AlignShift DEF align4
  <2>4. 12 + align4(n) \in Nat \ {0} /\ (12 + align4(n)) % 4 = 0
    BY <2>3
  <2> QED BY <1>2, <2>2, <2>4 DEF n
<1>3. CASE r.kind \notin {"begin", "prop"}
  BY <1>3 DEF RecordLength
<1> QED BY <1>1, <1>2, <1>3

\* The reader goes from a record to the one behind it.
LEMMA ReaderStep ==
  ASSUME Readable, StructIsSound, NEW o \in Nat, InBlob(o) \in DOMAIN View
  PROVE  LET r == View[InBlob(o)]
         IN /\ Kind(o) = r.kind /\ TokenAt(o) = blob[InBlob(o)]
            /\ r.kind = "begin" => InBlob(after_begin_node(o)) = After(View, InBlob(o))
                                   /\ after_begin_node(o) \in Nat
            /\ r.kind = "prop" => /\ after_property(o) \in Nat
                                  /\ InBlob(after_property(o)) = After(View, InBlob(o))
                                  /\ property_record_length(TokenAt(o).length) = r.len
                                  /\ o + property_record_length(TokenAt(o).length) \in Nat
                                  /\ InBlob(o + property_record_length(TokenAt(o).length))
                                       = After(View, InBlob(o))
                                  /\ string_at(TokenAt(o).nameoff).kind = "string"
                                  /\ string_at(TokenAt(o).nameoff).name = r.name
            /\ r.kind \in {"nop", "end_node"} => InBlob(o + 4) = After(View, InBlob(o))
<1> DEFINE a == header.off_dt_struct
           x == InBlob(o)
           r == View[x]
<1>1. /\ a \in Nat /\ header.size_dt_struct \in Nat /\ x = a + o
  BY HeaderTyped DEF InBlob
<1>2. x \in InStruct /\ x \in DOMAIN blob /\ x < a + header.size_dt_struct
  BY ViewTyped DEF InStruct, StructEnd
<1>3. TokenAt(o) = blob[x] /\ r.kind = blob[x].kind /\ r.len = RecordLength(blob[x])
      /\ IsRecord(blob[x])
  <2>1. o \in 0..(header.size_dt_struct - 1)
    BY <1>1, <1>2
  <2> QED BY <1>1, <1>2, <2>1, ViewTyped DEF TokenAt, Readable
<1>4. o % 4 = 0
  <2>1. (x - a) % 4 = 0
    BY <1>2 DEF StructIsSound, Words
  <2> QED BY <1>1, <2>1
<1>5. r.kind \in {"begin", "end_node", "prop", "nop", "end"}
  BY <1>2, ViewTyped DEF StructIsSound, Tiled
<1>6. After(View, x) = x + r.len
  BY DEF After
<1>7. \A y : InBlob(y) = a + y
  BY DEF InBlob
<1>8. r.len \in Nat
  BY <1>3, <1>5, LengthTyped
<1> HIDE DEF a, x, r
<1>9. ASSUME r.kind = "begin"
      PROVE  InBlob(after_begin_node(o)) = After(View, x) /\ after_begin_node(o) \in Nat
  <2> DEFINE n == 4 + LengthOf[blob[x].name] + 1
  <2>1. n \in Nat
    BY <1>3, <1>9, HeaderAssumption DEF IsRecord
  <2>2. after_begin_node(o) = align4(o + n)
    <3>1. o + 4 + LengthOf[blob[x].name] + 1 = o + n
      BY <1>3, <1>9, HeaderAssumption DEF IsRecord
    <3> QED BY <1>3, <3>1 DEF after_begin_node
  <2>3. r.len = align4(n)
    BY <1>3, <1>9, LengthTyped
  <2> HIDE DEF n
  <2>4. align4(o + n) = o + align4(n)
    BY <1>4, <2>1, AlignShift
  <2> QED BY <1>1, <1>6, <1>7, <1>8, <2>2, <2>3, <2>4
<1>10. ASSUME r.kind = "prop"
       PROVE  /\ after_property(o) \in Nat
              /\ InBlob(after_property(o)) = After(View, x)
              /\ property_record_length(TokenAt(o).length) = r.len
              /\ o + property_record_length(TokenAt(o).length) \in Nat
              /\ InBlob(o + property_record_length(TokenAt(o).length)) = After(View, x)
              /\ string_at(TokenAt(o).nameoff).kind = "string"
              /\ string_at(TokenAt(o).nameoff).name = r.name
  <2> DEFINE n == blob[x].length
  <2>1. n \in Nat
    BY <1>3, <1>10 DEF IsRecord
  <2>2. r.len = property_record_length(n) /\ r.len = 12 + align4(n)
    BY <1>3, <1>10, LengthTyped DEF property_record_length
  <2>3. x + r.len <= a + header.size_dt_struct
    <3>1. x + r.len \in DOMAIN View \cup {StructEnd(header)}
      BY <1>2, ViewTyped DEF StructIsSound, Tiled, r
    <3>2. \A y \in DOMAIN View : y \in Nat /\ y < StructEnd(header)
      BY DEF StructIsSound, Tiled
    <3>3. StructEnd(header) = a + header.size_dt_struct
      BY DEF StructEnd, a
    <3> QED BY <1>1, <1>8, <3>1, <3>2, <3>3
  <2>4. TokenAt(o).length = n
    BY <1>3
  <2>5. string_at(blob[x].nameoff).kind = "string" /\ r.name = string_at(blob[x].nameoff).name
    <3>1. x \in OfKind("prop")
      BY <1>2, <1>3, <1>10 DEF OfKind
    <3>2. r.name = NameOf(x)
      BY <1>2, <1>3, <1>10, ViewTyped DEF r
    <3> QED BY <3>1, <3>2 DEF StructIsSound, NamesThere, NameOf
  <2> HIDE DEF n
  <2>6. align4(o + (12 + n)) = o + align4(12 + n) /\ align4(12 + n) = 12 + align4(n)
        /\ align4(12 + n) >= 12 + n
    BY <1>4, <2>1, AlignShift DEF align4
  <2>7. o + 12 + n = o + (12 + n) /\ o + 12 + n <= header.size_dt_struct
    BY <1>1, <1>8, <2>1, <2>2, <2>3, <2>6
  <2>8. after_property(o) = o + r.len
    <3>1. after_property(o) = IF o + 12 + n > header.size_dt_struct THEN None ELSE align4(o + 12 + n)
      BY <2>4 DEF after_property
    <3>2. ~(o + 12 + n > header.size_dt_struct)
      BY <1>1, <2>1, <2>7
    <3>3. after_property(o) = align4(o + (12 + n))
      BY <2>7, <3>1, <3>2
    <3> QED BY <1>8, <2>1, <2>2, <2>6, <3>3
  <2>9. o + r.len \in Nat /\ a + (o + r.len) = x + r.len
    BY <1>1, <1>8
  <2>10. property_record_length(TokenAt(o).length) = r.len
    BY <2>2, <2>4
  <2>11. string_at(TokenAt(o).nameoff) = string_at(blob[x].nameoff)
    BY <1>3
  <2> QED BY <1>6, <1>7, <2>5, <2>8, <2>9, <2>10, <2>11
<1>11. ASSUME r.kind \in {"nop", "end_node"} PROVE InBlob(o + 4) = After(View, x)
  <2>1. r.len = 4
    BY <1>3, <1>11, LengthTyped
  <2> QED BY <1>1, <1>6, <1>7, <2>1
<1>12. Kind(o) = r.kind
  BY <1>3 DEF Kind
<1> QED BY <1>3, <1>9, <1>10, <1>11, <1>12 DEF r, x

\* o is a record of the node that begins at b, or its end.
Inside(v, b, o) ==
  /\ o \in DOMAIN v /\ o >= b
  /\ \A x \in DOMAIN v : b < x /\ x <= o => Depth(v, x) >= Depth(v, b) + 1

LEMMA DepthOfNode ==
  ASSUME NEW v, NEW a, NEW z, Tiled(v, a, z), Balanced(v, a, z), NEW b \in Begins(v)
  PROVE  b \in DOMAIN v /\ b \in Nat /\ Depth(v, b) \in Nat /\ v[b].kind = "begin"
<1>1. b \in DOMAIN v /\ v[b].kind = "begin" /\ DOMAIN v \subseteq Nat
  BY DEF Begins, Tiled
<1>2. LevelOf(v, b) >= 1
  BY <1>1 DEF Balanced
<1>3. Depth(v, b) \in Int
  BY <1>1, DepthTyped
<1> QED BY <1>1, <1>2, <1>3 DEF LevelOf

LEMMA InsideIsNotEnd ==
  ASSUME NEW v, NEW a, NEW z, Tiled(v, a, z), Balanced(v, a, z), NEW b \in Begins(v),
         NEW o, Inside(v, b, o)
  PROVE  /\ o \in DOMAIN v /\ o \in Nat /\ v[o].kind \in {"begin", "end_node", "prop", "nop"}
         /\ o # b => Depth(v, o) >= Depth(v, b) + 1
         /\ Depth(v, o) \in Int
<1>1. /\ o \in DOMAIN v /\ DOMAIN v \subseteq Nat /\ o \in Nat
      /\ v[o].kind \in {"begin", "end_node", "prop", "nop", "end"}
      /\ v[o].kind = "end" => o = z - 4
  BY DEF Inside, Tiled
<1>2. b \in Nat /\ Depth(v, b) \in Nat /\ v[b].kind = "begin"
  BY DepthOfNode
<1>3. o # b => Depth(v, o) >= Depth(v, b) + 1
  BY <1>1, <1>2 DEF Inside
<1>4. Depth(v, o) \in Int
  BY <1>1, DepthTyped
<1>5. v[o].kind # "end"
  <2> SUFFICES ASSUME v[o].kind = "end" PROVE FALSE
    OBVIOUS
  <2>1. LevelOf(v, o) = 0
    BY <1>1 DEF Balanced
  <2>2. Depth(v, o) = 0
    BY <1>4, <2>1 DEF LevelOf
  <2> QED BY <1>2, <1>3, <2>2
<1> QED BY <1>1, <1>3, <1>4, <1>5

LEMMA InsideNext ==
  ASSUME NEW v, NEW a, NEW z, Tiled(v, a, z), Balanced(v, a, z), NEW b \in Begins(v),
         NEW o, Inside(v, b, o), ~(v[o].kind = "end_node" /\ Depth(v, o) = Depth(v, b) + 1)
  PROVE  Inside(v, b, After(v, o))
<1> DEFINE n == After(v, o)
<1>1. /\ o \in DOMAIN v /\ o \in Nat /\ v[o].kind \in {"begin", "end_node", "prop", "nop"}
      /\ o # b => Depth(v, o) >= Depth(v, b) + 1
      /\ Depth(v, o) \in Int
  BY InsideIsNotEnd
<1>2. b \in Nat /\ Depth(v, b) \in Nat /\ v[b].kind = "begin"
  BY DepthOfNode
<1>3. /\ n \in DOMAIN v /\ n > o /\ n \in Nat /\ \A q \in DOMAIN v : q < n => q <= o
  BY <1>1, TiledAfter
<1>4. Depth(v, n) = Depth(v, o) + IF v[o].kind = "begin" THEN 1
                                  ELSE IF v[o].kind = "end_node" THEN -1 ELSE 0
  BY <1>1, DepthAfter
<1> HIDE DEF n
<1>5. Depth(v, n) >= Depth(v, b) + 1
  BY <1>1, <1>2, <1>4
<1>6. DOMAIN v \subseteq Nat
  BY DEF Tiled
<1>7. ASSUME NEW x \in DOMAIN v, b < x, x <= n PROVE Depth(v, x) >= Depth(v, b) + 1
  <2>1. x = n \/ x <= o
    BY <1>3, <1>6, <1>7
  <2> QED BY <1>5, <1>7, <2>1 DEF Inside
<1>8. n >= b
  BY <1>1, <1>2, <1>3 DEF Inside
<1>9. Inside(v, b, n)
  BY <1>3, <1>7, <1>8 DEF Inside
<1> QED BY <1>9 DEF n

\* node_end_offset finds the end of the node that begins there.
LEMMA NodeEndIsExact ==
  ASSUME Readable, StructIsSound, NEW b \in Nat, InBlob(b) \in Begins(View)
  PROVE  /\ node_end_offset(b) \in Nat
         /\ Span(View, InBlob(b), InBlob(node_end_offset(b)))
<1> DEFINE v == View
           c == InBlob(b)
           d == Depth(v, c)
           a == header.off_dt_struct
           z == StructEnd(header)
           I == {p \in Nat \X Int : Inside(v, c, InBlob(p[1])) /\ p[2] = Depth(v, InBlob(p[1])) - d}
<1>1. Tiled(v, a, z) /\ Balanced(v, a, z) /\ a \in Nat
  BY HeaderTyped DEF StructIsSound
<1> HIDE DEF v, a, z, c, d
<1>2. c \in Begins(v) /\ c \in DOMAIN v /\ c \in Nat /\ d \in Nat /\ v[c].kind = "begin"
  <2>1. c \in Begins(v)
    BY DEF c, v
  <2> QED BY <1>1, <2>1, DepthOfNode DEF d
<1>3. ASSUME NEW p \in I
      PROVE  /\ p \in Nat \X Int /\ p[1] \in Nat /\ p[2] \in Int
             /\ Inside(v, c, InBlob(p[1])) /\ p[2] = Depth(v, InBlob(p[1])) - d
             /\ InBlob(p[1]) \in DOMAIN v /\ Kind(p[1]) = v[InBlob(p[1])].kind
             /\ Kind(p[1]) \in {"begin", "end_node", "prop", "nop"}
             /\ Depth(v, InBlob(p[1])) \in Int
             /\ InBlob(p[1]) # c => Depth(v, InBlob(p[1])) >= d + 1
  <2>1. /\ p \in Nat \X Int /\ p[1] \in Nat /\ p[2] \in Int
        /\ Inside(v, c, InBlob(p[1])) /\ p[2] = Depth(v, InBlob(p[1])) - d
    OBVIOUS
  <2> HIDE DEF I
  <2>2. /\ InBlob(p[1]) \in DOMAIN v /\ v[InBlob(p[1])].kind \in {"begin", "end_node", "prop", "nop"}
        /\ Depth(v, InBlob(p[1])) \in Int
        /\ InBlob(p[1]) # c => Depth(v, InBlob(p[1])) >= d + 1
    BY <1>1, <1>2, <2>1, InsideIsNotEnd DEF d
  <2>3. Kind(p[1]) = v[InBlob(p[1])].kind
    BY <2>1, <2>2, ReaderStep DEF v
  <2> QED BY <2>1, <2>2, <2>3
<1>4. ASSUME NEW p \in I, p \notin EndStops PROVE EndNext[p] \in I
  <2> DEFINE o == p[1]
             n == EndNext[p][1]
  <2>1. /\ p \in Nat \X Int /\ o \in Nat /\ p[2] \in Int
        /\ Inside(v, c, InBlob(o)) /\ p[2] = Depth(v, InBlob(o)) - d
        /\ InBlob(o) \in DOMAIN v /\ Kind(o) = v[InBlob(o)].kind
        /\ Kind(o) \in {"begin", "end_node", "prop", "nop"}
        /\ Depth(v, InBlob(o)) \in Int
    BY <1>3
  <2> HIDE DEF I
  <2>2. ~(Kind(o) = "end_node" /\ p[2] \in {0, 1})
    BY <1>4, <2>1 DEF EndStops
  <2>3. p \in Int \X Int
    BY <2>1
  <2>4. EndNext[p] = IF Kind(o) = "begin" THEN <<after_begin_node(o), p[2] + 1>>
                     ELSE IF Kind(o) = "end_node" THEN <<o + 4, p[2] - 1>>
                     ELSE IF Kind(o) = "prop" THEN <<after_property(o), p[2]>>
                     ELSE <<o + 4, p[2]>>
    BY <2>3 DEF EndNext
  <2>5. /\ Kind(o) = "begin" => InBlob(after_begin_node(o)) = After(v, InBlob(o))
                                /\ after_begin_node(o) \in Nat
        /\ Kind(o) = "prop" => InBlob(after_property(o)) = After(v, InBlob(o))
                               /\ after_property(o) \in Nat
        /\ Kind(o) \in {"nop", "end_node"} => InBlob(o + 4) = After(v, InBlob(o))
    BY <2>1, ReaderStep DEF v
  <2>6. Depth(v, After(v, InBlob(o))) =
          Depth(v, InBlob(o)) + IF Kind(o) = "begin" THEN 1
                                ELSE IF Kind(o) = "end_node" THEN -1 ELSE 0
    <3>1. v[InBlob(o)].kind # "end"
      BY <2>1
    <3>2. Depth(v, After(v, InBlob(o))) =
            Depth(v, InBlob(o)) + IF v[InBlob(o)].kind = "begin" THEN 1
                                  ELSE IF v[InBlob(o)].kind = "end_node" THEN -1 ELSE 0
      BY <1>1, <2>1, <3>1, DepthAfter
    <3> QED BY <2>1, <3>2
  <2>7. Inside(v, c, After(v, InBlob(o)))
    <3>1. ~(v[InBlob(o)].kind = "end_node" /\ Depth(v, InBlob(o)) = Depth(v, c) + 1)
      BY <1>2, <2>1, <2>2 DEF d
    <3> QED BY <1>1, <1>2, <2>1, <3>1, InsideNext
  <2> HIDE DEF o
  <2>8. PICK m \in Nat, k \in Int : /\ EndNext[p] = <<m, k>> /\ InBlob(m) = After(v, InBlob(o))
                                    /\ k = Depth(v, After(v, InBlob(o))) - d
    <3>1. CASE Kind(o) = "begin"
      BY <1>2, <2>1, <2>4, <2>5, <2>6, <3>1
    <3>2. CASE Kind(o) = "end_node"
      BY <1>2, <2>1, <2>4, <2>5, <2>6, <3>2
    <3>3. CASE Kind(o) = "prop"
      BY <1>2, <2>1, <2>4, <2>5, <2>6, <3>3
    <3>4. CASE Kind(o) = "nop"
      BY <1>2, <2>1, <2>4, <2>5, <2>6, <3>4
    <3> QED BY <2>1, <3>1, <3>2, <3>3, <3>4
  <2> QED BY <2>7, <2>8 DEF I
<1>5. I \subseteq Int \X Int /\ <<b, 0>> \in I
  <2>1. I \subseteq Int \X Int
    OBVIOUS
  <2>2. Inside(v, c, c)
    <3>1. DOMAIN v \subseteq Nat
      BY <1>1 DEF Tiled
    <3> QED BY <1>2, <3>1 DEF Inside
  <2>3. Depth(v, c) - d = 0
    BY <1>2 DEF d
  <2> QED BY <2>1, <2>2, <2>3 DEF c
<1>6. PICK e \in I : e \in EndStops /\ node_end_offset(b) = EndResult[e]
  <2> HIDE DEF I
  <2> QED BY <1>4, <1>5, EndWalk
<1> DEFINE o == e[1]
<1>7. /\ e \in Nat \X Int /\ o \in Nat /\ e[2] \in Int
      /\ Inside(v, c, InBlob(o)) /\ e[2] = Depth(v, InBlob(o)) - d
      /\ InBlob(o) \in DOMAIN v /\ Kind(o) = v[InBlob(o)].kind
      /\ Kind(o) \in {"begin", "end_node", "prop", "nop"}
      /\ Depth(v, InBlob(o)) \in Int
      /\ InBlob(o) # c => Depth(v, InBlob(o)) >= d + 1
  BY <1>3
<1> HIDE DEF I
<1>8. Kind(o) = "end_node" /\ e[2] = 1
  <2>1. Kind(o) = "end_node" /\ e[2] \in {0, 1}
    <3>1. Kind(o) = "prop" => after_property(o) \in Nat
      BY <1>7, ReaderStep DEF v
    <3>2. ~(Kind(o) = "prop" /\ after_property(o) = None)
      BY <3>1 DEF None
    <3> QED BY <1>6, <1>7, <3>2 DEF EndStops
  <2>2. InBlob(o) # c
    BY <1>2, <1>7, <2>1
  <2> QED BY <1>2, <1>7, <2>1, <2>2
<1>9. node_end_offset(b) = o
  <2>1. e \in Int \X Int
    BY <1>7
  <2>2. EndResult[e] = o
    BY <1>8, <2>1 DEF EndResult
  <2> QED BY <1>6, <2>2
<1>10. Span(v, c, InBlob(o))
  <2>1. InBlob(o) \in NodeEnds(v)
    BY <1>7, <1>8 DEF NodeEnds
  <2>2. InBlob(o) # c
    BY <1>2, <1>7, <1>8
  <2>3. InBlob(o) \in Nat
    BY <1>1, <1>7 DEF Tiled
  <2>4. c < InBlob(o)
    BY <1>2, <1>7, <2>2, <2>3 DEF Inside
  <2>5. Depth(v, InBlob(o)) = Depth(v, c) + 1
    BY <1>2, <1>7, <1>8 DEF d
  <2> QED BY <1>2, <1>7, <2>1, <2>4, <2>5 DEF Span, Inside
<1> QED BY <1>7, <1>9, <1>10 DEF v, c

\* A node of the blob, as the reader returns it.
IsSpan(n) == n.begin \in Nat /\ n.end \in Nat /\ Span(View, InBlob(n.begin), InBlob(n.end))

LEMMA NodeAtIsExact ==
  ASSUME Readable, StructIsSound, NEW o \in Nat, InBlob(o) \in Begins(View)
  PROVE  /\ node_at_offset(o) # NoNode /\ IsSpan(node_at_offset(o))
         /\ node_at_offset(o).begin = o
<1>1. node_end_offset(o) \in Nat /\ Span(View, InBlob(o), InBlob(node_end_offset(o)))
  BY NodeEndIsExact
<1>2. TokenAt(o).kind = "begin"
  <2>1. InBlob(o) \in DOMAIN View /\ View[InBlob(o)].kind = "begin"
    BY DEF Begins
  <2> QED BY <2>1, ReaderStep DEF Kind
<1>3. node_end_offset(o) # None /\ o # None
  BY <1>1 DEF None
<1>4. node_at_offset(o) = [begin |-> o, end |-> node_end_offset(o)]
  BY <1>2, <1>3 DEF node_at_offset
<1> QED BY <1>1, <1>3, <1>4 DEF IsSpan, NoNode

\* o is in front of a property or child of the node, or at its end.
Among(v, b, e, o) == o \in DOMAIN v /\ b < o /\ o <= e /\ Depth(v, o) = Depth(v, b) + 1

LEMMA SpanTyped ==
  ASSUME NEW v, NEW a, NEW z, Tiled(v, a, z), Balanced(v, a, z), NEW b, NEW e, Span(v, b, e)
  PROVE  /\ b \in DOMAIN v /\ b \in Nat /\ e \in DOMAIN v /\ e \in Nat /\ b < e
         /\ b \in Begins(v) /\ v[b].kind = "begin" /\ v[e].kind = "end_node"
         /\ Depth(v, b) \in Nat /\ Depth(v, e) = Depth(v, b) + 1
         /\ DOMAIN v \subseteq Nat /\ e < z
         /\ \A x \in DOMAIN v : x \in Nat /\ Depth(v, x) \in Int
<1>1. b \in Begins(v) /\ e \in DOMAIN v /\ v[e].kind = "end_node" /\ b < e
      /\ Depth(v, e) = Depth(v, b) + 1
  BY DEF Span, NodeEnds
<1>2. DOMAIN v \subseteq Nat /\ e < z
  BY <1>1 DEF Tiled
<1>3. b \in DOMAIN v /\ b \in Nat /\ Depth(v, b) \in Nat /\ v[b].kind = "begin"
  BY <1>1, DepthOfNode
<1>4. \A x \in DOMAIN v : x \in Nat /\ Depth(v, x) \in Int
  BY <1>2, DepthTyped
<1> QED BY <1>1, <1>2, <1>3, <1>4

LEMMA AmongFirst ==
  ASSUME NEW v, NEW a, NEW z, Tiled(v, a, z), Balanced(v, a, z), NEW b, NEW e, Span(v, b, e)
  PROVE  Among(v, b, e, After(v, b)) /\ \A x \in DOMAIN v : x < After(v, b) => x <= b
<1>1. /\ b \in DOMAIN v /\ b \in Nat /\ e \in DOMAIN v /\ e \in Nat /\ b < e
      /\ v[b].kind = "begin" /\ v[e].kind = "end_node" /\ Depth(v, b) \in Nat
  BY SpanTyped
<1>2. /\ After(v, b) \in DOMAIN v /\ After(v, b) > b /\ After(v, b) \in Nat
      /\ \A q \in DOMAIN v : q > b => q >= After(v, b)
      /\ \A q \in DOMAIN v : q < After(v, b) => q <= b
  BY <1>1, TiledAfter
<1>3. Depth(v, After(v, b)) = Depth(v, b) + 1
  <2>1. v[b].kind # "end"
    BY <1>1
  <2> QED BY <1>1, <2>1, DepthAfter
<1> QED BY <1>1, <1>2, <1>3 DEF Among

LEMMA AmongNext ==
  ASSUME NEW v, NEW a, NEW z, Tiled(v, a, z), Balanced(v, a, z), NEW b, NEW e, Span(v, b, e),
         NEW o, Among(v, b, e, o), o # e
  PROVE  /\ o < e /\ v[o].kind \in {"begin", "prop", "nop"}
         /\ v[o].kind # "begin" => Among(v, b, e, After(v, o))
         /\ \A x \in DOMAIN v : x < After(v, o) => x <= o
<1>1. /\ b \in DOMAIN v /\ b \in Nat /\ e \in DOMAIN v /\ e \in Nat /\ b < e
      /\ v[b].kind = "begin" /\ v[e].kind = "end_node" /\ Depth(v, b) \in Nat
      /\ e < z /\ \A x \in DOMAIN v : x \in Nat /\ Depth(v, x) \in Int
  BY SpanTyped
<1>2. o \in DOMAIN v /\ o \in Nat /\ b < o /\ o < e /\ Depth(v, o) = Depth(v, b) + 1
  BY <1>1 DEF Among
<1>3. v[o].kind # "end"
  <2>1. v[o].kind = "end" => o = z - 4 /\ v[o].len = 4
    BY <1>2 DEF Tiled
  <2>2. e >= o + v[o].len
    BY <1>1, <1>2 DEF Tiled
  <2>3. z \in Nat
    BY DEF Tiled
  <2> QED BY <1>1, <1>2, <2>1, <2>2, <2>3
<1> DEFINE n == After(v, o)
<1>4. /\ n \in DOMAIN v /\ n > o /\ n \in Nat /\ n <= e
      /\ \A q \in DOMAIN v : q < n => q <= o
      /\ v[o].kind \in {"begin", "end_node", "prop", "nop"}
  BY <1>1, <1>2, <1>3, TiledAfter
<1>5. Depth(v, n) = Depth(v, o) + IF v[o].kind = "begin" THEN 1
                                  ELSE IF v[o].kind = "end_node" THEN -1 ELSE 0
  BY <1>2, <1>3, DepthAfter
<1> HIDE DEF n
<1>6. Depth(v, n) >= Depth(v, b) + 1
  <2>1. b < n
    BY <1>1, <1>2, <1>4
  <2> QED BY <1>4, <2>1 DEF Span
<1>7. v[o].kind # "end_node"
  BY <1>1, <1>2, <1>5, <1>6
<1>8. v[o].kind # "begin" => Among(v, b, e, n)
  BY <1>1, <1>2, <1>4, <1>5, <1>7 DEF Among
<1> QED BY <1>2, <1>4, <1>7, <1>8 DEF n

LEMMA AmongChild ==
  ASSUME NEW v, NEW a, NEW z, Tiled(v, a, z), Balanced(v, a, z), NEW b, NEW e, Span(v, b, e),
         NEW o, Among(v, b, e, o), NEW f, Span(v, o, f)
  PROVE  /\ f < e /\ Among(v, b, e, f + 4)
         /\ \A x \in DOMAIN v : x < f + 4 => x <= f
<1>1. /\ b \in DOMAIN v /\ b \in Nat /\ e \in DOMAIN v /\ e \in Nat /\ b < e
      /\ Depth(v, b) \in Nat /\ Depth(v, e) = Depth(v, b) + 1
      /\ \A x \in DOMAIN v : x \in Nat /\ Depth(v, x) \in Int
  BY SpanTyped
<1>2. o \in DOMAIN v /\ o \in Nat /\ b < o /\ o <= e /\ Depth(v, o) = Depth(v, b) + 1
  BY <1>1 DEF Among
<1>3. /\ f \in DOMAIN v /\ f \in Nat /\ o < f /\ v[f].kind = "end_node" /\ v[o].kind = "begin"
      /\ Depth(v, f) = Depth(v, o) + 1
  BY SpanTyped
<1>4. o # e
  <2>1. v[e].kind = "end_node"
    BY SpanTyped
  <2> QED BY <1>3, <2>1
<1>5. e > f
  <2>1. o < e /\ e <= f => Depth(v, e) >= Depth(v, o) + 1
    BY <1>1 DEF Span
  <2> QED BY <1>1, <1>2, <1>3, <1>4, <2>1
<1>6. /\ After(v, f) = f + 4 /\ After(v, f) \in DOMAIN v
      /\ \A q \in DOMAIN v : q > f => q >= After(v, f)
      /\ \A q \in DOMAIN v : q < After(v, f) => q <= f
  BY <1>3, TiledAfter
<1>7. Depth(v, After(v, f)) = Depth(v, f) - 1
  <2>1. v[f].kind # "end"
    BY <1>3
  <2>2. Depth(v, f) \in Int
    BY <1>1, <1>3
  <2> QED BY <1>3, <2>1, <2>2, DepthAfter
<1>8. Among(v, b, e, f + 4)
  BY <1>1, <1>2, <1>3, <1>5, <1>6, <1>7 DEF Among
<1> QED BY <1>5, <1>6, <1>8
\* No child of the node at b that begins in front of o has the name.
NoChild(v, b, o, name) ==
  \A c \in Begins(v) : b < c /\ c < o /\ LevelOf(v, c) = LevelOf(v, b) + 1 => v[c].name # name

LEMMA NoChildBehind ==
  ASSUME NEW v, NEW a, NEW z, Tiled(v, a, z), Balanced(v, a, z), NEW b, NEW e, Span(v, b, e),
         NEW o, Among(v, b, e, o), NEW name, NoChild(v, b, o, name)
  PROVE  /\ o # e /\ v[o].kind # "begin" => NoChild(v, b, After(v, o), name)
         /\ \A f : Span(v, o, f) /\ v[o].name # name => NoChild(v, b, f + 4, name)
<1>1. o # e /\ v[o].kind # "begin" => NoChild(v, b, After(v, o), name)
  <2> SUFFICES ASSUME o # e, v[o].kind # "begin" PROVE NoChild(v, b, After(v, o), name)
    OBVIOUS
  <2>1. \A x \in DOMAIN v : x < After(v, o) => x <= o
    BY AmongNext
  <2>2. \A x \in Begins(v) : x \in DOMAIN v /\ x # o
    BY DEF Begins
  <2>3. o \in Nat /\ DOMAIN v \subseteq Nat
    BY SpanTyped DEF Among
  <2>4. \A x \in Begins(v) : x < After(v, o) => x < o
    BY <2>1, <2>2, <2>3
  <2> QED BY <2>4 DEF NoChild
<1>2. ASSUME NEW f, Span(v, o, f), v[o].name # name PROVE NoChild(v, b, f + 4, name)
  <2>1. \A x \in DOMAIN v : x < f + 4 => x <= f
    BY <1>2, AmongChild
  <2>2. /\ b \in Nat /\ Depth(v, b) \in Nat /\ v[b].kind = "begin"
        /\ \A x \in DOMAIN v : x \in Nat /\ Depth(v, x) \in Int
    BY SpanTyped
  <2>3. o \in Nat /\ Depth(v, o) = Depth(v, b) + 1
    BY <2>2 DEF Among
  <2>4. ASSUME NEW c \in Begins(v), b < c, c < f + 4, LevelOf(v, c) = LevelOf(v, b) + 1
        PROVE  v[c].name # name
    <3>1. c \in DOMAIN v /\ v[c].kind = "begin" /\ c <= f /\ c \in Nat
      BY <2>1, <2>2, <2>4 DEF Begins
    <3>2. Depth(v, c) = Depth(v, b) + 1
      BY <2>2, <2>4, <3>1 DEF LevelOf
    <3>3. o < c => Depth(v, c) >= Depth(v, o) + 1
      BY <1>2, <3>1 DEF Span
    <3>4. c <= o
      BY <2>2, <2>3, <3>1, <3>2, <3>3
    <3>5. CASE c = o
      BY <1>2, <3>5
    <3>6. CASE c < o
      BY <2>4, <3>6 DEF NoChild
    <3> QED BY <2>3, <3>1, <3>4, <3>5, <3>6
  <2> QED BY <2>4 DEF NoChild
<1> QED BY <1>1, <1>2

\* find_child finds the child with the name if there is one.
LEMMA FindChildIsExact ==
  ASSUME Readable, StructIsSound, NEW n, IsSpan(n), NEW name
  PROVE  \/ /\ find_child(n, name) = NoNode
            /\ NoChild(View, InBlob(n.begin), InBlob(n.end), name)
         \/ find_child(n, name) # NoNode /\ IsSpan(find_child(n, name))
<1> DEFINE v == View
           b == InBlob(n.begin)
           e == InBlob(n.end)
           a == header.off_dt_struct
           z == StructEnd(header)
           I == {o \in Nat : Among(v, b, e, InBlob(o)) /\ NoChild(v, b, InBlob(o), name)}
<1>1. Tiled(v, a, z) /\ Balanced(v, a, z) /\ a \in Nat
  BY HeaderTyped DEF StructIsSound
<1>2. n.begin \in Nat /\ n.end \in Nat /\ Span(v, b, e)
  BY DEF IsSpan
<1>3. \A x : InBlob(x) = a + x
  BY DEF InBlob
<1>4. b \in DOMAIN v /\ v[b].kind = "begin"
  BY <1>1, <1>2, SpanTyped
<1>5. InBlob(after_begin_node(n.begin)) = After(v, b) /\ after_begin_node(n.begin) \in Nat
  BY <1>2, <1>4, ReaderStep
<1> HIDE DEF v, b, e, a, z
<1>6. after_begin_node(n.begin) \in I
  <2>1. Among(v, b, e, After(v, b)) /\ \A x \in DOMAIN v : x < After(v, b) => x <= b
    BY <1>1, <1>2, AmongFirst
  <2>2. NoChild(v, b, After(v, b), name)
    <3>1. \A x \in Begins(v) : x < After(v, b) => ~(b < x)
      <4>1. DOMAIN v \subseteq Nat /\ b \in Nat
        BY <1>1, <1>2, SpanTyped
      <4> QED BY <2>1, <4>1 DEF Begins
    <3> QED BY <3>1 DEF NoChild
  <2> QED BY <1>5, <2>1, <2>2
<1>7. ASSUME NEW o \in I
      PROVE  /\ o \in Nat /\ Among(v, b, e, InBlob(o)) /\ NoChild(v, b, InBlob(o), name)
             /\ InBlob(o) \in DOMAIN v /\ Kind(o) = v[InBlob(o)].kind /\ o # None
             /\ o >= n.end <=> InBlob(o) = e
             /\ v[InBlob(o)].kind = "begin" =>
                  /\ TokenAt(o).name = v[InBlob(o)].name
                  /\ node_at_offset(o) # NoNode /\ IsSpan(node_at_offset(o))
                  /\ node_at_offset(o).begin = o
  <2>1. o \in Nat /\ Among(v, b, e, InBlob(o)) /\ NoChild(v, b, InBlob(o), name)
    OBVIOUS
  <2> HIDE DEF I
  <2>2. InBlob(o) \in DOMAIN v /\ InBlob(o) <= e
    BY <2>1 DEF Among
  <2>3. Kind(o) = v[InBlob(o)].kind /\ TokenAt(o) = blob[InBlob(o)]
    BY <2>1, <2>2, ReaderStep DEF v
  <2>4. o >= n.end <=> InBlob(o) = e
    BY <1>1, <1>2, <1>3, <2>1, <2>2 DEF e
  <2>5. ASSUME v[InBlob(o)].kind = "begin"
        PROVE  /\ TokenAt(o).name = v[InBlob(o)].name
               /\ node_at_offset(o) # NoNode /\ IsSpan(node_at_offset(o))
               /\ node_at_offset(o).begin = o
    <3>1. InBlob(o) \in Begins(View)
      BY <2>2, <2>5 DEF Begins, v
    <3>2. InBlob(o) \in InStruct /\ blob[InBlob(o)].kind = "begin"
      BY <2>2, <2>5, ViewTyped DEF v
    <3> QED BY <2>1, <2>3, <3>1, <3>2, NodeAtIsExact, ViewTyped DEF v
  <2> QED BY <2>1, <2>2, <2>3, <2>4, <2>5 DEF None
<1>8. ASSUME NEW o \in I, o \notin ChildStops(n, name) PROVE ChildNext[o] \in I
  <2> DEFINE x == InBlob(o)
  <2>1. /\ o \in Nat /\ Among(v, b, e, x) /\ NoChild(v, b, x, name)
        /\ x \in DOMAIN v /\ Kind(o) = v[x].kind /\ (o >= n.end <=> x = e)
        /\ v[x].kind = "begin" =>
             /\ TokenAt(o).name = v[x].name
             /\ node_at_offset(o) # NoNode /\ IsSpan(node_at_offset(o))
             /\ node_at_offset(o).begin = o
    BY <1>7
  <2>2. /\ ~(o >= n.end) /\ Kind(o) \in {"prop", "nop", "begin"}
        /\ Kind(o) = "begin" => TokenAt(o).name # name
    BY <1>8, <2>1 DEF ChildStops
  <2>3. x # e
    BY <2>1, <2>2
  <2>4. v[x].kind # "begin" => Among(v, b, e, After(v, x)) /\ NoChild(v, b, After(v, x), name)
    BY <1>1, <1>2, <2>1, <2>3, AmongNext, NoChildBehind
  <2>5. /\ v[x].kind = "prop" => after_property(o) \in Nat /\ InBlob(after_property(o)) = After(v, x)
        /\ v[x].kind = "nop" => InBlob(o + 4) = After(v, x)
    BY <2>1, ReaderStep DEF v
  <2>6. ChildNext[o] = IF Kind(o) = "prop" THEN after_property(o)
                       ELSE IF Kind(o) = "nop" THEN o + 4 ELSE node_at_offset(o).end + 4
    BY <2>1 DEF ChildNext
  <2>7. CASE Kind(o) = "prop"
    BY <2>1, <2>4, <2>5, <2>6, <2>7
  <2>8. CASE Kind(o) = "nop"
    BY <2>1, <2>4, <2>5, <2>6, <2>8
  <2>9. CASE Kind(o) = "begin"
    <3> DEFINE f == node_at_offset(o).end
    <3>1. f \in Nat /\ Span(v, x, InBlob(f)) /\ v[x].name # name
      BY <2>1, <2>2, <2>9 DEF IsSpan, v
    <3>2. InBlob(f) + 4 = InBlob(f + 4)
      BY <1>1, <1>3, <3>1
    <3> HIDE DEF f, I, x
    <3>3. Among(v, b, e, InBlob(f) + 4)
      BY <1>1, <1>2, <2>1, <3>1, AmongChild
    <3>4. NoChild(v, b, InBlob(f) + 4, name)
      BY <1>1, <1>2, <2>1, <3>1, NoChildBehind
    <3>5. f + 4 \in I
      BY <3>1, <3>2, <3>3, <3>4 DEF I
    <3> QED BY <2>6, <2>9, <3>5 DEF f
  <2> QED BY <2>2, <2>7, <2>8, <2>9
<1>9. PICK o \in I : o \in ChildStops(n, name) /\ find_child(n, name) = ChildResult(n)[o]
  <2>1. I \subseteq Int
    OBVIOUS
  <2> HIDE DEF I
  <2> QED BY <1>6, <1>8, <2>1, ChildWalk
<1> DEFINE x == InBlob(o)
<1>10. /\ o \in Nat /\ Among(v, b, e, x) /\ NoChild(v, b, x, name) /\ o # None
       /\ x \in DOMAIN v /\ Kind(o) = v[x].kind /\ (o >= n.end <=> x = e)
       /\ v[x].kind = "begin" => node_at_offset(o) # NoNode /\ IsSpan(node_at_offset(o))
  BY <1>7
<1> HIDE DEF I, x
<1>11. find_child(n, name) = IF o >= n.end \/ Kind(o) # "begin" THEN NoNode ELSE node_at_offset(o)
  BY <1>9, <1>10 DEF ChildResult
<1>12. CASE o >= n.end
  BY <1>10, <1>11, <1>12 DEF v, b, e
<1>13. CASE ~(o >= n.end)
  <2>1. v[x].kind \in {"begin", "prop", "nop"}
    BY <1>1, <1>2, <1>10, <1>13, AmongNext
  <2>2. Kind(o) = "begin"
    BY <1>9, <1>10, <1>13, <2>1 DEF ChildStops
  <2> QED BY <1>10, <1>11, <1>13, <2>2
<1> QED BY <1>12, <1>13

\* Only properties of the node at b are in front of o.
Front(v, b, e, o) ==
  Among(v, b, e, o) /\ \A x \in DOMAIN v : b < x /\ x < o => v[x].kind \in {"prop", "nop"}

\* No property of the node at b in front of o has the name.
NoProp(v, b, o, name) ==
  \A p \in Props(v) : b < p /\ p < o /\ Depth(v, p) = Depth(v, b) + 1 => v[p].name # name

LEMMA FrontNext ==
  ASSUME NEW v, NEW a, NEW z, Tiled(v, a, z), Balanced(v, a, z), NEW b, NEW e, Span(v, b, e),
         NEW o, Front(v, b, e, o), o # e, v[o].kind # "begin"
  PROVE  /\ v[o].kind \in {"prop", "nop"} /\ Front(v, b, e, After(v, o))
         /\ \A name : NoProp(v, b, o, name) /\ (v[o].kind = "prop" => v[o].name # name)
                        => NoProp(v, b, After(v, o), name)
<1>1. Among(v, b, e, o)
  BY DEF Front
<1>2. /\ v[o].kind \in {"prop", "nop"} /\ Among(v, b, e, After(v, o))
      /\ \A x \in DOMAIN v : x < After(v, o) => x <= o
  BY <1>1, AmongNext
<1>3. o \in Nat /\ DOMAIN v \subseteq Nat
  BY <1>1, SpanTyped DEF Among
<1>4. \A x \in DOMAIN v : x < After(v, o) => x < o \/ x = o
  BY <1>2, <1>3
<1>5. Front(v, b, e, After(v, o))
  BY <1>2, <1>4 DEF Front
<1>6. ASSUME NEW name, NoProp(v, b, o, name), v[o].kind = "prop" => v[o].name # name
      PROVE  NoProp(v, b, After(v, o), name)
  BY <1>4, <1>6 DEF NoProp, Props
<1> QED BY <1>2, <1>5, <1>6

LEMMA FrontFirst ==
  ASSUME NEW v, NEW a, NEW z, Tiled(v, a, z), Balanced(v, a, z), NEW b, NEW e, Span(v, b, e)
  PROVE  Front(v, b, e, After(v, b)) /\ \A name : NoProp(v, b, After(v, b), name)
<1>1. Among(v, b, e, After(v, b)) /\ \A x \in DOMAIN v : x < After(v, b) => x <= b
  BY AmongFirst
<1>2. DOMAIN v \subseteq Nat /\ b \in Nat
  BY SpanTyped
<1>3. \A x \in DOMAIN v : x < After(v, b) => ~(b < x)
  BY <1>1, <1>2
<1> QED BY <1>1, <1>3 DEF Front, NoProp, Props

\* Behind the first child of a node, none of its properties follows.
LEMMA PropsAreInFront ==
  ASSUME NEW v, NEW a, NEW z, Tiled(v, a, z), Balanced(v, a, z), PropsFirst(v),
         NEW b, NEW e, Span(v, b, e), NEW o, Front(v, b, e, o), o = e \/ v[o].kind = "begin",
         NEW name, NoProp(v, b, o, name)
  PROVE  NoProp(v, b, e, name)
<1>1. /\ b \in Nat /\ e \in Nat /\ Depth(v, b) \in Nat /\ DOMAIN v \subseteq Nat
      /\ \A x \in DOMAIN v : x \in Nat /\ Depth(v, x) \in Int
  BY SpanTyped
<1>2. o \in DOMAIN v /\ o \in Nat /\ b < o /\ o <= e /\ Depth(v, o) = Depth(v, b) + 1
  BY <1>1 DEF Front, Among
<1>3. CASE o = e
  BY <1>3
<1>4. CASE v[o].kind = "begin"
  <2> SUFFICES ASSUME NEW p \in Props(v), b < p, p < e, Depth(v, p) = Depth(v, b) + 1
               PROVE  v[p].name # name
    BY DEF NoProp
  <2>1. p \in DOMAIN v /\ p \in Nat /\ v[p].kind = "prop" /\ p # o
    BY <1>1, <1>4 DEF Props
  <2>2. CASE p < o
    BY <2>2 DEF NoProp
  <2>3. CASE p > o
    <3> DEFINE l == Depth(v, b) + 2
               y == o + 1
    <3>1. Depth(v, y) = l
      <4>1. o \in Begins(v)
        BY <1>2, <1>4 DEF Begins
      <4>2. Depth(v, o + 1) = Depth(v, o) + 1
        BY <1>1, <1>2, <4>1, DepthStep
      <4> QED BY <1>1, <1>2, <4>2
    <3>2. l \in Int /\ Depth(v, p) < l /\ y \in Nat /\ y <= p /\ Depth(v, y) >= l
      BY <1>1, <1>2, <2>1, <2>3, <3>1
    <3> HIDE DEF l, y
    <3>3. PICK f \in NodeEnds(v) : y <= f /\ f < p /\ Depth(v, f) = l
      BY <1>1, <2>1, <3>2, Drops
    <3>4. PICK c \in Begins(v) : c > f /\ c < p /\ LevelOf(v, c) = LevelOf(v, p)
      BY <3>3 DEF PropsFirst
    <3>5. c \in DOMAIN v /\ v[c].kind = "begin" /\ c \in Nat /\ f \in Nat
      BY <1>1, <3>3 DEF Begins, NodeEnds
    <3>6. Depth(v, c) = Depth(v, b)
      BY <1>1, <2>1, <3>4, <3>5 DEF LevelOf
    <3>7. b < c /\ c <= e
      BY <1>1, <1>2, <2>1, <3>3, <3>4, <3>5 DEF y
    <3>8. Depth(v, c) >= Depth(v, b) + 1
      BY <3>5, <3>7 DEF Span
    <3> QED BY <1>1, <3>6, <3>8
  <2> QED BY <1>2, <2>1, <2>2, <2>3
<1> QED BY <1>3, <1>4

\* Where the reader is in a node.
LEMMA SpanPlace ==
  ASSUME Readable, StructIsSound, NEW n, IsSpan(n), NEW o \in Nat,
         Front(View, InBlob(n.begin), InBlob(n.end), InBlob(o))
  PROVE  /\ InBlob(o) \in DOMAIN View /\ Kind(o) = View[InBlob(o)].kind
         /\ o >= n.end <=> InBlob(o) = InBlob(n.end)
         /\ InBlob(o) # InBlob(n.end) => View[InBlob(o)].kind \in {"begin", "prop", "nop"}
         /\ View[InBlob(n.end)].kind = "end_node"
<1> DEFINE v == View
           b == InBlob(n.begin)
           e == InBlob(n.end)
           a == header.off_dt_struct
           z == StructEnd(header)
<1>1. Tiled(v, a, z) /\ Balanced(v, a, z) /\ a \in Nat
  BY HeaderTyped DEF StructIsSound
<1>2. n.begin \in Nat /\ n.end \in Nat /\ Span(v, b, e)
  BY DEF IsSpan
<1>3. InBlob(o) = a + o /\ e = a + n.end
  BY DEF InBlob
<1>4. InBlob(o) \in DOMAIN v /\ InBlob(o) <= e /\ Among(v, b, e, InBlob(o))
  BY DEF Front, Among
<1>5. Kind(o) = v[InBlob(o)].kind
  BY <1>4, ReaderStep
<1> HIDE DEF v, a, z, b
<1>6. v[e].kind = "end_node"
  BY <1>1, <1>2, SpanTyped
<1>7. o >= n.end <=> InBlob(o) = e
  BY <1>1, <1>2, <1>3, <1>4
<1>8. InBlob(o) # e => v[InBlob(o)].kind \in {"begin", "prop", "nop"}
  BY <1>1, <1>2, <1>4, AmongNext
<1> QED BY <1>4, <1>5, <1>6, <1>7, <1>8 DEF v

\* find_direct_property finds the property with the name if there is one.
LEMMA FindDirectIsExact ==
  ASSUME Readable, StructIsSound, NEW n, IsSpan(n), NEW name
  PROVE  LET p == find_direct_property(n, name)
             b == InBlob(n.begin)
             e == InBlob(n.end)
         IN \/ p = None /\ NoProp(View, b, e, name)
            \/ /\ p \in Nat /\ InBlob(p) \in Props(View) /\ View[InBlob(p)].name = name
               /\ Front(View, b, e, InBlob(p))
<1> DEFINE v == View
           b == InBlob(n.begin)
           e == InBlob(n.end)
           a == header.off_dt_struct
           z == StructEnd(header)
           I == {o \in Nat : Front(v, b, e, InBlob(o)) /\ NoProp(v, b, InBlob(o), name)}
<1>1. Tiled(v, a, z) /\ Balanced(v, a, z) /\ PropsFirst(v)
  BY DEF StructIsSound
<1>2. n.begin \in Nat /\ n.end \in Nat /\ Span(v, b, e)
  BY DEF IsSpan
<1>3. b \in DOMAIN v /\ v[b].kind = "begin"
  BY <1>1, <1>2, SpanTyped
<1>4. InBlob(after_begin_node(n.begin)) = After(v, b) /\ after_begin_node(n.begin) \in Nat
  BY <1>2, <1>3, ReaderStep
<1>5. ASSUME NEW o \in I
      PROVE  /\ o \in Nat /\ Front(v, b, e, InBlob(o)) /\ NoProp(v, b, InBlob(o), name)
             /\ InBlob(o) \in DOMAIN v /\ Kind(o) = v[InBlob(o)].kind
             /\ o >= n.end <=> InBlob(o) = e
             /\ InBlob(o) # e => v[InBlob(o)].kind \in {"begin", "prop", "nop"}
  <2>1. o \in Nat /\ Front(v, b, e, InBlob(o)) /\ NoProp(v, b, InBlob(o), name)
    OBVIOUS
  <2> HIDE DEF I
  <2> QED BY <2>1, SpanPlace
<1> HIDE DEF v, b, e, a, z
<1>6. after_begin_node(n.begin) \in I
  BY <1>1, <1>2, <1>4, FrontFirst
<1>7. ASSUME NEW o \in Nat, InBlob(o) \in DOMAIN v, v[InBlob(o)].kind = "prop"
      PROVE  /\ o + property_record_length(TokenAt(o).length) \in Nat
             /\ InBlob(o + property_record_length(TokenAt(o).length)) = After(v, InBlob(o))
             /\ string_at(TokenAt(o).nameoff).kind = "string"
             /\ IsNamed(TokenAt(o), name) <=> v[InBlob(o)].name = name
  BY <1>7, ReaderStep DEF v, IsNamed
<1>8. ASSUME NEW o \in I, o \notin DirectStops(n, name) PROVE DirectNext[o] \in I
  <2> DEFINE x == InBlob(o)
  <2>1. /\ o \in Nat /\ Front(v, b, e, x) /\ NoProp(v, b, x, name)
        /\ x \in DOMAIN v /\ Kind(o) = v[x].kind /\ (o >= n.end <=> x = e)
    BY <1>5
  <2>2. /\ ~(o >= n.end) /\ Kind(o) \in {"prop", "nop"}
        /\ Kind(o) = "prop" => ~IsNamed(TokenAt(o), name)
    BY <1>8, <2>1 DEF DirectStops
  <2>3. x # e /\ (v[x].kind = "prop" => v[x].name # name) /\ v[x].kind # "begin"
    BY <1>7, <2>1, <2>2
  <2>4. Front(v, b, e, After(v, x)) /\ NoProp(v, b, After(v, x), name)
    BY <1>1, <1>2, <2>1, <2>3, FrontNext
  <2>5. DirectNext[o] = IF Kind(o) = "prop" THEN o + property_record_length(TokenAt(o).length)
                        ELSE o + 4
    BY <2>1 DEF DirectNext
  <2>6. DirectNext[o] \in Nat /\ InBlob(DirectNext[o]) = After(v, x)
    <3>1. CASE Kind(o) = "prop"
      BY <1>7, <2>1, <2>5, <3>1
    <3>2. CASE Kind(o) = "nop"
      <4>1. InBlob(o + 4) = After(v, x)
        BY <2>1, <3>2, ReaderStep DEF v
      <4> QED BY <2>1, <2>5, <3>2, <4>1
    <3> QED BY <2>2, <3>1, <3>2
  <2> QED BY <2>4, <2>6
<1>9. PICK o \in I : /\ o \in DirectStops(n, name)
                     /\ find_direct_property(n, name) = DirectResult(n)[o]
  <2>1. I \subseteq Int
    OBVIOUS
  <2> HIDE DEF I
  <2> QED BY <1>6, <1>8, <2>1, DirectWalk
<1> DEFINE x == InBlob(o)
           p == find_direct_property(n, name)
<1>10. /\ o \in Nat /\ Front(v, b, e, x) /\ NoProp(v, b, x, name)
       /\ x \in DOMAIN v /\ Kind(o) = v[x].kind /\ (o >= n.end <=> x = e)
       /\ x # e => v[x].kind \in {"begin", "prop", "nop"}
  BY <1>5
<1> HIDE DEF I, x
<1>11. p = IF o >= n.end \/ Kind(o) \in {"begin", "end_node"} THEN None
           ELSE IF Kind(o) = "prop" /\ string_at(TokenAt(o).nameoff).kind = "string" THEN o
           ELSE Bad
  BY <1>9, <1>10 DEF DirectResult
<1> HIDE DEF p
<1>12. CASE x = e \/ v[x].kind = "begin"
  <2>1. NoProp(v, b, e, name)
    BY <1>1, <1>2, <1>10, <1>12, PropsAreInFront
  <2>2. p = None
    BY <1>10, <1>11, <1>12
  <2> QED BY <2>1, <2>2 DEF p, v, b, e
<1>13. CASE x # e /\ v[x].kind \in {"prop", "nop"}
  <2>1. /\ Kind(o) = "prop"
        /\ string_at(TokenAt(o).nameoff).kind # "string" \/ IsNamed(TokenAt(o), name)
    BY <1>9, <1>10, <1>13 DEF DirectStops
  <2>2. v[x].name = name /\ string_at(TokenAt(o).nameoff).kind = "string"
    BY <1>7, <1>10, <2>1 DEF x
  <2>3. p = o
    BY <1>10, <1>11, <1>13, <2>1, <2>2
  <2>4. x \in Props(v)
    BY <1>10, <2>1 DEF Props
  <2> QED BY <1>10, <2>2, <2>3, <2>4 DEF p, v, b, e, x
<1> QED BY <1>10, <1>12, <1>13

\* property_insertion_offset is behind the properties of the node.
LEMMA InsertionIsExact ==
  ASSUME Readable, StructIsSound, NEW n, IsSpan(n)
  PROVE  LET o == property_insertion_offset(n)
         IN /\ o \in Nat /\ Front(View, InBlob(n.begin), InBlob(n.end), InBlob(o))
            /\ View[InBlob(o)].kind \in {"begin", "end_node"}
<1> DEFINE v == View
           b == InBlob(n.begin)
           e == InBlob(n.end)
           a == header.off_dt_struct
           z == StructEnd(header)
           I == {o \in Nat : Front(v, b, e, InBlob(o))}
<1>1. Tiled(v, a, z) /\ Balanced(v, a, z) /\ PropsFirst(v)
  BY DEF StructIsSound
<1>2. n.begin \in Nat /\ n.end \in Nat /\ Span(v, b, e)
  BY DEF IsSpan
<1>3. b \in DOMAIN v /\ v[b].kind = "begin"
  BY <1>1, <1>2, SpanTyped
<1>4. InBlob(after_begin_node(n.begin)) = After(v, b) /\ after_begin_node(n.begin) \in Nat
  BY <1>2, <1>3, ReaderStep
<1>5. ASSUME NEW o \in I
      PROVE  /\ o \in Nat /\ Front(v, b, e, InBlob(o))
             /\ InBlob(o) \in DOMAIN v /\ Kind(o) = v[InBlob(o)].kind
             /\ o >= n.end <=> InBlob(o) = e
             /\ InBlob(o) # e => v[InBlob(o)].kind \in {"begin", "prop", "nop"}
             /\ v[e].kind = "end_node"
  <2>1. o \in Nat /\ Front(v, b, e, InBlob(o))
    OBVIOUS
  <2> HIDE DEF I
  <2> QED BY <2>1, SpanPlace
<1> HIDE DEF v, b, e, a, z
<1>6. after_begin_node(n.begin) \in I
  BY <1>1, <1>2, <1>4, FrontFirst
<1>7. ASSUME NEW o \in Nat, InBlob(o) \in DOMAIN v, v[InBlob(o)].kind = "prop"
      PROVE  after_property(o) \in Nat /\ InBlob(after_property(o)) = After(v, InBlob(o))
             /\ after_property(o) # None
  BY <1>7, ReaderStep DEF v, None
<1>8. ASSUME NEW o \in I, o \notin InsertionStops(n) PROVE InsertionNext[o] \in I
  <2> DEFINE x == InBlob(o)
  <2>1. /\ o \in Nat /\ Front(v, b, e, x)
        /\ x \in DOMAIN v /\ Kind(o) = v[x].kind /\ (o >= n.end <=> x = e)
    BY <1>5
  <2>2. ~(o >= n.end) /\ Kind(o) \in {"prop", "nop"}
    BY <1>8, <2>1 DEF InsertionStops
  <2>3. x # e /\ v[x].kind # "begin"
    BY <2>1, <2>2
  <2>4. Front(v, b, e, After(v, x))
    BY <1>1, <1>2, <2>1, <2>3, FrontNext
  <2>5. InsertionNext[o] = IF Kind(o) = "prop" THEN after_property(o) ELSE o + 4
    BY <2>1 DEF InsertionNext
  <2>6. InsertionNext[o] \in Nat /\ InBlob(InsertionNext[o]) = After(v, x)
    <3>1. CASE Kind(o) = "prop"
      BY <1>7, <2>1, <2>5, <3>1
    <3>2. CASE Kind(o) = "nop"
      <4>1. InBlob(o + 4) = After(v, x)
        BY <2>1, <3>2, ReaderStep DEF v
      <4> QED BY <2>1, <2>5, <3>2, <4>1
    <3> QED BY <2>2, <3>1, <3>2
  <2> QED BY <2>4, <2>6
<1>9. PICK o \in I : /\ o \in InsertionStops(n)
                     /\ property_insertion_offset(n) = InsertionResult(n)[o]
  <2>1. I \subseteq Int
    OBVIOUS
  <2> HIDE DEF I
  <2> QED BY <1>6, <1>8, <2>1, InsertionWalk
<1> DEFINE x == InBlob(o)
           p == property_insertion_offset(n)
<1>10. /\ o \in Nat /\ Front(v, b, e, x)
       /\ x \in DOMAIN v /\ Kind(o) = v[x].kind /\ (o >= n.end <=> x = e)
       /\ x # e => v[x].kind \in {"begin", "prop", "nop"}
       /\ v[e].kind = "end_node"
  BY <1>5
<1> HIDE DEF I, x
<1>11. p = IF o >= n.end THEN n.end ELSE IF Kind(o) \in {"begin", "end_node"} THEN o ELSE Bad
  BY <1>9, <1>10 DEF InsertionResult
<1> HIDE DEF p
<1>12. CASE x = e
  <2>1. p = n.end /\ InBlob(p) = e
    BY <1>10, <1>11, <1>12 DEF e
  <2> QED BY <1>2, <1>10, <1>12, <2>1 DEF p, v, b, e
<1>13. CASE x # e
  <2>1. Kind(o) = "begin"
    BY <1>7, <1>9, <1>10, <1>13 DEF InsertionStops, x
  <2>2. p = o
    BY <1>10, <1>11, <1>13, <2>1
  <2> QED BY <1>10, <2>1, <2>2 DEF p, v, b, e, x
<1> QED BY <1>12, <1>13

LEMMA RootIsSpan ==
  ASSUME Readable, StructIsSound
  PROVE  root_node # NoNode /\ IsSpan(root_node)
<1>1. InBlob(0) = header.off_dt_struct /\ 0 \in Nat
  BY HeaderTyped DEF InBlob
<1>2. header.off_dt_struct \in Begins(View)
  BY DEF StructIsSound, Tiled, Balanced, Begins
<1> QED BY <1>1, <1>2, NodeAtIsExact DEF root_node

LEMMA WayIsSpans ==
  ASSUME Readable, StructIsSound, NEW path, NEW n \in Nat,
         NEW f, f = [k \in 1..n |-> Along(path, f, k)]
  PROVE  \A k \in 1..n : f[k] = NoNode \/ IsSpan(f[k])
<1> DEFINE T == {k \in 1..n : ~(f[k] = NoNode \/ IsSpan(f[k]))}
<1> SUFFICES ASSUME T # {} PROVE FALSE
  OBVIOUS
<1>1. T \subseteq Nat
  OBVIOUS
<1>2. PICK m \in T : \A y \in T : m <= y
  BY <1>1, LeastNumber
<1>3. m \in 1..n /\ ~(f[m] = NoNode \/ IsSpan(f[m]))
  BY <1>2
<1>4. f[m] = Along(path, f, m)
  BY <1>3, Zenon
<1>5. m # 1
  BY <1>3, <1>4, RootIsSpan DEF Along
<1>6. m - 1 \in 1..n /\ m - 1 \notin T
  BY <1>2, <1>3, <1>5
<1>7. f[m - 1] = NoNode \/ IsSpan(f[m - 1])
  BY <1>6
<1>8. f[m] = NoNode \/ (IsSpan(f[m - 1]) /\ f[m] = find_child(f[m - 1], path[m]))
  BY <1>4, <1>5, <1>7 DEF Along
<1> QED BY <1>3, <1>8, FindChildIsExact

LEMMA FindNodeIsSpan ==
  ASSUME Readable, StructIsSound, NEW S, NEW path \in Seq(S)
  PROVE  find_node(path) = NoNode \/ IsSpan(find_node(path))
<1> DEFINE n == Len(path)
           at == CHOOSE f : f = [k \in 1..n |-> Along(path, f, k)]
<1>1. find_node(path) = IF path = RootPath THEN root_node
                        ELSE IF ~IsAbsolute(path) THEN NoNode ELSE at[n]
  BY Zenon DEF find_node, Along
<1>2. IsSpan(root_node)
  BY RootIsSpan
<1>3. at = [k \in 1..n |-> Along(path, at, k)]
  <2>1. n \in Nat
    OBVIOUS
  <2> QED BY <2>1, WayExists
<1> HIDE DEF at
<1>4. \A k \in 1..n : at[k] = NoNode \/ IsSpan(at[k])
  <2>1. n \in Nat
    OBVIOUS
  <2> QED BY <1>3, <2>1, WayIsSpans
<1>5. IsAbsolute(path) => n \in 1..n
  <2>1. IsAbsolute(path) => n # 0
    BY EmptySeq DEF IsAbsolute
  <2>2. n \in Nat
    OBVIOUS
  <2> QED BY <2>1, <2>2
<1> QED BY <1>1, <1>2, <1>4, <1>5

\* The walk of find_or_add_string.
StringStops(name) ==
  {o \in Int : \/ o >= header.size_dt_strings \/ string_at(o).kind # "string"
               \/ string_at(o).name = name}
StringNext == [o \in Int |-> o + LengthOf[string_at(o).name] + 1]
StringResult ==
  [o \in Int |-> IF o >= header.size_dt_strings THEN None
                 ELSE IF string_at(o).kind # "string" THEN Bad ELSE o]
StringBody(name, from) ==
  [o \in Int |->
     IF o >= header.size_dt_strings THEN None
     ELSE IF string_at(o).kind # "string" THEN Bad
     ELSE IF string_at(o).name = name THEN o
     ELSE from[o + LengthOf[string_at(o).name] + 1]]

LEMMA StringIsWalk ==
  ASSUME NEW name, NEW f
  PROVE  StringBody(name, f)
         = [x \in Int |-> IF x \in StringStops(name) THEN StringResult[x] ELSE f[StringNext[x]]]
<1>1. ASSUME NEW o \in Int
      PROVE  (IF o >= header.size_dt_strings THEN None
              ELSE IF string_at(o).kind # "string" THEN Bad
              ELSE IF string_at(o).name = name THEN o
              ELSE f[o + LengthOf[string_at(o).name] + 1])
             = IF o \in StringStops(name) THEN StringResult[o] ELSE f[StringNext[o]]
  BY DEF StringStops, StringResult, StringNext
<1> QED BY <1>1 DEF StringBody

LEMMA StringTyped ==
  ASSUME Readable, NEW o, string_at(o).kind = "string"
  PROVE  /\ o \in Nat /\ o < header.size_dt_strings /\ LengthOf[string_at(o).name] \in Nat
         /\ header.off_dt_strings + o \in DOMAIN blob
         /\ string_at(o) = blob[header.off_dt_strings + o]
<1>1. /\ o \in 0..(header.size_dt_strings - 1) /\ header.off_dt_strings + o \in DOMAIN blob
      /\ string_at(o) = blob[header.off_dt_strings + o]
  BY DEF string_at, Junk
<1>2. IsRecord(string_at(o))
  BY <1>1 DEF Readable
<1>3. o \in Nat /\ o < header.size_dt_strings
  BY <1>1, HeaderTyped
<1> QED BY <1>1, <1>2, <1>3, HeaderAssumption DEF IsRecord

LEMMA StringWalk ==
  ASSUME Readable, NEW name,
         NEW I, I \subseteq Int, 0 \in I,
         \A o \in I : o \notin StringStops(name) => StringNext[o] \in I
  PROVE  \E e \in I : e \in StringStops(name) /\ StringOffset(name) = StringResult[e]
<1> DEFINE D == StringStops(name)
           from == CHOOSE f : f = StringBody(name, f)
           limit == header.size_dt_strings
           R == StringResult
           X == Int
<1>1. StringOffset(name) = from[0]
  BY Zenon DEF StringOffset, StringBody
<1>2. IsWalkIfAny(from, X, D, StringNext, R)
  <2> SUFFICES ASSUME NEW f, IsWalk(f, X, D, StringNext, R)
               PROVE  IsWalk(from, X, D, StringNext, R)
    BY DEF IsWalkIfAny
  <2>1. f = StringBody(name, f)
    BY StringIsWalk DEF IsWalk
  <2>2. from = StringBody(name, from)
    BY <2>1
  <2> HIDE DEF from
  <2> QED BY <2>2, StringIsWalk DEF IsWalk
<1>3. limit \in Int
  BY HeaderTyped
<1>4. ASSUME NEW o \in Int, o \notin D
      PROVE  o >= 0 /\ o < limit /\ StringNext[o] \in Int /\ StringNext[o] > o
  <2>1. string_at(o).kind = "string"
    BY <1>4 DEF StringStops
  <2>2. o \in Nat /\ o < limit /\ LengthOf[string_at(o).name] \in Nat
    BY <2>1, StringTyped
  <2>3. StringNext[o] = o + LengthOf[string_at(o).name] + 1
    BY DEF StringNext
  <2> QED BY <2>2, <2>3
<1>5. Forward(X, D, StringNext, limit)
  BY <1>3, <1>4 DEF Forward
<1>6. 0 \in I /\ I \subseteq X /\ \A o \in I : o \notin D => StringNext[o] \in I
  OBVIOUS
<1> HIDE DEF D, from, limit, R, X
<1>7. \E e \in I : e \in D /\ from[0] = R[e]
  BY ONLY <1>2, <1>5, <1>6, ForwardWalk
<1> QED BY <1>1, <1>7 DEF D, R

\* A string that is found has the name, and the strings of a sound blob are
\* never called malformed.
LEMMA FindString ==
  ASSUME Readable, StringsAreTiled, NEW name
  PROVE  \/ StringOffset(name) = None
         \/ /\ StringOffset(name) \in Nat
            /\ string_at(StringOffset(name)).kind = "string"
            /\ string_at(StringOffset(name)).name = name
<1> DEFINE b == header.off_dt_strings
           z == StringsEnd(header)
           I == {o \in Nat : b + o \in WholeStrings \cup {z}}
<1>1. b \in Nat /\ header.size_dt_strings \in Nat /\ z = b + header.size_dt_strings
  BY HeaderTyped DEF StringsEnd
<1>2. ASSUME NEW o \in I, o < header.size_dt_strings
      PROVE  /\ o \in Nat /\ string_at(o).kind = "string" /\ string_at(o) = blob[b + o]
             /\ b + o \in WholeStrings
  <2>1. o \in Nat /\ b + o \in WholeStrings \cup {z}
    OBVIOUS
  <2>2. b + o \in WholeStrings
    BY <1>1, <1>2, <2>1
  <2>3. b + o \in InStrings /\ b + o \in DOMAIN blob
    BY <2>2 DEF WholeStrings, InStrings
  <2>4. string_at(o) = blob[b + o]
    <3>1. o \in 0..(header.size_dt_strings - 1)
      BY <1>1, <1>2, <2>1
    <3> QED BY <2>3, <3>1 DEF string_at
  <2>5. blob[b + o].kind = "string"
    BY <2>3 DEF StringsAreTiled
  <2> QED BY <2>1, <2>2, <2>4, <2>5
<1> HIDE DEF b, z
<1>3. ASSUME NEW o \in I, o \notin StringStops(name) PROVE StringNext[o] \in I
  <2>0. o \in Nat
    OBVIOUS
  <2>1. o < header.size_dt_strings
    BY <1>1, <1>3, <2>0 DEF StringStops
  <2>2. /\ o \in Nat /\ string_at(o).kind = "string" /\ string_at(o) = blob[b + o]
        /\ b + o \in WholeStrings
    BY <1>2, <2>1
  <2> DEFINE len == LengthOf[string_at(o).name] + 1
  <2>3. len \in Nat
    BY <2>2, StringTyped
  <2>4. StringNext[o] = o + len
    <3>1. StringNext[o] = o + LengthOf[string_at(o).name] + 1
      BY <2>2 DEF StringNext
    <3>2. LengthOf[string_at(o).name] \in Nat
      BY <2>2, StringTyped
    <3> QED BY <2>2, <3>1, <3>2
  <2>5. RecordLength(blob[b + o]) = len
    BY <2>2 DEF RecordLength
  <2>6. b + o + RecordLength(blob[b + o]) \in WholeStrings \cup {z}
    BY <2>2 DEF StringsAreTiled, Tiles, z
  <2> HIDE DEF len
  <2>7. b + (o + len) \in WholeStrings \cup {z}
    BY <1>1, <2>2, <2>3, <2>5, <2>6
  <2> QED BY <2>2, <2>3, <2>4, <2>7
<1>4. 0 \in I
  <2>1. b \in WholeStrings \cup {z}
    BY DEF StringsAreTiled, Tiles, b, z
  <2>2. b + 0 = b
    BY <1>1
  <2> QED BY <2>1, <2>2
<1>5. PICK e \in I : e \in StringStops(name) /\ StringOffset(name) = StringResult[e]
  <2>1. I \subseteq Int
    OBVIOUS
  <2> HIDE DEF I
  <2> QED BY <1>3, <1>4, <2>1, StringWalk
<1>6. e \in Nat
  OBVIOUS
<1>7. CASE e >= header.size_dt_strings
  BY <1>5, <1>6, <1>7 DEF StringResult
<1>8. CASE ~(e >= header.size_dt_strings)
  <2>1. string_at(e).kind = "string"
    BY <1>1, <1>2, <1>6, <1>8
  <2>2. string_at(e).name = name /\ StringOffset(name) = e
    BY <1>5, <1>6, <1>8, <2>1 DEF StringStops, StringResult
  <2> QED BY <1>6, <2>1, <2>2
<1> QED BY <1>7, <1>8

-----------------------------------------------------------------------------
(* Splices, as they change what the structure block spells. *)

\* The records from o on are replaced up to c by the records N, and the others
\* move by d.  What is replaced is a property or nothing.
Spliceable(v, a, o, c, d) ==
  /\ o \in DOMAIN v /\ c \in DOMAIN v /\ a < o /\ o <= c /\ d \in Int /\ o < c + d
  /\ \A x \in DOMAIN v : o <= x /\ x < c => x = o /\ v[x].kind = "prop"

Edited(v, w, o, c, d, N) ==
  /\ \A x \in DOMAIN v : x < o => x \in DOMAIN w /\ w[x] = v[x]
  /\ \A x \in DOMAIN v : x >= c => x + d \in DOMAIN w /\ w[x + d] = v[x]
  /\ \A y \in DOMAIN w : \/ y \in DOMAIN v /\ y < o
                         \/ y \in N
                         \/ \E x \in DOMAIN v : x >= c /\ y = x + d
  /\ \A y \in N : y \in DOMAIN w /\ y \in Nat /\ o <= y /\ y < c + d

\* The new records follow each other from o on.
NewTiles(w, o, c, d, N) ==
  /\ o \in N
  /\ \A y \in N : /\ w[y].kind \in {"begin", "end_node", "prop", "nop"}
                  /\ w[y].len \in Nat \ {0}
                  /\ w[y].kind \in {"end_node", "nop"} => w[y].len = 4
                  /\ y + w[y].len \in N \cup {c + d}
  /\ \A x, y \in N : y > x => y >= x + w[x].len

LEMMA EditTyped ==
  ASSUME NEW v, NEW a, NEW z, Tiled(v, a, z), NEW o, NEW c, NEW d, Spliceable(v, a, o, c, d),
         NEW w, NEW N, Edited(v, w, o, c, d, N)
  PROVE  /\ DOMAIN w \subseteq Nat /\ DOMAIN v \subseteq Nat
         /\ o \in Nat /\ c \in Nat /\ d \in Int /\ c + d \in Nat /\ a \in Nat /\ z \in Nat
         /\ z - 4 \in DOMAIN v /\ z - 4 >= c /\ z + d \in Nat
<1>1. /\ DOMAIN v \subseteq Nat /\ z \in Nat /\ z - 4 \in DOMAIN v /\ a \in Nat
      /\ v[z - 4].kind = "end" /\ v[z - 4].len = 4
  BY DEF Tiled
<1>2. o \in Nat /\ c \in Nat /\ c \in DOMAIN v /\ d \in Int /\ o < c + d
  BY <1>1 DEF Spliceable
<1>3. c < z /\ (c > z - 4 => c >= (z - 4) + 4)
  BY <1>1, <1>2 DEF Tiled
<1>4. z - 4 >= c /\ c + d \in Nat /\ z + d \in Nat
  BY <1>1, <1>2, <1>3
<1>5. ASSUME NEW y \in DOMAIN w PROVE y \in Nat
  <2>1. CASE y \in DOMAIN v \/ y \in N
    BY <1>1, <2>1 DEF Edited
  <2>2. CASE \E x \in DOMAIN v : x >= c /\ y = x + d
    BY <1>1, <1>2, <2>2
  <2> QED BY <2>1, <2>2 DEF Edited
<1> QED BY <1>1, <1>2, <1>4, <1>5

LEMMA EditTiled ==
  ASSUME NEW v, NEW a, NEW z, Tiled(v, a, z), NEW o, NEW c, NEW d, Spliceable(v, a, o, c, d),
         NEW w, NEW N, Edited(v, w, o, c, d, N), NewTiles(w, o, c, d, N)
  PROVE  Tiled(w, a, z + d)
<1>1. /\ DOMAIN w \subseteq Nat /\ DOMAIN v \subseteq Nat
      /\ o \in Nat /\ c \in Nat /\ d \in Int /\ c + d \in Nat /\ a \in Nat /\ z \in Nat
      /\ z - 4 \in DOMAIN v /\ z - 4 >= c /\ z + d \in Nat
  BY EditTyped
<1>2. /\ o \in DOMAIN v /\ c \in DOMAIN v /\ a < o /\ o <= c /\ o < c + d
  BY DEF Spliceable
<1>3. /\ a \in DOMAIN v
      /\ \A x \in DOMAIN v :
           /\ x >= a /\ x < z
           /\ v[x].kind \in {"begin", "end_node", "prop", "nop", "end"}
           /\ v[x].len \in Nat \ {0}
           /\ v[x].kind \in {"end_node", "nop", "end"} => v[x].len = 4
           /\ x + v[x].len \in DOMAIN v \cup {z}
           /\ v[x].kind = "end" <=> x = z - 4
      /\ \A x, q \in DOMAIN v : q > x => q >= x + v[x].len
  BY DEF Tiled
<1>4. /\ \A x \in DOMAIN v : x < o => x \in DOMAIN w /\ w[x] = v[x]
      /\ \A x \in DOMAIN v : x >= c => x + d \in DOMAIN w /\ w[x + d] = v[x]
      /\ \A y \in N : y \in DOMAIN w /\ y \in Nat /\ o <= y /\ y < c + d
  BY DEF Edited
<1>5. \A y \in DOMAIN w : \/ y \in DOMAIN v /\ y < o
                          \/ y \in N
                          \/ \E x \in DOMAIN v : x >= c /\ y = x + d
  BY DEF Edited
<1>6. c + d \in DOMAIN w /\ o \in DOMAIN w /\ o \in N
  <2>1. c + d \in DOMAIN w
    BY <1>1, <1>2, <1>4
  <2>2. o \in N /\ o \in DOMAIN w
    BY <1>4 DEF NewTiles
  <2> QED BY <2>1, <2>2
<1>7. ASSUME NEW y \in DOMAIN w
      PROVE  /\ y >= a /\ y < z + d
             /\ w[y].kind \in {"begin", "end_node", "prop", "nop", "end"}
             /\ w[y].len \in Nat \ {0}
             /\ w[y].kind \in {"end_node", "nop", "end"} => w[y].len = 4
             /\ y + w[y].len \in DOMAIN w \cup {z + d}
             /\ w[y].kind = "end" <=> y = z + d - 4
             /\ y < o => y + w[y].len <= o
             /\ y \in N => y + w[y].len <= c + d
  <2>1. CASE y \in DOMAIN v /\ y < o
    <3>1. w[y] = v[y] /\ y \in Nat /\ y \notin N
      BY <1>1, <1>4, <2>1
    <3>2. o >= y + v[y].len
      BY <1>2, <1>3, <2>1
    <3>3. y + v[y].len \in DOMAIN v /\ v[y].len \in Nat
      BY <1>1, <1>2, <1>3, <2>1, <3>1, <3>2
    <3>4. y + v[y].len \in DOMAIN w
      BY <1>1, <1>4, <1>6, <3>1, <3>2, <3>3
    <3>5. y # z - 4 /\ y # z + d - 4
      BY <1>1, <1>2, <2>1, <3>1
    <3>6. y >= a /\ y < z + d
      BY <1>1, <1>2, <1>3, <2>1, <3>1
    <3> QED BY <1>3, <2>1, <3>1, <3>2, <3>3, <3>4, <3>5, <3>6
  <2>2. CASE y \in N
    <3>1. /\ w[y].kind \in {"begin", "end_node", "prop", "nop"}
          /\ w[y].len \in Nat \ {0}
          /\ w[y].kind \in {"end_node", "nop"} => w[y].len = 4
          /\ y + w[y].len \in N \cup {c + d}
      BY <2>2 DEF NewTiles
    <3>2. y \in Nat /\ o <= y /\ y < c + d
      BY <1>4, <2>2
    <3>3. y + w[y].len \in DOMAIN w /\ y + w[y].len <= c + d
      BY <1>1, <1>4, <1>6, <3>1
    <3> QED BY <1>1, <1>2, <3>1, <3>2, <3>3
  <2>3. CASE \E x \in DOMAIN v : x >= c /\ y = x + d
    <3>1. PICK x \in DOMAIN v : x >= c /\ y = x + d
      BY <2>3
    <3>2. w[y] = v[x] /\ x \in Nat
      BY <1>1, <1>4, <3>1
    <3>3. v[x].len \in Nat \ {0} /\ x + v[x].len \in DOMAIN v \cup {z}
      BY <1>3
    <3>4. y + v[x].len = (x + v[x].len) + d /\ x + v[x].len >= c /\ y >= c + d
      BY <1>1, <3>1, <3>2, <3>3
    <3>5. y + v[x].len \in DOMAIN w \cup {z + d}
      BY <1>4, <3>3, <3>4
    <3>6. y \notin N /\ ~(y < o)
      BY <1>1, <1>2, <1>4, <3>1, <3>2, <3>4
    <3>7. y >= a /\ y < z + d /\ (y = z + d - 4 <=> x = z - 4)
      BY <1>1, <1>2, <1>3, <3>1, <3>2, <3>4
    <3> QED BY <1>3, <3>2, <3>3, <3>5, <3>6, <3>7
  <2> QED BY <1>5, <2>1, <2>2, <2>3
<1>8. ASSUME NEW x \in DOMAIN w, NEW y \in DOMAIN w, y > x PROVE y >= x + w[x].len
  <2>1. x \in Nat /\ y \in Nat /\ w[x].len \in Nat
    BY <1>1, <1>7
  <2>2. CASE x \in DOMAIN v /\ x < o
    <3>1. x + w[x].len <= o /\ w[x] = v[x]
      BY <1>4, <1>7, <2>2
    <3>2. CASE y \in DOMAIN v /\ y < o
      BY <1>3, <1>8, <2>2, <3>1, <3>2
    <3>3. CASE y \in N
      BY <1>1, <1>4, <2>1, <3>1, <3>3
    <3>4. CASE \E q \in DOMAIN v : q >= c /\ y = q + d
      BY <1>1, <1>2, <2>1, <3>1, <3>4
    <3> QED BY <1>5, <3>2, <3>3, <3>4
  <2>3. CASE x \in N
    <3>1. x + w[x].len <= c + d /\ o <= x
      BY <1>4, <1>7, <2>3
    <3>2. CASE y \in DOMAIN v /\ y < o
      BY <1>1, <1>8, <2>1, <3>1, <3>2
    <3>3. CASE y \in N
      BY <1>8, <2>3, <3>3 DEF NewTiles
    <3>4. CASE \E q \in DOMAIN v : q >= c /\ y = q + d
      BY <1>1, <1>2, <2>1, <3>1, <3>4
    <3> QED BY <1>5, <3>2, <3>3, <3>4
  <2>4. CASE \E q \in DOMAIN v : q >= c /\ x = q + d
    <3>1. PICK q \in DOMAIN v : q >= c /\ x = q + d
      BY <2>4
    <3>2. w[x] = v[q] /\ q \in Nat
      BY <1>1, <1>4, <3>1
    <3>3. PICK r \in DOMAIN v : r >= c /\ y = r + d
      BY <1>1, <1>2, <1>4, <1>5, <1>8, <2>1, <3>1, <3>2
    <3>4. r >= q + v[q].len /\ r \in Nat
      BY <1>1, <1>3, <1>8, <3>1, <3>2, <3>3
    <3> QED BY <1>1, <2>1, <3>1, <3>2, <3>3, <3>4
  <2> QED BY <1>5, <2>2, <2>3, <2>4
<1>9. (z + d) - 4 \in DOMAIN w /\ a \in DOMAIN w
  <2>1. (z - 4) + d \in DOMAIN w
    BY <1>1, <1>4
  <2>2. (z - 4) + d = (z + d) - 4
    BY <1>1
  <2> QED BY <1>2, <1>3, <1>4, <2>1, <2>2
<1> QED BY <1>1, <1>7, <1>8, <1>9 DEF Tiled
\* The depth of what is not replaced stays.
LEMMA EditDepth ==
  ASSUME NEW v, NEW a, NEW z, Tiled(v, a, z), NEW o, NEW c, NEW d, Spliceable(v, a, o, c, d),
         NEW w, NEW N, Edited(v, w, o, c, d, N)
  PROVE  /\ \A x \in Nat : x <= o => Depth(w, x) = Depth(v, x)
         /\ \A x \in Nat : x >= c /\ Depth(w, c + d) = Depth(w, o) => Depth(w, x + d) = Depth(v, x)
<1>1. /\ DOMAIN w \subseteq Nat /\ DOMAIN v \subseteq Nat
      /\ o \in Nat /\ c \in Nat /\ d \in Int /\ c + d \in Nat
  BY EditTyped
<1>2. /\ o \in DOMAIN v /\ o <= c /\ o < c + d
      /\ \A x \in DOMAIN v : o <= x /\ x < c => x = o /\ v[x].kind = "prop"
  BY DEF Spliceable
<1>3. /\ \A x \in DOMAIN v : x < o => x \in DOMAIN w /\ w[x] = v[x]
      /\ \A x \in DOMAIN v : x >= c => x + d \in DOMAIN w /\ w[x + d] = v[x]
      /\ \A y \in N : y \in DOMAIN w /\ y \in Nat /\ o <= y /\ y < c + d
      /\ \A y \in DOMAIN w : \/ y \in DOMAIN v /\ y < o
                             \/ y \in N
                             \/ \E x \in DOMAIN v : x >= c /\ y = x + d
  BY DEF Edited
<1>4. /\ Depth(v, 0) = 0 /\ Depth(w, 0) = 0
      /\ \A x \in Nat : Depth(v, x) \in Int /\ Depth(w, x) \in Int
  BY <1>1, DepthStep, DepthTyped
<1>5. ASSUME NEW x \in Nat, x <= o PROVE Depth(w, x) = Depth(v, x)
  <2>1. ASSUME NEW n \in Nat, n < x
        PROVE  /\ 0 + n \in Begins(v) <=> 0 + n \in Begins(w)
               /\ 0 + n \in NodeEnds(v) <=> 0 + n \in NodeEnds(w)
    <3>1. 0 + n = n /\ n < o
      BY <1>1, <1>5, <2>1
    <3>2. n \in DOMAIN w => n \in DOMAIN v
      BY <1>1, <1>2, <1>3, <3>1
    <3>3. n \in DOMAIN v => n \in DOMAIN w /\ w[n] = v[n]
      BY <1>3, <3>1
    <3> QED BY <3>1, <3>2, <3>3 DEF Begins, NodeEnds
  <2>2. Depth(v, 0 + x) - Depth(v, 0) = Depth(w, 0 + x) - Depth(w, 0)
    <3>1. NodesAlike(v, w, 0, 0, x)
      BY <2>1 DEF NodesAlike
    <3>2. DepthsAlike(v, w, 0, 0, x)
      BY <1>1, <3>1, DepthAlike, Zenon
    <3> QED BY <3>2 DEF DepthsAlike
  <2> QED BY <1>4, <2>2
<1>6. Depth(v, c) = Depth(v, o)
  <2>1. \A x \in Nat : o <= x /\ x < c => x \notin Begins(v) /\ x \notin NodeEnds(v)
    BY <1>2 DEF Begins, NodeEnds
  <2> QED BY <1>1, <1>2, <2>1, DepthSame
<1>7. ASSUME NEW x \in Nat, x >= c, Depth(w, c + d) = Depth(w, o)
      PROVE  Depth(w, x + d) = Depth(v, x)
  <2> DEFINE k == c + d
             j == x - c
  <2>0. j \in Nat /\ k \in Nat /\ c + j = x /\ k + j = x + d
    BY <1>1, <1>7
  <2>1. ASSUME NEW n \in Nat, n < j
        PROVE  /\ c + n \in Begins(v) <=> k + n \in Begins(w)
               /\ c + n \in NodeEnds(v) <=> k + n \in NodeEnds(w)
    <3>1. k + n = (c + n) + d /\ c + n >= c /\ c + n \in Nat
      BY <1>1
    <3>2. k + n \in DOMAIN w => c + n \in DOMAIN v
      <4> SUFFICES ASSUME k + n \in DOMAIN w PROVE c + n \in DOMAIN v
        OBVIOUS
      <4>1. ~(k + n < o) /\ k + n \notin N
        BY <1>1, <1>2, <1>3
      <4>2. PICK q \in DOMAIN v : q >= c /\ k + n = q + d
        BY <1>3, <4>1
      <4>3. q = c + n
        BY <1>1, <3>1, <4>2
      <4> QED BY <4>3
    <3>3. c + n \in DOMAIN v => k + n \in DOMAIN w /\ w[k + n] = v[c + n]
      BY <1>3, <3>1
    <3> HIDE DEF k, j
    <3> QED BY <3>2, <3>3 DEF Begins, NodeEnds
  <2>2. Depth(w, k) = Depth(w, o)
    BY <1>7
  <2> HIDE DEF k, j
  <2>3. Depth(v, c + j) - Depth(v, c) = Depth(w, k + j) - Depth(w, k)
    <3>1. NodesAlike(v, w, c, k, j)
      BY <2>1 DEF NodesAlike
    <3>2. DepthsAlike(v, w, c, k, j)
      BY <1>1, <2>0, <3>1, DepthAlike, Zenon
    <3> QED BY <3>2 DEF DepthsAlike
  <2>4. Depth(w, o) = Depth(v, o)
    BY <1>1, <1>5
  <2>5. Depth(v, c) \in Int /\ Depth(v, c + j) \in Int /\ Depth(w, k + j) \in Int
    <3>1. c + j \in Nat /\ k + j \in Nat
      BY <1>1, <2>0
    <3> QED BY <1>1, <1>4, <3>1
  <2>6. Depth(w, k + j) = Depth(v, c + j)
    BY <1>6, <2>2, <2>3, <2>4, <2>5
  <2> QED BY <2>0, <2>6
<1> QED BY <1>5, <1>7

\* Where a record is after the edit.
Moved(v, o, c, d) == [x \in DOMAIN v |-> IF x < o THEN x ELSE IF x >= c THEN x + d ELSE o]

\* The records of v are in w, in their order and on their levels.
Embeds(v, w, m) ==
  /\ \A x \in DOMAIN v : /\ m[x] \in DOMAIN w
                         /\ w[m[x]].kind = v[x].kind /\ w[m[x]].name = v[x].name
                         /\ LevelOf(w, m[x]) = LevelOf(v, x)
  /\ \A x, y \in DOMAIN v : x < y <=> m[x] < m[y]

LEMMA EditEmbeds ==
  ASSUME NEW v, NEW a, NEW z, Tiled(v, a, z), NEW o, NEW c, NEW d, Spliceable(v, a, o, c, d),
         NEW w, NEW N, Edited(v, w, o, c, d, N), Depth(w, c + d) = Depth(w, o),
         o < c => o \in DOMAIN w /\ w[o].kind = v[o].kind /\ w[o].name = v[o].name
  PROVE  Embeds(v, w, Moved(v, o, c, d))
<1> DEFINE m == Moved(v, o, c, d)
<1>1. /\ DOMAIN w \subseteq Nat /\ DOMAIN v \subseteq Nat
      /\ o \in Nat /\ c \in Nat /\ d \in Int /\ c + d \in Nat
  BY EditTyped
<1>2. /\ o \in DOMAIN v /\ o <= c /\ o < c + d
      /\ \A x \in DOMAIN v : o <= x /\ x < c => x = o /\ v[x].kind = "prop"
  BY DEF Spliceable
<1>3. /\ \A x \in DOMAIN v : x < o => x \in DOMAIN w /\ w[x] = v[x]
      /\ \A x \in DOMAIN v : x >= c => x + d \in DOMAIN w /\ w[x + d] = v[x]
  BY DEF Edited
<1>4. /\ \A x \in Nat : x <= o => Depth(w, x) = Depth(v, x)
      /\ \A x \in Nat : x >= c => Depth(w, x + d) = Depth(v, x)
  BY EditDepth
<1>5. \A x \in DOMAIN v : m[x] = IF x < o THEN x ELSE IF x >= c THEN x + d ELSE o
  BY DEF Moved
<1> HIDE DEF m
<1>6. ASSUME NEW x \in DOMAIN v
      PROVE  /\ m[x] \in DOMAIN w /\ w[m[x]].kind = v[x].kind /\ w[m[x]].name = v[x].name
             /\ Depth(w, m[x]) = Depth(v, x) /\ m[x] \in Nat /\ x \in Nat
  <2>0. x \in Nat
    BY <1>1
  <2>1. CASE x < o
    <3>1. m[x] = x
      BY <1>5, <2>1
    <3>2. Depth(w, x) = Depth(v, x)
      BY <1>1, <1>4, <2>0, <2>1
    <3> QED BY <1>3, <2>0, <2>1, <3>1, <3>2
  <2>2. CASE x >= c
    <3>1. m[x] = x + d
      BY <1>1, <1>2, <1>5, <2>0, <2>2
    <3> QED BY <1>1, <1>3, <1>4, <2>0, <2>2, <3>1
  <2>3. CASE ~(x < o) /\ ~(x >= c)
    <3>1. x = o /\ o < c /\ m[x] = o
      BY <1>1, <1>2, <1>5, <2>0, <2>3
    <3>2. Depth(w, o) = Depth(v, o)
      BY <1>1, <1>4
    <3> QED BY <1>1, <3>1, <3>2
  <2> QED BY <2>1, <2>2, <2>3
<1>7. \A x \in DOMAIN v : LevelOf(w, m[x]) = LevelOf(v, x)
  BY <1>6 DEF LevelOf
<1>8. ASSUME NEW x \in DOMAIN v, NEW y \in DOMAIN v PROVE x < y <=> m[x] < m[y]
  <2>1. x \in Nat /\ y \in Nat
    BY <1>1
  <2>2. /\ ~(x < o) /\ ~(x >= c) => x = o
        /\ ~(y < o) /\ ~(y >= c) => y = o
    BY <1>1, <1>2, <2>1
  <2> QED BY <1>1, <1>2, <1>5, <2>1, <2>2
<1> QED BY <1>6, <1>7, <1>8 DEF Embeds, m

-----------------------------------------------------------------------------
(* The three edits keep a tree. *)

Tree(v, a, z) ==
  Tiled(v, a, z) /\ Balanced(v, a, z) /\ PropsFirst(v) /\ NodesDiffer(v) /\ PropsDiffer(v)

\* The records of w are those of v and N.
Covers(v, w, m, N) == \A y \in DOMAIN w : y \in N \/ \E x \in DOMAIN v : y = m[x]

\* What is new in w is in no conflict with what the records of v keep.
NewPropsFirst(w, N) ==
  \A p \in Props(w), e \in NodeEnds(w) :
    (p \in N \/ e \in N) /\ e < p => \E b \in Begins(w) : b > e /\ b < p /\ LevelOf(w, b) = LevelOf(w, p)
NewNodesDiffer(w, N) ==
  \A b, c \in Begins(w) :
    (b \in N \/ c \in N) /\ b < c /\ LevelOf(w, b) = LevelOf(w, c) /\ w[b].name = w[c].name =>
      \E e \in NodeEnds(w) : e > b /\ e < c /\ LevelOf(w, e) < LevelOf(w, b)
NewPropsDiffer(w, N) ==
  \A p, q \in Props(w) :
    (p \in N \/ q \in N) /\ p < q /\ LevelOf(w, p) = LevelOf(w, q) /\ w[p].name = w[q].name =>
      \E e \in NodeEnds(w) : e > p /\ e < q /\ LevelOf(w, e) <= LevelOf(w, p)

LEMMA KindsCarried ==
  ASSUME NEW v, NEW w, NEW m, Embeds(v, w, m), NEW x \in DOMAIN v
  PROVE  /\ x \in Begins(v) <=> m[x] \in Begins(w)
         /\ x \in NodeEnds(v) <=> m[x] \in NodeEnds(w)
         /\ x \in Props(v) <=> m[x] \in Props(w)
         /\ w[m[x]].name = v[x].name /\ LevelOf(w, m[x]) = LevelOf(v, x)
         /\ \A y \in DOMAIN v : x < y <=> m[x] < m[y]
  BY DEF Embeds, Begins, NodeEnds, Props

LEMMA CarryPropsFirst ==
  ASSUME NEW v, NEW w, NEW m, NEW N, Embeds(v, w, m), Covers(v, w, m, N), PropsFirst(v),
         DOMAIN w \subseteq Nat, DOMAIN v \subseteq Nat, NewPropsFirst(w, N)
  PROVE  PropsFirst(w)
<1> SUFFICES ASSUME NEW p \in Props(w), NEW e \in NodeEnds(w), e < p, p \notin N, e \notin N
             PROVE  \E b \in Begins(w) : b > e /\ b < p /\ LevelOf(w, b) = LevelOf(w, p)
  BY Zenon DEF PropsFirst, NewPropsFirst
<1>1. p \in DOMAIN w /\ e \in DOMAIN w
  BY DEF Props, NodeEnds
<1>2. PICK x \in DOMAIN v : p = m[x]
  BY <1>1 DEF Covers
<1>3. PICK y \in DOMAIN v : e = m[y]
  BY <1>1 DEF Covers
<1>4. x \in Props(v) /\ y \in NodeEnds(v) /\ y < x /\ LevelOf(w, p) = LevelOf(v, x)
  BY <1>2, <1>3, KindsCarried
<1>5. PICK b \in Begins(v) : b > y /\ b < x /\ LevelOf(v, b) = LevelOf(v, x)
  BY <1>4 DEF PropsFirst
<1>6. b \in DOMAIN v /\ b \in Nat /\ y \in Nat /\ y < b
  BY <1>5 DEF Begins
<1>7. m[b] \in Begins(w) /\ m[y] < m[b] /\ m[b] < m[x] /\ LevelOf(w, m[b]) = LevelOf(v, b)
  BY <1>5, <1>6, KindsCarried
<1>8. m[b] \in Nat /\ m[y] \in Nat
  BY <1>1, <1>3, <1>7 DEF Begins
<1>9. m[b] > e
  BY <1>3, <1>7, <1>8
<1> QED BY <1>2, <1>4, <1>5, <1>7, <1>9

LEMMA CarryNodesDiffer ==
  ASSUME NEW v, NEW w, NEW m, NEW N, Embeds(v, w, m), Covers(v, w, m, N), NodesDiffer(v),
         DOMAIN w \subseteq Nat, DOMAIN v \subseteq Nat, NewNodesDiffer(w, N)
  PROVE  NodesDiffer(w)
<1> SUFFICES ASSUME NEW b \in Begins(w), NEW c \in Begins(w), b \notin N, c \notin N,
                    b < c, LevelOf(w, b) = LevelOf(w, c), w[b].name = w[c].name
             PROVE  \E e \in NodeEnds(w) : e > b /\ e < c /\ LevelOf(w, e) < LevelOf(w, b)
  BY Zenon DEF NodesDiffer, NewNodesDiffer
<1>1. b \in DOMAIN w /\ c \in DOMAIN w
  BY DEF Begins
<1>2. PICK x \in DOMAIN v : b = m[x]
  BY <1>1 DEF Covers
<1>3. PICK y \in DOMAIN v : c = m[y]
  BY <1>1 DEF Covers
<1>4. /\ x \in Begins(v) /\ y \in Begins(v) /\ x < y /\ LevelOf(w, b) = LevelOf(v, x)
      /\ LevelOf(w, c) = LevelOf(v, y) /\ w[b].name = v[x].name /\ w[c].name = v[y].name
  BY <1>2, <1>3, KindsCarried
<1>5. PICK e \in NodeEnds(v) : e > x /\ e < y /\ LevelOf(v, e) < LevelOf(v, x)
  BY <1>4 DEF NodesDiffer
<1>6. e \in DOMAIN v /\ e \in Nat /\ x \in Nat /\ x < e
  BY <1>5 DEF NodeEnds
<1>7. m[e] \in NodeEnds(w) /\ m[x] < m[e] /\ m[e] < m[y] /\ LevelOf(w, m[e]) = LevelOf(v, e)
  BY <1>5, <1>6, KindsCarried
<1>8. m[e] \in Nat /\ m[x] \in Nat
  BY <1>1, <1>2, <1>7 DEF NodeEnds
<1>9. m[e] > b
  BY <1>2, <1>7, <1>8
<1> QED BY <1>3, <1>4, <1>5, <1>7, <1>9

LEMMA CarryPropsDiffer ==
  ASSUME NEW v, NEW w, NEW m, NEW N, Embeds(v, w, m), Covers(v, w, m, N), PropsDiffer(v),
         DOMAIN w \subseteq Nat, DOMAIN v \subseteq Nat, NewPropsDiffer(w, N)
  PROVE  PropsDiffer(w)
<1> SUFFICES ASSUME NEW b \in Props(w), NEW c \in Props(w), b \notin N, c \notin N,
                    b < c, LevelOf(w, b) = LevelOf(w, c), w[b].name = w[c].name
             PROVE  \E e \in NodeEnds(w) : e > b /\ e < c /\ LevelOf(w, e) <= LevelOf(w, b)
  BY Zenon DEF PropsDiffer, NewPropsDiffer
<1>1. b \in DOMAIN w /\ c \in DOMAIN w
  BY DEF Props
<1>2. PICK x \in DOMAIN v : b = m[x]
  BY <1>1 DEF Covers
<1>3. PICK y \in DOMAIN v : c = m[y]
  BY <1>1 DEF Covers
<1>4. /\ x \in Props(v) /\ y \in Props(v) /\ x < y /\ LevelOf(w, b) = LevelOf(v, x)
      /\ LevelOf(w, c) = LevelOf(v, y) /\ w[b].name = v[x].name /\ w[c].name = v[y].name
  BY <1>2, <1>3, KindsCarried
<1>5. PICK e \in NodeEnds(v) : e > x /\ e < y /\ LevelOf(v, e) <= LevelOf(v, x)
  BY <1>4 DEF PropsDiffer
<1>6. e \in DOMAIN v /\ e \in Nat /\ x \in Nat /\ x < e
  BY <1>5 DEF NodeEnds
<1>7. m[e] \in NodeEnds(w) /\ m[x] < m[e] /\ m[e] < m[y] /\ LevelOf(w, m[e]) = LevelOf(v, e)
  BY <1>5, <1>6, KindsCarried
<1>8. m[e] \in Nat /\ m[x] \in Nat
  BY <1>1, <1>2, <1>7 DEF NodeEnds
<1>9. m[e] > b
  BY <1>2, <1>7, <1>8
<1> QED BY <1>3, <1>4, <1>5, <1>7, <1>9

\* An edit keeps the tree if what is new in it fits.
LEMMA EditKeepsTree ==
  ASSUME NEW v, NEW a, NEW z, Tree(v, a, z), NEW o, NEW c, NEW d, Spliceable(v, a, o, c, d),
         NEW w, NEW N, Edited(v, w, o, c, d, N), NewTiles(w, o, c, d, N),
         Depth(w, c + d) = Depth(w, o),
         o < c => w[o].kind = v[o].kind /\ w[o].name = v[o].name,
         NEW M, \A y \in N : y \in M \/ (o < c /\ y = o),
         \A y \in M : w[y].kind # "end" => LevelOf(w, y) >= 1,
         NewPropsFirst(w, M), NewNodesDiffer(w, M), NewPropsDiffer(w, M)
  PROVE  Tree(w, a, z + d)
<1> DEFINE m == Moved(v, o, c, d)
<1>1. Tiled(v, a, z) /\ Balanced(v, a, z) /\ PropsFirst(v) /\ NodesDiffer(v) /\ PropsDiffer(v)
  BY DEF Tree
<1>2. Tiled(w, a, z + d)
  BY <1>1, EditTiled
<1>3. /\ DOMAIN w \subseteq Nat /\ DOMAIN v \subseteq Nat
      /\ o \in Nat /\ c \in Nat /\ d \in Int /\ c + d \in Nat /\ a \in Nat /\ z \in Nat
      /\ z - 4 \in DOMAIN v /\ z - 4 >= c /\ z + d \in Nat
  BY <1>1, EditTyped
<1>4. o \in DOMAIN w /\ o \in DOMAIN v /\ a < o /\ a \in DOMAIN v /\ o <= c
  BY <1>1 DEF NewTiles, Edited, Spliceable, Tiled
<1>5. Embeds(v, w, m)
  BY <1>1, <1>4, EditEmbeds
<1>6. \A x \in DOMAIN v : m[x] = IF x < o THEN x ELSE IF x >= c THEN x + d ELSE o
  BY DEF Moved
<1> HIDE DEF m
<1>7. ASSUME NEW y \in DOMAIN w PROVE y \in M \/ \E x \in DOMAIN v : y = m[x]
  <2>1. CASE y \in DOMAIN v /\ y < o
    BY <1>6, <2>1
  <2>2. CASE \E x \in DOMAIN v : x >= c /\ y = x + d
    BY <1>3, <1>4, <1>6, <2>2
  <2>3. CASE y \in N
    <3>1. CASE y \in M
      BY <3>1
    <3>2. CASE o < c /\ y = o
      <4>1. m[o] = o
        BY <1>3, <1>4, <1>6, <3>2
      <4> QED BY <1>4, <3>2, <4>1
    <3> QED BY <2>3, <3>1, <3>2
  <2> QED BY <2>1, <2>2, <2>3 DEF Edited
<1>8. Covers(v, w, m, M)
  BY <1>7 DEF Covers
<1>9. PropsFirst(w)
  BY <1>1, <1>3, <1>5, <1>8, CarryPropsFirst
<1>10. NodesDiffer(w)
  BY <1>1, <1>3, <1>5, <1>8, CarryNodesDiffer
<1>11. PropsDiffer(w)
  BY <1>1, <1>3, <1>5, <1>8, CarryPropsDiffer
<1>12. Balanced(w, a, z + d)
  <2>1. w[a].kind = "begin"
    BY <1>1, <1>4 DEF Edited, Balanced
  <2>2. ASSUME NEW y \in DOMAIN w, w[y].kind # "end" PROVE LevelOf(w, y) >= 1
    <3>1. CASE y \in M
      BY <2>2, <3>1
    <3>2. CASE \E x \in DOMAIN v : y = m[x]
      <4>1. PICK x \in DOMAIN v : y = m[x]
        BY <3>2
      <4>2. v[x].kind = w[y].kind /\ LevelOf(w, y) = LevelOf(v, x)
        BY <1>5, <4>1 DEF Embeds
      <4> QED BY <1>1, <2>2, <4>2 DEF Balanced
    <3> QED BY <1>7, <3>1, <3>2
  <2>3. LevelOf(w, (z + d) - 4) = 0
    <3>1. m[z - 4] = (z - 4) + d /\ (z - 4) + d = (z + d) - 4
      BY <1>3, <1>4, <1>6
    <3>2. LevelOf(w, m[z - 4]) = LevelOf(v, z - 4)
      BY <1>3, <1>5 DEF Embeds
    <3> QED BY <1>1, <3>1, <3>2 DEF Balanced
  <2> QED BY <2>1, <2>2, <2>3 DEF Balanced
<1> QED BY <1>2, <1>9, <1>10, <1>11, <1>12 DEF Tree

\* A property is replaced by one with the same name.
LEMMA ReplaceKeepsTree ==
  ASSUME NEW v, NEW a, NEW z, Tree(v, a, z), NEW o \in Props(v), NEW w, NEW d \in Int,
         Edited(v, w, o, After(v, o), d, {o}), o < After(v, o) + d,
         w[o].kind = "prop", w[o].name = v[o].name, w[o].len \in Nat, o + w[o].len = After(v, o) + d
  PROVE  Tree(w, a, z + d)
<1> DEFINE c == After(v, o)
<1>1. Tiled(v, a, z) /\ Balanced(v, a, z)
  BY DEF Tree
<1>2. o \in DOMAIN v /\ v[o].kind = "prop" /\ a \in DOMAIN v /\ v[a].kind = "begin" /\ DOMAIN v \subseteq Nat
      /\ a <= o
  BY <1>1 DEF Props, Tiled, Balanced
<1>3. c \in DOMAIN v /\ c > o /\ o \in Nat /\ c \in Nat
      /\ \A q \in DOMAIN v : q < c => q <= o
  BY <1>1, <1>2, TiledAfter
<1> HIDE DEF c
<1>4. a < o
  BY <1>2, <1>3
<1>5. Spliceable(v, a, o, c, d)
  <2>1. \A x \in DOMAIN v : o <= x /\ x < c => x = o
    BY <1>2, <1>3
  <2>2. o < c + d
    BY DEF c
  <2> QED BY <1>2, <1>3, <1>4, <2>1, <2>2 DEF Spliceable
<1>6. Edited(v, w, o, c, d, {o})
  BY DEF c
<1>7. /\ DOMAIN w \subseteq Nat /\ c + d \in Nat
  BY <1>1, <1>5, <1>6, EditTyped
<1>8. NewTiles(w, o, c, d, {o})
  <2>1. w[o].len # 0 /\ o + w[o].len = c + d
    BY <1>3, <1>7 DEF c
  <2> QED BY <1>3, <2>1 DEF NewTiles
<1>9. Depth(w, c + d) = Depth(w, o)
  <2>1. ASSUME NEW x \in DOMAIN w, o <= x, x < c + d PROVE x = o
    <3>1. ~(x < o) /\ x \in Nat
      BY <1>3, <1>7, <2>1
    <3>2. CASE \E q \in DOMAIN v : q >= c /\ x = q + d
      BY <1>2, <1>3, <2>1, <3>1, <3>2
    <3> QED BY <1>6, <3>1, <3>2 DEF Edited
  <2>2. \A x \in Nat : o <= x /\ x < c + d => x \notin Begins(w) /\ x \notin NodeEnds(w)
    BY <2>1 DEF Begins, NodeEnds
  <2>3. o <= c + d
    BY <1>3, <1>5, <1>7 DEF Spliceable
  <2> QED BY <1>3, <1>7, <2>2, <2>3, DepthSame
<1>10. /\ \A y \in {o} : y \in {} \/ (o < c /\ y = o)
       /\ \A y \in {} : w[y].kind # "end" => LevelOf(w, y) >= 1
       /\ NewPropsFirst(w, {}) /\ NewNodesDiffer(w, {}) /\ NewPropsDiffer(w, {})
  BY <1>3 DEF NewPropsFirst, NewNodesDiffer, NewPropsDiffer
<1>11. o < c => w[o].kind = v[o].kind /\ w[o].name = v[o].name
  BY <1>2
<1> QED BY <1>5, <1>6, <1>8, <1>9, <1>10, <1>11, EditKeepsTree

LEMMA InsertPlaces ==
  ASSUME NEW v, NEW a, NEW z, Tiled(v, a, z), NEW o, NEW d, Spliceable(v, a, o, o, d),
         NEW w, NEW N, Edited(v, w, o, o, d, N), Depth(w, o + d) = Depth(w, o)
  PROVE  /\ \A x \in DOMAIN v : x < o => x \in DOMAIN w /\ w[x] = v[x] /\ LevelOf(w, x) = LevelOf(v, x)
         /\ \A x \in DOMAIN v : x >= o => /\ x + d \in DOMAIN w /\ w[x + d] = v[x]
                                          /\ LevelOf(w, x + d) = LevelOf(v, x)
         /\ Depth(w, o) = Depth(v, o)
         /\ \A x \in DOMAIN w : x < o => x \in DOMAIN v
         /\ \A x \in DOMAIN w : x > o => x \in N \/ \E q \in DOMAIN v : q >= o /\ x = q + d
         /\ o \in Nat /\ d \in Nat \ {0} /\ a < o
         /\ \A x \in DOMAIN v : x \in Nat /\ LevelOf(v, x) \in Int
         /\ \A x \in DOMAIN w : x \in Nat /\ LevelOf(w, x) \in Int
<1>1. /\ DOMAIN w \subseteq Nat /\ DOMAIN v \subseteq Nat /\ o \in Nat /\ d \in Int
  BY EditTyped
<1>2. o < o + d /\ a < o
  BY DEF Spliceable
<1>3. /\ \A x \in Nat : x <= o => Depth(w, x) = Depth(v, x)
      /\ \A x \in Nat : x >= o => Depth(w, x + d) = Depth(v, x)
  BY EditDepth
<1>4. /\ \A x \in DOMAIN v : x < o => x \in DOMAIN w /\ w[x] = v[x]
      /\ \A x \in DOMAIN v : x >= o => x + d \in DOMAIN w /\ w[x + d] = v[x]
      /\ \A y \in N : y \in DOMAIN w /\ y \in Nat /\ o <= y /\ y < o + d
      /\ \A y \in DOMAIN w : \/ y \in DOMAIN v /\ y < o
                             \/ y \in N
                             \/ \E x \in DOMAIN v : x >= o /\ y = x + d
  BY DEF Edited
<1>5. ASSUME NEW x \in DOMAIN v, x < o PROVE LevelOf(w, x) = LevelOf(v, x)
  BY <1>1, <1>3, <1>4, <1>5 DEF LevelOf
<1>6. ASSUME NEW x \in DOMAIN v, x >= o PROVE LevelOf(w, x + d) = LevelOf(v, x)
  BY <1>1, <1>3, <1>4, <1>6 DEF LevelOf
<1>7. ASSUME NEW x \in DOMAIN w, x < o PROVE x \in DOMAIN v
  BY <1>1, <1>2, <1>4, <1>7
<1>8. ASSUME NEW x \in DOMAIN w, x > o PROVE x \in N \/ \E q \in DOMAIN v : q >= o /\ x = q + d
  BY <1>1, <1>4, <1>8
<1>9. \A x \in Nat : Depth(v, x) \in Int /\ Depth(w, x) \in Int
  BY <1>1, DepthTyped
<1>10. /\ \A x \in DOMAIN v : x \in Nat /\ LevelOf(v, x) \in Int
       /\ \A x \in DOMAIN w : x \in Nat /\ LevelOf(w, x) \in Int
  BY <1>1, <1>9 DEF LevelOf
<1> QED BY <1>1, <1>2, <1>3, <1>4, <1>5, <1>6, <1>7, <1>8, <1>10

\* A property that its node does not have is put in front of the children.
LEMMA InsertPropKeepsTree ==
  ASSUME NEW v, NEW a, NEW z, Tree(v, a, z), NEW b, NEW e, Span(v, b, e),
         NEW o, Front(v, b, e, o), NEW name, NoProp(v, b, e, name),
         NEW w, NEW d \in Nat \ {0}, Edited(v, w, o, o, d, {o}),
         w[o].kind = "prop", w[o].name = name, w[o].len = d
  PROVE  Tree(w, a, z + d)
<1>1. Tiled(v, a, z) /\ Balanced(v, a, z)
  BY DEF Tree
<1>2. /\ b \in DOMAIN v /\ b \in Nat /\ e \in DOMAIN v /\ e \in Nat /\ b < e
      /\ v[b].kind = "begin" /\ v[e].kind = "end_node" /\ b \in Begins(v) /\ e \in NodeEnds(v)
      /\ Depth(v, b) \in Nat /\ Depth(v, e) = Depth(v, b) + 1 /\ DOMAIN v \subseteq Nat
      /\ \A x \in DOMAIN v : x \in Nat /\ Depth(v, x) \in Int
  BY <1>1, SpanTyped DEF Span
<1>3. /\ o \in DOMAIN v /\ o \in Nat /\ b < o /\ o <= e /\ Depth(v, o) = Depth(v, b) + 1
      /\ \A x \in DOMAIN v : b < x /\ x < o => v[x].kind \in {"prop", "nop"}
  BY <1>2 DEF Front, Among
<1>4. a <= b /\ a \in Nat
  BY <1>1, <1>2 DEF Tiled
<1>5. Spliceable(v, a, o, o, d)
  <2>1. a < o /\ o <= o /\ o < o + d /\ d \in Int /\ \A x \in Nat : ~(o <= x /\ x < o)
    BY <1>2, <1>3, <1>4
  <2> QED BY <1>2, <1>3, <2>1 DEF Spliceable
<1>6. DOMAIN w \subseteq Nat
  BY <1>1, <1>5, EditTyped
<1>7. NewTiles(w, o, o, d, {o})
  BY <1>3 DEF NewTiles
<1>8. Depth(w, o + d) = Depth(w, o)
  <2>1. ASSUME NEW x \in DOMAIN w, o <= x, x < o + d PROVE x = o
    <3>1. ~(x < o) /\ x \in Nat
      BY <1>3, <1>6, <2>1
    <3>2. CASE \E q \in DOMAIN v : q >= o /\ x = q + d
      BY <1>2, <1>3, <2>1, <3>1, <3>2
    <3> QED BY <3>1, <3>2 DEF Edited
  <2>2. \A x \in Nat : o <= x /\ x < o + d => x \notin Begins(w) /\ x \notin NodeEnds(w)
    BY <2>1 DEF Begins, NodeEnds
  <2>3. o <= o + d /\ o + d \in Nat
    BY <1>3
  <2> QED BY <1>3, <1>6, <2>2, <2>3, DepthSame
<1>9. /\ \A x \in DOMAIN v : x < o => x \in DOMAIN w /\ w[x] = v[x] /\ LevelOf(w, x) = LevelOf(v, x)
      /\ \A x \in DOMAIN v : x >= o => /\ x + d \in DOMAIN w /\ w[x + d] = v[x]
                                       /\ LevelOf(w, x + d) = LevelOf(v, x)
      /\ Depth(w, o) = Depth(v, o)
      /\ \A x \in DOMAIN w : x < o => x \in DOMAIN v
      /\ \A x \in DOMAIN w : x > o => x \in {o} \/ \E q \in DOMAIN v : q >= o /\ x = q + d
      /\ \A x \in DOMAIN w : x \in Nat /\ LevelOf(w, x) \in Int
  BY <1>1, <1>5, <1>8, InsertPlaces
<1> DEFINE l == Depth(v, b) + 1
<1>10. LevelOf(w, o) = l /\ l >= 1 /\ l \in Nat
  BY <1>2, <1>3, <1>9 DEF LevelOf
<1>11. LevelOf(v, b) = l /\ LevelOf(v, e) = l
  BY <1>2 DEF LevelOf
<1> HIDE DEF l
<1>12. NewPropsFirst(w, {o})
  <2> SUFFICES ASSUME NEW p \in Props(w), NEW f \in NodeEnds(w), p = o \/ f = o, f < p
               PROVE  \E g \in Begins(w) : g > f /\ g < p /\ LevelOf(w, g) = LevelOf(w, p)
    BY DEF NewPropsFirst
  <2>1. p = o /\ f \in DOMAIN w /\ w[f].kind = "end_node"
    BY DEF NodeEnds
  <2>2. f \in DOMAIN v /\ v[f].kind = "end_node" /\ f \in Nat
    BY <1>2, <1>9, <2>1
  <2>3. f < b
    BY <1>2, <1>3, <2>1, <2>2
  <2>4. b \in Begins(w) /\ LevelOf(w, b) = l
    BY <1>2, <1>3, <1>9, <1>11 DEF Begins
  <2> QED BY <1>2, <1>3, <1>10, <2>1, <2>2, <2>3, <2>4
<1>13. NewNodesDiffer(w, {o})
  BY DEF NewNodesDiffer, Begins
<1>14. NewPropsDiffer(w, {o})
  <2> SUFFICES ASSUME NEW p \in Props(w), NEW q \in Props(w), p = o \/ q = o, p < q,
                      LevelOf(w, p) = LevelOf(w, q), w[p].name = w[q].name
               PROVE  \E f \in NodeEnds(w) : f > p /\ f < q /\ LevelOf(w, f) <= LevelOf(w, p)
    BY DEF NewPropsDiffer
  <2>1. /\ p \in DOMAIN w /\ q \in DOMAIN w /\ w[p].kind = "prop" /\ w[q].kind = "prop"
        /\ p \in Nat /\ q \in Nat
    BY <1>6 DEF Props
  <2>2. CASE p = o
    <3>1. PICK x \in DOMAIN v : x >= o /\ q = x + d
      BY <1>9, <2>1, <2>2
    <3>2. x \in Nat /\ v[x].kind = "prop" /\ LevelOf(v, x) = l /\ v[x].name = name
      BY <1>2, <1>9, <1>10, <2>1, <2>2, <3>1
    <3>3. x \in Props(v) /\ Depth(v, x) = l
      BY <1>2, <3>2 DEF LevelOf, Props
    <3>4. ~(x < e) /\ x # e
      BY <1>2, <1>3, <3>1, <3>2, <3>3 DEF NoProp, l
    <3>5. e + d \in NodeEnds(w) /\ LevelOf(w, e + d) = l
      BY <1>2, <1>3, <1>9, <1>11 DEF NodeEnds
    <3>6. e + d > o /\ e + d < q
      BY <1>2, <1>3, <3>1, <3>2, <3>4
    <3> QED BY <1>10, <2>2, <3>5, <3>6
  <2>3. CASE q = o
    <3>1. p \in DOMAIN v /\ p < o /\ w[p] = v[p] /\ LevelOf(w, p) = LevelOf(v, p)
      BY <1>9, <2>1, <2>3
    <3>2. p \in Props(v) /\ Depth(v, p) = l /\ v[p].name = name /\ p # b
      BY <1>2, <1>10, <2>1, <2>3, <3>1 DEF Props, LevelOf
    <3>3. p < b
      BY <1>2, <1>3, <2>1, <3>1, <3>2 DEF NoProp, l
    <3>4. PICK f \in NodeEnds(v) : p <= f /\ f < b /\ Depth(v, f) = l
      <4>1. Depth(v, p) >= l /\ Depth(v, b) < l /\ p <= b /\ l \in Int
        BY <1>2, <1>10, <2>1, <3>2, <3>3 DEF l
      <4> QED BY <1>2, <2>1, <4>1, Drops
    <3>5. f \in DOMAIN v /\ v[f].kind = "end_node" /\ f \in Nat /\ LevelOf(v, f) = l
      BY <1>2, <3>4 DEF NodeEnds, LevelOf
    <3>6. f > p /\ f < o
      BY <1>2, <1>3, <2>1, <3>1, <3>4, <3>5
    <3>7. f \in NodeEnds(w) /\ LevelOf(w, f) = l
      BY <1>9, <3>5, <3>6 DEF NodeEnds
    <3> QED BY <1>10, <2>3, <3>6, <3>7
  <2> QED BY <2>2, <2>3
<1>15. /\ \A y \in {o} : y \in {o} \/ (o < o /\ y = o)
       /\ \A y \in {o} : w[y].kind # "end" => LevelOf(w, y) >= 1
  BY <1>10
<1>16. o < o => w[o].kind = v[o].kind /\ w[o].name = v[o].name
  BY <1>3
<1> QED BY <1>5, <1>7, <1>8, <1>12, <1>13, <1>14, <1>15, <1>16, EditKeepsTree

\* A child that its node does not have is put behind the others.
LEMMA InsertNodeKeepsTree ==
  ASSUME NEW v, NEW a, NEW z, Tree(v, a, z), NEW b, NEW e, Span(v, b, e),
         NEW name, NoChild(v, b, e, name),
         NEW w, NEW k \in Nat \ {0}, Edited(v, w, e, e, k + 4, {e, e + k}),
         w[e].kind = "begin", w[e].name = name, w[e].len = k,
         w[e + k].kind = "end_node", w[e + k].len = 4
  PROVE  Tree(w, a, z + (k + 4)) /\ Span(w, e, e + k)
<1> DEFINE d == k + 4
           f == e + k
<1>1. Tiled(v, a, z) /\ Balanced(v, a, z) /\ PropsFirst(v)
  BY DEF Tree
<1>2. /\ b \in DOMAIN v /\ b \in Nat /\ e \in DOMAIN v /\ e \in Nat /\ b < e
      /\ v[b].kind = "begin" /\ v[e].kind = "end_node" /\ b \in Begins(v) /\ e \in NodeEnds(v)
      /\ Depth(v, b) \in Nat /\ Depth(v, e) = Depth(v, b) + 1 /\ DOMAIN v \subseteq Nat
      /\ \A x \in DOMAIN v : x \in Nat /\ Depth(v, x) \in Int
  BY <1>1, SpanTyped DEF Span
<1>3. a <= b /\ a \in Nat
  BY <1>1, <1>2 DEF Tiled
<1>4. Edited(v, w, e, e, d, {e, f}) /\ w[f].kind = "end_node" /\ w[f].len = 4
  OBVIOUS
<1>5. d \in Nat /\ f \in Nat /\ f > e /\ f + 4 = e + d /\ f = e + k /\ e + d > f
  BY <1>2
<1> HIDE DEF d, f
<1>6. Spliceable(v, a, e, e, d)
  <2>1. a < e /\ e <= e /\ e < e + d /\ d \in Int /\ \A x \in Nat : ~(e <= x /\ x < e)
    BY <1>2, <1>3, <1>5
  <2> QED BY <1>2, <2>1 DEF Spliceable
<1>7. DOMAIN w \subseteq Nat
  BY <1>1, <1>4, <1>6, EditTyped
<1>8. NewTiles(w, e, e, d, {e, f})
  <2>1. e + w[e].len = f /\ f + w[f].len = e + d
    BY <1>4, <1>5
  <2>2. \A x, y \in {e, f} : y > x => y >= x + w[x].len
    BY <1>2, <1>5, <2>1
  <2> QED BY <1>4, <2>1, <2>2 DEF NewTiles
<1>9. Tiled(w, a, z + d)
  BY <1>1, <1>4, <1>6, <1>8, EditTiled
<1>10. e \in DOMAIN w /\ f \in DOMAIN w /\ After(w, e) = f /\ After(w, f) = e + d
  BY <1>4, <1>5 DEF Edited, After
<1>11. \A x \in Nat : Depth(w, x) \in Int
  BY <1>7, DepthTyped
<1>12. Depth(w, f) = Depth(w, e) + 1
  BY <1>9, <1>10, DepthAfter
<1>13. Depth(w, e + d) = Depth(w, f) - 1
  <2>1. w[f].kind # "end"
    BY <1>4
  <2>2. Depth(w, After(w, f)) = Depth(w, f) + IF w[f].kind = "begin" THEN 1
                                ELSE IF w[f].kind = "end_node" THEN -1 ELSE 0
    BY <1>9, <1>10, <2>1, DepthAfter
  <2> QED BY <1>4, <1>5, <1>10, <1>11, <2>2
<1>14. Depth(w, e + d) = Depth(w, e)
  BY <1>2, <1>5, <1>11, <1>12, <1>13
<1>15. /\ \A x \in DOMAIN v : x < e => x \in DOMAIN w /\ w[x] = v[x] /\ LevelOf(w, x) = LevelOf(v, x)
       /\ \A x \in DOMAIN v : x >= e => /\ x + d \in DOMAIN w /\ w[x + d] = v[x]
                                        /\ LevelOf(w, x + d) = LevelOf(v, x)
       /\ Depth(w, e) = Depth(v, e)
       /\ \A x \in DOMAIN w : x < e => x \in DOMAIN v
       /\ \A x \in DOMAIN w : x > e => x \in {e, f} \/ \E q \in DOMAIN v : q >= e /\ x = q + d
       /\ \A x \in DOMAIN w : x \in Nat /\ LevelOf(w, x) \in Int
  BY <1>1, <1>4, <1>6, <1>14, InsertPlaces
<1> DEFINE l == Depth(v, b) + 2
<1>16. LevelOf(w, e) = l /\ LevelOf(w, f) = l /\ l >= 1 /\ l \in Nat
  BY <1>2, <1>4, <1>12, <1>15 DEF LevelOf
<1>17. LevelOf(v, b) = l - 1 /\ LevelOf(v, e) = l - 1
  BY <1>2 DEF LevelOf
<1>18. e + d \in NodeEnds(w) /\ LevelOf(w, e + d) = l - 1
  BY <1>2, <1>15, <1>17 DEF NodeEnds
<1> HIDE DEF l
<1>19. NewPropsFirst(w, {e, f})
  <2> SUFFICES ASSUME NEW p \in Props(w), NEW g \in NodeEnds(w), p \in {e, f} \/ g \in {e, f}, g < p
               PROVE  \E h \in Begins(w) : h > g /\ h < p /\ LevelOf(w, h) = LevelOf(w, p)
    BY DEF NewPropsFirst
  <2>1. g = f /\ p \in DOMAIN w /\ w[p].kind = "prop" /\ p > e /\ p # f /\ p \in Nat
    BY <1>2, <1>4, <1>5, <1>7 DEF NodeEnds, Props
  <2>2. PICK x \in DOMAIN v : x >= e /\ p = x + d
    BY <1>2, <1>15, <2>1
  <2>3. x \in Nat /\ v[x].kind = "prop" /\ LevelOf(w, p) = LevelOf(v, x) /\ x # e /\ x \in Props(v)
    BY <1>2, <1>15, <2>1, <2>2 DEF Props
  <2>4. PICK h \in Begins(v) : h > e /\ h < x /\ LevelOf(v, h) = LevelOf(v, x)
    <3>1. e < x
      BY <1>2, <2>2, <2>3
    <3> QED BY <1>1, <1>2, <2>3, <3>1 DEF PropsFirst
  <2>5. h \in DOMAIN v /\ v[h].kind = "begin" /\ h \in Nat
    BY <1>2 DEF Begins
  <2>6. h + d \in Begins(w) /\ LevelOf(w, h + d) = LevelOf(v, h)
    BY <1>2, <1>15, <2>4, <2>5 DEF Begins
  <2>7. h + d > f /\ h + d < p
    BY <1>2, <1>5, <2>2, <2>3, <2>4, <2>5
  <2> QED BY <2>1, <2>3, <2>4, <2>6, <2>7
<1>20. NewPropsDiffer(w, {e, f})
  BY <1>4 DEF NewPropsDiffer, Props
<1>21. NewNodesDiffer(w, {e, f})
  <2> SUFFICES ASSUME NEW p \in Begins(w), NEW q \in Begins(w), p \in {e, f} \/ q \in {e, f}, p < q,
                      LevelOf(w, p) = LevelOf(w, q), w[p].name = w[q].name
               PROVE  \E g \in NodeEnds(w) : g > p /\ g < q /\ LevelOf(w, g) < LevelOf(w, p)
    BY DEF NewNodesDiffer
  <2>1. /\ p \in DOMAIN w /\ q \in DOMAIN w /\ w[p].kind = "begin" /\ w[q].kind = "begin"
        /\ p \in Nat /\ q \in Nat /\ p # f /\ q # f
    BY <1>4, <1>7 DEF Begins
  <2>2. CASE p = e
    <3>1. PICK x \in DOMAIN v : x >= e /\ q = x + d
      BY <1>15, <2>1, <2>2
    <3>2. x \in Nat /\ v[x].kind = "begin" /\ x # e
      BY <1>2, <1>15, <2>1, <3>1
    <3>3. e + d > e /\ e + d < q
      BY <1>2, <1>5, <3>1, <3>2
    <3>4. l - 1 < l
      BY <1>16
    <3> QED BY <1>16, <1>18, <2>2, <3>3, <3>4
  <2>3. CASE q = e
    <3>1. p \in DOMAIN v /\ p < e /\ w[p] = v[p] /\ LevelOf(w, p) = LevelOf(v, p)
      BY <1>15, <2>1, <2>3
    <3>2. /\ p \in Begins(v) /\ LevelOf(v, p) = l /\ Depth(v, p) = l - 1 /\ v[p].name = name
          /\ LevelOf(v, p) = LevelOf(v, b) + 1
      BY <1>2, <1>16, <1>17, <2>1, <2>3, <3>1 DEF Begins, LevelOf
    <3>3. p # b
      BY <1>16, <1>17, <3>2
    <3>4. p < b
      BY <1>2, <2>1, <3>1, <3>2, <3>3 DEF NoChild
    <3>5. Depth(v, p + 1) = Depth(v, p) + 1
      BY <1>2, <2>1, <3>2, DepthStep
    <3>6. PICK g \in NodeEnds(v) : p + 1 <= g /\ g < b /\ Depth(v, g) = l - 1
      <4>1. Depth(v, p + 1) >= l - 1 /\ Depth(v, b) < l - 1 /\ p + 1 <= b /\ l - 1 \in Int /\ p + 1 \in Nat
        BY <1>2, <1>16, <2>1, <3>2, <3>4, <3>5 DEF l
      <4> QED BY <1>2, <4>1, Drops
    <3>7. g \in DOMAIN v /\ v[g].kind = "end_node" /\ g \in Nat /\ LevelOf(v, g) = l - 1
      BY <1>2, <1>16, <3>6 DEF NodeEnds, LevelOf
    <3>8. g > p /\ g < e
      BY <1>2, <2>1, <3>6, <3>7
    <3>9. g \in NodeEnds(w) /\ LevelOf(w, g) = l - 1
      BY <1>15, <3>7, <3>8 DEF NodeEnds
    <3>10. l - 1 < l
      BY <1>16
    <3> QED BY <1>16, <2>3, <3>1, <3>2, <3>8, <3>9, <3>10
  <2> QED BY <2>1, <2>2, <2>3
<1>22. /\ \A y \in {e, f} : y \in {e, f} \/ (e < e /\ y = e)
       /\ \A y \in {e, f} : w[y].kind # "end" => LevelOf(w, y) >= 1
  BY <1>16
<1>23. e < e => w[e].kind = v[e].kind /\ w[e].name = v[e].name
  BY <1>2
<1>24. Tree(w, a, z + d)
  BY <1>4, <1>6, <1>8, <1>14, <1>19, <1>20, <1>21, <1>22, <1>23, EditKeepsTree
<1>25. Span(w, e, f)
  <2>1. e \in Begins(w) /\ f \in NodeEnds(w) /\ e < f
    BY <1>2, <1>4, <1>5, <1>10 DEF Begins, NodeEnds
  <2>2. ASSUME NEW x \in DOMAIN w, e < x, x <= f PROVE x = f
    <3>1. x \in Nat /\ x > e /\ x # e
      BY <1>2, <1>7, <2>2
    <3>2. ~ \E q \in DOMAIN v : q >= e /\ x = q + d
      BY <1>2, <1>5, <2>2, <3>1
    <3> QED BY <1>15, <3>1, <3>2
  <2>3. \A x \in DOMAIN w : e < x /\ x <= f => Depth(w, x) >= Depth(w, e) + 1
    <3>1. Depth(w, f) >= Depth(w, e) + 1
      BY <1>2, <1>5, <1>11, <1>12
    <3> QED BY <2>2, <3>1
  <2> QED BY <1>12, <2>1, <2>3 DEF Span
<1> QED BY <1>24, <1>25 DEF d, f

-----------------------------------------------------------------------------
(* Splices of a sound blob. *)

\* Every record is in one of the two blocks.
NothingElse == InStruct \cup InStrings = DOMAIN blob

\* A splice moves the records behind it.
Shifts(o, c, d, new) ==
  /\ header'.off_dt_struct = header.off_dt_struct
  /\ StructEnd(header)' = StructEnd(header) + d
  /\ header'.off_dt_strings = header.off_dt_strings + d
  /\ header'.size_dt_strings = header.size_dt_strings
  /\ \A x \in InStruct : x < o => x \in InStruct' /\ blob'[x] = blob[x]
  /\ \A x \in InStruct : x >= c => x + d \in InStruct' /\ blob'[x + d] = blob[x]
  /\ \A y \in InStruct' : \/ y \in InStruct /\ y < o
                          \/ y \in DOMAIN new
                          \/ \E x \in InStruct : x >= c /\ y = x + d
  /\ \A y \in DOMAIN new : y \in InStruct' /\ blob'[y] = new[y] /\ y \in Nat /\ o <= y /\ y < c + d
  /\ \A x \in InStrings : x + d \in InStrings' /\ blob'[x + d] = blob[x]
  /\ \A y \in InStrings' : \E x \in InStrings : y = x + d

LEMMA SpliceShifts ==
  ASSUME Readable, Taken, NothingElse,
         NEW o \in Nat, NEW old_len \in Nat, NEW new_len \in Nat \ {0},
         SpliceError(o, old_len, new_len) = "none",
         NEW new, \A x \in DOMAIN new : x \in Nat /\ o <= x /\ x < o + new_len,
         blob' = Spliced(o, old_len, new_len, new),
         header' = SplicedHeader(old_len, new_len)
  PROVE  Shifts(o, o + old_len, new_len - old_len, new) /\ NothingElse'
<1> DEFINE d == new_len - old_len
           c == o + old_len
           a == header.off_dt_struct
           z == StructEnd(header)
           s == header.off_dt_strings
           t == StringsEnd(header)
           moved == {x \in DOMAIN blob : x >= c /\ x < t}
           kept == {x \in DOMAIN blob : x < o}
<1>1. a \in Nat /\ z \in Nat /\ s \in Nat /\ t \in Nat /\ z <= s /\ s <= t /\ a <= z /\ z = StructEnd(header)
  BY HeaderTyped DEF StructEnd, StringsEnd, Taken
<1>2. o >= a /\ c <= z
  BY <1>1 DEF SpliceError
<1>3. /\ header'.off_dt_struct = a /\ StructEnd(header)' = z + d
      /\ header'.off_dt_strings = s + d /\ StringsEnd(header)' = t + d
      /\ header'.size_dt_strings = header.size_dt_strings
  <2>1. /\ header'.size_dt_struct = header.size_dt_struct + new_len - old_len
        /\ header'.off_dt_strings = header.off_dt_strings + new_len - old_len
        /\ header'.size_dt_strings = header.size_dt_strings
        /\ header'.off_dt_struct = header.off_dt_struct
    BY DEF SplicedHeader, Readable, IsHeader
  <2>2. header.size_dt_struct \in Nat /\ header.size_dt_strings \in Nat
    BY HeaderTyped
  <2> QED BY <1>1, <2>1, <2>2 DEF StructEnd, StringsEnd
<1>4. /\ DOMAIN blob' = kept \cup DOMAIN new \cup {x + d : x \in moved}
      /\ \A x \in DOMAIN blob' :
           blob'[x] = IF x \in kept THEN blob[x] ELSE IF x \in DOMAIN new THEN new[x]
                      ELSE blob[x - d]
  BY DEF Spliced, used_blob_end_offset
<1>5. /\ c \in Nat /\ d \in Int /\ c + d = o + new_len /\ o < c + d /\ o <= c
  OBVIOUS
<1>6. DOMAIN blob \subseteq Nat
  BY DEF Readable
<1>7. /\ \A x : x \in kept <=> x \in DOMAIN blob /\ x < o
      /\ \A x : x \in moved <=> x \in DOMAIN blob /\ x >= c /\ x < t
  OBVIOUS
<1>8. /\ \A x : x \in InStruct <=> x \in DOMAIN blob /\ x >= a /\ x < z
      /\ \A x : x \in InStrings <=> x \in DOMAIN blob /\ x >= s /\ x < t
      /\ \A x : x \in InStruct' <=> x \in DOMAIN blob' /\ x >= a /\ x < z + d
      /\ \A x : x \in InStrings' <=> x \in DOMAIN blob' /\ x >= s + d /\ x < t + d
  BY <1>3 DEF InStruct, InStrings
<1>9. \A x \in DOMAIN blob : x \in InStruct \/ x \in InStrings
  BY DEF NothingElse
<1>10. \A x \in DOMAIN new : x \in Nat /\ o <= x /\ x < c + d
  BY <1>5
<1>11. Shifts(o, c, d, new) <=>
  /\ header'.off_dt_struct = header.off_dt_struct
  /\ StructEnd(header)' = StructEnd(header) + d
  /\ header'.off_dt_strings = header.off_dt_strings + d
  /\ header'.size_dt_strings = header.size_dt_strings
  /\ \A x \in InStruct : x < o => x \in InStruct' /\ blob'[x] = blob[x]
  /\ \A x \in InStruct : x >= c => x + d \in InStruct' /\ blob'[x + d] = blob[x]
  /\ \A y \in InStruct' : \/ y \in InStruct /\ y < o
                          \/ y \in DOMAIN new
                          \/ \E x \in InStruct : x >= c /\ y = x + d
  /\ \A y \in DOMAIN new : y \in InStruct' /\ blob'[y] = new[y] /\ y \in Nat /\ o <= y /\ y < c + d
  /\ \A x \in InStrings : x + d \in InStrings' /\ blob'[x + d] = blob[x]
  /\ \A y \in InStrings' : \E x \in InStrings : y = x + d
  BY DEF Shifts
<1> HIDE DEF a, z, s, t, c, d, kept, moved
<1>12. ASSUME NEW x \in DOMAIN blob, x < o
       PROVE  x \in DOMAIN blob' /\ blob'[x] = blob[x]
  BY <1>4, <1>7, <1>12
<1>13. ASSUME NEW x \in DOMAIN new
       PROVE  x \in DOMAIN blob' /\ blob'[x] = new[x]
  <2>1. x \notin kept
    BY <1>7, <1>10
  <2> QED BY <1>4, <2>1
<1>14. ASSUME NEW x \in DOMAIN blob, x >= c, x < t
       PROVE  x + d \in DOMAIN blob' /\ blob'[x + d] = blob[x]
  <2>1. x \in moved /\ x \in Nat
    BY <1>6, <1>7, <1>14
  <2>2. x + d \in DOMAIN blob'
    BY <1>4, <2>1
  <2>3. x + d \notin kept /\ x + d \notin DOMAIN new /\ (x + d) - d = x
    BY <1>5, <1>7, <1>10, <1>14, <2>1
  <2> QED BY <1>4, <2>2, <2>3
<1>15. ASSUME NEW y \in DOMAIN blob'
       PROVE  \/ y \in DOMAIN blob /\ y < o
              \/ y \in DOMAIN new
              \/ \E x \in DOMAIN blob : x >= c /\ x < t /\ y = x + d
  BY <1>4, <1>7
<1>16. ASSUME NEW x \in InStruct, x < o PROVE x \in InStruct' /\ blob'[x] = blob[x]
  <2>1. x \in DOMAIN blob /\ x >= a /\ x \in Nat
    BY <1>6, <1>8
  <2>2. x < z + d
    BY <1>1, <1>2, <1>5, <1>16, <2>1
  <2> QED BY <1>8, <1>12, <1>16, <2>1, <2>2
<1>17. ASSUME NEW x \in InStruct, x >= c PROVE x + d \in InStruct' /\ blob'[x + d] = blob[x]
  <2>1. x \in DOMAIN blob /\ x < z /\ x \in Nat
    BY <1>6, <1>8
  <2>2. x + d >= a /\ x + d < z + d /\ x < t
    BY <1>1, <1>2, <1>5, <1>17, <2>1
  <2> QED BY <1>8, <1>14, <1>17, <2>1, <2>2
<1>18. ASSUME NEW x \in InStrings PROVE x + d \in InStrings' /\ blob'[x + d] = blob[x]
  <2>1. x \in DOMAIN blob /\ x >= s /\ x < t /\ x \in Nat
    BY <1>6, <1>8
  <2>2. x + d >= s + d /\ x + d < t + d /\ x >= c
    BY <1>1, <1>2, <1>5, <2>1
  <2> QED BY <1>8, <1>14, <2>1, <2>2
<1>19. ASSUME NEW y \in DOMAIN new
       PROVE  y \in InStruct' /\ blob'[y] = new[y] /\ y \in Nat /\ o <= y /\ y < c + d
  <2>1. y \in Nat /\ o <= y /\ y < c + d
    BY <1>10
  <2>2. y >= a /\ y < z + d
    BY <1>1, <1>2, <1>5, <2>1
  <2> QED BY <1>8, <1>13, <2>1, <2>2
<1>20. ASSUME NEW y \in DOMAIN blob'
       PROVE  \/ y \in InStruct /\ y < o
              \/ y \in DOMAIN new
              \/ \E x \in InStruct : x >= c /\ y = x + d
              \/ \E x \in InStrings : y = x + d
  <2>1. CASE y \in DOMAIN blob /\ y < o
    <3>1. y \notin InStrings
      BY <1>1, <1>2, <1>5, <1>6, <1>8, <2>1
    <3> QED BY <1>9, <2>1, <3>1
  <2>2. CASE \E x \in DOMAIN blob : x >= c /\ x < t /\ y = x + d
    BY <1>9, <2>2, Zenon
  <2> QED BY <1>15, <2>1, <2>2
<1>21. ASSUME NEW y \in InStruct'
       PROVE  \/ y \in InStruct /\ y < o
              \/ y \in DOMAIN new
              \/ \E x \in InStruct : x >= c /\ y = x + d
  <2>1. y \in DOMAIN blob' /\ y < z + d
    BY <1>8
  <2>2. ~ \E x \in InStrings : y = x + d
    <3>1. \A x \in InStrings : x \in Nat /\ x >= s
      BY <1>6, <1>8
    <3> QED BY <1>1, <1>5, <2>1, <3>1
  <2> QED BY <1>20, <2>1, <2>2
<1>22. ASSUME NEW y \in InStrings' PROVE \E x \in InStrings : y = x + d
  <2>1. y \in DOMAIN blob' /\ y >= s + d
    BY <1>8
  <2>2. ASSUME y \in InStruct, y < o PROVE FALSE
    BY <1>1, <1>2, <1>5, <1>6, <1>8, <2>1, <2>2
  <2>3. ASSUME y \in DOMAIN new PROVE FALSE
    <3>1. y \in Nat /\ y < c + d
      BY <1>10, <2>3
    <3> QED BY <1>1, <1>2, <1>5, <2>1, <3>1
  <2>4. ASSUME NEW x \in InStruct, y = x + d PROVE FALSE
    <3>1. x \in Nat /\ x < z
      BY <1>6, <1>8
    <3> QED BY <1>1, <1>5, <2>1, <2>4, <3>1
  <2> QED BY <1>20, <2>1, <2>2, <2>3, <2>4
<1>23. Shifts(o, c, d, new)
  BY <1>3, <1>11, <1>16, <1>17, <1>18, <1>19, <1>21, <1>22 DEF a, z, s
<1>24. NothingElse'
  <2>1. \A y \in DOMAIN blob' : y \in InStruct' \/ y \in InStrings'
    BY <1>16, <1>17, <1>18, <1>19, <1>20
  <2>2. \A y : y \in InStruct' \/ y \in InStrings' => y \in DOMAIN blob'
    BY <1>8
  <2> QED BY <2>1, <2>2 DEF NothingElse
<1> QED BY <1>23, <1>24 DEF c, d

LEMMA StringsShift ==
  ASSUME Readable, NEW o, NEW c, NEW d \in Int, NEW new, Shifts(o, c, d, new)
  PROVE  \A x : string_at(x)' = string_at(x)
<1> DEFINE s == header.off_dt_strings
           n == header.size_dt_strings
<1>1. s \in Nat /\ n \in Nat /\ DOMAIN blob \subseteq Nat
  BY HeaderTyped DEF Readable
<1>2. /\ header'.off_dt_strings = s + d /\ header'.size_dt_strings = n
      /\ \A x \in InStrings : x + d \in InStrings' /\ blob'[x + d] = blob[x]
      /\ \A y \in InStrings' : \E x \in InStrings : y = x + d
  BY DEF Shifts
<1>3. /\ \A x : x \in InStrings <=> x \in DOMAIN blob /\ x >= s /\ x < s + n
      /\ \A x : x \in InStrings' <=> x \in DOMAIN blob' /\ x >= s + d /\ x < (s + d) + n
  BY <1>2 DEF InStrings, StringsEnd
<1>4. /\ \A x : string_at(x) = IF x \in 0..(n - 1) /\ s + x \in DOMAIN blob THEN blob[s + x] ELSE Junk
      /\ \A x : string_at(x)' = IF x \in 0..(n - 1) /\ (s + d) + x \in DOMAIN blob'
                                THEN blob'[(s + d) + x] ELSE Junk
  BY <1>2 DEF string_at, Junk
<1> HIDE DEF s, n
<1>5. ASSUME NEW x \in 0..(n - 1)
      PROVE  /\ s + x \in DOMAIN blob <=> (s + d) + x \in DOMAIN blob'
             /\ s + x \in DOMAIN blob => blob'[(s + d) + x] = blob[s + x]
  <2>1. x \in Nat /\ x < n /\ (s + d) + x = (s + x) + d
    BY <1>1
  <2>2. s + x >= s /\ s + x < s + n /\ (s + d) + x >= s + d /\ (s + d) + x < (s + d) + n
    BY <1>1, <2>1
  <2>3. (s + x \in InStrings <=> s + x \in DOMAIN blob)
        /\ ((s + d) + x \in InStrings' <=> (s + d) + x \in DOMAIN blob')
    BY <1>3, <2>2
  <2>4. (s + d) + x \in InStrings' => s + x \in InStrings
    <3> SUFFICES ASSUME (s + d) + x \in InStrings' PROVE s + x \in InStrings
      OBVIOUS
    <3>1. PICK y \in InStrings : (s + d) + x = y + d
      BY <1>2
    <3>2. y \in Nat
      BY <1>1, <1>3
    <3>3. y = s + x
      BY <1>1, <2>1, <3>1, <3>2
    <3> QED BY <3>3
  <2> QED BY <1>2, <2>1, <2>3, <2>4
<1> QED BY <1>4, <1>5

LEMMA ViewShifts ==
  ASSUME Readable, NEW o, NEW c, NEW d \in Int, NEW new, Shifts(o, c, d, new)
  PROVE  /\ Edited(View, View', o, c, d, DOMAIN new)
         /\ \A y \in DOMAIN new :
              /\ y \in DOMAIN View' /\ View'[y].kind = new[y].kind
              /\ View'[y].len = RecordLength(new[y])
              /\ new[y].kind = "begin" => View'[y].name = new[y].name
              /\ new[y].kind = "prop" => View'[y].name = string_at(new[y].nameoff).name
<1>1. \A x : string_at(x)' = string_at(x)
  BY StringsShift
<1> DEFINE E(r) ==
             [kind |-> r.kind, len |-> RecordLength(r),
              name |-> IF r.kind = "begin" THEN r.name
                       ELSE IF r.kind = "prop" THEN string_at(r.nameoff).name ELSE ""]
<1>2. DOMAIN View = InStruct /\ \A x \in InStruct : View[x] = E(blob[x])
  BY DEF View, Rec, NameOf
<1>3. DOMAIN View' = InStruct' /\ \A x \in InStruct' : View'[x] = E(blob'[x])
  <2>1. DOMAIN View' = InStruct' /\ \A x \in InStruct' : View'[x] = Rec(x)'
    BY DEF View
  <2>2. ASSUME NEW x \in InStruct' PROVE Rec(x)' = E(blob'[x])
    <3>1. NameOf(x)' = string_at(blob'[x].nameoff).name
      <4>1. PICK n : n = blob'[x].nameoff
        OBVIOUS
      <4>2. string_at(n)' = string_at(n)
        BY <1>1
      <4>3. NameOf(x)' = string_at(n)'.name
        BY <4>1 DEF NameOf, string_at
      <4> QED BY <4>1, <4>2, <4>3
    <3> QED BY <3>1 DEF Rec
  <2> QED BY <2>1, <2>2
<1>4. /\ \A x \in InStruct : x < o => x \in InStruct' /\ blob'[x] = blob[x]
      /\ \A x \in InStruct : x >= c => x + d \in InStruct' /\ blob'[x + d] = blob[x]
      /\ \A y \in InStruct' : \/ y \in InStruct /\ y < o
                              \/ y \in DOMAIN new
                              \/ \E x \in InStruct : x >= c /\ y = x + d
      /\ \A y \in DOMAIN new : y \in InStruct' /\ blob'[y] = new[y] /\ y \in Nat /\ o <= y /\ y < c + d
  BY DEF Shifts
<1> HIDE DEF E
<1>5. /\ \A x \in DOMAIN View : x < o => x \in DOMAIN View' /\ View'[x] = View[x]
      /\ \A x \in DOMAIN View : x >= c => x + d \in DOMAIN View' /\ View'[x + d] = View[x]
  BY <1>2, <1>3, <1>4
<1>6. Edited(View, View', o, c, d, DOMAIN new)
  <2>1. \A y \in DOMAIN View' : \/ y \in DOMAIN View /\ y < o
                                \/ y \in DOMAIN new
                                \/ \E x \in DOMAIN View : x >= c /\ y = x + d
    BY <1>2, <1>3, <1>4
  <2>2. \A y \in DOMAIN new : y \in DOMAIN View' /\ y \in Nat /\ o <= y /\ y < c + d
    BY <1>3, <1>4
  <2> QED BY <1>5, <2>1, <2>2, Zenon DEF Edited
<1>7. ASSUME NEW y \in DOMAIN new PROVE y \in DOMAIN View' /\ View'[y] = E(new[y])
  BY <1>3, <1>4
<1>8. \A r : /\ E(r).kind = r.kind /\ E(r).len = RecordLength(r)
             /\ r.kind = "begin" => E(r).name = r.name
             /\ r.kind = "prop" => E(r).name = string_at(r.nameoff).name
  BY DEF E
<1> QED BY <1>6, <1>7, <1>8

LEMMA StringLength ==
  ASSUME Readable, StringsAreTiled, NEW x \in InStrings
  PROVE  RecordLength(blob[x]) \in Nat /\ x \in Nat /\ RecordLength(blob[x]) = LengthOf[blob[x].name] + 1
<1>1. x \in DOMAIN blob /\ x \in Nat /\ IsRecord(blob[x]) /\ blob[x].kind = "string"
  BY DEF Readable, InStrings, StringsAreTiled
<1>2. LengthOf[blob[x].name] \in Nat
  BY <1>1, HeaderAssumption DEF IsRecord
<1>3. RecordLength(blob[x]) = LengthOf[blob[x].name] + 1
  BY <1>1 DEF RecordLength
<1> QED BY <1>1, <1>2, <1>3

LEMMA StringsStayTiled ==
  ASSUME Readable, StringsAreTiled, NEW o, NEW c, NEW d \in Int, NEW new, Shifts(o, c, d, new)
  PROVE  StringsAreTiled'
<1> DEFINE s == header.off_dt_strings
           t == StringsEnd(header)
           W == WholeStrings
           X == WholeStrings'
           L(x) == RecordLength(blob[x])
           M(x) == RecordLength(blob'[x])
<1>1. s \in Nat /\ t \in Nat
  BY HeaderTyped DEF StringsEnd
<1>2. header'.off_dt_strings = s + d /\ StringsEnd(header)' = t + d
  <2>1. header'.off_dt_strings = s + d /\ header'.size_dt_strings = header.size_dt_strings
    BY DEF Shifts
  <2> QED BY <2>1, HeaderTyped DEF StringsEnd
<1>3. \A x \in InStrings : L(x) \in Nat /\ x \in Nat
  BY StringLength
<1>4. /\ \A x \in InStrings : x + d \in InStrings' /\ blob'[x + d] = blob[x]
      /\ \A y \in InStrings' : \E x \in InStrings : y = x + d
  BY DEF Shifts
<1>5. \A x \in InStrings : M(x + d) = L(x)
  BY <1>4
<1>6. /\ \A x : x \in W <=> x \in InStrings /\ \A q \in InStrings : q < x => q + L(q) <= x
      /\ \A x : x \in X <=> x \in InStrings' /\ \A q \in InStrings' : q < x => q + M(q) <= x
  BY DEF WholeStrings
<1>7. /\ s \in W \cup {t}
      /\ \A x \in W : x + L(x) \in W \cup {t}
      /\ \A x, q \in W : q > x => q >= x + L(x)
      /\ \A x \in InStrings : blob[x].kind = "string" /\ x + L(x) <= t
  BY DEF StringsAreTiled, Tiles
<1>8. StringsAreTiled' <=>
      /\ s + d \in X \cup {t + d}
      /\ \A x \in X : x + M(x) \in X \cup {t + d}
      /\ \A x, q \in X : q > x => q >= x + M(x)
      /\ \A x \in InStrings' : blob'[x].kind = "string" /\ x + M(x) <= t + d
  BY <1>2 DEF StringsAreTiled, Tiles
<1> HIDE DEF s, t, W, X, L, M
<1>9. ASSUME NEW x \in InStrings PROVE x \in W <=> x + d \in X
  <2>1. ASSUME x \in W PROVE x + d \in X
    <3>1. ASSUME NEW q \in InStrings', q < x + d PROVE q + M(q) <= x + d
      <4>1. PICK p \in InStrings : q = p + d
        BY <1>4
      <4>2. p < x /\ p \in Nat /\ x \in Nat /\ L(p) \in Nat /\ M(q) = L(p)
        BY <1>3, <1>5, <3>1, <4>1
      <4>3. p + L(p) <= x
        BY <1>6, <2>1, <4>2
      <4> QED BY <4>1, <4>2, <4>3
    <3> QED BY <1>4, <1>6, <3>1
  <2>2. ASSUME x + d \in X PROVE x \in W
    <3>1. ASSUME NEW p \in InStrings, p < x PROVE p + L(p) <= x
      <4>1. p \in Nat /\ x \in Nat /\ L(p) \in Nat /\ M(p + d) = L(p) /\ p + d \in InStrings'
        BY <1>3, <1>4, <1>5
      <4>2. p + d < x + d
        BY <3>1, <4>1
      <4>3. (p + d) + M(p + d) <= x + d
        BY <1>6, <2>2, <4>1, <4>2
      <4> QED BY <4>1, <4>3
    <3> QED BY <1>6, <3>1
  <2> QED BY <2>1, <2>2
<1>10. W \subseteq InStrings /\ X \subseteq InStrings'
  BY <1>6
<1>11. s + d \in X \cup {t + d}
  BY <1>7, <1>9, <1>10
<1>12. ASSUME NEW y \in X
       PROVE  \E x \in W : y = x + d /\ M(y) = L(x) /\ x \in Nat /\ L(x) \in Nat
  <2>1. PICK x \in InStrings : y = x + d
    BY <1>4, <1>10
  <2> QED BY <1>3, <1>5, <1>9, <2>1
<1>13. ASSUME NEW y \in X PROVE y + M(y) \in X \cup {t + d}
  <2>1. PICK x \in W : y = x + d /\ M(y) = L(x) /\ x \in Nat /\ L(x) \in Nat
    BY <1>12
  <2>2. y + M(y) = (x + L(x)) + d
    BY <2>1
  <2>3. x + L(x) \in W \cup {t}
    BY <1>7
  <2> QED BY <1>9, <1>10, <2>2, <2>3
<1>14. ASSUME NEW y \in X, NEW q \in X, q > y PROVE q >= y + M(y)
  <2>1. PICK x \in W : y = x + d /\ M(y) = L(x) /\ x \in Nat /\ L(x) \in Nat
    BY <1>12
  <2>2. PICK p \in W : q = p + d /\ p \in Nat
    BY <1>12
  <2>3. p > x
    BY <1>14, <2>1, <2>2
  <2>4. p >= x + L(x)
    BY <1>7, <2>3
  <2> QED BY <2>1, <2>2, <2>4
<1>15. ASSUME NEW y \in InStrings' PROVE blob'[y].kind = "string" /\ y + M(y) <= t + d
  <2>1. PICK x \in InStrings : y = x + d
    BY <1>4
  <2>2. blob'[y] = blob[x] /\ M(y) = L(x) /\ x \in Nat /\ L(x) \in Nat
    BY <1>3, <1>4, <1>5, <2>1
  <2>3. blob[x].kind = "string" /\ x + L(x) <= t
    BY <1>7
  <2> QED BY <1>1, <2>1, <2>2, <2>3
<1> QED BY <1>8, <1>11, <1>13, <1>14, <1>15

LEMMA FourAgain ==
  ASSUME NEW x \in Int, NEW d \in Int, x % 4 = 0, d % 4 = 0
  PROVE  (x + d) % 4 = 0
  OBVIOUS

LEMMA ShiftsKeep ==
  ASSUME Readable, StructIsSound, StringsAreTiled, NEW o, NEW c, NEW d \in Int, d % 4 = 0,
         NEW new, Shifts(o, c, d, new),
         \A y \in DOMAIN new : /\ (y - header.off_dt_struct) % 4 = 0
                               /\ new[y].kind = "prop" => string_at(new[y].nameoff).kind = "string",
         Tree(View', header.off_dt_struct, StructEnd(header) + d)
  PROVE  StructIsSound' /\ StringsAreTiled'
<1> DEFINE a == header.off_dt_struct
<1>1. a \in Nat /\ DOMAIN blob \subseteq Nat /\ InStruct \subseteq Nat
  BY HeaderTyped DEF Readable, InStruct
<1>2. /\ header'.off_dt_struct = a /\ StructEnd(header)' = StructEnd(header) + d
      /\ \A x \in InStruct : x < o => x \in InStruct' /\ blob'[x] = blob[x]
      /\ \A x \in InStruct : x >= c => x + d \in InStruct' /\ blob'[x + d] = blob[x]
      /\ \A y \in InStruct' : \/ y \in InStruct /\ y < o
                              \/ y \in DOMAIN new
                              \/ \E x \in InStruct : x >= c /\ y = x + d
      /\ \A y \in DOMAIN new : y \in InStruct' /\ blob'[y] = new[y] /\ y \in Nat
  BY DEF Shifts
<1>3. \A x \in InStruct : (x - a) % 4 = 0
  BY DEF StructIsSound, Words
<1>4. ASSUME NEW y \in InStruct' PROVE (y - a) % 4 = 0
  <2>1. CASE \E x \in InStruct : x >= c /\ y = x + d
    <3>1. PICK x \in InStruct : y = x + d
      BY <2>1
    <3>2. x - a \in Int /\ y - a = (x - a) + d
      BY <1>1, <3>1
    <3> QED BY <1>3, <3>2, FourAgain
  <2> QED BY <1>2, <1>3, <2>1
<1>5. Words(InStruct, header.off_dt_struct)'
  BY <1>2, <1>4 DEF Words
<1>6. \A x : string_at(x)' = string_at(x)
  BY StringsShift
<1>7. \A x \in InStruct : blob[x].kind = "prop" => string_at(blob[x].nameoff).kind = "string"
  BY DEF StructIsSound, NamesThere, OfKind
<1>8. ASSUME NEW y \in InStruct', blob'[y].kind = "prop"
      PROVE  string_at(blob'[y].nameoff).kind = "string"
  BY <1>2, <1>7, <1>8
<1>9. NamesThere'
  <2> SUFFICES ASSUME NEW p \in OfKind("prop")' PROVE (string_at(blob[p].nameoff).kind = "string")'
    BY DEF NamesThere
  <2>1. p \in InStruct' /\ blob'[p].kind = "prop"
    BY DEF OfKind
  <2>2. PICK n : n = blob'[p].nameoff
    OBVIOUS
  <2>3. string_at(n)'.kind = "string"
    BY <1>6, <1>8, <2>1, <2>2
  <2> QED BY <2>2, <2>3 DEF string_at
<1>10. StringsAreTiled'
  BY StringsStayTiled
<1>11. /\ Tiled(View, header.off_dt_struct, StructEnd(header))'
       /\ Balanced(View, header.off_dt_struct, StructEnd(header))'
       /\ PropsFirst(View)' /\ NodesDiffer(View)' /\ PropsDiffer(View)'
  <2>1. Tree(View, header.off_dt_struct, StructEnd(header))'
    BY <1>2
  <2> QED BY <2>1 DEF Tree
<1> QED BY <1>5, <1>9, <1>10, <1>11 DEF StructIsSound

SoundBlob == Readable /\ Taken /\ NothingElse /\ StructIsSound /\ StringsAreTiled

LEMMA SoundTree ==
  ASSUME SoundBlob
  PROVE  Tree(View, header.off_dt_struct, StructEnd(header))
  BY DEF SoundBlob, StructIsSound, Tree

\* insert_child_node keeps a blob sound, and returns the child.
LEMMA InsertChildSound ==
  ASSUME SoundBlob, Readable', Taken', IsSpan(node), NEW name \in DOMAIN LengthOf,
         find_child(node, name) = NoNode,
         SpliceError(InBlob(node.end), 0, NodeLength(name)) = "none",
         Splice(InBlob(node.end), 0, NodeLength(name), NewNode(node.end, name)),
         node' = [begin |-> node.end, end |-> node.end + NodeLength(name) - 4]
  PROVE  SoundBlob' /\ IsSpan(node)'
<1> DEFINE e == InBlob(node.end)
           b == InBlob(node.begin)
           a == header.off_dt_struct
           z == StructEnd(header)
           k == align4(4 + LengthOf[name] + 1)
           new == NewNode(node.end, name)
           v == View
           w == View'
<1>0. Readable /\ Taken /\ NothingElse /\ StructIsSound /\ StringsAreTiled
  BY DEF SoundBlob
<1>1. a \in Nat /\ z \in Nat
  BY <1>0, HeaderTyped DEF StructEnd
<1>2. node.end \in Nat /\ Span(v, b, e) /\ e = a + node.end /\ e \in Nat
  BY <1>1 DEF IsSpan, InBlob
<1>3. k \in Nat \ {0} /\ k % 4 = 0 /\ NodeLength(name) = k + 4
  <2> DEFINE n == 4 + LengthOf[name] + 1
  <2>1. n \in Nat /\ n >= 5
    BY HeaderAssumption
  <2>2. k = align4(n) /\ NodeLength(name) = align4(n) + 4
    BY DEF NodeLength
  <2> HIDE DEF n, k
  <2>3. align4(n) \in Nat /\ align4(n) >= n /\ align4(n) % 4 = 0
    BY <2>1, Aligned, AlignShift DEF align4
  <2> QED BY <2>1, <2>2, <2>3
<1>4. Tree(v, a, z)
  BY SoundTree
<1>5. NoChild(v, b, e, name)
  BY <1>0, FindChildIsExact
<1>6. /\ DOMAIN new = {e, e + k}
      /\ new[e] = BeginNode(name) /\ new[e + k] = EndNode
  <2>1. e + (k + 4) - 4 = e + k /\ e + k # e
    BY <1>2, <1>3
  <2>2. new = [x \in {e, e + NodeLength(name) - 4} |-> IF x = e THEN BeginNode(name) ELSE EndNode]
    BY DEF NewNode
  <2> HIDE DEF new, e, k
  <2>3. new = [x \in {e, e + k} |-> IF x = e THEN BeginNode(name) ELSE EndNode]
    BY <1>3, <2>1, <2>2
  <2> QED BY <2>1, <2>3
<1>7. /\ blob' = Spliced(e, 0, k + 4, new) /\ header' = SplicedHeader(0, k + 4)
      /\ SpliceError(e, 0, k + 4) = "none"
  BY <1>3 DEF Splice
<1>8. LengthOf[name] \in Nat /\ RecordLength(BeginNode(name)) = k /\ RecordLength(EndNode) = 4
  BY HeaderAssumption DEF RecordLength, BeginNode, EndNode
<1>9. node' = [begin |-> node.end, end |-> node.end + k]
  <2>1. node.end + (k + 4) - 4 = node.end + k
    BY <1>2, <1>3
  <2> QED BY <1>3, <2>1
<1> HIDE DEF e, b, a, z, k, new
<1>10. \A x \in DOMAIN new : x \in Nat /\ e <= x /\ x < e + (k + 4)
  BY <1>2, <1>3, <1>6
<1>11. Shifts(e, e, k + 4, new) /\ NothingElse'
  <2>1. e + 0 = e /\ (k + 4) - 0 = k + 4 /\ k + 4 \in Nat \ {0} /\ 0 \in Nat
    BY <1>2, <1>3
  <2>2. Shifts(e, e + 0, (k + 4) - 0, new) /\ NothingElse'
    BY <1>0, <1>2, <1>7, <1>10, <2>1, SpliceShifts
  <2> QED BY <2>1, <2>2
<1>12. k + 4 \in Int /\ (k + 4) % 4 = 0
  BY <1>3
<1>13. /\ Edited(v, w, e, e, k + 4, {e, e + k})
       /\ w[e].kind = "begin" /\ w[e].name = name /\ w[e].len = k
       /\ w[e + k].kind = "end_node" /\ w[e + k].len = 4
  <2>1. Edited(v, w, e, e, k + 4, DOMAIN new)
    BY <1>0, <1>11, <1>12, ViewShifts
  <2>2. /\ w[e].kind = new[e].kind /\ w[e].len = RecordLength(new[e])
        /\ new[e].kind = "begin" => w[e].name = new[e].name
    BY <1>0, <1>6, <1>11, <1>12, ViewShifts
  <2>3. w[e + k].kind = new[e + k].kind /\ w[e + k].len = RecordLength(new[e + k])
    BY <1>0, <1>6, <1>11, <1>12, ViewShifts
  <2>4. /\ BeginNode(name).kind = "begin" /\ BeginNode(name).name = name
        /\ EndNode.kind = "end_node"
    BY DEF BeginNode, EndNode
  <2> HIDE DEF v, w
  <2> QED BY <1>6, <1>8, <2>1, <2>2, <2>3, <2>4
<1>14. Tree(w, a, z + (k + 4)) /\ Span(w, e, e + k)
  <2> HIDE DEF v, w
  <2> QED BY <1>2, <1>3, <1>4, <1>5, <1>13, InsertNodeKeepsTree
<1>15. ASSUME NEW y \in DOMAIN new
       PROVE  /\ (y - a) % 4 = 0
              /\ new[y].kind = "prop" => string_at(new[y].nameoff).kind = "string"
  <2>1. new[y].kind # "prop"
    BY <1>6 DEF BeginNode, EndNode
  <2>2. e \in InStruct
    BY <1>2, ViewTyped DEF Span, NodeEnds
  <2>3. (e - a) % 4 = 0
    BY <1>0, <2>2 DEF StructIsSound, Words, a
  <2>4. ((e - a) + k) % 4 = 0 /\ (e + k) - a = (e - a) + k
    <3>1. e - a \in Int /\ (e + k) - a = (e - a) + k
      BY <1>1, <1>2, <1>3
    <3>2. ((e - a) + k) % 4 = 0
      BY <1>3, <2>3, <3>1, FourAgain
    <3> QED BY <3>1, <3>2
  <2> QED BY <1>6, <2>1, <2>3, <2>4
<1>16. StructIsSound' /\ StringsAreTiled'
  BY <1>0, <1>11, <1>12, <1>14, <1>15, ShiftsKeep DEF a, z
<1>17. SoundBlob'
  BY <1>11, <1>16 DEF SoundBlob
<1>18. IsSpan(node)'
  <2>1. header'.off_dt_struct = a
    BY <1>11 DEF Shifts, a
  <2>2. node'.begin = node.end /\ node'.end = node.end + k /\ node.end + k \in Nat
    BY <1>2, <1>3, <1>9
  <2>3. a + node.end = e /\ a + (node.end + k) = e + k
    BY <1>1, <1>2, <1>3
  <2>4. InBlob(node.begin)' = e /\ InBlob(node.end)' = e + k
    BY <2>1, <2>2, <2>3 DEF InBlob
  <2> QED BY <1>2, <1>14, <2>2, <2>4 DEF IsSpan
<1> QED BY <1>17, <1>18

LEMMA PropLength ==
  ASSUME NEW length \in Nat, NEW at, NEW value
  PROVE  /\ property_record_length(length) \in Nat \ {0} /\ property_record_length(length) % 4 = 0
         /\ RecordLength(Prop(length, at, value)) = property_record_length(length)
         /\ Prop(length, at, value).kind = "prop" /\ Prop(length, at, value).nameoff = at
<1>1. align4(length) \in Nat /\ align4(length) % 4 = 0
  BY Aligned, AlignShift DEF align4
<1> DEFINE n == align4(length)
<1>2. property_record_length(length) = 12 + n
  BY DEF property_record_length
<1> HIDE DEF n
<1>3. 12 + n \in Nat \ {0} /\ (12 + n) % 4 = 0
  BY <1>1 DEF n
<1>4. /\ Prop(length, at, value).kind = "prop" /\ Prop(length, at, value).nameoff = at
      /\ Prop(length, at, value).length = length
  BY DEF Prop
<1>5. RecordLength(Prop(length, at, value)) = property_record_length(length)
  BY <1>4 DEF RecordLength
<1> QED BY <1>2, <1>3, <1>4, <1>5

\* A property is written, and what the structure block then spells.
WritesProp(o, old_len, length, at, value) ==
  /\ SpliceError(o, old_len, property_record_length(length)) = "none"
  /\ Splice(o, old_len, property_record_length(length), [x \in {o} |-> Prop(length, at, value)])
PropIsWritten(o, old_len, n, at) ==
  /\ Edited(View, View', o, o + old_len, n - old_len, {o})
  /\ View'[o].kind = "prop" /\ View'[o].name = string_at(at).name /\ View'[o].len = n
  /\ Tree(View', header.off_dt_struct, StructEnd(header) + (n - old_len)) => SoundBlob'

\* The blob stays sound if the view with the new property is a tree.
LEMMA PropSpliced ==
  ASSUME SoundBlob, Readable', Taken', NEW o \in InStruct, NEW old_len \in Nat, old_len % 4 = 0,
         NEW length \in Nat, NEW value, NEW at, string_at(at).kind = "string",
         WritesProp(o, old_len, length, at, value)
  PROVE  PropIsWritten(o, old_len, property_record_length(length), at)
<1> DEFINE n == property_record_length(length)
           d == n - old_len
           new == [x \in {o} |-> Prop(length, at, value)]
<1>0. Readable /\ Taken /\ NothingElse /\ StructIsSound /\ StringsAreTiled
  BY DEF SoundBlob
<1>1. n \in Nat \ {0} /\ n % 4 = 0
  BY PropLength
<1>2. /\ Prop(length, at, value).kind = "prop" /\ Prop(length, at, value).nameoff = at
      /\ RecordLength(Prop(length, at, value)) = n
  BY PropLength
<1>3. DOMAIN new = {o} /\ new[o] = Prop(length, at, value)
  OBVIOUS
<1>4. /\ blob' = Spliced(o, old_len, n, new) /\ header' = SplicedHeader(old_len, n)
      /\ SpliceError(o, old_len, n) = "none"
  BY DEF WritesProp, Splice
<1>5. o \in Nat /\ (o - header.off_dt_struct) % 4 = 0
  BY <1>0 DEF Readable, InStruct, StructIsSound, Words
<1> HIDE DEF n, new
<1>6. d \in Int /\ d % 4 = 0
  BY <1>1
<1>7. \A x \in DOMAIN new : x \in Nat /\ o <= x /\ x < o + n
  BY <1>1, <1>3, <1>5
<1>8. Shifts(o, o + old_len, d, new) /\ NothingElse'
  BY <1>0, <1>1, <1>4, <1>5, <1>7, SpliceShifts
<1> HIDE DEF d
<1>9. Edited(View, View', o, o + old_len, d, {o})
  BY <1>0, <1>3, <1>6, <1>8, ViewShifts
<1>10. View'[o].kind = "prop" /\ View'[o].name = string_at(at).name /\ View'[o].len = n
  <2>1. /\ View'[o].kind = new[o].kind /\ View'[o].len = RecordLength(new[o])
        /\ new[o].kind = "prop" => View'[o].name = string_at(new[o].nameoff).name
    BY <1>0, <1>3, <1>6, <1>8, ViewShifts
  <2> QED BY <1>2, <1>3, <2>1
<1>11. ASSUME Tree(View', header.off_dt_struct, StructEnd(header) + d) PROVE SoundBlob'
  <2>1. \A y \in DOMAIN new :
          /\ (y - header.off_dt_struct) % 4 = 0
          /\ new[y].kind = "prop" => string_at(new[y].nameoff).kind = "string"
    BY <1>2, <1>3, <1>5
  <2>2. StructIsSound' /\ StringsAreTiled'
    BY <1>0, <1>6, <1>8, <1>11, <2>1, ShiftsKeep
  <2> QED BY <1>8, <2>2 DEF SoundBlob
<1>12. PropIsWritten(o, old_len, n, at)
  BY <1>9, <1>10, <1>11 DEF PropIsWritten, d
<1> QED BY <1>12 DEF n

\* set_property keeps a blob sound if the property's name is at nameoff.
LEMMA PropSound ==
  ASSUME SoundBlob, Readable', Taken', IsSpan(node), NEW name, NEW length \in Nat, NEW value,
         string_at(nameoff).kind = "string", string_at(nameoff).name = name,
         NEW offset, NEW old_len,
         LET existing == find_direct_property(node, name)
         IN /\ offset = IF existing = None THEN property_insertion_offset(node) ELSE existing
            /\ old_len = IF existing = None THEN 0
                         ELSE property_record_length(TokenAt(existing).length),
         SpliceError(InBlob(offset), old_len, property_record_length(length)) = "none",
         Splice(InBlob(offset), old_len, property_record_length(length),
                [x \in {InBlob(offset)} |-> Prop(length, nameoff, value)])
  PROVE  SoundBlob'
<1> DEFINE existing == find_direct_property(node, name)
           o == InBlob(offset)
           b == InBlob(node.begin)
           e == InBlob(node.end)
           a == header.off_dt_struct
           z == StructEnd(header)
           v == View
           w == View'
           n == property_record_length(length)
           d == n - old_len
<1>0. Readable /\ Taken /\ NothingElse /\ StructIsSound /\ StringsAreTiled
  BY DEF SoundBlob
<1>1. Tree(v, a, z) /\ Tiled(v, a, z) /\ Balanced(v, a, z)
  BY SoundTree DEF Tree
<1>2. Span(v, b, e)
  BY DEF IsSpan
<1>3. n \in Nat \ {0} /\ n % 4 = 0
  BY PropLength
<1>4. \/ existing = None /\ NoProp(v, b, e, name)
      \/ /\ existing \in Nat /\ InBlob(existing) \in Props(v) /\ v[InBlob(existing)].name = name
         /\ Front(v, b, e, InBlob(existing))
  BY <1>0, FindDirectIsExact
<1>5. WritesProp(o, old_len, length, nameoff, value)
  BY DEF WritesProp
<1>6. /\ offset = IF existing = None THEN property_insertion_offset(node) ELSE existing
      /\ old_len = IF existing = None THEN 0
                   ELSE property_record_length(TokenAt(existing).length)
  OBVIOUS
<1>7. DOMAIN v = InStruct
  BY ViewTyped
<1> HIDE DEF existing, b, e, a, z, v, w
<1>8. CASE existing = None /\ NoProp(v, b, e, name)
  <2>1. old_len = 0 /\ old_len \in Nat /\ old_len % 4 = 0 /\ offset = property_insertion_offset(node)
    BY <1>6, <1>8
  <2>2. Front(v, b, e, o)
    BY <1>0, <2>1, InsertionIsExact DEF v, b, e
  <2>3. o \in InStruct
    BY <1>7, <2>2 DEF Front, Among
  <2>4. o \in Nat
    BY <1>0, <2>3 DEF Readable, InStruct
  <2> HIDE DEF o
  <2>5. /\ Edited(v, w, o, o + old_len, d, {o}) /\ w[o].kind = "prop" /\ w[o].name = name
        /\ w[o].len = n
        /\ Tree(w, a, z + d) => SoundBlob'
    <3>1. PropIsWritten(o, old_len, n, nameoff)
      BY <1>5, <2>1, <2>3, PropSpliced, Zenon DEF n
    <3> QED BY <3>1 DEF PropIsWritten, v, w, a, z
  <2>6. o + old_len = o /\ d = n
    BY <1>3, <2>1, <2>4
  <2> HIDE DEF d, n
  <2>7. Tree(w, a, z + d)
    BY <1>1, <1>2, <1>3, <1>8, <2>2, <2>5, <2>6, InsertPropKeepsTree
  <2> QED BY <2>5, <2>7
<1>9. CASE /\ existing \in Nat /\ InBlob(existing) \in Props(v) /\ v[InBlob(existing)].name = name
  <2>1. existing # None
    BY <1>9 DEF None
  <2>2. offset = existing /\ old_len = property_record_length(TokenAt(offset).length)
    BY <1>6, <2>1
  <2>3. o \in Props(v) /\ v[o].name = name /\ offset \in Nat /\ o \in DOMAIN v /\ v[o].kind = "prop"
    BY <1>9, <2>2 DEF Props
  <2>4. old_len = v[o].len /\ InBlob(offset + old_len) = After(v, o)
    BY <1>0, <2>2, <2>3, ReaderStep DEF v
  <2>5. o \in InStruct /\ old_len \in Nat /\ old_len % 4 = 0
    <3>1. o \in InStruct /\ o \in DOMAIN blob /\ v[o].kind = blob[o].kind
          /\ v[o].len = RecordLength(blob[o])
      BY <2>3, ViewTyped DEF InStruct, v
    <3>2. IsRecord(blob[o]) /\ blob[o].kind # "string"
      BY <1>0, <2>3, <3>1 DEF Readable
    <3> QED BY <2>4, <3>1, <3>2, LengthTyped
  <2>6. o \in Nat
    BY <1>0, <2>5 DEF Readable, InStruct
  <2>7. After(v, o) = o + old_len
    BY <2>4 DEF After
  <2> HIDE DEF o
  <2>8. /\ Edited(v, w, o, o + old_len, d, {o}) /\ w[o].kind = "prop" /\ w[o].name = name
        /\ w[o].len = n
        /\ Tree(w, a, z + d) => SoundBlob'
    <3>1. PropIsWritten(o, old_len, n, nameoff)
      BY <1>5, <2>5, PropSpliced, Zenon DEF n
    <3> QED BY <3>1 DEF PropIsWritten, v, w, a, z
  <2>9. /\ o < (o + old_len) + d /\ o + n = (o + old_len) + d /\ d \in Int
    BY <1>3, <2>5, <2>6
  <2> HIDE DEF d, n
  <2>10. w[o].name = v[o].name /\ w[o].len \in Nat
    BY <1>3, <2>3, <2>8
  <2>11. Tree(w, a, z + d)
    BY <1>1, <2>3, <2>7, <2>8, <2>9, <2>10, ReplaceKeepsTree
  <2> QED BY <2>8, <2>11
<1> QED BY <1>4, <1>8, <1>9

-----------------------------------------------------------------------------
(* The other steps. *)

\* A string is appended: the structure block is as it was.
LEMMA AppendView ==
  ASSUME SoundBlob, NEW name \in DOMAIN LengthOf,
         blob' = [o \in DOMAIN blob \cup {used_blob_end_offset} |->
                    IF o = used_blob_end_offset THEN Str(name) ELSE blob[o]],
         header' = [header EXCEPT !.size_dt_strings = @ + LengthOf[name] + 1]
  PROVE  /\ InStruct' = InStruct /\ InStrings' = InStrings \cup {used_blob_end_offset}
         /\ \A x \in DOMAIN blob : x # used_blob_end_offset /\ x \in DOMAIN blob' /\ blob'[x] = blob[x]
         /\ used_blob_end_offset \in DOMAIN blob' /\ blob'[used_blob_end_offset] = Str(name)
         /\ header'.off_dt_struct = header.off_dt_struct /\ StructEnd(header)' = StructEnd(header)
         /\ header'.off_dt_strings = header.off_dt_strings
         /\ StringsEnd(header)' = used_blob_end_offset + (LengthOf[name] + 1)
         /\ \A x : string_at(x).kind = "string" => string_at(x)' = string_at(x)
         /\ \A x : x = header.size_dt_strings => string_at(x)' = Str(name)
         /\ NothingElse'
<1> DEFINE t == used_blob_end_offset
           n == LengthOf[name] + 1
           s == header.off_dt_strings
           m == header.size_dt_strings
           a == header.off_dt_struct
           z == StructEnd(header)
<1>0. Readable /\ Taken /\ NothingElse
  BY DEF SoundBlob
<1>1. /\ a \in Nat /\ z \in Nat /\ s \in Nat /\ m \in Nat /\ n \in Nat \ {0} /\ z <= s /\ t = s + m
      /\ t = StringsEnd(header)
      /\ a <= z /\ m + LengthOf[name] + 1 = m + n
  BY <1>0, HeaderTyped, HeaderAssumption DEF StructEnd, StringsEnd, Taken, used_blob_end_offset
<1>2. /\ header'.size_dt_strings = m + n /\ header'.off_dt_strings = s
      /\ header'.off_dt_struct = a /\ header'.size_dt_struct = header.size_dt_struct
  BY <1>0, <1>1 DEF Readable, IsHeader
<1>3. StructEnd(header)' = z /\ StringsEnd(header)' = t + n
  BY <1>1, <1>2 DEF StructEnd, StringsEnd
<1>4. /\ DOMAIN blob' = DOMAIN blob \cup {t}
      /\ \A x \in DOMAIN blob' : blob'[x] = IF x = t THEN Str(name) ELSE blob[x]
  OBVIOUS
<1>5. DOMAIN blob \subseteq Nat /\ InStruct \cup InStrings = DOMAIN blob
  BY <1>0 DEF Readable, NothingElse
<1>6. /\ \A x : x \in InStruct <=> x \in DOMAIN blob /\ x >= a /\ x < z
      /\ \A x : x \in InStrings <=> x \in DOMAIN blob /\ x >= s /\ x < t
      /\ \A x : x \in InStruct' <=> x \in DOMAIN blob' /\ x >= a /\ x < z
      /\ \A x : x \in InStrings' <=> x \in DOMAIN blob' /\ x >= s /\ x < t + n
  BY <1>1, <1>2, <1>3 DEF InStruct, InStrings
<1>7. /\ \A x : string_at(x) = IF x \in 0..(m - 1) /\ s + x \in DOMAIN blob THEN blob[s + x] ELSE Junk
      /\ \A x : string_at(x)' = IF x \in 0..((m + n) - 1) /\ s + x \in DOMAIN blob'
                                THEN blob'[s + x] ELSE Junk
  BY <1>2 DEF string_at, Junk
<1> HIDE DEF t, n, s, m, a, z
<1>8. ASSUME NEW x \in DOMAIN blob PROVE x # t /\ x \in DOMAIN blob' /\ blob'[x] = blob[x] /\ x < t /\ x \in Nat
  <2>1. x \in Nat /\ x < t
    BY <1>1, <1>5, <1>6
  <2>2. x # t
    BY <1>1, <2>1
  <2> QED BY <1>4, <2>1, <2>2
<1>9. t \in DOMAIN blob' /\ blob'[t] = Str(name) /\ t \in Nat
  <2>1. t \in Nat
    BY <1>1
  <2>2. t \in DOMAIN blob'
    BY <1>4, Zenon
  <2>3. blob'[t] = Str(name)
    BY <1>4, <2>2, Zenon
  <2> QED BY <2>1, <2>2, <2>3
<1>10. InStruct' = InStruct
  <2>1. ~(t < z)
    BY <1>1
  <2>2. \A x : x \in InStruct' <=> x \in InStruct
    BY <1>4, <1>6, <2>1
  <2> QED BY <2>2
<1>11. InStrings' = InStrings \cup {t}
  <2>1. t >= s /\ t < t + n /\ \A x \in DOMAIN blob : x < t + n
    BY <1>1, <1>8
  <2>2. \A x : x \in InStrings' <=> x \in InStrings \/ x = t
    BY <1>4, <1>6, <1>8, <2>1
  <2> QED BY <2>2
<1>12. ASSUME NEW x, string_at(x).kind = "string" PROVE string_at(x)' = string_at(x)
  <2>1. x \in 0..(m - 1) /\ s + x \in DOMAIN blob
    BY <1>7, <1>12 DEF Junk
  <2>2. x \in 0..((m + n) - 1)
    BY <1>1, <2>1
  <2> QED BY <1>7, <1>8, <2>1, <2>2
<1>13. ASSUME NEW x, x = m PROVE string_at(x)' = Str(name)
  <2>1. x \in 0..((m + n) - 1) /\ s + x = t
    BY <1>1, <1>13
  <2> QED BY <1>7, <1>9, <2>1
<1>14. NothingElse'
  BY <1>4, <1>5, <1>10, <1>11 DEF NothingElse
<1> QED BY <1>2, <1>3, <1>8, <1>9, <1>10, <1>11, <1>12, <1>13, <1>14 DEF t, n, s, m, a, z

LEMMA AppendStrings ==
  ASSUME SoundBlob, NEW name \in DOMAIN LengthOf,
         blob' = [o \in DOMAIN blob \cup {used_blob_end_offset} |->
                    IF o = used_blob_end_offset THEN Str(name) ELSE blob[o]],
         header' = [header EXCEPT !.size_dt_strings = @ + LengthOf[name] + 1]
  PROVE  StringsAreTiled'
<1> DEFINE t == used_blob_end_offset
           n == LengthOf[name] + 1
           s == header.off_dt_strings
           W == WholeStrings
           X == WholeStrings'
           L(x) == RecordLength(blob[x])
           M(x) == RecordLength(blob'[x])
<1>0. Readable /\ StringsAreTiled
  BY DEF SoundBlob
<1>1. /\ InStrings' = InStrings \cup {t}
      /\ \A x \in DOMAIN blob : x # t /\ blob'[x] = blob[x]
      /\ blob'[t] = Str(name)
      /\ header'.off_dt_strings = s /\ StringsEnd(header)' = t + n
  BY AppendView
<1>2. t \in Nat /\ n \in Nat \ {0} /\ s \in Nat /\ t = StringsEnd(header)
  BY <1>0, HeaderTyped, HeaderAssumption DEF StringsEnd, used_blob_end_offset
<1>3. \A x \in InStrings : L(x) \in Nat /\ x \in Nat /\ x < t
  BY <1>0, <1>2, StringLength DEF InStrings
<1>4. InStrings \subseteq DOMAIN blob
  BY DEF InStrings
<1>5. (\A x \in InStrings : M(x) = L(x)) /\ M(t) = n /\ Str(name).kind = "string"
  <2>1. RecordLength(Str(name)) = n
    BY DEF RecordLength, Str
  <2> QED BY <1>1, <1>4, <2>1 DEF Str
<1>6. /\ \A x : x \in W <=> x \in InStrings /\ \A q \in InStrings : q < x => q + L(q) <= x
      /\ \A x : x \in X <=> x \in InStrings' /\ \A q \in InStrings' : q < x => q + M(q) <= x
  BY DEF WholeStrings
<1>7. /\ s \in W \cup {t}
      /\ \A x \in W : x + L(x) \in W \cup {t}
      /\ \A x, q \in W : q > x => q >= x + L(x)
      /\ \A x \in InStrings : blob[x].kind = "string" /\ x + L(x) <= t
  BY <1>0, <1>2 DEF StringsAreTiled, Tiles
<1>8. StringsAreTiled' <=>
      /\ s \in X \cup {t + n}
      /\ \A x \in X : x + M(x) \in X \cup {t + n}
      /\ \A x, q \in X : q > x => q >= x + M(x)
      /\ \A x \in InStrings' : blob'[x].kind = "string" /\ x + M(x) <= t + n
  BY <1>1 DEF StringsAreTiled, Tiles
<1>9. \A x \in InStrings : blob'[x] = blob[x]
  BY <1>1, <1>4
<1>10. \A x : x \in InStrings' <=> x \in InStrings \/ x = t
  BY <1>1
<1>11. blob'[t].kind = "string"
  BY <1>1, <1>5
<1> HIDE DEF s, t, n, W, X, L, M
<1>12. t \in X
  <2>1. ASSUME NEW q \in InStrings', q < t PROVE q + M(q) <= t
    <3>1. q \in InStrings
      BY <1>2, <1>10, <2>1
    <3> QED BY <1>5, <1>7, <3>1
  <2> QED BY <1>6, <1>10, <2>1
<1>13. ASSUME NEW x \in InStrings PROVE x \in X <=> x \in W
  <2>1. ~(t < x)
    BY <1>2, <1>3
  <2> QED BY <1>5, <1>6, <1>10, <2>1
<1>14. \A x : x \in X <=> x \in W \/ x = t
  BY <1>6, <1>10, <1>12, <1>13
<1>15. \A x \in W : M(x) = L(x) /\ x \in Nat /\ x < t /\ L(x) \in Nat /\ x + L(x) <= t
  BY <1>3, <1>5, <1>6, <1>7
<1>16. ASSUME NEW x \in X, NEW q \in X, q > x PROVE q >= x + M(x)
  <2>1. CASE x = t
    BY <1>2, <1>14, <1>15, <1>16, <2>1
  <2>2. CASE x \in W /\ q = t
    BY <1>2, <1>15, <2>2
  <2>3. CASE x \in W /\ q \in W
    BY <1>7, <1>15, <1>16, <2>3
  <2> QED BY <1>14, <2>1, <2>2, <2>3
<1>17. ASSUME NEW x \in InStrings' PROVE blob'[x].kind = "string" /\ x + M(x) <= t + n
  <2>1. CASE x = t
    BY <1>2, <1>5, <1>11, <2>1
  <2>2. CASE x \in InStrings
    <3>1. x + L(x) <= t /\ L(x) \in Nat /\ x \in Nat /\ M(x) = L(x)
      BY <1>3, <1>5, <1>7, <2>2
    <3> QED BY <1>2, <1>7, <1>9, <2>2, <3>1
  <2> QED BY <1>10, <2>1, <2>2
<1>18. \A x \in X : x + M(x) \in X \cup {t + n}
  BY <1>5, <1>7, <1>14, <1>15
<1>19. s \in X \cup {t + n}
  BY <1>7, <1>14
<1> QED BY <1>8, <1>16, <1>17, <1>18, <1>19

\* What a step leaves of the structure block.
StructStays ==
  /\ View' = View /\ InStruct' = InStruct
  /\ header'.off_dt_struct = header.off_dt_struct /\ StructEnd(header)' = StructEnd(header)

LEMMA StructStaysSound ==
  ASSUME StructStays, StructIsSound, NamesThere'
  PROVE  StructIsSound'
<1>1. /\ Tiled(View, header.off_dt_struct, StructEnd(header))'
      /\ Balanced(View, header.off_dt_struct, StructEnd(header))'
      /\ PropsFirst(View)' /\ NodesDiffer(View)' /\ PropsDiffer(View)'
      /\ Words(InStruct, header.off_dt_struct)'
  BY DEF StructStays, StructIsSound
<1> QED BY <1>1 DEF StructIsSound

LEMMA AppendSound ==
  ASSUME SoundBlob, Readable', Taken', NEW name \in DOMAIN LengthOf,
         blob' = [o \in DOMAIN blob \cup {used_blob_end_offset} |->
                    IF o = used_blob_end_offset THEN Str(name) ELSE blob[o]],
         header' = [header EXCEPT !.size_dt_strings = @ + LengthOf[name] + 1]
  PROVE  SoundBlob' /\ StructStays /\ \A x : x = header.size_dt_strings => string_at(x)' = Str(name)
<1>0. Readable /\ StructIsSound
  BY DEF SoundBlob
<1>1. /\ InStruct' = InStruct
      /\ \A x \in DOMAIN blob : blob'[x] = blob[x]
      /\ header'.off_dt_struct = header.off_dt_struct /\ StructEnd(header)' = StructEnd(header)
      /\ \A x : string_at(x).kind = "string" => string_at(x)' = string_at(x)
      /\ \A x : x = header.size_dt_strings => string_at(x)' = Str(name)
      /\ NothingElse'
  BY AppendView
<1>2. \A x \in InStruct : x \in DOMAIN blob /\ blob'[x] = blob[x]
  BY <1>1 DEF InStruct
<1>3. ASSUME NEW p \in InStruct, blob[p].kind = "prop"
      PROVE  NameOf(p)' = NameOf(p) /\ (string_at(blob[p].nameoff).kind)' = "string"
  <2>1. PICK n : n = blob[p].nameoff
    OBVIOUS
  <2>2. string_at(n).kind = "string"
    BY <1>0, <1>3, <2>1 DEF StructIsSound, NamesThere, OfKind
  <2>3. string_at(n)' = string_at(n)
    BY <1>1, <2>2
  <2>4. n = blob'[p].nameoff
    BY <1>2, <2>1
  <2>5. NameOf(p)' = string_at(n)'.name /\ (string_at(blob[p].nameoff).kind)' = string_at(n)'.kind
    BY <2>4 DEF NameOf, string_at
  <2>6. NameOf(p) = string_at(n).name
    BY <2>1 DEF NameOf
  <2> QED BY <2>2, <2>3, <2>5, <2>6
<1>4. ASSUME NEW x \in InStruct PROVE Rec(x)' = Rec(x)
  BY <1>2, <1>3 DEF Rec
<1>5. View' = View
  BY <1>1, <1>4 DEF View
<1>6. NamesThere'
  BY <1>1, <1>2, <1>3 DEF NamesThere, OfKind
<1>7. StructStays
  BY <1>1, <1>5 DEF StructStays
<1>8. StructIsSound'
  BY <1>0, <1>6, <1>7, StructStaysSound
<1>9. StringsAreTiled'
  BY AppendStrings
<1> QED BY <1>1, <1>7, <1>8, <1>9 DEF SoundBlob

\* A step that leaves blob and blocks alone.
LEMMA SoundStays ==
  ASSUME blob' = blob, header'.off_dt_struct = header.off_dt_struct,
         header'.size_dt_struct = header.size_dt_struct,
         header'.off_dt_strings = header.off_dt_strings,
         header'.size_dt_strings = header.size_dt_strings,
         SoundBlob, Readable', Taken'
  PROVE  SoundBlob' /\ StructStays /\ \A x : string_at(x)' = string_at(x)
<1>1. /\ InStruct' = InStruct /\ InStrings' = InStrings
      /\ StructEnd(header)' = StructEnd(header) /\ StringsEnd(header)' = StringsEnd(header)
  BY DEF InStruct, InStrings, StructEnd, StringsEnd
<1>2. \A x : string_at(x)' = string_at(x)
  BY DEF string_at, Junk
<1>3. \A p : NameOf(p)' = NameOf(p) /\ (string_at(blob[p].nameoff).kind)' = string_at(blob[p].nameoff).kind
  BY DEF NameOf, string_at, Junk
<1>4. \A x : Rec(x)' = Rec(x)
  BY <1>3 DEF Rec
<1>5. View' = View
  BY <1>1, <1>4 DEF View
<1>6. NamesThere' /\ StringsAreTiled' /\ NothingElse'
  <2>1. NamesThere'
    BY <1>1, <1>3 DEF SoundBlob, StructIsSound, NamesThere, OfKind
  <2>2. StringsAreTiled'
    BY <1>1 DEF SoundBlob, StringsAreTiled, Tiles, WholeStrings
  <2> QED BY <1>1, <2>1, <2>2 DEF SoundBlob, NothingElse
<1>7. StructStays
  BY <1>1, <1>5 DEF StructStays
<1>8. StructIsSound'
  BY <1>6, <1>7, StructStaysSound DEF SoundBlob
<1> QED BY <1>2, <1>6, <1>7, <1>8 DEF SoundBlob

LEMMA SpanStays ==
  ASSUME StructStays, NEW n, IsSpan(n)
  PROVE  IsSpan(n)'
<1>1. InBlob(n.begin)' = InBlob(n.begin) /\ InBlob(n.end)' = InBlob(n.end)
  BY DEF StructStays, InBlob
<1> QED BY <1>1 DEF StructStays, IsSpan

-----------------------------------------------------------------------------
(* Soundness, as the runs check it. *)

LEMMA LevelIs ==
  ASSUME Readable
  PROVE  \A o \in InStruct : Level(o) = LevelOf(View, o)
<1> SUFFICES ASSUME NEW o \in InStruct PROVE Level(o) = LevelOf(View, o)
  OBVIOUS
<1> DEFINE B == Begins(View)
           E == NodeEnds(View)
<1>1. B = OfKind("begin") /\ E = OfKind("end_node") /\ (o \in B <=> View[o].kind = "begin")
  BY ViewTyped DEF Begins
<1>2. o \in Nat /\ InStruct \subseteq Nat
  BY DEF Readable, InStruct
<1>3. B \subseteq Nat /\ E \subseteq Nat
  BY <1>1, <1>2 DEF OfKind
<1> HIDE DEF B, E
<1>4. \A b \in B : b <= o <=> b < o + 1
  BY <1>2, <1>3
<1>5. {b \in B : b <= o} = {b \in B : b < o + 1}
  BY <1>4, Zenon
<1>6. Level(o) = Count(B, o + 1) - Count(E, o)
  BY <1>1, <1>5, Zenon DEF Level, Count
<1>7. /\ Count(B, o) \in Nat /\ Count(E, o) \in Nat
      /\ Count(B, o + 1) = Count(B, o) + IF o \in B THEN 1 ELSE 0
  BY <1>2, <1>3, CountTyped, CountStep, Zenon
<1>8. LevelOf(View, o) = (Count(B, o) - Count(E, o)) + IF View[o].kind = "begin" THEN 1 ELSE 0
  BY DEF LevelOf, Depth, B, E
<1> QED BY <1>1, <1>6, <1>7, <1>8

LEMMA TiledIs ==
  ASSUME Readable, header.off_dt_struct \in InStruct
  PROVE  RecordsAreTiled <=> /\ Tiled(View, header.off_dt_struct, StructEnd(header))
                             /\ Words(InStruct, header.off_dt_struct)
<1> DEFINE a == header.off_dt_struct
           z == StructEnd(header)
           v == View
<1>1. a \in Nat /\ z \in Nat /\ InStruct \subseteq Nat
  BY HeaderTyped DEF StructEnd, Readable, InStruct
<1>2. DOMAIN v = InStruct
  BY ViewTyped
<1>3. \A o \in InStruct : v[o].kind = blob[o].kind /\ v[o].len = RecordLength(blob[o])
  BY ViewTyped
<1>4. \A o \in InStruct : o >= a /\ o < z /\ IsRecord(blob[o])
  BY DEF Readable, InStruct
<1>5. /\ \A o : o \in OfKind("end") <=> o \in InStruct /\ blob[o].kind = "end"
      /\ a \in InStruct
  BY DEF OfKind
<1>6. RecordsAreTiled <=>
        /\ a \in InStruct \cup {z}
        /\ \A o \in InStruct : o + RecordLength(blob[o]) \in InStruct \cup {z}
        /\ \A o, q \in InStruct : q > o => q >= o + RecordLength(blob[o])
        /\ \A o \in InStruct :
             /\ blob[o].kind \in {"begin", "end_node", "prop", "nop", "end"}
             /\ (o - a) % 4 = 0
        /\ OfKind("end") = {z - 4}
  BY DEF RecordsAreTiled, Tiles
<1>7. Words(InStruct, a) <=> \A o \in InStruct : (o - a) % 4 = 0
  BY DEF Words
<1> HIDE DEF a, z, v
<1>8. ASSUME RecordsAreTiled PROVE Tiled(v, a, z) /\ Words(InStruct, a)
  <2>1. ASSUME NEW o \in InStruct
        PROVE  /\ v[o].len \in Nat \ {0}
               /\ v[o].kind \in {"end_node", "nop", "end"} => v[o].len = 4
    <3>1. blob[o].kind # "string" /\ IsRecord(blob[o])
      BY <1>4, <1>6, <1>8
    <3>2. /\ RecordLength(blob[o]) \in Nat \ {0}
          /\ blob[o].kind \notin {"begin", "prop"} => RecordLength(blob[o]) = 4
      BY <3>1, LengthTyped
    <3> QED BY <1>3, <3>2
  <2>2. z - 4 \in InStruct /\ \A o \in InStruct : v[o].kind = "end" <=> o = z - 4
    BY <1>3, <1>5, <1>6, <1>8
  <2>3. \A o \in InStruct : /\ v[o].kind \in {"begin", "end_node", "prop", "nop", "end"}
                            /\ o + v[o].len \in InStruct \cup {z}
    BY <1>3, <1>6, <1>8
  <2>4. \A o, q \in InStruct : q > o => q >= o + v[o].len
    BY <1>3, <1>6, <1>8
  <2>5. Tiled(v, a, z)
    BY <1>1, <1>2, <1>4, <1>5, <2>1, <2>2, <2>3, <2>4 DEF Tiled
  <2> QED BY <1>6, <1>7, <1>8, <2>5
<1>9. ASSUME Tiled(v, a, z), Words(InStruct, a) PROVE RecordsAreTiled
  <2>1. /\ \A o \in InStruct :
             /\ v[o].kind \in {"begin", "end_node", "prop", "nop", "end"}
             /\ o + v[o].len \in InStruct \cup {z}
             /\ v[o].kind = "end" <=> o = z - 4
        /\ z - 4 \in InStruct
        /\ \A o, q \in InStruct : q > o => q >= o + v[o].len
    BY <1>2, <1>9 DEF Tiled
  <2>2. OfKind("end") = {z - 4}
    BY <1>3, <1>5, <2>1
  <2> QED BY <1>3, <1>5, <1>6, <1>7, <1>9, <2>1, <2>2
<1> QED BY <1>8, <1>9 DEF v, a, z

LEMMA BalancedIs ==
  ASSUME Readable, RecordsAreTiled
  PROVE  NodesAreBalanced <=> /\ header.off_dt_struct \in InStruct
                              /\ Balanced(View, header.off_dt_struct, StructEnd(header))
<1> DEFINE a == header.off_dt_struct
           z == StructEnd(header)
           v == View
<1>1. \A o \in InStruct : Level(o) = LevelOf(v, o) /\ v[o].kind = blob[o].kind
  BY LevelIs, ViewTyped
<1>2. DOMAIN v = InStruct
  BY ViewTyped
<1>3. z - 4 \in InStruct
  BY DEF RecordsAreTiled, OfKind
<1>4. NodesAreBalanced <=> /\ a \in InStruct /\ blob[a].kind = "begin"
                           /\ \A o \in InStruct : blob[o].kind # "end" => Level(o) >= 1
                           /\ Level(z - 4) = 0
  BY DEF NodesAreBalanced, OfKind
<1> HIDE DEF v, a, z
<1>5. NodesAreBalanced <=> a \in InStruct /\ Balanced(v, a, z)
  BY <1>1, <1>2, <1>3, <1>4 DEF Balanced
<1> QED BY <1>5 DEF v, a, z

LEMMA FirstIs ==
  ASSUME Readable
  PROVE  PropertiesComeFirst <=> NamesThere /\ PropsFirst(View)
<1>1. \A o \in InStruct : Level(o) = LevelOf(View, o)
  BY LevelIs
<1>2. /\ Begins(View) = OfKind("begin") /\ NodeEnds(View) = OfKind("end_node")
      /\ Props(View) = OfKind("prop")
  BY ViewTyped
<1>3. OfKind("begin") \subseteq InStruct /\ OfKind("prop") \subseteq InStruct
  BY DEF OfKind
<1>4. \A b \in OfKind("begin"), p \in OfKind("prop") :
        Level(b) = Level(p) <=> LevelOf(View, b) = LevelOf(View, p)
  BY <1>1, <1>3
<1>5. (\A p \in OfKind("prop"), e \in OfKind("end_node") :
         e < p => \E b \in OfKind("begin") : b > e /\ b < p /\ Level(b) = Level(p))
      <=> PropsFirst(View)
  BY <1>2, <1>4 DEF PropsFirst
<1>6. PropertiesComeFirst <=>
        /\ NamesThere
        /\ \A p \in OfKind("prop"), e \in OfKind("end_node") :
             e < p => \E b \in OfKind("begin") : b > e /\ b < p /\ Level(b) = Level(p)
  BY DEF PropertiesComeFirst, NamesThere
<1> QED BY <1>5, <1>6

LEMMA UniqueIs ==
  ASSUME Readable
  PROVE  NamesAreUnique <=> NodesDiffer(View) /\ PropsDiffer(View)
<1>1. \A o \in InStruct : Level(o) = LevelOf(View, o)
  BY LevelIs
<1>2. /\ Begins(View) = OfKind("begin") /\ NodeEnds(View) = OfKind("end_node")
      /\ Props(View) = OfKind("prop")
  BY ViewTyped
<1>3. /\ \A o \in OfKind("begin") : o \in InStruct /\ View[o].name = blob[o].name
      /\ \A o \in OfKind("prop") : o \in InStruct /\ View[o].name = NameOf(o)
      /\ \A o \in OfKind("end_node") : o \in InStruct
  BY ViewTyped DEF OfKind
<1>4. (\A b, c \in OfKind("begin") :
         b < c /\ Level(b) = Level(c) /\ blob[b].name = blob[c].name =>
           \E e \in OfKind("end_node") : e > b /\ e < c /\ Level(e) < Level(b))
      <=> NodesDiffer(View)
  <2>1. ASSUME NEW b \in OfKind("begin"), NEW c \in OfKind("begin")
        PROVE  /\ Level(b) = LevelOf(View, b) /\ Level(c) = LevelOf(View, c)
               /\ View[b].name = blob[b].name /\ View[c].name = blob[c].name
               /\ \A e \in OfKind("end_node") : Level(e) = LevelOf(View, e)
    BY <1>1, <1>3
  <2> QED BY <1>2, <2>1 DEF NodesDiffer
<1>5. (\A p, q \in OfKind("prop") :
         p < q /\ Level(p) = Level(q) /\ NameOf(p) = NameOf(q) =>
           \E e \in OfKind("end_node") : e > p /\ e < q /\ Level(e) <= Level(p))
      <=> PropsDiffer(View)
  <2>1. ASSUME NEW b \in OfKind("prop"), NEW c \in OfKind("prop")
        PROVE  /\ Level(b) = LevelOf(View, b) /\ Level(c) = LevelOf(View, c)
               /\ View[b].name = NameOf(b) /\ View[c].name = NameOf(c)
               /\ \A e \in OfKind("end_node") : Level(e) = LevelOf(View, e)
    BY <1>1, <1>3
  <2> QED BY <1>2, <2>1 DEF PropsDiffer
<1> QED BY <1>4, <1>5 DEF NamesAreUnique

LEMMA SoundIs ==
  ASSUME Readable
  PROVE  BlocksAreSound /\ RecordsAreTiled /\ StringsAreTiled
           /\ NodesAreBalanced /\ PropertiesComeFirst /\ NamesAreUnique
         <=> /\ SoundBlob
             /\ pc \in {"idle", "call", "component", "record"} => header.total_size = size
<1>1. BlocksAreSound <=> /\ Taken /\ NothingElse
                         /\ pc \in {"idle", "call", "component", "record"} => header.total_size = size
  BY DEF BlocksAreSound, Taken, NothingElse
<1>2. RecordsAreTiled /\ NodesAreBalanced /\ PropertiesComeFirst /\ NamesAreUnique => StructIsSound
  <2> SUFFICES ASSUME RecordsAreTiled, NodesAreBalanced, PropertiesComeFirst, NamesAreUnique
               PROVE  StructIsSound
    OBVIOUS
  <2>1. header.off_dt_struct \in InStruct /\ Balanced(View, header.off_dt_struct, StructEnd(header))
    BY BalancedIs
  <2>2. /\ Tiled(View, header.off_dt_struct, StructEnd(header))
        /\ Words(InStruct, header.off_dt_struct)
    BY <2>1, TiledIs
  <2> QED BY <2>1, <2>2, FirstIs, UniqueIs DEF StructIsSound
<1>3. StructIsSound => RecordsAreTiled /\ NodesAreBalanced /\ PropertiesComeFirst /\ NamesAreUnique
  <2> SUFFICES ASSUME StructIsSound
               PROVE  RecordsAreTiled /\ NodesAreBalanced /\ PropertiesComeFirst /\ NamesAreUnique
    OBVIOUS
  <2>1. header.off_dt_struct \in InStruct
    BY ViewTyped DEF StructIsSound, Tiled
  <2>2. RecordsAreTiled
    BY <2>1, TiledIs DEF StructIsSound
  <2>3. NodesAreBalanced
    BY <2>1, <2>2, BalancedIs DEF StructIsSound
  <2> QED BY <2>2, <2>3, FirstIs, UniqueIs DEF StructIsSound
<1> QED BY <1>1, <1>2, <1>3 DEF SoundBlob

-----------------------------------------------------------------------------
(* A sound blob stays sound. *)

\* The node a call is at is one of the blob, and the string at nameoff is the
\* name of the property that is set.
SoundInv ==
  sound =>
    /\ SoundBlob
    /\ pc \in {"component", "record"} => IsSpan(node)
    /\ pc = "record" => string_at(nameoff).kind = "string" /\ string_at(nameoff).name = Call.name
    /\ result # "BadStructure"

LEMMA SameBlob ==
  ASSUME blob' = blob, header' = header, SoundBlob
  PROVE  SoundBlob' /\ StructStays /\ \A x : string_at(x)' = string_at(x)
<1>1. Readable' /\ Taken'
  BY DEF SoundBlob, Readable, Taken
<1> QED BY <1>1, SoundStays

LEMMA InitSound == Init /\ IndInv /\ BlobIsSound => SoundInv
<1> SUFFICES ASSUME Init, IndInv, BlobIsSound, sound PROVE SoundInv
  BY DEF SoundInv
<1>1. Readable
  BY DEF IndInv, TreeInv
<1>2. SoundBlob
  BY <1>1, SoundIs DEF BlobIsSound
<1>3. pc = "passed" /\ result = "none"
  BY DEF Init
<1> QED BY <1>2, <1>3 DEF SoundInv

LEMMA FromPtrSound == IndInv /\ SoundInv /\ from_ptr => SoundInv'
<1> SUFFICES ASSUME IndInv, SoundInv, from_ptr, sound' PROVE SoundInv'
  BY DEF SoundInv
<1>1. sound /\ UNCHANGED <<blob, header>>
  BY DEF from_ptr, blobVars
<1>2. SoundBlob /\ result # "BadStructure"
  BY <1>1 DEF SoundInv
<1>3. HeaderError(header) = "none"
  BY <1>2 DEF SoundBlob, Taken
<1>4. pc' = "source" /\ result' = result
  BY <1>3 DEF from_ptr
<1>5. SoundBlob'
  BY <1>1, <1>2, SameBlob
<1> QED BY <1>2, <1>4, <1>5 DEF SoundInv

LEMMA CloneSound == IndInv /\ IndInv' /\ SoundInv /\ clone => SoundInv'
<1> SUFFICES ASSUME IndInv, IndInv', SoundInv, clone, sound' PROVE SoundInv'
  BY DEF SoundInv
<1>1. sound
  BY DEF clone
<1>2. SoundBlob /\ result # "BadStructure"
  BY <1>1 DEF SoundInv
<1>3. CASE pc' = "refused" /\ UNCHANGED <<blob, header>> /\ result' \in {"InvalidCloneSize", "Memory"}
  <2>1. SoundBlob'
    BY <1>2, <1>3, SameBlob
  <2> QED BY <1>3, <2>1 DEF SoundInv
<1>4. CASE /\ pc' = "idle" /\ blob' = blob /\ header' = [header EXCEPT !.total_size = size']
           /\ result' = result
  <2>1. Readable' /\ Taken'
    BY <1>4 DEF IndInv, TreeInv, Opened
  <2>2. /\ header'.off_dt_struct = header.off_dt_struct
        /\ header'.size_dt_struct = header.size_dt_struct
        /\ header'.off_dt_strings = header.off_dt_strings
        /\ header'.size_dt_strings = header.size_dt_strings
    BY <1>4 DEF IndInv, TreeInv, Readable, IsHeader
  <2>3. SoundBlob'
    BY <1>2, <1>4, <2>1, <2>2, SoundStays
  <2> QED BY <1>2, <1>4, <2>3 DEF SoundInv
<1> QED BY <1>3, <1>4 DEF clone, blobVars

LEMMA BeginRequestSound == IndInv /\ SoundInv /\ begin_request => SoundInv'
<1> SUFFICES ASSUME IndInv, SoundInv, begin_request, sound' PROVE SoundInv'
  BY DEF SoundInv
<1>1. sound /\ UNCHANGED <<blob, header>> /\ pc' = "call" /\ result' = "none"
  BY DEF begin_request, blobVars, cloneVars
<1>2. SoundBlob'
  BY <1>1, SameBlob DEF SoundInv
<1> QED BY <1>1, <1>2 DEF SoundInv

LEMMA EndRequestSound == IndInv /\ SoundInv /\ end_request => SoundInv'
<1> SUFFICES ASSUME IndInv, SoundInv, end_request, sound' PROVE SoundInv'
  BY DEF SoundInv
<1>1. sound /\ UNCHANGED <<blob, header>> /\ pc' = "idle" /\ result' = "Ok"
  BY DEF end_request, blobVars, cloneVars
<1>2. SoundBlob'
  BY <1>1, SameBlob DEF SoundInv
<1> QED BY <1>1, <1>2 DEF SoundInv

LEMMA CreateNodeSound == IndInv /\ SoundInv /\ create_node => SoundInv'
<1> SUFFICES ASSUME IndInv, SoundInv, create_node, sound' PROVE SoundInv'
  BY DEF SoundInv
<1>1. sound /\ UNCHANGED <<blob, header>>
  BY DEF create_node, blobVars, cloneVars
<1>2. SoundBlob /\ result # "BadStructure"
  BY <1>1 DEF SoundInv
<1>3. SoundBlob' /\ StructStays
  BY <1>1, <1>2, SameBlob
<1>4. root_node # NoNode /\ IsSpan(root_node)
  BY <1>2, RootIsSpan DEF SoundBlob
<1>5. CASE pc' = "idle" /\ result' = "InvalidPath"
  BY <1>3, <1>5 DEF SoundInv
<1>6. CASE node' = root_node /\ pc' = "component" /\ result' = result
  <2>1. PICK n : n = root_node
    OBVIOUS
  <2>2. IsSpan(n)'
    BY <1>3, <1>4, <2>1, SpanStays
  <2>3. IsSpan(node)'
    BY <1>6, <2>1, <2>2 DEF IsSpan
  <2> QED BY <1>2, <1>3, <1>6, <2>3 DEF SoundInv
<1> QED BY <1>4, <1>5, <1>6 DEF create_node, Fail

LEMMA EndIsThere ==
  ASSUME SoundBlob, NEW o, o \in InStruct
  PROVE  o \in Nat /\ o >= header.off_dt_struct /\ o < StructEnd(header)
  BY DEF SoundBlob, Readable, InStruct

LEMMA SpliceIsInside ==
  ASSUME SoundBlob, NEW o \in InStruct, NEW old_len \in Nat, o + old_len \in DOMAIN View, NEW new_len
  PROVE  SpliceError(o, old_len, new_len) # "BadStructure"
<1>1. o + old_len \in InStruct
  BY ViewTyped
<1>2. o \in Nat /\ o >= header.off_dt_struct /\ o + old_len < StructEnd(header)
  BY <1>1, EndIsThere
<1>3. header.off_dt_struct \in Nat /\ StructEnd(header) \in Nat
  BY HeaderTyped DEF SoundBlob, StructEnd
<1>4. ~(o < header.off_dt_struct) /\ ~(o + old_len > StructEnd(header))
  BY <1>2, <1>3
<1> QED BY <1>4 DEF SpliceError

LEMMA CreateComponentSound == IndInv /\ IndInv' /\ SoundInv /\ create_component => SoundInv'
<1> SUFFICES ASSUME IndInv, IndInv', SoundInv, create_component, sound' PROVE SoundInv'
  BY DEF SoundInv
<1>1. sound /\ pc = "component"
  BY DEF create_component, cloneVars
<1>2. SoundBlob /\ IsSpan(node) /\ result # "BadStructure"
  BY <1>1 DEF SoundInv
<1>3. rest \in Seq(DOMAIN LengthOf) /\ (rest # <<>> => rest[1] \in DOMAIN LengthOf)
  <2>1. rest \in Seq(DOMAIN LengthOf)
    BY DEF IndInv, CallInv
  <2> QED BY <2>1
<1>4. CASE UNCHANGED <<blob, header>> /\ pc' = "call" /\ result' = result
  BY <1>2, <1>4, SameBlob DEF SoundInv
<1>5. CASE UNCHANGED <<blob, header>> /\ pc' = "idle" /\ result' \in {"InvalidPath", "BufferTooSmall"}
  BY <1>2, <1>5, SameBlob DEF SoundInv
<1>6. CASE /\ UNCHANGED <<blob, header, pc, result>> /\ find_child(node, rest[1]) # NoNode
           /\ node' = find_child(node, rest[1])
  <2>1. SoundBlob' /\ StructStays
    BY <1>2, <1>6, SameBlob
  <2>2. IsSpan(find_child(node, rest[1]))
    BY <1>2, <1>6, FindChildIsExact DEF SoundBlob
  <2>3. PICK n : n = find_child(node, rest[1])
    OBVIOUS
  <2>4. IsSpan(n)'
    BY <2>1, <2>2, <2>3, SpanStays
  <2>5. IsSpan(node)'
    BY <1>6, <2>3, <2>4 DEF IsSpan
  <2> QED BY <1>1, <1>2, <1>6, <2>1, <2>5 DEF SoundInv
<1>7. CASE /\ rest # <<>> /\ find_child(node, rest[1]) = NoNode
           /\ SpliceError(InBlob(node.end), 0, NodeLength(rest[1])) = "none"
           /\ Splice(InBlob(node.end), 0, NodeLength(rest[1]), NewNode(node.end, rest[1]))
           /\ node' = [begin |-> node.end, end |-> node.end + NodeLength(rest[1]) - 4]
           /\ UNCHANGED <<pc, result>>
  <2>1. Readable' /\ Taken'
    BY <1>1, <1>7 DEF IndInv, TreeInv, Opened
  <2>2. SoundBlob' /\ IsSpan(node)'
    BY <1>2, <1>3, <1>7, <2>1, InsertChildSound
  <2> QED BY <1>1, <1>2, <1>7, <2>2 DEF SoundInv
<1>8. SpliceError(InBlob(node.end), 0, NodeLength(rest[1])) # "BadStructure"
  <2> DEFINE e == InBlob(node.end)
  <2>1. e \in DOMAIN View
    BY <1>2 DEF IsSpan, Span, NodeEnds
  <2>2. e \in InStruct /\ e \in Nat
    BY <1>2, <2>1, ViewTyped, EndIsThere
  <2>3. e + 0 = e
    BY <2>2
  <2> HIDE DEF e
  <2>4. SpliceError(e, 0, NodeLength(rest[1])) # "BadStructure"
    BY <1>2, <2>1, <2>2, <2>3, SpliceIsInside
  <2> QED BY <2>4 DEF e
<1>9. SpliceError(InBlob(node.end), 0, NodeLength(rest[1])) \in {"BadStructure", "BufferTooSmall", "none"}
  BY DEF SpliceError
<1>10. ASSUME InsertChild(rest[1]), rest # <<>>, find_child(node, rest[1]) = NoNode PROVE SoundInv'
  <2> DEFINE error == IF 4 + LengthOf[rest[1]] + 1 + 3 + 4 > MaxNodeBytes THEN "BufferTooSmall"
                      ELSE SpliceError(InBlob(node.end), 0, NodeLength(rest[1]))
  <2>1. error \in {"BufferTooSmall", "none"}
    BY <1>8, <1>9
  <2>2. error = "none" => SpliceError(InBlob(node.end), 0, NodeLength(rest[1])) = "none"
    OBVIOUS
  <2>3. \/ error # "none" /\ pc' = "idle" /\ result' = error /\ UNCHANGED <<blob, header>>
        \/ /\ error = "none"
           /\ Splice(InBlob(node.end), 0, NodeLength(rest[1]), NewNode(node.end, rest[1]))
           /\ node' = [begin |-> node.end, end |-> node.end + NodeLength(rest[1]) - 4]
           /\ UNCHANGED <<pc, result>>
    BY <1>10, Zenon DEF InsertChild, Fail, blobVars
  <2> HIDE DEF error
  <2> QED BY <1>5, <1>7, <1>10, <2>1, <2>2, <2>3
<1> QED BY <1>4, <1>5, <1>6, <1>10, Zenon DEF create_component, Ok, Fail, blobVars

LEMMA FindOrAddStringSound == IndInv /\ IndInv' /\ SoundInv /\ find_or_add_string => SoundInv'
<1> SUFFICES ASSUME IndInv, IndInv', SoundInv, find_or_add_string, sound' PROVE SoundInv'
  BY DEF SoundInv
<1>1. /\ sound /\ pc = "call" /\ done < Len(request) /\ Call.op # "create"
      /\ UNCHANGED <<request>>
  BY DEF find_or_add_string, cloneVars
<1>2. SoundBlob /\ result # "BadStructure" /\ Readable /\ StructIsSound /\ StringsAreTiled
  BY <1>1 DEF SoundInv, SoundBlob
<1>3. Call.path \in Seq(DOMAIN LengthOf) /\ Call.name \in DOMAIN LengthOf
  BY <1>1, CallTyped DEF IndInv
<1>4. root_node # NoNode
  BY <1>2, RootIsSpan
<1>5. \/ StringOffset(Call.name) = None
      \/ /\ StringOffset(Call.name) \in Nat
         /\ string_at(StringOffset(Call.name)).kind = "string"
         /\ string_at(StringOffset(Call.name)).name = Call.name
  BY <1>2, FindString
<1>6. StringOffset(Call.name) # Bad
  BY <1>5 DEF None, Bad
<1>7. SetError(Call) # "BadStructure"
  BY <1>4, <1>6 DEF SetError
<1>8. SetError(Call) = "none" => IsSpan(find_node(Call.path))
  <2>1. SetError(Call) = "none" => find_node(Call.path) # NoNode
    BY DEF SetError
  <2>2. find_node(Call.path) = NoNode \/ IsSpan(find_node(Call.path))
    BY <1>2, <1>3, FindNodeIsSpan
  <2> QED BY <2>1, <2>2
<1>9. CASE pc' = "idle" /\ result' = SetError(Call) /\ UNCHANGED <<blob, header>>
  BY <1>2, <1>7, <1>9, SameBlob DEF SoundInv
<1>10. CASE /\ SetError(Call) = "none" /\ StringOffset(Call.name) # None
            /\ node' = find_node(Call.path) /\ nameoff' = StringOffset(Call.name) /\ pc' = "record"
            /\ UNCHANGED <<blob, header, done, result>>
  <2>1. SoundBlob' /\ StructStays /\ \A x : string_at(x)' = string_at(x)
    BY <1>2, <1>10, SameBlob
  <2>2. PICK n : n = find_node(Call.path)
    OBVIOUS
  <2>3. IsSpan(n)'
    BY <1>8, <1>10, <2>1, <2>2, SpanStays
  <2>4. IsSpan(node)'
    BY <1>10, <2>2, <2>3 DEF IsSpan
  <2>5. PICK x : x = StringOffset(Call.name)
    OBVIOUS
  <2>6. string_at(x)'.kind = "string" /\ string_at(x)'.name = Call.name
    BY <1>5, <1>10, <2>1, <2>5
  <2>7. string_at(nameoff)' = string_at(x)' /\ Call' = Call
    BY <1>1, <1>10, <2>5 DEF string_at, Call
  <2> QED BY <1>2, <1>10, <2>1, <2>4, <2>6, <2>7 DEF SoundInv
<1>11. CASE /\ SetError(Call) = "none"
            /\ blob' = [o \in DOMAIN blob \cup {used_blob_end_offset} |->
                          IF o = used_blob_end_offset THEN Str(Call.name) ELSE blob[o]]
            /\ header' = [header EXCEPT !.size_dt_strings = @ + LengthOf[Call.name] + 1]
            /\ node' = find_node(Call.path) /\ nameoff' = header.size_dt_strings /\ pc' = "record"
            /\ UNCHANGED <<done, result>>
  <2>1. Readable' /\ Taken'
    BY <1>11 DEF IndInv, TreeInv, Opened
  <2>2. SoundBlob' /\ StructStays /\ \A x : x = header.size_dt_strings => string_at(x)' = Str(Call.name)
    BY <1>2, <1>3, <1>11, <2>1, AppendSound
  <2>3. PICK n : n = find_node(Call.path)
    OBVIOUS
  <2>4. IsSpan(n)'
    BY <1>8, <1>11, <2>2, <2>3, SpanStays
  <2>5. IsSpan(node)'
    BY <1>11, <2>3, <2>4 DEF IsSpan
  <2>6. PICK x : x = header.size_dt_strings
    OBVIOUS
  <2>7. string_at(x)' = Str(Call.name) /\ Str(Call.name).kind = "string" /\ Str(Call.name).name = Call.name
    BY <2>2, <2>6 DEF Str
  <2>8. nameoff' = x
    BY <1>11, <2>6
  <2>9. string_at(nameoff)' = string_at(x)' /\ Call' = Call
    BY <1>1, <1>11, <2>8 DEF string_at, Call
  <2> QED BY <1>2, <1>11, <2>2, <2>5, <2>7, <2>9 DEF SoundInv
<1> QED BY <1>9, <1>10, <1>11, Zenon DEF find_or_add_string, Fail, blobVars

LEMMA SetPropertySound == IndInv /\ IndInv' /\ SoundInv /\ set_property_bytes => SoundInv'
<1> SUFFICES ASSUME IndInv, IndInv', SoundInv, set_property_bytes, sound' PROVE SoundInv'
  BY DEF SoundInv
<1> DEFINE existing == find_direct_property(node, Call.name)
           offset == IF existing = None THEN property_insertion_offset(node) ELSE existing
           old_len == IF existing = None THEN 0
                      ELSE property_record_length(TokenAt(existing).length)
           new_len == property_record_length(Call.length)
           new == [x \in {InBlob(offset)} |-> Prop(Call.length, nameoff, Call.value)]
           error == IF offset = Bad THEN "BadStructure"
                    ELSE SpliceError(InBlob(offset), old_len, new_len)
<1>1. sound /\ pc = "record" /\ done < Len(request) /\ Call.op # "create"
  BY DEF set_property_bytes, cloneVars, IndInv, CallInv
<1>2. /\ SoundBlob /\ IsSpan(node) /\ result # "BadStructure" /\ Readable /\ StructIsSound
      /\ string_at(nameoff).kind = "string" /\ string_at(nameoff).name = Call.name
  BY <1>1 DEF SoundInv, SoundBlob
<1>3. Call.length \in Nat
  BY <1>1, CallTyped DEF IndInv
<1>4. \/ error # "none" /\ pc' = "idle" /\ result' = error /\ UNCHANGED <<blob, header>>
      \/ /\ error = "none" /\ Splice(InBlob(offset), old_len, new_len, new)
         /\ pc' = "call" /\ result' = result
  BY Zenon DEF set_property_bytes, Fail, Ok, blobVars
<1>5. /\ offset \in Nat /\ InBlob(offset) \in DOMAIN View /\ old_len \in Nat
      /\ InBlob(offset) + old_len \in DOMAIN View
  <2>1. \/ existing = None
        \/ existing \in Nat /\ InBlob(existing) \in Props(View)
    BY <1>2, FindDirectIsExact
  <2>2. /\ property_insertion_offset(node) \in Nat
        /\ Front(View, InBlob(node.begin), InBlob(node.end), InBlob(property_insertion_offset(node)))
    BY <1>2, InsertionIsExact
  <2>3. CASE existing = None
    <3>1. offset = property_insertion_offset(node) /\ old_len = 0
      BY <2>3
    <3> HIDE DEF existing, offset, old_len
    <3>2. InBlob(offset) \in DOMAIN View /\ offset \in Nat
      BY <2>2, <3>1 DEF Front, Among
    <3>3. InBlob(offset) \in Nat
      BY <1>2, <3>2 DEF StructIsSound, Tiled
    <3>4. InBlob(offset) + 0 = InBlob(offset)
      BY <3>3
    <3> QED BY <3>1, <3>2, <3>4
  <2>4. CASE existing \in Nat /\ InBlob(existing) \in Props(View)
    <3>1. offset = existing /\ old_len = property_record_length(TokenAt(existing).length)
      BY <2>4 DEF None
    <3> HIDE DEF existing, offset, old_len
    <3>2. InBlob(offset) \in DOMAIN View /\ View[InBlob(offset)].kind = "prop" /\ offset \in Nat
      BY <2>4, <3>1 DEF Props
    <3>3. old_len = View[InBlob(offset)].len
      BY <1>2, <3>1, <3>2, ReaderStep
    <3>4. View[InBlob(offset)].len \in Nat
      BY <1>2, <3>2 DEF StructIsSound, Tiled
    <3>5. After(View, InBlob(offset)) \in DOMAIN View
      BY <1>2, <3>2, TiledAfter DEF StructIsSound
    <3> QED BY <3>2, <3>3, <3>4, <3>5 DEF After
  <2> QED BY <2>1, <2>3, <2>4
<1>6. new = [x \in {InBlob(offset)} |-> Prop(Call.length, nameoff, Call.value)]
  OBVIOUS
<1>7. /\ offset = IF existing = None THEN property_insertion_offset(node) ELSE existing
      /\ old_len = IF existing = None THEN 0
                   ELSE property_record_length(TokenAt(existing).length)
      /\ new_len = property_record_length(Call.length)
      /\ error = IF offset = Bad THEN "BadStructure"
                 ELSE SpliceError(InBlob(offset), old_len, new_len)
  OBVIOUS
<1> HIDE DEF offset, old_len, new_len, new, error
<1>8. error # "BadStructure" /\ error = SpliceError(InBlob(offset), old_len, new_len)
  <2>1. offset # Bad
    BY <1>5 DEF Bad
  <2>2. InBlob(offset) \in InStruct
    BY <1>5, ViewTyped
  <2>3. SpliceError(InBlob(offset), old_len, new_len) # "BadStructure"
    BY <1>2, <1>5, <2>2, SpliceIsInside
  <2> QED BY <1>7, <2>1, <2>3
<1>9. CASE error # "none" /\ pc' = "idle" /\ result' = error /\ UNCHANGED <<blob, header>>
  BY <1>2, <1>8, <1>9, SameBlob DEF SoundInv
<1>10. CASE /\ error = "none" /\ Splice(InBlob(offset), old_len, new_len, new)
            /\ pc' = "call" /\ result' = result
  <2>1. Readable' /\ Taken'
    BY <1>10 DEF IndInv, TreeInv, Opened
  <2>2. /\ SpliceError(InBlob(offset), old_len, property_record_length(Call.length)) = "none"
        /\ Splice(InBlob(offset), old_len, property_record_length(Call.length),
                  [x \in {InBlob(offset)} |-> Prop(Call.length, nameoff, Call.value)])
    BY <1>6, <1>7, <1>8, <1>10
  <2>3. SoundBlob'
    BY <1>2, <1>3, <1>7, <2>1, <2>2, PropSound
  <2> QED BY <1>2, <1>10, <2>3 DEF SoundInv
<1> QED BY <1>4, <1>9, <1>10

LEMMA StutterSound == SoundInv /\ UNCHANGED vars => SoundInv'
<1> SUFFICES ASSUME SoundInv, UNCHANGED vars, sound' PROVE SoundInv'
  BY DEF SoundInv
<1>1. sound /\ UNCHANGED <<blob, header, pc, node, nameoff, request, done, result>>
  BY DEF vars, blobVars, cloneVars, callVars
<1>2. SoundBlob
  BY <1>1 DEF SoundInv
<1>3. SoundBlob' /\ StructStays /\ \A x : string_at(x)' = string_at(x)
  BY <1>1, <1>2, SameBlob
<1>4. IsSpan(node) => IsSpan(node)'
  <2> SUFFICES ASSUME IsSpan(node) PROVE IsSpan(node)'
    OBVIOUS
  <2>1. PICK n : n = node
    OBVIOUS
  <2>2. IsSpan(n)'
    BY <1>3, <2>1, SpanStays
  <2> QED BY <1>1, <2>1, <2>2 DEF IsSpan
<1>5. string_at(nameoff)' = string_at(nameoff) /\ Call' = Call
  BY <1>1 DEF string_at, Call, Junk
<1> QED BY <1>1, <1>3, <1>4, <1>5 DEF SoundInv

LEMMA NextSound == IndInv /\ IndInv' /\ SoundInv /\ [Next]_vars => SoundInv'
  BY FromPtrSound, CloneSound, BeginRequestSound, EndRequestSound, CreateNodeSound,
     CreateComponentSound, FindOrAddStringSound, SetPropertySound, StutterSound, Zenon
  DEF Next, Step, Over

LEMMA SoundInvHolds == Spec /\ BlobIsSound => []SoundInv
<1>1. Spec => []IndInv
  BY IndInvHolds
<1>2. Init /\ IndInv /\ BlobIsSound => SoundInv
  BY InitSound
<1>3. IndInv /\ IndInv' /\ SoundInv /\ [Next]_vars => SoundInv'
  BY NextSound
<1> QED BY <1>1, <1>2, <1>3, PTL DEF Spec

\* A blob that is sound when the firmware is passed it stays sound, whatever is
\* asked: after every splice of create_node and set_property, every string that
\* is appended, and also where a request fails half way, records and strings are
\* without gaps, nodes are balanced, properties are in front of children, no node
\* has a child or property twice, and every name is there.
THEOREM BlobStaysSound == Spec /\ BlobIsSound => []BlobIsSound
<1>1. IndInv /\ SoundInv => BlobIsSound
  <2> SUFFICES ASSUME IndInv, SoundInv, sound PROVE BlobIsSound
    BY DEF BlobIsSound
  <2>1. Readable /\ SoundBlob
    BY DEF IndInv, TreeInv, SoundInv
  <2>2. pc \in {"idle", "call", "component", "record"} => header.total_size = size
    BY DEF IndInv, TreeInv, Opened
  <2> QED BY <2>1, <2>2, SoundIs DEF BlobIsSound
<1> QED BY <1>1, IndInvHolds, SoundInvHolds, PTL

\* The writer and the reader it searches with never call such a blob malformed,
\* which is the first part of FailuresAreJust.
NeverMalformed == sound => result # "BadStructure"

\* create_node, set_property and the reader's searches never return BadStructure
\* for a tree that was sound when the firmware was passed it, whatever was done
\* to it before.
THEOREM SoundIsNeverMalformed == Spec /\ BlobIsSound => []NeverMalformed
<1>1. SoundInv => NeverMalformed
  BY DEF SoundInv, NeverMalformed
<1> QED BY <1>1, SoundInvHolds, PTL

=============================================================================
