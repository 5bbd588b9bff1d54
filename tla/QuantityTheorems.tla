-------------------------- MODULE QuantityTheorems --------------------------
(***************************************************************************)
(* What the proofs need to know about totals.  Quantities are bounded by M: *)
(* the program bounds every quantity and amount it accepts.                 *)
(***************************************************************************)
EXTENDS Quantities, Integers, FiniteSetTheorems, TLAPS

(* A unit of the rows S is a row with one of its numbers. *)
LEMMA UnitsMember ==
  ASSUME NEW S, NEW f, NEW u
  PROVE  u \in Units(f, S) <=> \E x \in S : \E i \in 1..f[x] : u = <<x, i>>
BY DEF Units

(* The numbers 1 to n are n. *)
LEMMA Counting ==
  ASSUME NEW n \in Nat
  PROVE  /\ IsFiniteSet(1..n)
         /\ Cardinality(1..n) = n
<1>1. /\ 1 \in Int
      /\ n \in Int
  OBVIOUS
<1>2. /\ IsFiniteSet(1..n)
      /\ Cardinality(1..n) = IF 1 > n THEN 0 ELSE n - 1 + 1
  BY <1>1, FS_Interval, Zenon
<1>3. QED
  BY <1>1, <1>2

(* Finitely many rows with bounded quantities have finitely many units, so  *)
(* their total is a natural number.                                         *)
LEMMA TotalType ==
  ASSUME NEW S, IsFiniteSet(S), NEW M \in Nat, NEW f,
         \A x \in S : f[x] \in 0..M
  PROVE  /\ IsFiniteSet(Units(f, S))
         /\ Total(f, S) \in Nat
<1>1. IsFiniteSet(1..M)
  BY FS_Interval
<1>2. IsFiniteSet(S \X (1..M))
  BY <1>1, FS_Product
<1>3. Units(f, S) \subseteq S \X (1..M)
  <2>1. SUFFICES ASSUME NEW u \in Units(f, S)
                 PROVE  u \in S \X (1..M)
    OBVIOUS
  <2>2. PICK x \in S : \E i \in 1..f[x] : u = <<x, i>>
    BY <2>1, UnitsMember
  <2>3. PICK i \in 1..f[x] : u = <<x, i>>
    BY <2>2
  <2>4. i \in 1..M
    BY <2>3
  <2>5. QED
    BY <2>3, <2>4
<1>4. IsFiniteSet(Units(f, S))
  BY <1>2, <1>3, FS_Subset
<1>5. QED
  BY <1>4, FS_CardinalityType DEF Total

(* No rows, no units. *)
LEMMA TotalEmpty ==
  ASSUME NEW f
  PROVE  Total(f, {}) = 0
<1>1. Units(f, {}) = {}
  BY UnitsMember
<1>2. QED
  BY <1>1, FS_EmptySet DEF Total

(* A total depends only on the quantities of the rows it is taken over. *)
LEMMA TotalCongruence ==
  ASSUME NEW S, NEW f, NEW g, \A x \in S : f[x] = g[x]
  PROVE  Total(f, S) = Total(g, S)
<1>1. Units(f, S) = Units(g, S)
  BY DEF Units
<1>2. QED
  BY <1>1 DEF Total

(* The total of a part is at most the total of the whole. *)
LEMMA TotalSubset ==
  ASSUME NEW S, IsFiniteSet(S), NEW R \in SUBSET S, NEW M \in Nat, NEW f,
         \A x \in S : f[x] \in 0..M
  PROVE  Total(f, R) <= Total(f, S)
<1>1. Units(f, R) \subseteq Units(f, S)
  BY DEF Units
<1>2. IsFiniteSet(Units(f, S))
  BY TotalType
<1>3. QED
  BY <1>1, <1>2, FS_Subset DEF Total

(* One more row adds its quantity. *)
LEMMA TotalAdd ==
  ASSUME NEW S, IsFiniteSet(S), NEW x, x \notin S, NEW M \in Nat, NEW f,
         \A y \in S \cup {x} : f[y] \in 0..M
  PROVE  Total(f, S \cup {x}) = Total(f, S) + f[x]
<1> DEFINE Row == {x} \X (1..f[x])
<1>1. Units(f, S \cup {x}) = Units(f, S) \cup Row
  BY DEF Units
<1>2. Units(f, S) \cap Row = {}
  BY DEF Units
<1>3. IsFiniteSet(Units(f, S))
  BY TotalType
<1>4. f[x] \in Nat
  OBVIOUS
<1>5. /\ IsFiniteSet(1..f[x])
      /\ Cardinality(1..f[x]) = f[x]
  BY <1>4, Counting
<1>6. /\ IsFiniteSet({x})
      /\ Cardinality({x}) = 1
  BY FS_Singleton
<1>7. /\ IsFiniteSet(Row)
      /\ Cardinality(Row) = f[x]
  <2>1. /\ IsFiniteSet(Row)
        /\ Cardinality(Row) = Cardinality({x}) * Cardinality(1..f[x])
    BY <1>5, <1>6, FS_Product, Zenon
  <2>2. QED
    BY <1>4, <1>5, <1>6, <2>1
<1>8. Cardinality(Units(f, S) \cup Row) =
        Cardinality(Units(f, S)) + Cardinality(Row) - Cardinality({})
  BY <1>2, <1>3, <1>7, FS_Union
<1>9. /\ Cardinality({}) = 0
      /\ Cardinality(Units(f, S)) \in Nat
  BY <1>3, FS_EmptySet, FS_CardinalityType
<1>10. Cardinality(Units(f, S) \cup Row) = Cardinality(Units(f, S)) + f[x]
  BY <1>4, <1>7, <1>8, <1>9
<1>11. QED
  BY <1>1, <1>10 DEF Total

(* Taking a row out subtracts its quantity. *)
LEMMA TotalRemove ==
  ASSUME NEW S, IsFiniteSet(S), NEW x \in S, NEW M \in Nat, NEW f,
         \A y \in S : f[y] \in 0..M
  PROVE  Total(f, S) = Total(f, S \ {x}) + f[x]
<1>1. /\ IsFiniteSet(S \ {x})
      /\ x \notin S \ {x}
      /\ (S \ {x}) \cup {x} = S
  BY FS_RemoveElement
<1>2. \A y \in (S \ {x}) \cup {x} : f[y] \in 0..M
  BY <1>1
<1>3. Total(f, (S \ {x}) \cup {x}) = Total(f, S \ {x}) + f[x]
  BY <1>1, <1>2, TotalAdd
<1>4. QED
  BY <1>1, <1>3

(* Rows without a quantity add nothing. *)
LEMMA TotalZero ==
  ASSUME NEW S, NEW f, \A x \in S : f[x] = 0
  PROVE  Total(f, S) = 0
<1>1. \A i \in 1..0 : FALSE
  OBVIOUS
<1>2. ASSUME NEW u \in Units(f, S) PROVE FALSE
  <2>1. PICK x \in S : \E i \in 1..f[x] : u = <<x, i>>
    BY <1>2, UnitsMember
  <2>2. QED
    BY <1>1, <2>1
<1>3. Units(f, S) = {}
  BY <1>2
<1>4. QED
  BY <1>3, FS_EmptySet DEF Total

(* The total of two groups of rows is the sum of their totals. *)
LEMMA TotalUnion ==
  ASSUME NEW A, IsFiniteSet(A), NEW B, IsFiniteSet(B), A \cap B = {},
         NEW M \in Nat, NEW f, \A x \in A \cup B : f[x] \in 0..M
  PROVE  Total(f, A \cup B) = Total(f, A) + Total(f, B)
<1>1. Units(f, A \cup B) = Units(f, A) \cup Units(f, B)
  BY DEF Units
<1>2. Units(f, A) \cap Units(f, B) = {}
  BY DEF Units
<1>3. /\ IsFiniteSet(Units(f, A)) /\ Total(f, A) \in Nat
      /\ IsFiniteSet(Units(f, B)) /\ Total(f, B) \in Nat
  BY TotalType
<1>4. Cardinality(Units(f, A) \cup Units(f, B)) =
        Cardinality(Units(f, A)) + Cardinality(Units(f, B)) - Cardinality({})
  BY <1>2, <1>3, FS_Union
<1>5. Cardinality({}) = 0
  BY FS_EmptySet
<1>6. Cardinality(Units(f, A)) \in Nat /\ Cardinality(Units(f, B)) \in Nat
  BY <1>3, FS_CardinalityType
<1>7. Cardinality(Units(f, A) \cup Units(f, B)) =
        Cardinality(Units(f, A)) + Cardinality(Units(f, B))
  BY <1>4, <1>5, <1>6
<1>8. QED
  BY <1>1, <1>7 DEF Total

(* A bound on the total of some of the rows S. *)
LEMMA TotalWithin ==
  ASSUME NEW S, IsFiniteSet(S), NEW R \in SUBSET S, NEW M \in Nat, NEW f,
         \A x \in R : f[x] \in 0..M
  PROVE  Total(f, R) \in 0..Cardinality(S \X (1..M))
<1>1. IsFiniteSet(S \X (1..M))
  <2>1. IsFiniteSet(1..M)
    BY FS_Interval
  <2>2. QED
    BY <2>1, FS_Product
<1>2. Units(f, R) \subseteq S \X (1..M)
  <2>1. SUFFICES ASSUME NEW u \in Units(f, R)
                 PROVE  u \in S \X (1..M)
    OBVIOUS
  <2>2. PICK x \in R : \E i \in 1..f[x] : u = <<x, i>>
    BY <2>1, UnitsMember
  <2>3. PICK i \in 1..f[x] : u = <<x, i>>
    BY <2>2
  <2>4. i \in 1..M
    BY <2>3
  <2>5. QED
    BY <2>3, <2>4
<1>3. Total(f, R) <= Cardinality(S \X (1..M))
  BY <1>1, <1>2, FS_Subset DEF Total
<1>4. IsFiniteSet(R)
  BY FS_Subset
<1>5. Total(f, R) \in Nat /\ Cardinality(S \X (1..M)) \in Nat
  BY <1>1, <1>4, TotalType, FS_CardinalityType
<1>6. QED
  BY <1>3, <1>5

(* Finitely many rows with quantities have finitely many units, whatever    *)
(* the quantities are.                                                      *)
LEMMA UnitsFinite ==
  ASSUME NEW S, IsFiniteSet(S), NEW f, \A x \in S : f[x] \in Nat
  PROVE  IsFiniteSet(Units(f, S))
<1> DEFINE Row(x) == {x} \X (1..f[x])
           Rows == {Row(x) : x \in S}
           RowOf == [x \in S |-> Row(x)]
<1>1. RowOf \in Surjection(S, Rows)
  BY DEF Surjection
<1>2. IsFiniteSet(Rows)
  <2> HIDE DEF RowOf, Rows
  <2>1. QED
    BY <1>1, FS_Surjection
<1>3. ASSUME NEW T \in Rows PROVE IsFiniteSet(T)
  <2>1. PICK x \in S : T = {x} \X (1..f[x])
    OBVIOUS
  <2>2. IsFiniteSet(1..f[x])
    BY Counting
  <2>3. IsFiniteSet({x})
    BY FS_Singleton
  <2>4. QED
    BY <2>1, <2>2, <2>3, FS_Product
<1>4. IsFiniteSet(UNION Rows)
  <2> HIDE DEF Rows
  <2>1. QED
    BY <1>2, <1>3, FS_UNION
<1>5. QED
  BY <1>4 DEF Units

(* So they have a largest quantity: finitely many rows are always bounded.  *)
LEMMA RowsBounded ==
  ASSUME NEW S, IsFiniteSet(S), NEW f, \A x \in S : f[x] \in Nat
  PROVE  \E M \in Nat : \A x \in S : f[x] \in 0..M
<1>1. IsFiniteSet(Units(f, S))
  BY UnitsFinite
<1>2. Cardinality(Units(f, S)) \in Nat
  BY <1>1, FS_CardinalityType
<1>3. ASSUME NEW x \in S PROVE f[x] <= Cardinality(Units(f, S))
  <2> DEFINE Row == {x} \X (1..f[x])
  <2>1. f[x] \in Nat /\ IsFiniteSet(1..f[x]) /\ Cardinality(1..f[x]) = f[x]
    BY Counting
  <2>2. IsFiniteSet({x}) /\ Cardinality({x}) = 1
    BY FS_Singleton
  <2>3. Cardinality(Row) = Cardinality({x}) * Cardinality(1..f[x])
    BY <2>1, <2>2, FS_Product, Zenon
  <2>4. Cardinality(Row) = f[x]
    BY <2>1, <2>2, <2>3
  <2>5. Row \subseteq Units(f, S)
    BY DEF Units
  <2>6. Cardinality(Row) <= Cardinality(Units(f, S))
    <3> HIDE DEF Row
    <3>1. QED
      BY <1>1, <2>5, FS_Subset
  <2>7. QED
    BY <2>4, <2>6
<1>4. \A x \in S : f[x] \in 0..Cardinality(Units(f, S))
  BY <1>2, <1>3
<1>5. QED
  BY <1>2, <1>4

LEMMA TotalNatural ==
  ASSUME NEW S, IsFiniteSet(S), NEW f, \A x \in S : f[x] \in Nat
  PROVE  Total(f, S) \in Nat
BY UnitsFinite, FS_CardinalityType DEF Total

(* When the quantity of one row changes, the total changes by as much. *)
LEMMA TotalChange ==
  ASSUME NEW S, IsFiniteSet(S), NEW f, NEW g, NEW x \in S,
         \A y \in S : f[y] \in Nat /\ g[y] \in Nat,
         \A y \in S \ {x} : g[y] = f[y]
  PROVE  Total(g, S) - Total(f, S) = g[x] - f[x]
<1>1. PICK M \in Nat : \A y \in S : f[y] \in 0..M
  BY RowsBounded
<1>2. PICK N \in Nat : \A y \in S : g[y] \in 0..N
  BY RowsBounded
<1>3. Total(f, S) = Total(f, S \ {x}) + f[x]
  BY <1>1, TotalRemove
<1>4. Total(g, S) = Total(g, S \ {x}) + g[x]
  BY <1>2, TotalRemove
<1>5. Total(g, S \ {x}) = Total(f, S \ {x})
  BY TotalCongruence
<1>6. Total(f, S \ {x}) \in Nat
  <2>1. IsFiniteSet(S \ {x})
    BY FS_RemoveElement
  <2>2. \A y \in S \ {x} : f[y] \in 0..M
    BY <1>1
  <2>3. QED
    BY <2>1, <2>2, TotalType
<1>7. f[x] \in Nat /\ g[x] \in Nat
  OBVIOUS
<1>8. QED
  BY <1>3, <1>4, <1>5, <1>6, <1>7

(* A row that joins the rows adds its quantity. *)
LEMMA TotalJoin ==
  ASSUME NEW S, IsFiniteSet(S), NEW f, NEW x, x \notin S,
         \A y \in S \cup {x} : f[y] \in Nat
  PROVE  Total(f, S \cup {x}) - Total(f, S) = f[x]
<1>1. IsFiniteSet(S \cup {x})
  BY FS_AddElement
<1>2. PICK M \in Nat : \A y \in S \cup {x} : f[y] \in 0..M
  BY <1>1, RowsBounded
<1>3. Total(f, S \cup {x}) = Total(f, S) + f[x]
  BY <1>2, TotalAdd
<1>4. Total(f, S) \in Nat
  BY <1>2, TotalType
<1>5. f[x] \in Nat
  OBVIOUS
<1>6. QED
  BY <1>3, <1>4, <1>5

(* Fewer rows, with the quantities they had, have at most the total. *)
LEMMA TotalFewer ==
  ASSUME NEW S, IsFiniteSet(S), NEW R \in SUBSET S, NEW f, NEW g,
         \A x \in S : f[x] \in Nat, \A x \in R : g[x] = f[x]
  PROVE  Total(g, R) <= Total(f, S) /\ Total(g, R) \in Nat
<1>1. Total(g, R) = Total(f, R)
  BY TotalCongruence
<1>2. PICK M \in Nat : \A x \in S : f[x] \in 0..M
  BY RowsBounded
<1>3. Total(f, R) <= Total(f, S)
  BY <1>2, TotalSubset
<1>4. IsFiniteSet(R) /\ \A x \in R : f[x] \in Nat
  BY FS_Subset
<1>5. Total(f, R) \in Nat
  BY <1>4, TotalNatural
<1>6. QED
  BY <1>1, <1>3, <1>5

(* Some of the rows and one more have at most the total and its quantity.    *)
LEMMA TotalOneMore ==
  ASSUME NEW S, IsFiniteSet(S), NEW f, NEW x, x \notin S, \A y \in S : f[y] \in Nat,
         f[x] \in Nat, NEW T, T \subseteq S \cup {x}
  PROVE  /\ Total(f, T) <= Total(f, S) + f[x] /\ Total(f, T) \in Nat
         /\ x \notin T => Total(f, T) <= Total(f, S)
<1>1. IsFiniteSet(S \cup {x}) /\ \A y \in S \cup {x} : f[y] \in Nat
  BY FS_AddElement
<1>2. Total(f, S \cup {x}) - Total(f, S) = f[x]
  BY <1>1, TotalJoin
<1>3. Total(f, T) <= Total(f, S \cup {x}) /\ Total(f, T) \in Nat
  BY <1>1, TotalFewer
<1>4. Total(f, S) \in Nat /\ Total(f, S \cup {x}) \in Nat
  BY <1>1, TotalNatural
<1>5. x \notin T => Total(f, T) <= Total(f, S)
  BY TotalFewer
<1>6. QED
  BY <1>2, <1>3, <1>4, <1>5

(* Rows that have something are among others that have at least as much.    *)
LEMMA TotalBelow ==
  ASSUME NEW A, NEW B, IsFiniteSet(B), NEW f, NEW g, \A b \in B : g[b] \in Nat,
         \A a \in A : f[a] \in Nat /\ (f[a] > 0 => a \in B /\ f[a] <= g[a])
  PROVE  Total(f, A) <= Total(g, B)
<1>1. ASSUME NEW u \in Units(f, A) PROVE u \in Units(g, B)
  <2>1. PICK a \in A : \E i \in 1..f[a] : u = <<a, i>>
    BY UnitsMember
  <2>2. a \in B /\ 1..f[a] \subseteq 1..g[a]
    BY <2>1
  <2>3. QED
    BY <2>1, <2>2, UnitsMember
<1>2. IsFiniteSet(Units(g, B))
  BY UnitsFinite
<1>3. QED
  BY <1>1, <1>2, FS_Subset DEF Total

(* The members of a finite set can be numbered. *)
LEMMA Numbering ==
  ASSUME NEW S, IsFiniteSet(S)
  PROVE  \E h : /\ \A u \in S : h[u] \in 1..Cardinality(S)
                /\ \A u, v \in S : h[u] = h[v] => u = v
<1>1. PICK k : k \in Bijection(1..Cardinality(S), S)
  BY FS_CardinalityType DEF ExistsBijection
<1>2. \A u \in S : \E i \in 1..Cardinality(S) : k[i] = u
  BY <1>1 DEF Bijection, Surjection
<1> DEFINE h == [u \in S |-> CHOOSE i \in 1..Cardinality(S) : k[i] = u]
<1>3. \A u \in S : h[u] \in 1..Cardinality(S) /\ k[h[u]] = u
  BY <1>2
<1> HIDE DEF h
<1>4. \A u, v \in S : h[u] = h[v] => u = v
  BY <1>3
<1>5. QED
  BY <1>3, <1>4

(* When the rows are grouped by their owners, and the total of each group   *)
(* is within what its owner has, the total is within what all owners have.  *)
LEMMA TotalGroups ==
  ASSUME NEW A, IsFiniteSet(A), NEW B, IsFiniteSet(B), NEW f, NEW g, NEW owner,
         \A a \in A : f[a] \in Nat /\ owner[a] \in B,
         \A b \in B : g[b] \in Nat /\ Total(f, {a \in A : owner[a] = b}) <= g[b]
  PROVE  Total(f, A) <= Total(g, B)
<1> DEFINE Group(b) == {a \in A : owner[a] = b}
           Numbers(b, h) ==
             /\ \A u \in Units(f, Group(b)) : h[u] \in 1..Total(f, Group(b))
             /\ \A u, v \in Units(f, Group(b)) : h[u] = h[v] => u = v
           number == [b \in B |-> CHOOSE h : Numbers(b, h)]
           place == [u \in Units(f, A) |-> <<owner[u[1]], number[owner[u[1]]][u]>>]
<1>1. ASSUME NEW b \in B PROVE Numbers(b, number[b])
  <2>1. IsFiniteSet(Group(b)) /\ \A a \in Group(b) : f[a] \in Nat
    BY FS_Subset
  <2>2. IsFiniteSet(Units(f, Group(b)))
    BY <2>1, UnitsFinite
  <2>3. \E h : Numbers(b, h)
    BY <2>2, Numbering DEF Total
  <2>4. QED
    BY <2>3
<1> HIDE DEF number
<1>2. ASSUME NEW u \in Units(f, A)
      PROVE  /\ owner[u[1]] \in B /\ u \in Units(f, Group(owner[u[1]]))
  <2>1. PICK a \in A : \E i \in 1..f[a] : u = <<a, i>>
    BY UnitsMember
  <2>2. u[1] = a /\ a \in Group(owner[a])
    BY <2>1
  <2>3. u \in Units(f, Group(owner[a]))
    BY <2>1, <2>2, UnitsMember
  <2>4. QED
    BY <2>2, <2>3
<1>3. ASSUME NEW u \in Units(f, A) PROVE place[u] \in Units(g, B)
  <2>1. PICK b \in B : b = owner[u[1]]
    BY <1>2
  <2>2. number[b][u] \in 1..Total(f, Group(b))
    BY <1>1, <1>2, <2>1
  <2>3. Total(f, Group(b)) \in Nat
    <3>1. IsFiniteSet(Group(b)) /\ \A a \in Group(b) : f[a] \in Nat
      BY FS_Subset
    <3>2. QED
      BY <3>1, TotalNatural
  <2>4. number[b][u] \in 1..g[b]
    BY <2>2, <2>3
  <2>5. place[u] = <<b, number[b][u]>>
    BY <2>1
  <2>6. QED
    BY <2>4, <2>5, UnitsMember
<1>4. ASSUME NEW u \in Units(f, A), NEW v \in Units(f, A), place[u] = place[v] PROVE u = v
  <2>1. PICK b \in B, c \in B : b = owner[u[1]] /\ c = owner[v[1]]
    BY <1>2
  <2>2. place[u] = <<b, number[b][u]>> /\ place[v] = <<c, number[c][v]>>
    BY <2>1
  <2>3. b = c /\ number[b][u] = number[c][v]
    <3>1. PICK i, j : i = number[b][u] /\ j = number[c][v]
      OBVIOUS
    <3>2. place[u] = <<b, i>> /\ place[v] = <<c, j>>
      BY <2>2, <3>1
    <3> HIDE DEF place
    <3>3. <<b, i>> = <<c, j>>
      BY <1>4, <3>2, Zenon
    <3>4. QED
      BY <3>1, <3>3
  <2>4. u \in Units(f, Group(b)) /\ v \in Units(f, Group(b)) /\ number[b][u] = number[b][v]
    BY <1>2, <2>1, <2>3
  <2>5. QED
    BY <1>1, <2>4
<1>5. place \in Injection(Units(f, A), Units(g, B))
  <2>1. place = [u \in Units(f, A) |-> place[u]] /\ DOMAIN place = Units(f, A)
    OBVIOUS
  <2> HIDE DEF place
  <2>2. place \in [Units(f, A) -> Units(g, B)]
    BY <1>3, <2>1
  <2>3. QED
    BY <1>4, <2>2 DEF Injection, IsInjective
<1>6. IsFiniteSet(Units(g, B))
  BY UnitsFinite
<1>7. QED
  BY <1>5, <1>6, FS_Injection DEF Total

(* Quantities of which some are negative: those that are not count nothing   *)
(* among the units of a total.                                              *)
Positive(f, S) == [x \in S |-> IF f[x] > 0 THEN f[x] ELSE 0]

LEMMA PositiveUnits ==
  ASSUME NEW S, NEW f, \A x \in S : f[x] \in Int
  PROVE  /\ Total(f, S) = Total(Positive(f, S), S) /\ Units(f, S) = Units(Positive(f, S), S)
         /\ \A x \in S : Positive(f, S)[x] \in Nat
<1>1. ASSUME NEW x \in S
      PROVE  /\ 1..f[x] = 1..Positive(f, S)[x] /\ Positive(f, S)[x] \in Nat
             /\ {x} \X (1..f[x]) = {x} \X (1..Positive(f, S)[x])
  <2>1. Positive(f, S)[x] = IF f[x] > 0 THEN f[x] ELSE 0
    BY DEF Positive
  <2>2. 1..f[x] = 1..Positive(f, S)[x] /\ Positive(f, S)[x] \in Nat
    BY <2>1
  <2> QED
    BY <2>2
<1>2. Units(f, S) = Units(Positive(f, S), S)
  BY <1>1 DEF Units
<1> QED
  BY <1>1, <1>2 DEF Total

LEMMA IntegerUnits ==
  ASSUME NEW S, IsFiniteSet(S), NEW f, \A x \in S : f[x] \in Int
  PROVE  IsFiniteSet(Units(f, S)) /\ Total(f, S) \in Nat
<1> DEFINE g == Positive(f, S)
<1>1. Total(f, S) = Total(g, S) /\ Units(f, S) = Units(g, S) /\ \A x \in S : g[x] \in Nat
  BY PositiveUnits
<1> HIDE DEF g
<1> QED
  BY <1>1, UnitsFinite, TotalNatural

(* The same quantities, of rows that are named otherwise. *)
LEMMA TotalRenamed ==
  ASSUME NEW S, IsFiniteSet(S), NEW T, NEW h \in Bijection(S, T), NEW f, NEW g,
         \A n \in S : g[n] \in Int, \A n \in S : f[h[n]] = g[n]
  PROVE  Total(f, T) = Total(g, S)
<1> DEFINE k == [u \in Units(g, S) |-> <<h[u[1]], u[2]>>]
<1>0. /\ h \in [S -> T] /\ \A x \in T : \E n \in S : h[n] = x
      /\ \A n, m \in S : h[n] = h[m] => n = m
  BY DEF Bijection, Injection, Surjection, IsInjective
<1>1. IsFiniteSet(Units(g, S))
  BY IntegerUnits
<1>2. ASSUME NEW u \in Units(g, S)
      PROVE  \E n \in S : \E i \in 1..g[n] : u = <<n, i>> /\ k[u] = <<h[n], i>>
  <2>1. PICK n \in S : \E i \in 1..g[n] : u = <<n, i>>
    BY UnitsMember
  <2>2. PICK i \in 1..g[n] : u = <<n, i>>
    BY <2>1
  <2>3. k[u] = <<h[n], i>>
    BY <2>2
  <2> QED
    BY <2>2, <2>3
<1>3. \A u \in Units(g, S) : k[u] \in Units(f, T)
  <2>1. SUFFICES ASSUME NEW u \in Units(g, S)
                 PROVE  k[u] \in Units(f, T)
    OBVIOUS
  <2>2. PICK n \in S, i \in Nat : i \in 1..g[n] /\ u = <<n, i>> /\ k[u] = <<h[n], i>>
    BY <1>2
  <2>3. h[n] \in T /\ i \in 1..f[h[n]]
    BY <1>0, <2>2
  <2> QED
    BY <2>2, <2>3, UnitsMember
<1>4. \A v \in Units(f, T) : \E u \in Units(g, S) : k[u] = v
  <2>1. SUFFICES ASSUME NEW v \in Units(f, T)
                 PROVE  \E u \in Units(g, S) : k[u] = v
    OBVIOUS
  <2>2. PICK x \in T : \E i \in 1..f[x] : v = <<x, i>>
    BY UnitsMember
  <2>3. PICK i \in 1..f[x] : v = <<x, i>>
    BY <2>2
  <2>4. PICK n \in S : x = h[n]
    BY <1>0
  <2>5. i \in 1..g[n]
    BY <2>3, <2>4
  <2>6. <<n, i>> \in Units(g, S)
    BY <2>5, UnitsMember
  <2>7. k[<<n, i>>] = v
    BY <2>3, <2>4, <2>6
  <2> QED
    BY <2>6, <2>7
<1>5. \A u, v \in Units(g, S) : k[u] = k[v] => u = v
  <2>1. SUFFICES ASSUME NEW u \in Units(g, S), NEW v \in Units(g, S), k[u] = k[v]
                 PROVE  u = v
    OBVIOUS
  <2>2. PICK n \in S, i \in Nat : u = <<n, i>> /\ k[u] = <<h[n], i>>
    BY <1>2
  <2>3. PICK m \in S, j \in Nat : v = <<m, j>> /\ k[v] = <<h[m], j>>
    BY <1>2
  <2>4. <<h[n], i>> = <<h[m], j>>
    BY <2>1, <2>2, <2>3
  <2>5. n = m /\ i = j
    BY <1>0, <2>4
  <2> QED
    BY <2>2, <2>3, <2>5
<1>6. k \in [Units(g, S) -> Units(f, T)]
  BY <1>3
<1> HIDE DEF k
<1>7. k \in Bijection(Units(g, S), Units(f, T))
  BY <1>4, <1>5, <1>6, Zenon DEF Bijection, Injection, Surjection, IsInjective
<1>8. ExistsBijection(Units(g, S), Units(f, T))
  BY <1>7 DEF ExistsBijection
<1>9. Cardinality(Units(f, T)) = Cardinality(Units(g, S))
  BY <1>1, <1>8, FS_Bijection
<1> QED
  BY <1>9 DEF Total

(* Rows that have what they have in two others together have their totals   *)
(* together.                                                                *)
LEMMA TotalPlus ==
  ASSUME NEW S, IsFiniteSet(S), NEW f, NEW g, NEW h,
         \A x \in S : g[x] \in Nat /\ h[x] \in Nat /\ f[x] = g[x] + h[x]
  PROVE  Total(f, S) = Total(g, S) + Total(h, S)
<1> DEFINE k == [u \in Units(h, S) |-> <<u[1], g[u[1]] + u[2]>>]
           More == Units(f, S) \ Units(g, S)
<1>1. IsFiniteSet(Units(f, S)) /\ IsFiniteSet(Units(g, S)) /\ IsFiniteSet(Units(h, S))
  <2>1. \A x \in S : f[x] \in Nat
    OBVIOUS
  <2> QED
    BY <2>1, UnitsFinite
<1>2. \A x \in S, i \in Nat :
        /\ <<x, i>> \in Units(f, S) <=> i \in 1..f[x]
        /\ <<x, i>> \in Units(g, S) <=> i \in 1..g[x]
        /\ <<x, i>> \in Units(h, S) <=> i \in 1..h[x]
  BY UnitsMember
<1>3. /\ \A u \in Units(f, S) : \E x \in S, i \in Nat : u = <<x, i>>
      /\ \A u \in Units(g, S) : \E x \in S, i \in Nat : u = <<x, i>>
      /\ \A u \in Units(h, S) : \E x \in S, i \in Nat : u = <<x, i>>
  <2>1. \A n : \A i \in 1..n : i \in Nat
    OBVIOUS
  <2> QED
    BY <2>1, UnitsMember
<1>4. \A u \in Units(h, S) : k[u] \in More
  <2>1. SUFFICES ASSUME NEW u \in Units(h, S)
                 PROVE  k[u] \in More
    OBVIOUS
  <2>2. PICK x \in S, i \in Nat : u = <<x, i>>
    BY <1>3
  <2>3. k[u] = <<x, g[x] + i>> /\ i \in 1..h[x]
    BY <1>2, <2>2
  <2>4. g[x] + i \in 1..f[x] /\ g[x] + i \in Nat /\ ~(g[x] + i \in 1..g[x])
    BY <2>3
  <2> QED
    BY <1>2, <2>3, <2>4
<1>5. \A v \in More : \E u \in Units(h, S) : k[u] = v
  <2>1. SUFFICES ASSUME NEW v \in More
                 PROVE  \E u \in Units(h, S) : k[u] = v
    OBVIOUS
  <2>2. PICK x \in S, i \in Nat : v = <<x, i>>
    BY <1>3
  <2>3. i \in 1..f[x] /\ ~(i \in 1..g[x])
    BY <1>2, <2>2
  <2>4. PICK j \in Nat : j \in 1..h[x] /\ i = g[x] + j
    <3>1. i - g[x] \in Nat /\ i - g[x] \in 1..h[x] /\ i = g[x] + (i - g[x])
      BY <2>3
    <3> QED
      BY <3>1
  <2>5. <<x, j>> \in Units(h, S)
    BY <1>2, <2>4
  <2>6. k[<<x, j>>] = v
    BY <2>2, <2>4, <2>5
  <2> QED
    BY <2>5, <2>6
<1>6. \A u, v \in Units(h, S) : k[u] = k[v] => u = v
  <2>1. SUFFICES ASSUME NEW u \in Units(h, S), NEW v \in Units(h, S), k[u] = k[v]
                 PROVE  u = v
    OBVIOUS
  <2>2. PICK x \in S, i \in Nat : u = <<x, i>>
    BY <1>3
  <2>3. PICK y \in S, j \in Nat : v = <<y, j>>
    BY <1>3
  <2>4. k[u] = <<x, g[x] + i>> /\ k[v] = <<y, g[y] + j>>
    BY <2>2, <2>3
  <2>5. x = y /\ g[x] + i = g[y] + j
    BY <2>1, <2>4
  <2> QED
    BY <2>2, <2>3, <2>5
<1>7. k \in [Units(h, S) -> More]
  BY <1>4
<1>8. Cardinality(More) = Cardinality(Units(h, S))
  <2> HIDE DEF k, More
  <2>1. k \in Bijection(Units(h, S), More)
    BY <1>5, <1>6, <1>7, Zenon DEF Bijection, Injection, Surjection, IsInjective
  <2>2. ExistsBijection(Units(h, S), More)
    BY <2>1 DEF ExistsBijection
  <2> QED
    BY <1>1, <2>2, FS_Bijection
<1>9. Units(f, S) = Units(g, S) \cup More /\ Units(g, S) \cap More = {}
  <2>1. \A u \in Units(g, S) : u \in Units(f, S)
    <3>1. SUFFICES ASSUME NEW u \in Units(g, S)
                   PROVE  u \in Units(f, S)
      OBVIOUS
    <3>2. PICK x \in S, i \in Nat : u = <<x, i>>
      BY <1>3
    <3>3. i \in 1..f[x]
      BY <1>2, <3>2
    <3> QED
      BY <1>2, <3>2, <3>3
  <2> QED
    BY <2>1
<1>10. IsFiniteSet(More)
  BY <1>1, FS_Subset
<1> HIDE DEF More
<1>11. Cardinality(Units(f, S)) =
         Cardinality(Units(g, S)) + Cardinality(More) - Cardinality({})
  BY <1>1, <1>9, <1>10, FS_Union
<1>12. Cardinality({}) = 0 /\ Cardinality(Units(g, S)) \in Nat /\ Cardinality(More) \in Nat
  BY <1>1, <1>10, FS_EmptySet, FS_CardinalityType
<1> QED
  BY <1>8, <1>11, <1>12 DEF Total

-----------------------------------------------------------------------------
(* The first and the last of some numbers.                                  *)
LEMMA LeastNumber ==
  ASSUME NEW S \in SUBSET Nat, S # {}
  PROVE  \E n \in S : \A k \in S : n <= k
<1>1. PICK n \in S : \A k \in S : ~(<<k, n>> \in OpToRel(<, Nat))
  BY NatLessThanWellFounded, WFMin
<1>2. ASSUME NEW k \in S
      PROVE  n <= k
  <2>1. ~(k < n) /\ k \in Nat /\ n \in Nat
    BY <1>1 DEF OpToRel
  <2> QED
    BY <2>1
<1> QED
  BY <1>2

LEMMA GreatestNumber ==
  ASSUME NEW S \in SUBSET Nat, S # {}, NEW M \in Nat, \A n \in S : n <= M
  PROVE  \E n \in S : \A k \in S : k <= n
<1> DEFINE Gap == {M - n : n \in S}
<1>1. Gap \subseteq Nat /\ Gap # {}
  <2>1. \A n \in S : M - n \in Nat
    OBVIOUS
  <2> QED
    BY <2>1
<1>2. PICK x \in Gap : \A y \in Gap : ~(<<y, x>> \in OpToRel(<, Nat))
  BY <1>1, NatLessThanWellFounded, WFMin
<1>3. PICK n \in S : x = M - n
  BY <1>2
<1>4. ASSUME NEW k \in S
      PROVE  k <= n
  <2>1. M - k \in Gap /\ x \in Nat /\ M - k \in Nat
    BY <1>1
  <2>2. ~(M - k < x)
    BY <1>2, <2>1 DEF OpToRel
  <2> QED
    BY <1>3, <2>2
<1> QED
  BY <1>3, <1>4

(* Induction over the numbers, and over the parts of a finite set, for a    *)
(* set of those that have the property.                                     *)
LEMMA ByNumbers ==
  ASSUME NEW P, 0 \in P, \A k \in Nat : k \in P => k + 1 \in P
  PROVE  \A k \in Nat : k \in P
<1> DEFINE Q == {k \in Nat : k \notin P}
<1>1. SUFFICES ASSUME Q # {}
               PROVE  FALSE
  OBVIOUS
<1>2. PICK k \in Q : \A i \in Q : k <= i
  <2>1. Q \in SUBSET Nat
    OBVIOUS
  <2> HIDE DEF Q
  <2> QED
    BY <1>1, <2>1, LeastNumber
<1>3. PICK i \in Nat : k = i + 1
  <2>1. k \in Nat /\ k # 0
    BY <1>2
  <2>2. k - 1 \in Nat /\ k = (k - 1) + 1
    BY <2>1
  <2> QED
    BY <2>2
<1>4. i \notin Q
  <2>1. ~(k <= i)
    BY <1>3
  <2> HIDE DEF Q
  <2> QED
    BY <1>2, <2>1
<1> QED
  BY <1>2, <1>3, <1>4

LEMMA ByParts ==
  ASSUME NEW S, IsFiniteSet(S), NEW P, {} \in P,
         \A T \in SUBSET S : \A x \in S \ T : T \in P => T \cup {x} \in P
  PROVE  S \in P
<1> DEFINE Q == {n \in Nat : \A T \in SUBSET S : Cardinality(T) = n => T \in P}
<1>1. 0 \in Q
  <2>1. ASSUME NEW T \in SUBSET S, Cardinality(T) = 0
        PROVE  T \in P
    <3>1. T = {}
      BY <2>1, FS_Subset, FS_EmptySet
    <3> QED
      BY <3>1
  <2> QED
    BY <2>1
<1>2. ASSUME NEW n \in Nat, n \in Q
      PROVE  n + 1 \in Q
  <2>1. ASSUME NEW T \in SUBSET S, Cardinality(T) = n + 1
        PROVE  T \in P
    <3>1. IsFiniteSet(T) /\ T # {}
      BY <2>1, FS_Subset, FS_EmptySet
    <3>2. PICK x \in T : TRUE
      BY <3>1
    <3>3. Cardinality(T \ {x}) = n
      <4>1. Cardinality(T \ {x}) = Cardinality(T) - 1
        BY <3>1, FS_RemoveElement
      <4> QED
        BY <2>1, <4>1
    <3>4. T \ {x} \in P
      BY <1>2, <3>3
    <3>5. (T \ {x}) \cup {x} = T /\ T \ {x} \in SUBSET S /\ x \in S \ (T \ {x})
      OBVIOUS
    <3> QED
      BY <3>4, <3>5
  <2> QED
    BY <2>1
<1>3. \A n \in Nat : n \in Q
  <2> HIDE DEF Q
  <2> QED
    BY <1>1, <1>2, ByNumbers
<1>4. Cardinality(S) \in Q
  <2> HIDE DEF Q
  <2> QED
    BY <1>3, FS_CardinalityType
<1> QED
  BY <1>4

(* One more row, whatever the quantities. *)
LEMMA TotalNext ==
  ASSUME NEW S, IsFiniteSet(S), NEW x, x \notin S, NEW f, \A y \in S \cup {x} : f[y] \in Nat
  PROVE  Total(f, S \cup {x}) = Total(f, S) + f[x]
<1>1. Total(f, S \cup {x}) - Total(f, S) = f[x]
  BY TotalJoin
<1>2. IsFiniteSet(S \cup {x}) /\ f[x] \in Nat
  BY FS_AddElement
<1>3. Total(f, S) \in Nat /\ Total(f, S \cup {x}) \in Nat
  BY <1>2, TotalNatural
<1> QED
  BY <1>1, <1>2, <1>3

(* The quantity of a row is at most the total.                              *)
LEMMA TotalRow ==
  ASSUME NEW S, IsFiniteSet(S), NEW x \in S, NEW f, \A y \in S : f[y] \in Nat
  PROVE  f[x] <= Total(f, S)
<1>1. PICK R : R = S \ {x}
  OBVIOUS
<1>2. IsFiniteSet(R) /\ x \notin R /\ S = R \cup {x}
  BY <1>1, FS_RemoveElement
<1>3. Total(f, S) = Total(f, R) + f[x]
  BY <1>2, TotalNext
<1>4. Total(f, R) \in Nat /\ f[x] \in Nat
  BY <1>2, TotalNatural
<1> QED
  BY <1>3, <1>4

(* One row alone has a quantity. *)
LEMMA TotalOnly ==
  ASSUME NEW S, IsFiniteSet(S), NEW x \in S, NEW f, f[x] \in Nat, \A y \in S \ {x} : f[y] = 0
  PROVE  Total(f, S) = f[x]
<1>1. \A y \in S : f[y] \in Nat
  OBVIOUS
<1>2. PICK R : R = S \ {x}
  OBVIOUS
<1>3. IsFiniteSet(R) /\ x \notin R /\ S = R \cup {x}
  BY <1>2, FS_RemoveElement
<1>4. Total(f, S) = Total(f, R) + f[x]
  BY <1>1, <1>3, TotalNext
<1>5. Total(f, R) = 0
  BY <1>2, TotalZero
<1> QED
  BY <1>4, <1>5

(* A multiple of every row is that multiple of the total.                   *)
LEMMA TotalTimes ==
  ASSUME NEW S, IsFiniteSet(S), NEW c \in Nat, NEW f, NEW g,
         \A x \in S : f[x] \in Nat /\ g[x] = c * f[x]
  PROVE  Total(g, S) = c * Total(f, S)
<1> DEFINE P == {T \in SUBSET S : Total(g, T) = c * Total(f, T)}
<1>1. {} \in P
  <2>1. Total(f, {}) = 0 /\ Total(g, {}) = 0
    BY TotalEmpty
  <2> QED
    BY <2>1
<1>2. ASSUME NEW T \in SUBSET S, NEW x \in S \ T, T \in P
      PROVE  T \cup {x} \in P
  <2>1. IsFiniteSet(T)
    BY FS_Subset
  <2>2. \A y \in S : f[y] \in Nat /\ g[y] \in Nat
    OBVIOUS
  <2>3. Total(f, T \cup {x}) = Total(f, T) + f[x] /\ Total(g, T \cup {x}) = Total(g, T) + g[x]
    BY <2>1, <2>2, TotalNext
  <2>4. PICK a \in Nat, b \in Nat : a = Total(f, T) /\ b = f[x]
    BY <2>1, <2>2, TotalNatural
  <2>5. Total(g, T) = c * a /\ g[x] = c * b
    BY <1>2, <2>4
  <2>6. c * (a + b) = c * a + c * b
    OBVIOUS
  <2>7. Total(g, T \cup {x}) = c * Total(f, T \cup {x})
    BY <2>3, <2>4, <2>5, <2>6
  <2> QED
    BY <2>7
<1>3. S \in P
  <2> HIDE DEF P
  <2> QED
    BY <1>1, <1>2, ByParts
<1> QED
  BY <1>3

(* Rows of rows can be added up in either order.                            *)
LEMMA TotalSwap ==
  ASSUME NEW A, IsFiniteSet(A), NEW B, IsFiniteSet(B), NEW f,
         \A x \in A : \A y \in B : f[x][y] \in Nat
  PROVE  Total([x \in A |-> Total(f[x], B)], A)
           = Total([y \in B |-> Total([x \in A |-> f[x][y]], A)], B)
<1> DEFINE rows == [x \in A |-> Total(f[x], B)]
           Column(T) == [y \in B |-> Total([x \in A |-> f[x][y]], T)]
           P == {T \in SUBSET A : Total(rows, T) = Total(Column(T), B)}
<1>1. {} \in P
  <2>1. \A y \in B : Column({})[y] = 0
    BY TotalEmpty
  <2>2. Total(Column({}), B) = 0
    <3> HIDE DEF Column
    <3> QED
      BY <2>1, TotalZero
  <2>3. Total(rows, {}) = 0
    BY TotalEmpty
  <2> QED
    BY <2>2, <2>3
<1>2. ASSUME NEW T \in SUBSET A, NEW x \in A \ T, T \in P
      PROVE  T \cup {x} \in P
  <2>1. IsFiniteSet(T) /\ T \cup {x} \in SUBSET A
    BY FS_Subset
  <2>2. \A z \in A : rows[z] \in Nat /\ rows[z] = Total(f[z], B)
    BY TotalNatural
  <2>3. Total(rows, T \cup {x}) = Total(rows, T) + Total(f[x], B)
    <3> HIDE DEF rows
    <3>1. Total(rows, T \cup {x}) = Total(rows, T) + rows[x]
      BY <2>1, <2>2, TotalNext
    <3> QED
      BY <2>2, <3>1
  <2>4. ASSUME NEW y \in B
        PROVE  /\ Column(T)[y] \in Nat /\ f[x][y] \in Nat
               /\ Column(T \cup {x})[y] = Column(T)[y] + f[x][y]
    <3> DEFINE g == [z \in A |-> f[z][y]]
    <3>1. \A z \in A : g[z] \in Nat
      OBVIOUS
    <3>2. g[x] = f[x][y]
      OBVIOUS
    <3>3. Column(T)[y] = Total(g, T) /\ Column(T \cup {x})[y] = Total(g, T \cup {x})
      OBVIOUS
    <3> HIDE DEF g, Column
    <3>4. Total(g, T) \in Nat
      BY <2>1, <3>1, TotalNatural
    <3>5. Total(g, T \cup {x}) = Total(g, T) + g[x]
      BY <2>1, <3>1, TotalNext
    <3> QED
      BY <3>2, <3>3, <3>4, <3>5
  <2>5. Total(Column(T \cup {x}), B) = Total(Column(T), B) + Total(f[x], B)
    <3>1. PICK F, G, H : F = Column(T \cup {x}) /\ G = Column(T) /\ H = f[x]
      OBVIOUS
    <3>2. \A y \in B : G[y] \in Nat /\ H[y] \in Nat /\ F[y] = G[y] + H[y]
      BY <2>4, <3>1, Zenon
    <3>3. Total(F, B) = Total(G, B) + Total(H, B)
      BY <3>2, TotalPlus
    <3> QED
      BY <3>1, <3>3, Zenon
  <2>6. Total(rows, T \cup {x}) = Total(Column(T \cup {x}), B)
    <3> HIDE DEF rows, Column
    <3>1. Total(rows, T) = Total(Column(T), B)
      BY <1>2
    <3> QED
      BY <2>3, <2>5, <3>1
  <2> QED
    BY <2>1, <2>6
<1>3. A \in P
  <2> HIDE DEF P
  <2> QED
    BY <1>1, <1>2, ByParts
<1> QED
  BY <1>3

(* Rows that are weighted: when the quantities v are those of the parts C    *)
(* together, so are the weighted totals.                                    *)
Together(f, C, x) == Total([c \in C |-> f[c][x]], C)
Weighted(v, p, S) == Total([x \in S |-> v[x] * p[x]], S)

LEMMA TotalWeighted ==
  ASSUME NEW S, IsFiniteSet(S), NEW C, IsFiniteSet(C), NEW f, NEW v, NEW p,
         \A c \in C : \A g \in S : f[c][g] \in Nat, \A g \in S : p[g] \in Nat,
         \A g \in S : v[g] = Together(f, C, g)
  PROVE  Weighted(v, p, S) = Total([c \in C |-> Weighted(f[c], p, S)], C)
<1>1. PICK F : F = [g \in S |-> [c \in C |-> f[c][g] * p[g]]]
  OBVIOUS
<1>2. \A g \in S : \A c \in C : F[g][c] \in Nat
  <2>1. \A g \in S : \A c \in C : f[c][g] \in Nat /\ p[g] \in Nat
    OBVIOUS
  <2>2. \A a, b \in Nat : a * b \in Nat
    OBVIOUS
  <2> QED
    BY <1>1, <2>1, <2>2
<1>3. ASSUME NEW g \in S
      PROVE  v[g] * p[g] = Total(F[g], C)
  <2>1. PICK b \in Nat : b = p[g]
    OBVIOUS
  <2>2. PICK d, e : d = F[g] /\ e = [c \in C |-> f[c][g]]
    OBVIOUS
  <2>3. \A c \in C : e[c] \in Nat /\ d[c] = b * e[c]
    <3>1. \A c \in C : e[c] = f[c][g] /\ d[c] = f[c][g] * b
      BY <1>1, <2>1, <2>2
    <3>2. \A c \in C : f[c][g] \in Nat /\ f[c][g] * b = b * f[c][g]
      OBVIOUS
    <3> QED
      BY <3>1, <3>2
  <2>4. Total(d, C) = b * Total(e, C) /\ Total(e, C) \in Nat
    BY <2>3, TotalTimes, TotalNatural
  <2>5. v[g] = Total(e, C)
    BY <2>2 DEF Together
  <2>6. Total(e, C) * b = b * Total(e, C)
    BY <2>4
  <2> QED
    BY <2>1, <2>2, <2>4, <2>5, <2>6
<1>4. Total([g \in S |-> Total(F[g], C)], S)
        = Total([c \in C |-> Total([g \in S |-> F[g][c]], S)], C)
  BY <1>2, TotalSwap
<1>5. [g \in S |-> v[g] * p[g]] = [g \in S |-> Total(F[g], C)]
  BY <1>3
<1>6. \A c \in C : [g \in S |-> F[g][c]] = [g \in S |-> f[c][g] * p[g]]
  BY <1>1
<1>7. [c \in C |-> Total([g \in S |-> F[g][c]], S)] = [c \in C |-> Weighted(f[c], p, S)]
  BY <1>6 DEF Weighted
<1> QED
  BY <1>4, <1>5, <1>7 DEF Weighted

=============================================================================
