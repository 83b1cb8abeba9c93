----------------------------- MODULE StoreProofs -----------------------------
(***************************************************************************)
(* The store of the control plane.                                         *)
(*                                                                         *)
(* Placement: the branch registry, the replica roles, the capacity a host  *)
(* carries and the quota of an org, for any sets of orgs, hosts, refs,     *)
(* names, sizes and limits.  The totals are sums over sets, a fold in the  *)
(* model.  The first part shows that such a sum is the cardinality of a    *)
(* set of cells, f[x] of them for every x, which needs one induction over  *)
(* finite sets (a minimal counterexample).  What happens to a sum when an  *)
(* element comes, goes or changes then follows from the theorems on        *)
(* cardinalities.  The next parts say it of the replicas of a project, of  *)
(* the project table and of every step of the store.                       *)
(*                                                                         *)
(* Durability: what a single control-plane process has acknowledged it     *)
(* keeps, for any set of requests and backups.  The hypothesis Single is   *)
(* needed: with two processes on one database a save of the one erases     *)
(* what the other has stored.                                              *)
(***************************************************************************)
EXTENDS Placement, Durability, FiniteSetTheorems, TLAPS

-----------------------------------------------------------------------------
(* Sums. *)

\* The definition of SumFunction with its parameters filled in.
Pick(s) == CHOOSE x \in s : TRUE
Step(f, it, s) == IF s = {} THEN 0 ELSE f[Pick(s)] + it[s \ {Pick(s)}]
Iter(f, S) == CHOOSE it : it = [s \in SUBSET S |-> Step(f, it, s)]

LEMMA Unfold == ASSUME NEW f PROVE SumFunction(f) = Iter(f, DOMAIN f)[DOMAIN f]
  BY DEF SumFunction, SumFunctionOnSet, FoldFunctionOnSet, MapThenFoldSet, Iter, Step, Pick

\* f[x] cells in column x; a sum is the number of all cells.
Column(f, x) == {x} \X (1..f[x])
Columns(f, S) == [x \in S |-> Column(f, x)]
Cells(f, S) == UNION {Column(f, x) : x \in S}
Total(f, S) == Cardinality(Cells(f, S))

LEMMA ColumnSize ==
  ASSUME NEW f, NEW x, f[x] \in Nat
  PROVE  IsFiniteSet(Column(f, x)) /\ Cardinality(Column(f, x)) = f[x]
<1>1. IsFiniteSet({x}) /\ Cardinality({x}) = 1
  BY FS_Singleton
<1>2. IsFiniteSet(1..f[x]) /\ Cardinality(1..f[x]) = f[x]
  BY FS_Interval
<1>3. IsFiniteSet({x} \X (1..f[x])) /\ Cardinality({x} \X (1..f[x])) = 1 * f[x]
  BY <1>1, <1>2, FS_Product
<1> QED
  BY <1>3 DEF Column

LEMMA CellsFinite ==
  ASSUME NEW S, IsFiniteSet(S), NEW f, \A x \in S : f[x] \in Nat
  PROVE  IsFiniteSet(Cells(f, S))
<1> DEFINE T == {Column(f, x) : x \in S}
<1>1. Columns(f, S) \in Surjection(S, T)
  BY DEF Columns, Surjection
<1>2. IsFiniteSet(T)
  BY <1>1, FS_Surjection
<1>3. \A t \in T : IsFiniteSet(t)
  BY ColumnSize
<1> QED
  BY <1>2, <1>3, FS_UNION DEF Cells

LEMMA TotalEmpty == ASSUME NEW f PROVE Total(f, {}) = 0
<1>1. Cells(f, {}) = {}
  BY DEF Cells
<1> QED
  BY <1>1, FS_EmptySet DEF Total

\* Whichever column is taken away first, the rest adds up.
LEMMA TotalRemove ==
  ASSUME NEW S, IsFiniteSet(S), NEW f, \A x \in S : f[x] \in Nat, NEW x \in S
  PROVE  /\ Total(f, S) = f[x] + Total(f, S \ {x})
         /\ Total(f, S) \in Nat /\ Total(f, S \ {x}) \in Nat
<1> DEFINE R == S \ {x}
<1>1. IsFiniteSet(R)
  BY FS_RemoveElement
<1>2. IsFiniteSet(Cells(f, R)) /\ IsFiniteSet(Cells(f, S))
  BY <1>1, CellsFinite
<1>3. Cells(f, S) = Cells(f, R) \cup Column(f, x)
  BY DEF Cells
<1>4. Cells(f, R) \cap Column(f, x) = {}
  BY DEF Cells, Column
<1>5. IsFiniteSet(Column(f, x)) /\ Cardinality(Column(f, x)) = f[x]
  BY ColumnSize
<1>6. Cardinality(Cells(f, S)) = Cardinality(Cells(f, R)) + f[x] - Cardinality({})
  <2> HIDE DEF R
  <2>1. Cardinality(Cells(f, R) \cup Column(f, x))
          = Cardinality(Cells(f, R)) + Cardinality(Column(f, x))
              - Cardinality(Cells(f, R) \cap Column(f, x))
    BY <1>2, <1>5, FS_Union
  <2> QED
    BY <1>3, <1>4, <1>5, <2>1
<1>7. Cardinality(Cells(f, R)) \in Nat /\ Cardinality(Cells(f, S)) \in Nat
  BY <1>2, FS_CardinalityType
<1> QED
  BY <1>6, <1>7, FS_EmptySet DEF Total

\* The fold picks its elements in some order; a smallest subset on which it
\* differs from the number of cells would have a smaller one.
LEMMA SumIsTotal ==
  ASSUME NEW f, IsFiniteSet(DOMAIN f), \A x \in DOMAIN f : f[x] \in Nat
  PROVE  SumFunction(f) = Total(f, DOMAIN f)
<1> DEFINE S == DOMAIN f
           it == Iter(f, S)
           total == [s \in SUBSET S |-> Total(f, s)]
<1>1. \A s \in SUBSET S : s # {} => Pick(s) \in s
  BY DEF Pick
<1>2. \A s \in SUBSET S : IsFiniteSet(s)
  BY FS_Subset
<1>3. ASSUME NEW s \in SUBSET S
      PROVE  Total(f, s) = IF s = {} THEN 0 ELSE f[Pick(s)] + Total(f, s \ {Pick(s)})
  BY <1>1, <1>2, TotalEmpty, TotalRemove
<1>4. \A s \in SUBSET S : total[s] = Step(f, total, s)
  BY <1>3 DEF Step
<1>5. total = [s \in SUBSET S |-> Step(f, total, s)]
  BY <1>4
<1> HIDE DEF total
<1>6. it = [s \in SUBSET S |-> Step(f, it, s)]
  BY <1>5 DEF Iter
<1> HIDE DEF it
<1>7. ASSUME NEW s \in SUBSET S
      PROVE  it[s] = IF s = {} THEN 0 ELSE f[Pick(s)] + it[s \ {Pick(s)}]
  BY <1>6 DEF Step
<1> DEFINE wrong == {s \in SUBSET S : it[s] # Total(f, s)}
<1>8. wrong = {}
  <2> SUFFICES ASSUME wrong # {} PROVE FALSE
    OBVIOUS
  <2>1. IsWellFoundedOn(StrictSubsetOrdering(S), SUBSET S)
    BY FS_StrictSubsetOrderingWellFounded, FS_FiniteSubsetsOfFinite
  <2>2. PICK s \in wrong : \A r \in wrong : <<r, s>> \notin StrictSubsetOrdering(S)
    BY <2>1, WFMin
  <2>3. s # {}
    BY <1>7, <1>3
  <2>4. s \ {Pick(s)} \in SUBSET S /\ s \ {Pick(s)} # s
    BY <1>1, <2>3
  <2>5. <<s \ {Pick(s)}, s>> \in StrictSubsetOrdering(S)
    BY <2>4 DEF StrictSubsetOrdering
  <2>6. it[s \ {Pick(s)}] = Total(f, s \ {Pick(s)})
    BY <2>2, <2>4, <2>5
  <2> QED
    BY <1>3, <1>7, <2>3, <2>6
<1>9. it[S] = Total(f, S)
  BY <1>8
<1> QED
  BY <1>9, Unfold DEF it

\* What the lemmas on sums ask of a function.
Summable(f) == IsFiniteSet(DOMAIN f) /\ \A x \in DOMAIN f : f[x] \in Nat

LEMMA SumEmpty ==
  ASSUME NEW f, DOMAIN f = {}
  PROVE  Summable(f) /\ SumFunction(f) = 0
<1>1. Summable(f)
  BY FS_EmptySet DEF Summable
<1>2. SumFunction(f) = Total(f, DOMAIN f)
  BY <1>1, SumIsTotal DEF Summable
<1> QED
  BY <1>1, <1>2, TotalEmpty

LEMMA SumIsNat ==
  ASSUME NEW f, Summable(f)
  PROVE  SumFunction(f) \in Nat
<1>1. IsFiniteSet(Cells(f, DOMAIN f))
  BY CellsFinite DEF Summable
<1> QED
  BY <1>1, SumIsTotal, FS_CardinalityType DEF Total, Summable

LEMMA SumBound ==
  ASSUME NEW f, Summable(f), NEW x \in DOMAIN f
  PROVE  f[x] <= SumFunction(f)
<1>1. SumFunction(f) = Total(f, DOMAIN f)
  BY SumIsTotal DEF Summable
<1>2. /\ Total(f, DOMAIN f) = f[x] + Total(f, (DOMAIN f) \ {x})
      /\ Total(f, (DOMAIN f) \ {x}) \in Nat
  BY TotalRemove DEF Summable
<1>3. f[x] \in Nat
  BY DEF Summable
<1> QED
  BY <1>1, <1>2, <1>3

\* One more element.
LEMMA SumAdd ==
  ASSUME NEW f, Summable(f), NEW x, x \notin DOMAIN f,
         NEW g, DOMAIN g = DOMAIN f \cup {x}, g[x] \in Nat,
         \A y \in DOMAIN f : g[y] = f[y]
  PROVE  Summable(g) /\ SumFunction(g) = SumFunction(f) + g[x]
<1>1. Summable(g)
  BY FS_AddElement DEF Summable
<1>2. (DOMAIN g) \ {x} = DOMAIN f
  OBVIOUS
<1>3. Total(g, DOMAIN g) = g[x] + Total(g, DOMAIN f) /\ Total(g, DOMAIN f) \in Nat
  BY <1>1, <1>2, TotalRemove DEF Summable
<1>4. Total(g, DOMAIN f) = Total(f, DOMAIN f)
  BY DEF Total, Cells, Column
<1> QED
  BY <1>1, <1>3, <1>4, SumIsTotal DEF Summable

\* Another value for one element.
LEMMA SumChange ==
  ASSUME NEW f, Summable(f), NEW x \in DOMAIN f,
         NEW g, DOMAIN g = DOMAIN f, g[x] \in Nat,
         \A y \in DOMAIN f \ {x} : g[y] = f[y]
  PROVE  /\ Summable(g)
         /\ SumFunction(g) = SumFunction(f) - f[x] + g[x]
         /\ SumFunction(f) - f[x] \in Nat
<1>1. Summable(g)
  BY DEF Summable
<1> DEFINE R == (DOMAIN f) \ {x}
<1>2. /\ Total(g, DOMAIN g) = g[x] + Total(g, R)
      /\ Total(f, DOMAIN f) = f[x] + Total(f, R)
      /\ Total(f, R) \in Nat
  BY <1>1, TotalRemove DEF Summable
<1>3. Total(g, R) = Total(f, R)
  BY DEF Total, Cells, Column
<1> HIDE DEF R
<1>4. f[x] \in Nat
  BY DEF Summable
<1>5. SumFunction(g) = Total(g, DOMAIN g) /\ SumFunction(f) = Total(f, DOMAIN f)
  BY <1>1, SumIsTotal DEF Summable
<1> QED
  BY <1>1, <1>2, <1>3, <1>4, <1>5

\* The same values under other names.
LEMMA SumBijection ==
  ASSUME NEW f, Summable(f), NEW g,
         NEW b \in Bijection(DOMAIN f, DOMAIN g),
         \A x \in DOMAIN f : g[b[x]] = f[x]
  PROVE  Summable(g) /\ SumFunction(g) = SumFunction(f)
<1> DEFINE S == DOMAIN f
           T == DOMAIN g
           C == Cells(f, S)
           D == Cells(g, T)
           c == [e \in C |-> <<b[e[1]], e[2]>>]
<1>1. /\ b \in [S -> T]
      /\ \A x, y \in S : b[x] = b[y] => x = y
      /\ \A t \in T : \E x \in S : b[x] = t
  BY DEF Bijection, Injection, Surjection, IsInjective
<1>2. Summable(g)
  <2>1. ExistsBijection(S, T)
    BY DEF ExistsBijection
  <2> QED
    BY <1>1, <2>1, FS_Bijection DEF Summable
<1>3. \A e : e \in C <=> \E x \in S : \E i \in 1..f[x] : e = <<x, i>>
  BY DEF Cells, Column
<1>4. \A e : e \in D <=> \E t \in T : \E i \in 1..g[t] : e = <<t, i>>
  BY DEF Cells, Column
<1> HIDE DEF C, D
<1>5. c \in [C -> D]
  BY <1>1, <1>3, <1>4
<1>6. \A d, e \in C : c[d] = c[e] => d = e
  BY <1>1, <1>3
<1>7. ASSUME NEW d \in D
      PROVE  \E e \in C : c[e] = d
  <2>1. PICK t \in T : \E i \in 1..g[t] : d = <<t, i>>
    BY <1>4
  <2>2. PICK i \in 1..g[t] : d = <<t, i>>
    BY <2>1
  <2>3. PICK x \in S : b[x] = t
    BY <1>1
  <2>4. <<x, i>> \in C
    BY <1>3, <2>2, <2>3
  <2> QED
    BY <2>2, <2>3, <2>4
<1>8. ExistsBijection(C, D)
  <2> HIDE DEF c
  <2>1. DOMAIN c = C
    BY DEF c
  <2>2. c \in Bijection(C, D)
    BY <1>5, <1>6, <1>7, <2>1 DEF Bijection, Injection, Surjection, IsInjective
  <2> QED
    BY <2>2 DEF ExistsBijection
<1>9. IsFiniteSet(C)
  BY CellsFinite DEF Summable, C
<1>10. Cardinality(D) = Cardinality(C)
  BY <1>8, <1>9, FS_Bijection
<1> QED
  BY <1>2, <1>10, SumIsTotal DEF Summable, Total, C, D

-----------------------------------------------------------------------------
(* Replica sets. *)

\* The units of a replica set, on one host and in all.
OnHost(S, h) == {x \in S : x.host = h}
HostUnits(S, h) == SumFunction([x \in OnHost(S, h) |-> x.size])
AllUnits(S) == SumFunction([x \in S |-> x.size])

ReplicaSet(S) == S \subseteq Replicas /\ IsFiniteSet(S)

LEMMA ReplicaSizesNat ==
  \A x \in Replicas : x.size \in Nat /\ x.size # 0
  BY SizesAssumption DEF Replicas

LEMMA UnitsSummable ==
  ASSUME NEW S, ReplicaSet(S)
  PROVE  /\ Summable([x \in S |-> x.size])
         /\ \A h : Summable([x \in OnHost(S, h) |-> x.size])
<1>1. \A T \in SUBSET S : IsFiniteSet(T)
  BY FS_Subset DEF ReplicaSet
<1>2. \A x \in S : x.size \in Nat
  BY ReplicaSizesNat DEF ReplicaSet
<1>3. \A h : OnHost(S, h) \subseteq S
  BY DEF OnHost
<1> QED
  BY <1>1, <1>2, <1>3 DEF Summable

LEMMA UnitsNat ==
  ASSUME NEW S, ReplicaSet(S)
  PROVE  AllUnits(S) \in Nat /\ \A h : HostUnits(S, h) \in Nat
  BY UnitsSummable, SumIsNat DEF AllUnits, HostUnits

LEMMA UnitsEmpty == AllUnits({}) = 0 /\ \A h : HostUnits({}, h) = 0
<1>1. AllUnits({}) = 0
  BY SumEmpty DEF AllUnits
<1>2. ASSUME NEW h PROVE HostUnits({}, h) = 0
  <2>1. OnHost({}, h) = {}
    BY DEF OnHost
  <2> QED
    BY <2>1, SumEmpty DEF HostUnits
<1> QED
  BY <1>1, <1>2

LEMMA UnitsAdd ==
  ASSUME NEW S, ReplicaSet(S), NEW x \in Replicas, x \notin S
  PROVE  /\ ReplicaSet(S \cup {x})
         /\ AllUnits(S \cup {x}) = AllUnits(S) + x.size
         /\ \A h : HostUnits(S \cup {x}, h)
                     = HostUnits(S, h) + (IF x.host = h THEN x.size ELSE 0)
<1> DEFINE T == S \cup {x}
<1>1. ReplicaSet(T)
  BY FS_AddElement DEF ReplicaSet
<1>2. x.size \in Nat
  BY ReplicaSizesNat
<1>3. AllUnits(T) = AllUnits(S) + x.size
  <2> DEFINE f == [y \in S |-> y.size]
             g == [y \in T |-> y.size]
  <2>1. Summable(f)
    BY UnitsSummable
  <2>2. DOMAIN g = DOMAIN f \cup {x} /\ g[x] = x.size /\ \A y \in DOMAIN f : g[y] = f[y]
    OBVIOUS
  <2>3. x \notin DOMAIN f
    OBVIOUS
  <2> HIDE DEF f, g
  <2>4. SumFunction(g) = SumFunction(f) + x.size
    BY <1>2, <2>1, <2>2, <2>3, SumAdd
  <2> QED
    BY <2>4 DEF f, g, AllUnits
<1>4. ASSUME NEW h
      PROVE  HostUnits(T, h) = HostUnits(S, h) + (IF x.host = h THEN x.size ELSE 0)
  <2> DEFINE f == [y \in OnHost(S, h) |-> y.size]
             g == [y \in OnHost(T, h) |-> y.size]
  <2>1. Summable(f)
    BY UnitsSummable
  <2>2. CASE x.host = h
    <3>1. OnHost(T, h) = OnHost(S, h) \cup {x} /\ x \notin OnHost(S, h)
      BY <2>2 DEF OnHost
    <3>2. DOMAIN g = DOMAIN f \cup {x} /\ g[x] = x.size /\ \A y \in DOMAIN f : g[y] = f[y]
      BY <3>1
    <3>3. x \notin DOMAIN f
      BY <3>1
    <3> HIDE DEF f, g
    <3>4. SumFunction(g) = SumFunction(f) + x.size
      BY <1>2, <2>1, <3>2, <3>3, SumAdd
    <3> QED
      BY <2>2, <3>4 DEF f, g, HostUnits
  <2>3. CASE x.host # h
    <3>1. OnHost(T, h) = OnHost(S, h)
      BY <2>3 DEF OnHost
    <3>2. HostUnits(T, h) = HostUnits(S, h)
      BY <3>1 DEF HostUnits
    <3>3. HostUnits(S, h) \in Nat
      BY UnitsNat
    <3> HIDE DEF T
    <3> QED
      BY <2>3, <3>2, <3>3
  <2> QED
    BY <2>2, <2>3
<1> QED
  BY <1>1, <1>3, <1>4

LEMMA UnitsRemove ==
  ASSUME NEW S, ReplicaSet(S), NEW x \in S
  PROVE  /\ ReplicaSet(S \ {x})
         /\ AllUnits(S) = AllUnits(S \ {x}) + x.size
         /\ \A h : HostUnits(S, h)
                     = HostUnits(S \ {x}, h) + (IF x.host = h THEN x.size ELSE 0)
<1>1. ReplicaSet(S \ {x}) /\ x \in Replicas
  BY FS_RemoveElement DEF ReplicaSet
<1>2. (S \ {x}) \cup {x} = S /\ x \notin S \ {x}
  OBVIOUS
<1> QED
  BY <1>1, <1>2, UnitsAdd

\* A host without replica units has no replica.
LEMMA UnitsZero ==
  ASSUME NEW S, ReplicaSet(S), NEW h, HostUnits(S, h) = 0
  PROVE  \A x \in S : x.host # h
<1> SUFFICES ASSUME NEW x \in S, x.host = h
             PROVE  FALSE
  OBVIOUS
<1>1. x.size \in Nat /\ x.size # 0
  BY ReplicaSizesNat DEF ReplicaSet
<1>2. ReplicaSet(S \ {x}) /\ HostUnits(S, h) = HostUnits(S \ {x}, h) + x.size
  BY UnitsRemove
<1>3. HostUnits(S \ {x}, h) \in Nat
  BY <1>2, UnitsNat
<1> QED
  BY <1>1, <1>2, <1>3

\* Replicas that change neither size nor host.
LEMMA UnitsMap ==
  ASSUME NEW S, ReplicaSet(S), NEW T, T \subseteq Replicas,
         NEW b \in Bijection(S, T),
         \A x \in S : b[x].size = x.size /\ b[x].host = x.host
  PROVE  /\ ReplicaSet(T)
         /\ AllUnits(T) = AllUnits(S)
         /\ \A h : HostUnits(T, h) = HostUnits(S, h)
<1>1. /\ b \in [S -> T]
      /\ \A x, y \in S : b[x] = b[y] => x = y
      /\ \A t \in T : \E x \in S : b[x] = t
  BY DEF Bijection, Injection, Surjection, IsInjective
<1>2. ReplicaSet(T)
  BY FS_Bijection DEF ReplicaSet, ExistsBijection
<1>3. AllUnits(T) = AllUnits(S)
  <2> DEFINE f == [x \in S |-> x.size]
             g == [x \in T |-> x.size]
  <2>1. Summable(f)
    BY UnitsSummable
  <2>2. DOMAIN f = S /\ DOMAIN g = T /\ \A x \in S : g[b[x]] = f[x]
    BY <1>1
  <2> HIDE DEF f, g
  <2>3. SumFunction(g) = SumFunction(f)
    BY <2>1, <2>2, SumBijection
  <2> QED
    BY <2>3 DEF f, g, AllUnits
<1>4. ASSUME NEW h PROVE HostUnits(T, h) = HostUnits(S, h)
  <2> DEFINE f == [x \in OnHost(S, h) |-> x.size]
             g == [x \in OnHost(T, h) |-> x.size]
             c == [x \in OnHost(S, h) |-> b[x]]
  <2>1. Summable(f)
    BY UnitsSummable
  <2>2. DOMAIN f = OnHost(S, h) /\ DOMAIN g = OnHost(T, h) /\ DOMAIN c = OnHost(S, h)
    OBVIOUS
  <2>3. \A x \in OnHost(S, h) : c[x] \in OnHost(T, h) /\ g[c[x]] = f[x]
    BY <1>1 DEF OnHost
  <2>4. c \in [OnHost(S, h) -> OnHost(T, h)]
    BY <2>3
  <2>5. \A x, y \in OnHost(S, h) : c[x] = c[y] => x = y
    BY <1>1 DEF OnHost
  <2>6. \A t \in OnHost(T, h) : \E x \in OnHost(S, h) : c[x] = t
    BY <1>1 DEF OnHost
  <2> HIDE DEF f, g, c
  <2>7. c \in Bijection(OnHost(S, h), OnHost(T, h))
    BY <2>2, <2>4, <2>5, <2>6 DEF Bijection, Injection, Surjection, IsInjective
  <2>8. SumFunction(g) = SumFunction(f)
    BY <2>1, <2>2, <2>3, <2>7, SumBijection
  <2> QED
    BY <2>8 DEF f, g, HostUnits
<1> QED
  BY <1>2, <1>3, <1>4

-----------------------------------------------------------------------------
(* The project table, as values: sp for spec, rp for replicas. *)

PlacedOn(sp, h) == {p \in DOMAIN sp : sp[p].host = h}
PlacedUnits(sp, h) == SumFunction([p \in PlacedOn(sp, h) |-> sp[p].size])
ReplicaLoad(sp, rp, h) == SumFunction([p \in DOMAIN sp |-> HostUnits(rp[p], h)])
BelongTo(sp, o) == {p \in DOMAIN sp : sp[p].org = o}
OrgUnits(sp, rp, o) ==
  SumFunction([p \in BelongTo(sp, o) |-> sp[p].size + AllUnits(rp[p])])

\* What a project table is at any time.
Table(sp, rp) ==
  /\ IsFiniteSet(DOMAIN sp)
  /\ \A p \in DOMAIN sp : sp[p] \in Specs /\ ReplicaSet(rp[p])

LEMMA ProjectSizesNat ==
  \A s \in Specs : s.size \in Nat
  BY SizesAssumption DEF Specs

LEMMA TableSummable ==
  ASSUME NEW sp, NEW rp, Table(sp, rp)
  PROVE  /\ \A h : /\ IsFiniteSet(PlacedOn(sp, h))
                   /\ Summable([p \in PlacedOn(sp, h) |-> sp[p].size])
                   /\ Summable([p \in DOMAIN sp |-> HostUnits(rp[p], h)])
         /\ \A o : /\ IsFiniteSet(BelongTo(sp, o))
                   /\ Summable([p \in BelongTo(sp, o) |-> sp[p].size + AllUnits(rp[p])])
<1>1. \A T \in SUBSET DOMAIN sp : IsFiniteSet(T)
  BY FS_Subset DEF Table
<1>2. \A h : PlacedOn(sp, h) \in SUBSET DOMAIN sp
  BY DEF PlacedOn
<1>3. \A o : BelongTo(sp, o) \in SUBSET DOMAIN sp
  BY DEF BelongTo
<1>4. \A p \in DOMAIN sp : /\ sp[p].size \in Nat
                           /\ AllUnits(rp[p]) \in Nat
                           /\ \A h : HostUnits(rp[p], h) \in Nat
  BY ProjectSizesNat, UnitsNat DEF Table
<1>5. \A p \in DOMAIN sp : sp[p].size + AllUnits(rp[p]) \in Nat
  BY <1>4
<1> QED
  BY <1>1, <1>2, <1>3, <1>4, <1>5 DEF Summable

LEMMA LoadsNat ==
  ASSUME NEW sp, NEW rp, Table(sp, rp)
  PROVE  /\ \A h : /\ PlacedUnits(sp, h) \in Nat
                   /\ ReplicaLoad(sp, rp, h) \in Nat
                   /\ Cardinality(PlacedOn(sp, h)) \in Nat
         /\ \A o : OrgUnits(sp, rp, o) \in Nat
  BY TableSummable, SumIsNat, FS_CardinalityType DEF PlacedUnits, ReplicaLoad, OrgUnits

\* sq is sp with one more project, whose replicas only rq knows.
Extends(sp, rp, sq, rq, p) ==
  /\ Table(sp, rp)
  /\ Table(sq, rq)
  /\ p \notin DOMAIN sp
  /\ DOMAIN sq = DOMAIN sp \cup {p}
  /\ \A q \in DOMAIN sp : sq[q] = sp[q] /\ rq[q] = rp[q]

LEMMA PlacedExtends ==
  ASSUME NEW sp, NEW rp, NEW sq, NEW rq, NEW p, Extends(sp, rp, sq, rq, p), NEW h
  PROVE  /\ PlacedUnits(sq, h)
              = PlacedUnits(sp, h) + (IF sq[p].host = h THEN sq[p].size ELSE 0)
         /\ Cardinality(PlacedOn(sq, h))
              = Cardinality(PlacedOn(sp, h)) + (IF sq[p].host = h THEN 1 ELSE 0)
<1> DEFINE f == [q \in PlacedOn(sp, h) |-> sp[q].size]
           g == [q \in PlacedOn(sq, h) |-> sq[q].size]
<1>1. Summable(f) /\ IsFiniteSet(PlacedOn(sp, h))
  BY TableSummable DEF Extends
<1>2. p \notin PlacedOn(sp, h) /\ sq[p].size \in Nat
  BY ProjectSizesNat DEF Extends, PlacedOn, Table
<1>3. CASE sq[p].host = h
  <2>1. PlacedOn(sq, h) = PlacedOn(sp, h) \cup {p}
    BY <1>3 DEF Extends, PlacedOn
  <2>2. DOMAIN g = DOMAIN f \cup {p} /\ g[p] = sq[p].size
    BY <2>1
  <2>3. \A q \in DOMAIN f : g[q] = f[q]
    BY <2>1 DEF Extends, PlacedOn
  <2>4. p \notin DOMAIN f
    BY <1>2
  <2> HIDE DEF f, g
  <2>5. SumFunction(g) = SumFunction(f) + sq[p].size
    BY <1>1, <1>2, <2>2, <2>3, <2>4, SumAdd
  <2>6. Cardinality(PlacedOn(sq, h)) = Cardinality(PlacedOn(sp, h)) + 1
    BY <1>1, <1>2, <2>1, FS_AddElement
  <2> QED
    BY <1>3, <2>5, <2>6 DEF f, g, PlacedUnits
<1>4. CASE sq[p].host # h
  <2>1. PlacedOn(sq, h) = PlacedOn(sp, h)
    BY <1>4 DEF Extends, PlacedOn
  <2>2. g = f
    BY <2>1 DEF Extends, PlacedOn
  <2>3. PlacedUnits(sq, h) = PlacedUnits(sp, h)
    BY <2>2 DEF PlacedUnits
  <2>4. PlacedUnits(sp, h) \in Nat /\ Cardinality(PlacedOn(sp, h)) \in Nat
    BY LoadsNat DEF Extends
  <2> QED
    BY <1>4, <2>1, <2>3, <2>4
<1> QED
  BY <1>3, <1>4

LEMMA ReplicaLoadExtends ==
  ASSUME NEW sp, NEW rp, NEW sq, NEW rq, NEW p, Extends(sp, rp, sq, rq, p), NEW h
  PROVE  ReplicaLoad(sq, rq, h) = ReplicaLoad(sp, rp, h) + HostUnits(rq[p], h)
<1> DEFINE f == [q \in DOMAIN sp |-> HostUnits(rp[q], h)]
           g == [q \in DOMAIN sq |-> HostUnits(rq[q], h)]
<1>1. Summable(f)
  BY TableSummable DEF Extends
<1>2. HostUnits(rq[p], h) \in Nat
  BY UnitsNat DEF Extends, Table
<1>3. /\ DOMAIN g = DOMAIN f \cup {p} /\ g[p] = HostUnits(rq[p], h)
      /\ \A q \in DOMAIN f : g[q] = f[q]
      /\ p \notin DOMAIN f
  BY DEF Extends
<1> HIDE DEF f, g
<1>4. SumFunction(g) = SumFunction(f) + HostUnits(rq[p], h)
  BY <1>1, <1>2, <1>3, SumAdd
<1> QED
  BY <1>4 DEF f, g, ReplicaLoad

LEMMA OrgUnitsExtends ==
  ASSUME NEW sp, NEW rp, NEW sq, NEW rq, NEW p, Extends(sp, rp, sq, rq, p), NEW o
  PROVE  OrgUnits(sq, rq, o)
           = OrgUnits(sp, rp, o)
               + (IF sq[p].org = o THEN sq[p].size + AllUnits(rq[p]) ELSE 0)
<1> DEFINE f == [q \in BelongTo(sp, o) |-> sp[q].size + AllUnits(rp[q])]
           g == [q \in BelongTo(sq, o) |-> sq[q].size + AllUnits(rq[q])]
<1>1. Summable(f)
  BY TableSummable DEF Extends
<1>2. sq[p].size \in Nat /\ AllUnits(rq[p]) \in Nat
  BY ProjectSizesNat, UnitsNat DEF Extends, Table
<1>3. sq[p].size + AllUnits(rq[p]) \in Nat
  BY <1>2
<1>4. CASE sq[p].org = o
  <2>1. BelongTo(sq, o) = BelongTo(sp, o) \cup {p} /\ p \notin BelongTo(sp, o)
    BY <1>4 DEF Extends, BelongTo
  <2>2. DOMAIN g = DOMAIN f \cup {p} /\ g[p] = sq[p].size + AllUnits(rq[p])
    BY <2>1
  <2>3. \A q \in DOMAIN f : g[q] = f[q]
    BY <2>1 DEF Extends, BelongTo
  <2>4. p \notin DOMAIN f
    BY <2>1
  <2> HIDE DEF f, g
  <2>5. SumFunction(g) = SumFunction(f) + (sq[p].size + AllUnits(rq[p]))
    BY <1>1, <1>3, <2>2, <2>3, <2>4, SumAdd
  <2> QED
    BY <1>4, <2>5 DEF f, g, OrgUnits
<1>5. CASE sq[p].org # o
  <2>1. BelongTo(sq, o) = BelongTo(sp, o)
    BY <1>5 DEF Extends, BelongTo
  <2>2. g = f
    BY <2>1 DEF Extends, BelongTo
  <2>3. OrgUnits(sq, rq, o) = OrgUnits(sp, rp, o)
    BY <2>2 DEF OrgUnits
  <2>4. OrgUnits(sp, rp, o) \in Nat
    BY LoadsNat DEF Extends
  <2> QED
    BY <1>5, <2>3, <2>4
<1> QED
  BY <1>4, <1>5

\* sq and rq differ from sp and rp in the size and the replicas of p.
Changes(sp, rp, sq, rq, p) ==
  /\ Table(sp, rp)
  /\ Table(sq, rq)
  /\ p \in DOMAIN sp
  /\ DOMAIN sq = DOMAIN sp
  /\ sq[p].host = sp[p].host /\ sq[p].org = sp[p].org
  /\ \A q \in DOMAIN sp \ {p} : sq[q] = sp[q] /\ rq[q] = rp[q]

LEMMA PlacedChanges ==
  ASSUME NEW sp, NEW rp, NEW sq, NEW rq, NEW p, Changes(sp, rp, sq, rq, p), NEW h
  PROVE  /\ PlacedOn(sq, h) = PlacedOn(sp, h)
         /\ sp[p].host = h => /\ PlacedUnits(sp, h) - sp[p].size \in Nat
                              /\ PlacedUnits(sq, h) = PlacedUnits(sp, h) - sp[p].size + sq[p].size
         /\ sp[p].host # h => PlacedUnits(sq, h) = PlacedUnits(sp, h)
<1> DEFINE f == [q \in PlacedOn(sp, h) |-> sp[q].size]
           g == [q \in PlacedOn(sq, h) |-> sq[q].size]
<1>1. Summable(f)
  BY TableSummable DEF Changes
<1>2. PlacedOn(sq, h) = PlacedOn(sp, h)
  BY DEF Changes, PlacedOn
<1>3. CASE sp[p].host = h
  <2>1. p \in PlacedOn(sp, h) /\ sq[p].size \in Nat
    BY <1>3, ProjectSizesNat DEF Changes, PlacedOn, Table
  <2>2. DOMAIN g = DOMAIN f /\ p \in DOMAIN f /\ g[p] = sq[p].size /\ f[p] = sp[p].size
    BY <1>2, <2>1
  <2>3. \A q \in DOMAIN f \ {p} : g[q] = f[q]
    BY <1>2 DEF Changes, PlacedOn
  <2> HIDE DEF f, g
  <2>4. /\ SumFunction(g) = SumFunction(f) - f[p] + g[p]
        /\ SumFunction(f) - f[p] \in Nat
    BY <1>1, <2>1, <2>2, <2>3, SumChange
  <2> QED
    BY <1>2, <1>3, <2>2, <2>4 DEF f, g, PlacedUnits
<1>4. CASE sp[p].host # h
  <2>1. g = f
    BY <1>2, <1>4 DEF Changes, PlacedOn
  <2> QED
    BY <1>2, <1>4, <2>1 DEF PlacedUnits
<1> QED
  BY <1>3, <1>4

LEMMA ReplicaLoadChanges ==
  ASSUME NEW sp, NEW rp, NEW sq, NEW rq, NEW p, Changes(sp, rp, sq, rq, p), NEW h
  PROVE  /\ ReplicaLoad(sp, rp, h) - HostUnits(rp[p], h) \in Nat
         /\ ReplicaLoad(sq, rq, h)
              = ReplicaLoad(sp, rp, h) - HostUnits(rp[p], h) + HostUnits(rq[p], h)
<1> DEFINE f == [q \in DOMAIN sp |-> HostUnits(rp[q], h)]
           g == [q \in DOMAIN sq |-> HostUnits(rq[q], h)]
<1>1. Summable(f)
  BY TableSummable DEF Changes
<1>2. HostUnits(rq[p], h) \in Nat
  BY UnitsNat DEF Changes, Table
<1>3. /\ DOMAIN g = DOMAIN f /\ p \in DOMAIN f
      /\ g[p] = HostUnits(rq[p], h) /\ f[p] = HostUnits(rp[p], h)
      /\ \A q \in DOMAIN f \ {p} : g[q] = f[q]
  BY DEF Changes
<1> HIDE DEF f, g
<1>4. /\ SumFunction(g) = SumFunction(f) - f[p] + g[p]
      /\ SumFunction(f) - f[p] \in Nat
  BY <1>1, <1>2, <1>3, SumChange
<1> QED
  BY <1>3, <1>4 DEF f, g, ReplicaLoad

LEMMA OrgUnitsChanges ==
  ASSUME NEW sp, NEW rp, NEW sq, NEW rq, NEW p, Changes(sp, rp, sq, rq, p), NEW o
  PROVE  /\ sp[p].org = o =>
              /\ OrgUnits(sp, rp, o) - (sp[p].size + AllUnits(rp[p])) \in Nat
              /\ OrgUnits(sq, rq, o)
                   = OrgUnits(sp, rp, o) - (sp[p].size + AllUnits(rp[p]))
                       + (sq[p].size + AllUnits(rq[p]))
         /\ sp[p].org # o => OrgUnits(sq, rq, o) = OrgUnits(sp, rp, o)
<1> DEFINE f == [q \in BelongTo(sp, o) |-> sp[q].size + AllUnits(rp[q])]
           g == [q \in BelongTo(sq, o) |-> sq[q].size + AllUnits(rq[q])]
<1>1. Summable(f)
  BY TableSummable DEF Changes
<1>2. BelongTo(sq, o) = BelongTo(sp, o)
  BY DEF Changes, BelongTo
<1>3. CASE sp[p].org = o
  <2>1. sq[p].size \in Nat /\ AllUnits(rq[p]) \in Nat
    BY ProjectSizesNat, UnitsNat DEF Changes, Table
  <2>2. sq[p].size + AllUnits(rq[p]) \in Nat /\ p \in BelongTo(sp, o)
    BY <1>3, <2>1 DEF Changes, BelongTo
  <2>3. /\ DOMAIN g = DOMAIN f /\ p \in DOMAIN f
        /\ g[p] = sq[p].size + AllUnits(rq[p]) /\ f[p] = sp[p].size + AllUnits(rp[p])
    BY <1>2, <2>2
  <2>4. \A q \in DOMAIN f \ {p} : g[q] = f[q]
    BY <1>2 DEF Changes, BelongTo
  <2> HIDE DEF f, g
  <2>5. /\ SumFunction(g) = SumFunction(f) - f[p] + g[p]
        /\ SumFunction(f) - f[p] \in Nat
    BY <1>1, <2>2, <2>3, <2>4, SumChange
  <2> QED
    BY <1>3, <2>3, <2>5 DEF f, g, OrgUnits
<1>4. CASE sp[p].org # o
  <2>1. g = f
    BY <1>2, <1>4 DEF Changes, BelongTo
  <2> QED
    BY <1>4, <2>1 DEF OrgUnits
<1> QED
  BY <1>3, <1>4
-----------------------------------------------------------------------------
(* The branch registry and the replica roles. *)

\* What the proofs need to know about the shape of the state.
RegistryType ==
  /\ live \subseteq Refs
  /\ branches \subseteq Refs \X Refs
  /\ replicas \in [Refs -> SUBSET Replicas]

\* A branch pair that survives is between projects that exist.
RegistryInv == RegistryType /\ BranchRegistryClean /\ ReplicaRoles

LEMMA RegistryInit == Init => RegistryInv
  BY DEF Init, RegistryInv, RegistryType, BranchRegistryClean, ReplicaRoles, live

\* Steps that leave projects, branches and replicas alone.
LEMMA OtherStep ==
  ASSUME RegistryInv, UNCHANGED <<spec, branches, replicas>>
  PROVE  RegistryInv'
  BY DEF RegistryInv, RegistryType, BranchRegistryClean, ReplicaRoles, live

\* A project appears; nothing else but possibly a branch record does.
LEMMA CreateStep ==
  ASSUME RegistryInv, NEW p \in Refs, p \notin live, NEW s,
         spec' = With(p, s), UNCHANGED replicas,
         \/ UNCHANGED branches
         \/ \E q \in live : branches' = branches \cup {<<q, p>>}
  PROVE  RegistryInv'
<1>1. live' = live \cup {p}
  BY DEF With, live
<1>2. RegistryType'
  BY <1>1 DEF RegistryInv, RegistryType
<1>3. BranchRegistryClean'
  BY <1>1 DEF RegistryInv, RegistryType, BranchRegistryClean
<1>4. ReplicaRoles'
  BY <1>1 DEF RegistryInv, RegistryType, ReplicaRoles
<1> QED
  BY <1>2, <1>3, <1>4 DEF RegistryInv

LEMMA DeleteProjectStep ==
  ASSUME RegistryInv, NEW p \in Refs, DeleteProject(p)
  PROVE  RegistryInv'
<1>1. live' = live \ {p}
  BY DEF DeleteProject, live
<1>2. RegistryType'
  BY <1>1 DEF RegistryInv, RegistryType, DeleteProject, BranchesWithout
<1>3. BranchRegistryClean'
  BY <1>1 DEF RegistryInv, RegistryType, BranchRegistryClean, DeleteProject, BranchesWithout
<1>4. ReplicaRoles'
  BY <1>1 DEF RegistryInv, RegistryType, ReplicaRoles, DeleteProject
<1> QED
  BY <1>2, <1>3, <1>4 DEF RegistryInv

\* A step of the replicas of one live project keeps the invariant when the new
\* set is well formed.
WellFormed(S) ==
  /\ S \in SUBSET Replicas
  /\ \A x, y \in S : x.name = y.name => x = y
  /\ \A x, y \in S : x.role = "primary" /\ y.role = "primary" => x = y

LEMMA ReplicaSetStep ==
  ASSUME RegistryInv, NEW p \in live, NEW S, WellFormed(S),
         replicas' = [replicas EXCEPT ![p] = S], UNCHANGED <<spec, branches>>
  PROVE  RegistryInv'
<1>1. live' = live
  BY DEF live
<1>2. RegistryType' /\ BranchRegistryClean'
  BY <1>1 DEF RegistryInv, RegistryType, BranchRegistryClean, WellFormed
<1>3. ReplicaRoles'
  BY <1>1 DEF RegistryInv, RegistryType, ReplicaRoles, WellFormed
<1> QED
  BY <1>2, <1>3 DEF RegistryInv

\* The replica set of a project is well formed to begin with.
LEMMA CurrentWellFormed ==
  ASSUME RegistryInv, NEW p \in Refs
  PROVE  WellFormed(replicas[p]) /\ (replicas[p] # {} => p \in live)
  BY DEF RegistryInv, RegistryType, ReplicaRoles, WellFormed

LEMMA MakePrimaryWellFormed ==
  ASSUME NEW S, WellFormed(S), NEW x \in S
  PROVE  WellFormed({[y EXCEPT !.role = "read"] : y \in S \ {x}}
                      \cup {[x EXCEPT !.role = "primary"]})
<1> DEFINE read(y) == [y EXCEPT !.role = "read"]
           top == [x EXCEPT !.role = "primary"]
           T == {read(y) : y \in S \ {x}} \cup {top}
<1>1. \A y \in Replicas : /\ read(y) \in Replicas
                          /\ read(y).role = "read"
                          /\ read(y).name = y.name
  BY DEF Replicas
<1>2. top \in Replicas /\ top.role = "primary" /\ top.name = x.name
  BY DEF Replicas, WellFormed
<1>3. T \in SUBSET Replicas
  BY <1>1, <1>2 DEF WellFormed
<1> HIDE DEF read, top
<1>4. \A a, b \in T : a.name = b.name => a = b
  BY <1>1, <1>2 DEF WellFormed
<1>5. \A a, b \in T : a.role = "primary" /\ b.role = "primary" => a = b
  BY <1>1, <1>2 DEF WellFormed
<1> QED
  BY <1>3, <1>4, <1>5 DEF WellFormed, read, top

LEMMA RegistryNext == RegistryInv /\ [Next]_vars => RegistryInv'
<1> SUFFICES ASSUME RegistryInv, [Next]_vars
             PROVE  RegistryInv'
  OBVIOUS
<1>1. CASE UNCHANGED vars
  BY <1>1, OtherStep DEF vars
<1>2. CASE OrgAndHostStep
  BY <1>2, OtherStep DEF OrgAndHostStep, CreateOrg, DeleteOrg, UpdateOrgQuota,
                         CreateHost, DeleteHost
<1>3. CASE ProjectStep
  <2>1. PICK p \in Refs :
          \/ \E o \in Orgs, h \in Placements, s \in Sizes : CreateProject(p, o, h, s)
          \/ \E s \in Sizes : UpdateProjectResources(p, s)
          \/ DeleteProject(p)
          \/ \E q \in Refs : CreateProjectBranch(q, p) \/ DeleteProjectBranch(q, p)
    BY <1>3 DEF ProjectStep
  <2>2. CASE \E o \in Orgs, h \in Placements, s \in Sizes : CreateProject(p, o, h, s)
    BY <2>2, CreateStep DEF CreateProject
  <2>3. CASE \E s \in Sizes : UpdateProjectResources(p, s)
    <3>1. live' = live
      BY <2>3 DEF UpdateProjectResources, live
    <3> QED
      BY <2>3, <3>1 DEF UpdateProjectResources, RegistryInv, RegistryType,
                        BranchRegistryClean, ReplicaRoles
  <2>4. CASE DeleteProject(p) \/ \E q \in Refs : DeleteProjectBranch(q, p)
    BY <2>4, DeleteProjectStep DEF DeleteProjectBranch
  <2>5. CASE \E q \in Refs : CreateProjectBranch(q, p)
    BY <2>5, CreateStep DEF CreateProjectBranch
  <2> QED
    BY <2>1, <2>2, <2>3, <2>4, <2>5
<1>4. CASE ReplicaStep
  <2>1. PICK p \in Refs :
          \/ \E n \in Names, h \in Placements, s \in ReplicaSizes, k \in Priorities :
               CreateProjectReplica(p, n, h, s, k)
          \/ \E x \in replicas[p] :
               \/ \E s \in Statuses : UpdateProjectReplicaStatus(p, x, s)
               \/ DeleteProjectReplica(p, x)
               \/ PromoteProjectReplica(p, x)
          \/ FailoverProjectReplica(p)
    BY <1>4 DEF ReplicaStep
  <2>2. WellFormed(replicas[p]) /\ (replicas[p] # {} => p \in live)
    BY CurrentWellFormed
  <2>3. CASE \E n \in Names, h \in Placements, s \in ReplicaSizes, k \in Priorities :
               CreateProjectReplica(p, n, h, s, k)
    <3>1. PICK n \in Names, h \in Placements, s \in ReplicaSizes, k \in Priorities :
            CreateProjectReplica(p, n, h, s, k)
      BY <2>3
    <3> DEFINE x == [name |-> n, host |-> h, size |-> s, status |-> "provisioning",
                     role |-> "read", priority |-> k]
    <3>2. x \in Replicas /\ x.name = n /\ x.role = "read"
      BY StatusesAssumption DEF Replicas
    <3> HIDE DEF x
    <3>3. WellFormed(replicas[p] \cup {x})
      BY <2>2, <3>1, <3>2 DEF WellFormed, CreateProjectReplica, ReplicaNameFree
    <3> QED
      BY <3>1, <3>3, ReplicaSetStep DEF CreateProjectReplica, x
  <2>4. ASSUME NEW x \in replicas[p], NEW s \in Statuses,
               UpdateProjectReplicaStatus(p, x, s)
        PROVE  RegistryInv'
    <3> DEFINE y == [x EXCEPT !.status = s]
    <3>1. y \in Replicas /\ y.name = x.name /\ y.role = x.role
      BY <2>2 DEF Replicas, WellFormed
    <3> HIDE DEF y
    <3>2. WellFormed((replicas[p] \ {x}) \cup {y})
      BY <2>2, <3>1 DEF WellFormed
    <3> QED
      BY <2>2, <2>4, <3>2, ReplicaSetStep DEF UpdateProjectReplicaStatus, Put, y
  <2>5. ASSUME NEW x \in replicas[p], DeleteProjectReplica(p, x)
        PROVE  RegistryInv'
    <3>1. WellFormed(replicas[p] \ {x})
      BY <2>2 DEF WellFormed
    <3> QED
      BY <2>2, <2>5, <3>1, ReplicaSetStep DEF DeleteProjectReplica
  <2>6. ASSUME NEW x \in replicas[p], MakePrimary(p, x), UNCHANGED <<spec, branches>>
        PROVE  RegistryInv'
    BY <2>2, <2>6, MakePrimaryWellFormed, ReplicaSetStep DEF MakePrimary
  <2>7. CASE \E x \in replicas[p] : PromoteProjectReplica(p, x)
    BY <2>6, <2>7 DEF PromoteProjectReplica
  <2>8. CASE FailoverProjectReplica(p)
    BY <2>6, <2>8 DEF FailoverProjectReplica, Candidates
  <2> QED
    BY <2>1, <2>3, <2>4, <2>5, <2>7, <2>8
<1> QED
  BY <1>1, <1>2, <1>3, <1>4 DEF Next

LEMMA RegistryHolds == Spec => []RegistryInv
  BY RegistryInit, RegistryNext, PTL DEF Spec

(***************************************************************************)
(* The branch registry names only existing projects and gives a branch one *)
(* source, for any number of projects and any sequence of store methods    *)
(* (CreateProjectBranch and the clean-up of deleteProjectLocked).          *)
(***************************************************************************)
THEOREM BranchRegistryStaysClean == Spec => []BranchRegistryClean
<1>1. RegistryInv => BranchRegistryClean
  BY DEF RegistryInv
<1> QED
  BY <1>1, RegistryHolds, PTL

(***************************************************************************)
(* A project never has two primary replicas nor two replicas of one name,  *)
(* for any number of replicas (PromoteProjectReplica,                      *)
(* FailoverProjectReplica, CreateProjectReplica).                          *)
(***************************************************************************)
THEOREM OnePrimaryReplica == Spec => []ReplicaRoles
<1>1. RegistryInv => ReplicaRoles
  BY DEF RegistryInv
<1> QED
  BY <1>1, RegistryHolds, PTL
-----------------------------------------------------------------------------
(* The totals. *)

\* Nothing is assumed finite: every step adds at most one project or replica.
Finite == IsFiniteSet(live) /\ \A p \in Refs : IsFiniteSet(replicas[p])

\* Also of a host that does not exist: nothing is left on it.
Exact == \A h \in Hosts : used[h] = Reserved(h)

\* No host carries more than its limits.
Fits == \A h \in hosts : Within(used[h], capacity[h])

CapacityInv == TypeOK /\ Finite /\ OwnersExist /\ Exact /\ Fits

LEMMA SpecTyped ==
  ASSUME TypeOK
  PROVE  live \subseteq Refs /\ spec \in [live -> Specs]
  BY DEF TypeOK, live

LEMMA TableNow ==
  ASSUME TypeOK, Finite
  PROVE  Table(spec, replicas)
<1>1. \A p \in live : p \in Refs /\ spec[p] \in Specs
  BY SpecTyped
<1>2. \A p \in Refs : ReplicaSet(replicas[p])
  BY DEF TypeOK, Finite, ReplicaSet
<1> QED
  BY <1>1, <1>2 DEF Finite, Table, live

LEMMA TableNext ==
  ASSUME TypeOK', Finite'
  PROVE  Table(spec', replicas')
<1>1. \A p \in live' : p \in Refs /\ spec'[p] \in Specs
  BY DEF TypeOK, live
<1>2. \A p \in Refs : ReplicaSet(replicas'[p])
  BY DEF TypeOK, Finite, ReplicaSet
<1> QED
  BY <1>1, <1>2 DEF Finite, Table, live

LEMMA ReservedNow ==
  ASSUME NEW h
  PROVE  Reserved(h) = [units |-> PlacedUnits(spec, h) + ReplicaLoad(spec, replicas, h),
                        projects |-> Cardinality(PlacedOn(spec, h))]
  BY DEF Reserved, ReplicaUnits, PlacedUnits, ReplicaLoad, PlacedOn, HostUnits, OnHost, live

LEMMA ReservedNext ==
  ASSUME NEW h \in Hosts
  PROVE  Reserved(h)' = [units |-> PlacedUnits(spec', h) + ReplicaLoad(spec', replicas', h),
                         projects |-> Cardinality(PlacedOn(spec', h))]
  BY DEF Reserved, ReplicaUnits, PlacedUnits, ReplicaLoad, PlacedOn, HostUnits, OnHost, live

LEMMA UsageNow ==
  ASSUME NEW o
  PROVE  OrgUsage(o).units = OrgUnits(spec, replicas, o)
  BY DEF OrgUsage, UnitsOf, ProjectsOf, OrgUnits, BelongTo, AllUnits, live

LEMMA UsageNext ==
  ASSUME NEW o \in Orgs
  PROVE  OrgUsage(o)'.units = OrgUnits(spec', replicas', o)
  BY DEF OrgUsage, UnitsOf, ProjectsOf, OrgUnits, BelongTo, AllUnits, live

LEMMA CapacityInit == Init => CapacityInv
<1> SUFFICES ASSUME Init PROVE CapacityInv
  OBVIOUS
<1>1. Zero \in Capacity
  BY DEF Zero, Capacity
<1>2. live = {} /\ DOMAIN spec = {}
  BY DEF Init, live
<1>3. TypeOK
  <2>1. spec \in [{} -> Specs]
    BY DEF Init
  <2>2. spec \in UNION {[S -> Specs] : S \in SUBSET Refs}
    BY <2>1
  <2> QED
    BY <1>1, <2>2 DEF Init, TypeOK
<1>4. Finite
  BY <1>2, FS_EmptySet DEF Init, Finite
<1>5. OwnersExist /\ Fits
  BY <1>2 DEF Init, OwnersExist, Fits
<1>6. ASSUME NEW h \in Hosts PROVE used[h] = Reserved(h)
  <2>1. PlacedOn(spec, h) = {}
    BY <1>2 DEF PlacedOn
  <2>2. PlacedUnits(spec, h) = 0 /\ ReplicaLoad(spec, replicas, h) = 0
    <3> DEFINE f == [p \in PlacedOn(spec, h) |-> spec[p].size]
               g == [p \in DOMAIN spec |-> HostUnits(replicas[p], h)]
    <3>1. DOMAIN f = {} /\ DOMAIN g = {}
      BY <1>2, <2>1
    <3> HIDE DEF f, g
    <3>2. SumFunction(f) = 0 /\ SumFunction(g) = 0
      BY <3>1, SumEmpty
    <3> QED
      BY <3>2 DEF f, g, PlacedUnits, ReplicaLoad
  <2>3. Cardinality(PlacedOn(spec, h)) = 0
    BY <2>1, FS_EmptySet
  <2>4. used[h] = Zero
    BY DEF Init
  <2>5. Reserved(h) = [units |-> 0 + 0, projects |-> 0]
    BY <2>2, <2>3, ReservedNow
  <2> QED
    BY <2>4, <2>5 DEF Zero
<1> QED
  BY <1>3, <1>4, <1>5, <1>6 DEF CapacityInv, Exact

\* Hosts appear without a load, change nothing else, and go when they are bare.
LEMMA OrgAndHostKeepsCapacity ==
  ASSUME RegistryInv, CapacityInv, OrgAndHostStep
  PROVE  CapacityInv'
<1>1. UNCHANGED <<spec, branches, replicas>>
  BY DEF OrgAndHostStep, CreateOrg, DeleteOrg, UpdateOrgQuota, CreateHost, DeleteHost
<1>2. UNCHANGED live /\ \A h \in Hosts : Reserved(h)' = Reserved(h)
  BY <1>1, ReservedNow, ReservedNext DEF live
<1>3. Finite'
  BY <1>1, <1>2 DEF CapacityInv, Finite
<1>4. Zero \in Capacity
  BY DEF Zero, Capacity
<1>5. ASSUME NEW o \in Orgs,
             CreateOrg(o) \/ DeleteOrg(o) \/ \E l \in Limits : UpdateOrgQuota(o, l)
      PROVE  CapacityInv'
  <2>1. TypeOK'
    BY <1>1, <1>4, <1>5, LimitsAssumption
       DEF CapacityInv, TypeOK, CreateOrg, DeleteOrg, UpdateOrgQuota, hostVars
  <2>2. UNCHANGED <<hosts, capacity, used>>
    BY <1>5 DEF CreateOrg, DeleteOrg, UpdateOrgQuota, hostVars
  <2>3. Exact' /\ Fits'
    BY <1>2, <2>2 DEF CapacityInv, Exact, Fits, Within, WithinLimit
  <2>4. \A p \in live : spec[p].org \in orgs'
    BY <1>5 DEF CapacityInv, OwnersExist, CreateOrg, DeleteOrg, UpdateOrgQuota, ProjectsOf
  <2>5. OwnersExist'
    BY <1>1, <1>2, <2>2, <2>4 DEF CapacityInv, OwnersExist
  <2> QED
    BY <1>3, <2>1, <2>3, <2>5 DEF CapacityInv
<1>6. ASSUME NEW h \in Hosts, NEW l \in Limits, CreateHost(h, l)
      PROVE  CapacityInv'
  <2>1. TypeOK'
    BY <1>1, <1>4, <1>6, LimitsAssumption DEF CapacityInv, TypeOK, CreateHost, orgVars
  <2>2. used' = used /\ used[h] = Zero
    BY <1>6 DEF CapacityInv, TypeOK, CreateHost
  <2>3. Exact'
    BY <1>2, <2>2 DEF CapacityInv, Exact
  <2>4. Within(Zero, l)
    BY LimitsAssumption DEF Within, WithinLimit, Zero, Capacity
  <2>5. \A g \in hosts' : g = h \/ (g \in hosts /\ capacity'[g] = capacity[g])
    <3>1. hosts' = hosts \cup {h} /\ capacity' = [capacity EXCEPT ![h] = l]
      BY <1>6 DEF CreateHost
    <3>2. hosts \subseteq Hosts /\ capacity \in [Hosts -> Capacity]
      BY DEF CapacityInv, TypeOK
    <3> QED
      BY <3>1, <3>2
  <2>6. capacity'[h] = l
    BY <1>6 DEF CreateHost, CapacityInv, TypeOK
  <2>7. Fits'
    BY <2>2, <2>4, <2>5, <2>6 DEF CapacityInv, Fits, Within
  <2>8. OwnersExist'
    BY <1>1, <1>2, <1>6 DEF CapacityInv, OwnersExist, CreateHost, orgVars
  <2> QED
    BY <1>3, <2>1, <2>3, <2>7, <2>8 DEF CapacityInv
<1>7. ASSUME NEW h \in Hosts, DeleteHost(h)
      PROVE  CapacityInv'
  <2>1. TypeOK'
    BY <1>1, <1>4, <1>7 DEF CapacityInv, TypeOK, DeleteHost, orgVars
  <2>2. Exact'
    BY <1>2, <1>7 DEF CapacityInv, Exact, DeleteHost
  <2>3. \A g \in hosts' : g \in hosts /\ capacity'[g] = capacity[g]
    BY <1>7 DEF DeleteHost, CapacityInv, TypeOK
  <2>4. Fits'
    BY <1>7, <2>3 DEF CapacityInv, Fits, DeleteHost, Within
  <2>5. Reserved(h) = Zero
    BY <1>7 DEF DeleteHost, CapacityInv, Exact
  <2>6. Table(spec, replicas)
    BY TableNow DEF CapacityInv
  <2>7. /\ PlacedUnits(spec, h) \in Nat /\ ReplicaLoad(spec, replicas, h) \in Nat
        /\ PlacedUnits(spec, h) + ReplicaLoad(spec, replicas, h) = 0
        /\ Cardinality(PlacedOn(spec, h)) = 0
    BY <2>5, <2>6, LoadsNat, ReservedNow DEF Zero
  <2>8. PlacedOn(spec, h) = {}
    BY <2>6, <2>7, TableSummable, FS_EmptySet
  <2>9. ReplicaLoad(spec, replicas, h) = 0
    BY <2>7
  <2>10. ASSUME NEW p \in live PROVE \A x \in replicas[p] : x.host # h
    <3> DEFINE f == [q \in DOMAIN spec |-> HostUnits(replicas[q], h)]
    <3>1. Summable(f) /\ p \in DOMAIN f /\ f[p] = HostUnits(replicas[p], h)
      BY <2>6, TableSummable DEF live
    <3>2. SumFunction(f) = 0
      BY <2>9 DEF ReplicaLoad
    <3>3. f[p] \in Nat
      BY <3>1 DEF Summable
    <3> HIDE DEF f
    <3>4. f[p] = 0
      BY <3>1, <3>2, <3>3, SumBound
    <3>5. ReplicaSet(replicas[p])
      BY <2>6 DEF Table, live
    <3> QED
      BY <3>1, <3>4, <3>5, UnitsZero
  <2>11. OwnersExist'
    BY <1>1, <1>2, <1>7, <2>8, <2>10
       DEF CapacityInv, OwnersExist, DeleteHost, orgVars, PlacedOn, live
  <2> QED
    BY <1>3, <2>1, <2>2, <2>4, <2>11 DEF CapacityInv
<1> QED
  BY <1>5, <1>6, <1>7 DEF OrgAndHostStep

\* Adding to a load and taking from it, field by field.
LEMMA AddFields ==
  ASSUME NEW a \in Capacity, NEW b \in Capacity
  PROVE  /\ Add(a, b) \in Capacity
         /\ Add(a, b).units = a.units + b.units
         /\ Add(a, b).projects = a.projects + b.projects
  BY DEF Add, Capacity

LEMMA SubtractFields ==
  ASSUME NEW a \in Capacity, NEW b \in Capacity
  PROVE  /\ Subtract(a, b) \in Capacity
         /\ Subtract(a, b).units <= a.units
         /\ Subtract(a, b).projects <= a.projects
         /\ a.units - b.units \in Nat => Subtract(a, b).units = a.units - b.units
         /\ a.projects - b.projects \in Nat
              => Subtract(a, b).projects = a.projects - b.projects
  BY DEF Subtract, AtLeastZero, Capacity

LEMMA SameCapacity ==
  ASSUME NEW a \in Capacity, NEW b \in Capacity,
         a.units = b.units, a.projects = b.projects
  PROVE  a = b
  BY DEF Capacity

LEMMA WithinLess ==
  ASSUME NEW a \in Capacity, NEW b \in Capacity, NEW l \in Capacity,
         a.units <= b.units, a.projects <= b.projects, Within(b, l)
  PROVE  Within(a, l)
  BY DEF Within, WithinLimit, Capacity

LEMMA Reservations ==
  /\ \A s \in Specs : /\ ProjectReservation(s.size) \in Capacity
                      /\ ProjectReservation(s.size).units = s.size
                      /\ ProjectReservation(s.size).projects = 1
  /\ \A n \in Nat : /\ ReplicaReservation(n) \in Capacity
                    /\ ReplicaReservation(n).units = n
                    /\ ReplicaReservation(n).projects = 0
  BY ProjectSizesNat DEF ProjectReservation, ReplicaReservation, Capacity

LEMMA ReservedTyped ==
  ASSUME Table(spec, replicas), NEW h
  PROVE  /\ Reserved(h) \in Capacity
         /\ Reserved(h).units = PlacedUnits(spec, h) + ReplicaLoad(spec, replicas, h)
         /\ Reserved(h).projects = Cardinality(PlacedOn(spec, h))
  BY ReservedNow, LoadsNat DEF Capacity

LEMMA ReservedTypedNext ==
  ASSUME Table(spec', replicas'), NEW h \in Hosts
  PROVE  /\ Reserved(h)' \in Capacity
         /\ Reserved(h)'.units = PlacedUnits(spec', h) + ReplicaLoad(spec', replicas', h)
         /\ Reserved(h)'.projects = Cardinality(PlacedOn(spec', h))
  BY ReservedNext, LoadsNat DEF Capacity

LEMMA ReserveTyped ==
  ASSUME TypeOK, NEW h, NEW r \in Capacity
  PROVE  /\ Reserve(h, r) \in [Hosts -> Capacity]
         /\ h \in Hosts => Reserve(h, r)[h] = Add(used[h], r)
         /\ \A g \in Hosts \ {h} : Reserve(h, r)[g] = used[g]
<1>1. \A g \in Hosts : Add(used[g], r) \in Capacity /\ used[g] \in Capacity
  BY AddFields DEF TypeOK
<1> QED
  BY <1>1 DEF Reserve

\* A project appears with the host or none, within what the host has left.
LEMMA CreateKeepsCapacity ==
  ASSUME RegistryInv, CapacityInv, NEW p \in Refs, p \notin live,
         NEW s \in Specs, s.org \in orgs,
         CanReserve(s.host, ProjectReservation(s.size)),
         used' = Reserve(s.host, ProjectReservation(s.size)),
         spec' = With(p, s), branches' \subseteq Refs \X Refs,
         UNCHANGED <<orgVars, hostVars, replicas>>
  PROVE  /\ CapacityInv' /\ Extends(spec, replicas, spec', replicas', p)
         /\ spec'[p] = s /\ replicas'[p] = {}
<1> DEFINE r == ProjectReservation(s.size)
<1>1. r \in Capacity /\ r.units = s.size /\ r.projects = 1 /\ s.size \in Nat
  BY Reservations, ProjectSizesNat
<1>2. TypeOK /\ Finite /\ OwnersExist /\ Exact /\ Fits
  BY DEF CapacityInv
<1>3. s.host \in hosts \cup {NoHost} /\ hosts \subseteq Hosts
  BY <1>2 DEF CanReserve, TypeOK
<1>4. /\ used' \in [Hosts -> Capacity]
      /\ s.host \in Hosts => used'[s.host] = Add(used[s.host], r)
      /\ \A g \in Hosts \ {s.host} : used'[g] = used[g]
  BY <1>1, <1>2, ReserveTyped
<1> HIDE DEF r
<1>5. /\ live' = live \cup {p} /\ live \subseteq Refs /\ spec \in [live -> Specs]
      /\ spec' \in [live' -> Specs]
      /\ spec'[p] = s /\ \A q \in live : spec'[q] = spec[q]
  BY <1>2, SpecTyped DEF With, live
<1>6. TypeOK'
  <2>1. spec' \in UNION {[S -> Specs] : S \in SUBSET Refs}
    BY <1>5
  <2>2. \A h \in Hosts \ hosts : used'[h] = Zero
    BY <1>2, <1>3, <1>4, NoHostAssumption DEF TypeOK
  <2> QED
    BY <1>2, <1>4, <2>1, <2>2 DEF TypeOK, orgVars, hostVars
<1>7. Finite'
  BY <1>2, <1>5, FS_AddElement DEF Finite
<1>8. OwnersExist'
  <2>1. replicas[p] = {}
    BY DEF RegistryInv, ReplicaRoles
  <2> QED
    BY <1>2, <1>3, <1>5, <2>1 DEF OwnersExist, orgVars, hostVars
<1>9. Extends(spec, replicas, spec', replicas', p)
  <2>1. Table(spec, replicas) /\ Table(spec', replicas')
    BY <1>2, <1>6, <1>7, TableNow, TableNext
  <2> QED
    BY <1>5, <2>1 DEF Extends, live
<1>10. Table(spec, replicas) /\ Table(spec', replicas')
  BY <1>9 DEF Extends
<1>11. ASSUME NEW h \in Hosts PROVE used'[h] = Reserved(h)'
  <2>1. HostUnits(replicas'[p], h) = 0
    BY UnitsEmpty DEF RegistryInv, ReplicaRoles
  <2>2. /\ PlacedUnits(spec', h) = PlacedUnits(spec, h) + (IF s.host = h THEN s.size ELSE 0)
        /\ Cardinality(PlacedOn(spec', h))
             = Cardinality(PlacedOn(spec, h)) + (IF s.host = h THEN 1 ELSE 0)
        /\ ReplicaLoad(spec', replicas', h) = ReplicaLoad(spec, replicas, h) + 0
    BY <1>5, <1>9, <2>1, PlacedExtends, ReplicaLoadExtends
  <2>3. /\ PlacedUnits(spec, h) \in Nat /\ ReplicaLoad(spec, replicas, h) \in Nat
        /\ Cardinality(PlacedOn(spec, h)) \in Nat
    BY <1>10, LoadsNat
  <2>4. used[h] = Reserved(h)
    BY <1>2 DEF Exact
  <2>5. /\ used[h] \in Capacity
        /\ used[h].units = PlacedUnits(spec, h) + ReplicaLoad(spec, replicas, h)
        /\ used[h].projects = Cardinality(PlacedOn(spec, h))
    BY <1>10, <2>4, ReservedTyped
  <2>6. /\ Reserved(h)' \in Capacity
        /\ Reserved(h)'.units = PlacedUnits(spec', h) + ReplicaLoad(spec', replicas', h)
        /\ Reserved(h)'.projects = Cardinality(PlacedOn(spec', h))
    BY <1>10, ReservedTypedNext
  <2>7. CASE s.host = h
    <3>1. /\ used'[h] \in Capacity
          /\ used'[h].units = used[h].units + s.size
          /\ used'[h].projects = used[h].projects + 1
      BY <1>1, <1>4, <2>5, <2>7, AddFields
    <3>2. used'[h].units = Reserved(h)'.units /\ used'[h].projects = Reserved(h)'.projects
      BY <1>1, <2>2, <2>3, <2>5, <2>6, <2>7, <3>1
    <3> QED
      BY <2>6, <3>1, <3>2, SameCapacity
  <2>8. CASE s.host # h
    <3>1. used'[h] = used[h]
      BY <1>4, <2>8
    <3>2. used'[h].units = Reserved(h)'.units /\ used'[h].projects = Reserved(h)'.projects
      BY <2>2, <2>3, <2>5, <2>6, <2>8, <3>1
    <3> QED
      BY <2>5, <2>6, <3>1, <3>2, SameCapacity
  <2> QED
    BY <2>7, <2>8
<1>12. Fits'
  <2> SUFFICES ASSUME NEW h \in hosts PROVE Within(used'[h], capacity[h])
    BY DEF Fits, hostVars, Within
  <2>1. CASE h = s.host
    BY <1>3, <1>4, <2>1, NoHostAssumption DEF CanReserve, HostHasCapacity, r
  <2>2. CASE h # s.host
    BY <1>2, <1>3, <1>4, <2>2 DEF Fits
  <2> QED
    BY <2>1, <2>2
<1>13. replicas'[p] = {}
  BY DEF RegistryInv, ReplicaRoles
<1> QED
  BY <1>5, <1>6, <1>7, <1>8, <1>9, <1>11, <1>12, <1>13 DEF CapacityInv, Exact

\* The host asked for, or the one the store picks.
LEMMA CreateProjectKeepsCapacity ==
  ASSUME RegistryInv, CapacityInv, NEW p \in Refs, NEW o \in Orgs,
         NEW requested \in Placements, NEW size \in Sizes,
         CreateProject(p, o, requested, size)
  PROVE  /\ CapacityInv' /\ Extends(spec, replicas, spec', replicas', p)
         /\ spec'[p].org = o /\ spec'[p].size = size /\ replicas'[p] = {}
<1>1. PICK h : /\ CanReserve(h, ProjectReservation(size))
               /\ used' = Reserve(h, ProjectReservation(size))
               /\ spec' = With(p, [org |-> o, host |-> h, size |-> size])
  BY DEF CreateProject
<1> DEFINE s == [org |-> o, host |-> h, size |-> size]
<1>2. h \in Placements
  BY <1>1 DEF CanReserve, Placements, CapacityInv, TypeOK
<1>3. s \in Specs /\ s.org = o /\ s.host = h /\ s.size = size
  BY <1>2 DEF Specs
<1>4. /\ p \notin live /\ o \in orgs /\ UNCHANGED <<orgVars, hostVars, branches, replicas>>
  BY DEF CreateProject
<1>5. branches' \subseteq Refs \X Refs
  BY <1>4 DEF CapacityInv, TypeOK
<1>6. spec' = With(p, s)
  BY <1>1
<1> HIDE DEF s
<1>7. /\ CapacityInv' /\ Extends(spec, replicas, spec', replicas', p)
      /\ spec'[p] = s /\ replicas'[p] = {}
  BY <1>1, <1>3, <1>4, <1>5, <1>6, CreateKeepsCapacity
<1> QED
  BY <1>3, <1>7

\* A branch appears with the org, the host and the size of its source.
LEMMA BranchKeepsCapacity ==
  ASSUME RegistryInv, CapacityInv, NEW p \in Refs, NEW source \in Refs,
         CreateProjectBranch(source, p)
  PROVE  /\ CapacityInv' /\ Extends(spec, replicas, spec', replicas', p)
         /\ spec'[p] = spec[source] /\ spec[source] \in Specs /\ replicas'[p] = {}
<1>1. source \in live /\ p \notin live /\ spec[source] \in Specs
  BY SpecTyped DEF CreateProjectBranch, CapacityInv
<1>2. spec[source].org \in orgs
  BY <1>1 DEF CapacityInv, OwnersExist
<1>3. branches' \subseteq Refs \X Refs
  BY DEF CreateProjectBranch, CapacityInv, TypeOK
<1>4. /\ CanReserve(spec[source].host, ProjectReservation(spec[source].size))
      /\ used' = Reserve(spec[source].host, ProjectReservation(spec[source].size))
      /\ spec' = With(p, spec[source])
      /\ UNCHANGED <<orgVars, hostVars, replicas>>
  BY DEF CreateProjectBranch
<1> QED
  BY <1>1, <1>2, <1>3, <1>4, CreateKeepsCapacity

\* A project is resized: the old reservation goes, the new one comes.
LEMMA ResizeKeepsCapacity ==
  ASSUME RegistryInv, CapacityInv, NEW p \in Refs, NEW size \in Sizes,
         UpdateProjectResources(p, size)
  PROVE  CapacityInv' /\ Changes(spec, replicas, spec', replicas', p) /\ spec'[p].size = size
<1> DEFINE old == ProjectReservation(spec[p].size)
           new == ProjectReservation(size)
           host == spec[p].host
           nextUsed == Add(Subtract(used[host], old), new)
<1>1. TypeOK /\ Finite /\ OwnersExist /\ Exact /\ Fits
  BY DEF CapacityInv
<1>2. p \in live /\ live \subseteq Refs /\ spec \in [live -> Specs] /\ spec[p] \in Specs
  BY <1>1, SpecTyped DEF UpdateProjectResources
<1>3. spec' = [spec EXCEPT ![p].size = size]
  BY DEF UpdateProjectResources
<1>4. /\ spec' \in [live -> Specs] /\ live' = live
      /\ \A q \in live \ {p} : spec'[q] = spec[q]
      /\ spec'[p].size = size /\ spec'[p].host = host /\ spec'[p].org = spec[p].org
  <2>1. [spec[p] EXCEPT !.size = size] \in Specs
    BY <1>2 DEF Specs
  <2>2. /\ [spec[p] EXCEPT !.size = size].size = size
        /\ [spec[p] EXCEPT !.size = size].host = host
        /\ [spec[p] EXCEPT !.size = size].org = spec[p].org
    BY <1>2 DEF Specs
  <2>3. spec' = [spec EXCEPT ![p] = [spec[p] EXCEPT !.size = size]]
    BY <1>3
  <2>4. spec' \in [live -> Specs] /\ live' = live
    BY <1>2, <2>1, <2>3 DEF live
  <2>5. /\ spec'[p] = [spec[p] EXCEPT !.size = size]
        /\ \A q \in live \ {p} : spec'[q] = spec[q]
    BY <1>2, <2>3
  <2> QED
    BY <2>2, <2>4, <2>5
<1>5. /\ old \in Capacity /\ old.units = spec[p].size /\ old.projects = 1
      /\ new \in Capacity /\ new.units = size /\ new.projects = 1
      /\ spec[p].size \in Nat /\ size \in Nat
  BY <1>2, Reservations, ProjectSizesNat, SizesAssumption
     DEF ProjectReservation, Capacity
<1>6. host # NoHost => host \in Hosts /\ used[host] \in Capacity
  BY <1>2, <1>1 DEF Specs, Placements, TypeOK
<1>7. /\ host = NoHost => used' = used
      /\ host # NoHost => /\ host \in hosts
                          /\ Within(nextUsed, capacity[host])
                          /\ used' = [used EXCEPT ![host] = nextUsed]
  BY DEF UpdateProjectResources
<1>8. host # NoHost => /\ Subtract(used[host], old) \in Capacity
                       /\ nextUsed \in Capacity
                       /\ nextUsed.units = Subtract(used[host], old).units + size
                       /\ nextUsed.projects = Subtract(used[host], old).projects + 1
  BY <1>5, <1>6, SubtractFields, AddFields
<1>9. UNCHANGED <<orgs, quota, hosts, capacity, branches, replicas>>
  BY DEF UpdateProjectResources, orgVars, hostVars
<1> HIDE DEF old, new, nextUsed
<1>10. TypeOK'
  <2>1. spec' \in UNION {[S -> Specs] : S \in SUBSET Refs}
    BY <1>2, <1>4
  <2>2. used' \in [Hosts -> Capacity] /\ \A h \in Hosts \ hosts : used'[h] = Zero
    <3>1. CASE host = NoHost
      BY <1>1, <1>7, <3>1 DEF TypeOK
    <3>2. CASE host # NoHost
      <4>1. used' = [used EXCEPT ![host] = nextUsed] /\ host \in hosts /\ nextUsed \in Capacity
        BY <1>7, <1>8, <3>2
      <4> HIDE DEF host
      <4> QED
        BY <1>1, <4>1 DEF TypeOK
    <3> QED
      BY <3>1, <3>2
  <2> QED
    BY <1>1, <1>9, <2>1, <2>2 DEF TypeOK
<1>11. Finite'
  BY <1>1, <1>4, <1>9 DEF Finite
<1>12. OwnersExist'
  BY <1>1, <1>2, <1>4, <1>9 DEF OwnersExist
<1>13. Table(spec, replicas) /\ Table(spec', replicas')
  BY <1>1, <1>10, <1>11, TableNow, TableNext
<1>14. Changes(spec, replicas, spec', replicas', p)
  BY <1>2, <1>4, <1>9, <1>13 DEF Changes, live
<1>15. ASSUME NEW h \in Hosts PROVE used'[h] = Reserved(h)'
  <2>1. /\ PlacedOn(spec', h) = PlacedOn(spec, h)
        /\ host = h => /\ PlacedUnits(spec, h) - spec[p].size \in Nat
                       /\ PlacedUnits(spec', h) = PlacedUnits(spec, h) - spec[p].size + size
        /\ host # h => PlacedUnits(spec', h) = PlacedUnits(spec, h)
    BY <1>4, <1>14, PlacedChanges
  <2>2. ReplicaLoad(spec', replicas', h) = ReplicaLoad(spec, replicas, h)
    BY <1>4, <1>9 DEF ReplicaLoad, live
  <2>3. /\ PlacedUnits(spec, h) \in Nat /\ ReplicaLoad(spec, replicas, h) \in Nat
        /\ Cardinality(PlacedOn(spec, h)) \in Nat
    BY <1>13, LoadsNat
  <2>4. used[h] = Reserved(h)
    BY <1>1 DEF Exact
  <2>5. /\ used[h] \in Capacity
        /\ used[h].units = PlacedUnits(spec, h) + ReplicaLoad(spec, replicas, h)
        /\ used[h].projects = Cardinality(PlacedOn(spec, h))
    BY <1>13, <2>4, ReservedTyped
  <2>6. /\ Reserved(h)' \in Capacity
        /\ Reserved(h)'.units = PlacedUnits(spec', h) + ReplicaLoad(spec', replicas', h)
        /\ Reserved(h)'.projects = Cardinality(PlacedOn(spec', h))
    BY <1>13, ReservedTypedNext
  <2>7. CASE host = h
    <3>1. h # NoHost
      BY NoHostAssumption
    <3>2. used'[h] = nextUsed
      BY <1>1, <1>7, <2>7, <3>1 DEF TypeOK
    <3>3. p \in PlacedOn(spec, h)
      BY <1>2, <2>7 DEF PlacedOn, live
    <3>4. Cardinality(PlacedOn(spec, h)) # 0
      BY <1>13, <3>3, TableSummable, FS_EmptySet
    <3>5. used[h].units - old.units \in Nat /\ used[h].projects - old.projects \in Nat
      BY <1>5, <2>1, <2>3, <2>5, <2>7, <3>4
    <3>6. /\ Subtract(used[h], old).units = used[h].units - old.units
          /\ Subtract(used[h], old).projects = used[h].projects - old.projects
      BY <1>5, <2>5, <3>5, SubtractFields
    <3>7. used'[h] \in Capacity
      BY <1>8, <2>7, <3>1, <3>2
    <3>8. /\ used'[h].units = used[h].units - old.units + size
          /\ used'[h].projects = used[h].projects - old.projects + 1
      BY <1>8, <2>7, <3>1, <3>2, <3>6
    <3>9. used'[h].units = Reserved(h)'.units
      BY <1>5, <2>1, <2>2, <2>3, <2>5, <2>6, <2>7, <3>8
    <3>10. used'[h].projects = Reserved(h)'.projects
      BY <1>5, <2>1, <2>3, <2>5, <2>6, <3>8
    <3> QED
      BY <2>6, <3>7, <3>9, <3>10, SameCapacity
  <2>8. CASE host # h
    <3>1. used'[h] = used[h]
      BY <1>1, <1>7, <2>8 DEF TypeOK
    <3> QED
      BY <2>1, <2>2, <2>5, <2>6, <2>8, <3>1, SameCapacity
  <2> QED
    BY <2>7, <2>8
<1>16. Fits'
  <2> SUFFICES ASSUME NEW h \in hosts PROVE Within(used'[h], capacity[h])
    BY <1>9 DEF Fits, Within
  <2>1. h \in Hosts /\ h # NoHost
    BY <1>1, NoHostAssumption DEF TypeOK
  <2>2. CASE h = host
    BY <1>1, <1>7, <2>1, <2>2 DEF TypeOK
  <2>3. CASE h # host
    BY <1>1, <1>7, <2>1, <2>3 DEF TypeOK, Fits
  <2> QED
    BY <2>2, <2>3
<1> QED
  BY <1>4, <1>10, <1>11, <1>12, <1>14, <1>15, <1>16 DEF CapacityInv, Exact

\* A project goes with everything it holds on any host.
LEMMA DeleteKeepsCapacity ==
  ASSUME RegistryInv, CapacityInv, NEW p \in Refs, DeleteProject(p)
  PROVE  CapacityInv' /\ Extends(spec', replicas', spec, replicas, p)
<1>1. TypeOK /\ Finite /\ OwnersExist /\ Exact /\ Fits
  BY DEF CapacityInv
<1>2. p \in live /\ live \subseteq Refs /\ spec \in [live -> Specs] /\ spec[p] \in Specs
  BY <1>1, SpecTyped DEF DeleteProject
<1>3. /\ live' = live \ {p} /\ spec' \in [live' -> Specs]
      /\ \A q \in live' : spec'[q] = spec[q]
  BY <1>2 DEF DeleteProject, live
<1>4. /\ replicas' \in [Refs -> SUBSET Replicas]
      /\ replicas'[p] = {} /\ \A q \in Refs \ {p} : replicas'[q] = replicas[q]
  BY <1>1 DEF DeleteProject, TypeOK
<1>5. UNCHANGED <<orgs, quota, hosts, capacity>>
  BY DEF DeleteProject, orgVars, hostVars
<1>6. Table(spec, replicas)
  BY <1>1, TableNow
<1>7. ReplicaSet(replicas[p])
  BY <1>2, <1>6 DEF Table, live
<1>8. /\ spec[p].size \in Nat
      /\ ProjectReservation(spec[p].size) \in Capacity
      /\ ProjectReservation(spec[p].size).units = spec[p].size
      /\ ProjectReservation(spec[p].size).projects = 1
  BY <1>2, Reservations, ProjectSizesNat
<1>9. ASSUME NEW h \in Hosts
      PROVE  /\ HostUnits(replicas[p], h) \in Nat
             /\ ReleasedBy(p, h) \in Capacity
             /\ ReleasedBy(p, h).units = (IF spec[p].host = h THEN spec[p].size ELSE 0)
                                           + HostUnits(replicas[p], h)
             /\ ReleasedBy(p, h).projects = IF spec[p].host = h THEN 1 ELSE 0
  <2>1. HostUnits(replicas[p], h) \in Nat /\ ReplicaUnits(p, h) = HostUnits(replicas[p], h)
    BY <1>7, UnitsNat DEF ReplicaUnits, HostUnits, OnHost
  <2> DEFINE a == IF spec[p].host = h THEN ProjectReservation(spec[p].size) ELSE Zero
             b == ReplicaReservation(ReplicaUnits(p, h))
  <2>2. /\ a \in Capacity
        /\ a.units = IF spec[p].host = h THEN spec[p].size ELSE 0
        /\ a.projects = IF spec[p].host = h THEN 1 ELSE 0
    BY <1>8 DEF Zero, Capacity
  <2>3. b \in Capacity /\ b.units = HostUnits(replicas[p], h) /\ b.projects = 0
    BY <2>1, Reservations
  <2>4. ReleasedBy(p, h) = Add(a, b)
    BY DEF ReleasedBy
  <2> HIDE DEF a, b
  <2>5. Add(a, b) \in Capacity /\ Add(a, b).units = a.units + b.units
          /\ Add(a, b).projects = a.projects + b.projects
    BY <2>2, <2>3, AddFields
  <2> QED
    BY <2>1, <2>2, <2>3, <2>4, <2>5
<1>10. /\ used' \in [Hosts -> Capacity]
       /\ \A h \in hosts : used'[h] = Subtract(used[h], ReleasedBy(p, h))
       /\ \A h \in Hosts \ hosts : used'[h] = used[h]
  <2>1. used' = [h \in Hosts |-> IF h \in hosts THEN Subtract(used[h], ReleasedBy(p, h))
                                                ELSE used[h]]
    BY DEF DeleteProject
  <2>2. \A h \in Hosts : used[h] \in Capacity /\ Subtract(used[h], ReleasedBy(p, h)) \in Capacity
    BY <1>1, <1>9, SubtractFields DEF TypeOK
  <2>3. hosts \subseteq Hosts
    BY <1>1 DEF TypeOK
  <2> QED
    BY <2>1, <2>2, <2>3
<1>11. TypeOK'
  <2>1. spec' \in UNION {[S -> Specs] : S \in SUBSET Refs}
    BY <1>2, <1>3
  <2>2. branches' \in SUBSET (Refs \X Refs)
    BY <1>1 DEF DeleteProject, BranchesWithout, TypeOK
  <2> QED
    BY <1>1, <1>4, <1>5, <1>10, <2>1, <2>2 DEF TypeOK
<1>12. Finite'
  <2>1. IsFiniteSet(live')
    BY <1>1, <1>3, FS_RemoveElement DEF Finite
  <2> QED
    BY <1>1, <1>4, <2>1, FS_EmptySet DEF Finite
<1>13. OwnersExist'
  BY <1>1, <1>2, <1>3, <1>4, <1>5 DEF OwnersExist
<1>14. Table(spec', replicas')
  BY <1>11, <1>12, TableNext
<1>15. Extends(spec', replicas', spec, replicas, p)
  BY <1>2, <1>3, <1>4, <1>6, <1>14 DEF Extends, live
<1>16. ASSUME NEW h \in Hosts PROVE used'[h] = Reserved(h)'
  <2>1. /\ PlacedUnits(spec, h)
             = PlacedUnits(spec', h) + (IF spec[p].host = h THEN spec[p].size ELSE 0)
        /\ Cardinality(PlacedOn(spec, h))
             = Cardinality(PlacedOn(spec', h)) + (IF spec[p].host = h THEN 1 ELSE 0)
        /\ ReplicaLoad(spec, replicas, h)
             = ReplicaLoad(spec', replicas', h) + HostUnits(replicas[p], h)
    BY <1>15, PlacedExtends, ReplicaLoadExtends
  <2>2. /\ PlacedUnits(spec', h) \in Nat /\ ReplicaLoad(spec', replicas', h) \in Nat
        /\ Cardinality(PlacedOn(spec', h)) \in Nat
    BY <1>14, LoadsNat
  <2>3. used[h] = Reserved(h)
    BY <1>1 DEF Exact
  <2>4. /\ used[h] \in Capacity
        /\ used[h].units = PlacedUnits(spec, h) + ReplicaLoad(spec, replicas, h)
        /\ used[h].projects = Cardinality(PlacedOn(spec, h))
    BY <1>6, <2>3, ReservedTyped
  <2>5. /\ Reserved(h)' \in Capacity
        /\ Reserved(h)'.units = PlacedUnits(spec', h) + ReplicaLoad(spec', replicas', h)
        /\ Reserved(h)'.projects = Cardinality(PlacedOn(spec', h))
    BY <1>14, ReservedTypedNext
  <2>6. CASE h \in hosts
    <3>1. /\ used[h].units - ReleasedBy(p, h).units = Reserved(h)'.units
          /\ used[h].projects - ReleasedBy(p, h).projects = Reserved(h)'.projects
      BY <1>8, <1>9, <2>1, <2>2, <2>4, <2>5
    <3>2. Reserved(h)'.units \in Nat /\ Reserved(h)'.projects \in Nat
      BY <2>5 DEF Capacity
    <3>3. /\ Subtract(used[h], ReleasedBy(p, h)) \in Capacity
          /\ Subtract(used[h], ReleasedBy(p, h)).units = Reserved(h)'.units
          /\ Subtract(used[h], ReleasedBy(p, h)).projects = Reserved(h)'.projects
      BY <1>9, <2>4, <3>1, <3>2, SubtractFields
    <3> QED
      BY <1>10, <2>5, <2>6, <3>3, SameCapacity
  <2>7. CASE h \notin hosts
    <3>1. used[h] = Zero /\ used'[h] = used[h]
      BY <1>1, <1>10, <2>7 DEF TypeOK
    <3>2. used[h].units = 0 /\ used[h].projects = 0
      BY <3>1 DEF Zero
    <3>3. spec[p].host # h
      BY <1>1, <1>2, <2>7, NoHostAssumption DEF OwnersExist
    <3>4. HostUnits(replicas[p], h) \in Nat
      BY <1>9
    <3>5. PlacedUnits(spec', h) + ReplicaLoad(spec', replicas', h) + HostUnits(replicas[p], h) = 0
      BY <2>1, <2>2, <2>4, <3>2, <3>3, <3>4
    <3>6. PlacedUnits(spec', h) + ReplicaLoad(spec', replicas', h) = 0
      BY <2>2, <3>4, <3>5
    <3>7. Cardinality(PlacedOn(spec', h)) = 0
      BY <2>1, <2>2, <2>4, <3>2, <3>3
    <3> QED
      BY <2>4, <2>5, <3>1, <3>2, <3>6, <3>7, SameCapacity
  <2> QED
    BY <2>6, <2>7
<1>17. Fits'
  <2> SUFFICES ASSUME NEW h \in hosts PROVE Within(used'[h], capacity[h])
    BY <1>5 DEF Fits, Within
  <2>1. h \in Hosts /\ used[h] \in Capacity /\ capacity[h] \in Capacity
    BY <1>1 DEF TypeOK
  <2>2. /\ used'[h] \in Capacity
        /\ used'[h].units <= used[h].units /\ used'[h].projects <= used[h].projects
    BY <1>9, <1>10, <2>1, SubtractFields
  <2> QED
    BY <1>1, <2>1, <2>2, WithinLess DEF Fits
<1> QED
  BY <1>11, <1>12, <1>13, <1>15, <1>16, <1>17 DEF CapacityInv, Exact

\* The replicas of one project change, and the totals change with them.
LEMMA ReplicasKeepCapacity ==
  ASSUME RegistryInv, CapacityInv, NEW p \in live,
         NEW T, ReplicaSet(T), replicas' = [replicas EXCEPT ![p] = T],
         UNCHANGED <<orgVars, hostVars, spec, branches>>,
         \A x \in T : x.host \in hosts \cup {NoHost},
         used' \in [Hosts -> Capacity],
         \A h \in Hosts \ hosts : used'[h] = used[h],
         \A h \in hosts : Within(used'[h], capacity[h]),
         \A h \in Hosts : /\ used'[h].projects = used[h].projects
                          /\ used'[h].units = used[h].units - HostUnits(replicas[p], h)
                                                + HostUnits(T, h)
  PROVE  CapacityInv' /\ Changes(spec, replicas, spec', replicas', p)
<1>1. TypeOK /\ Finite /\ OwnersExist /\ Exact /\ Fits
  BY DEF CapacityInv
<1>2. p \in Refs /\ live \subseteq Refs
  BY <1>1, SpecTyped
<1>3. replicas'[p] = T /\ \A q \in Refs \ {p} : replicas'[q] = replicas[q]
  BY <1>1, <1>2 DEF TypeOK
<1>4. UNCHANGED <<orgs, quota, hosts, capacity, spec, branches, live>>
  BY DEF orgVars, hostVars, live
<1>5. TypeOK'
  <2>1. replicas' \in [Refs -> SUBSET Replicas]
    BY <1>1, <1>2 DEF TypeOK, ReplicaSet
  <2> QED
    BY <1>1, <1>4, <2>1 DEF TypeOK
<1>6. Finite'
  BY <1>1, <1>3, <1>4 DEF Finite, ReplicaSet
<1>7. OwnersExist'
  BY <1>1, <1>2, <1>3, <1>4 DEF OwnersExist
<1>8. Table(spec, replicas) /\ Table(spec', replicas')
  BY <1>1, <1>5, <1>6, TableNow, TableNext
<1>9. Changes(spec, replicas, spec', replicas', p)
  BY <1>2, <1>3, <1>4, <1>8 DEF Changes, live
<1>10. ASSUME NEW h \in Hosts PROVE used'[h] = Reserved(h)'
  <2>1. ReplicaLoad(spec', replicas', h)
          = ReplicaLoad(spec, replicas, h) - HostUnits(replicas[p], h) + HostUnits(T, h)
    <3>1. /\ ReplicaLoad(spec, replicas, h) - HostUnits(replicas[p], h) \in Nat
          /\ ReplicaLoad(spec', replicas', h)
               = ReplicaLoad(spec, replicas, h) - HostUnits(replicas[p], h)
                   + HostUnits(replicas'[p], h)
      BY ONLY <1>9, ReplicaLoadChanges
    <3>2. replicas'[p] = T
      BY <1>3
    <3> QED
      BY <3>1, <3>2
  <2>2. PlacedUnits(spec', h) = PlacedUnits(spec, h) /\ PlacedOn(spec', h) = PlacedOn(spec, h)
    BY <1>4
  <2>3. /\ PlacedUnits(spec, h) \in Nat /\ ReplicaLoad(spec, replicas, h) \in Nat
        /\ HostUnits(replicas[p], h) \in Nat /\ HostUnits(T, h) \in Nat
    BY <1>8, LoadsNat, UnitsNat DEF Table, live
  <2>4. used[h] = Reserved(h)
    BY <1>1 DEF Exact
  <2>5. /\ used[h].units = PlacedUnits(spec, h) + ReplicaLoad(spec, replicas, h)
        /\ used[h].projects = Cardinality(PlacedOn(spec, h))
    BY <1>8, <2>4, ReservedTyped
  <2>6. /\ Reserved(h)' \in Capacity
        /\ Reserved(h)'.units = PlacedUnits(spec', h) + ReplicaLoad(spec', replicas', h)
        /\ Reserved(h)'.projects = Cardinality(PlacedOn(spec', h))
    BY <1>8, ReservedTypedNext
  <2>7. used'[h].units = Reserved(h)'.units
    BY <2>1, <2>2, <2>3, <2>5, <2>6
  <2>8. used'[h].projects = Reserved(h)'.projects
    BY <2>2, <2>5, <2>6
  <2> QED
    BY <2>6, <2>7, <2>8, SameCapacity
<1>11. Fits'
  BY <1>4 DEF Fits, Within
<1> QED
  BY <1>5, <1>6, <1>7, <1>9, <1>10, <1>11 DEF CapacityInv, Exact

\* Replicas that keep name, size and host weigh what they weighed.
LEMMA RenamedUnits ==
  ASSUME NEW S, WellFormed(S), IsFiniteSet(S), NEW b \in [S -> Replicas],
         \A x \in S : b[x].name = x.name /\ b[x].size = x.size /\ b[x].host = x.host
  PROVE  LET T == {b[x] : x \in S}
         IN  /\ ReplicaSet(T)
             /\ AllUnits(T) = AllUnits(S)
             /\ \A h : HostUnits(T, h) = HostUnits(S, h)
<1> DEFINE T == {b[x] : x \in S}
<1>1. b \in [S -> T] /\ \A t \in T : \E x \in S : b[x] = t
  OBVIOUS
<1>2. \A x, y \in S : b[x] = b[y] => x = y
  BY DEF WellFormed
<1>3. b \in Bijection(S, T)
  BY <1>1, <1>2 DEF Bijection, Injection, Surjection, IsInjective
<1>4. ReplicaSet(S) /\ T \subseteq Replicas
  BY DEF WellFormed, ReplicaSet
<1> HIDE DEF T
<1> QED
  BY <1>3, <1>4, UnitsMap DEF T

\* A step that changes replicas without moving or resizing any.
LEMMA MapKeepsCapacity ==
  ASSUME RegistryInv, CapacityInv, NEW p \in live, NEW b \in [replicas[p] -> Replicas],
         \A x \in replicas[p] : b[x].name = x.name /\ b[x].size = x.size /\ b[x].host = x.host,
         replicas' = [replicas EXCEPT ![p] = {b[x] : x \in replicas[p]}],
         UNCHANGED <<orgVars, hostVars, used, spec, branches>>
  PROVE  /\ CapacityInv' /\ Changes(spec, replicas, spec', replicas', p)
         /\ AllUnits(replicas'[p]) = AllUnits(replicas[p])
<1> DEFINE S == replicas[p]
           T == {b[x] : x \in S}
<1>1. TypeOK /\ Finite /\ OwnersExist /\ Fits /\ p \in Refs
  BY SpecTyped DEF CapacityInv
<1>2. WellFormed(S) /\ IsFiniteSet(S)
  BY <1>1, CurrentWellFormed DEF Finite
<1>3. ReplicaSet(T) /\ AllUnits(T) = AllUnits(S) /\ \A h : HostUnits(T, h) = HostUnits(S, h)
  BY <1>2, RenamedUnits
<1>4. \A x \in T : x.host \in hosts \cup {NoHost}
  BY <1>1 DEF OwnersExist
<1>5. replicas'[p] = T
  BY <1>1 DEF TypeOK
<1> HIDE DEF T
<1>6. ASSUME NEW h \in Hosts
      PROVE  used'[h].projects = used[h].projects
             /\ used'[h].units = used[h].units - HostUnits(replicas[p], h) + HostUnits(T, h)
  <2>1. HostUnits(S, h) \in Nat /\ HostUnits(T, h) = HostUnits(S, h)
    BY <1>2, <1>3, UnitsNat DEF ReplicaSet, WellFormed
  <2>2. used[h].units \in Nat
    BY <1>1 DEF TypeOK, Capacity
  <2> QED
    BY <2>1, <2>2
<1>7. /\ used' \in [Hosts -> Capacity]
      /\ \A h \in Hosts \ hosts : used'[h] = used[h]
      /\ \A h \in hosts : Within(used'[h], capacity[h])
  BY <1>1 DEF TypeOK, Fits
<1>8. CapacityInv' /\ Changes(spec, replicas, spec', replicas', p)
  BY <1>3, <1>4, <1>6, <1>7, ReplicasKeepCapacity DEF T
<1> QED
  BY <1>3, <1>5, <1>8

\* A replica comes with its units.
LEMMA CreateReplicaKeepsCapacity ==
  ASSUME RegistryInv, CapacityInv, NEW p \in Refs, NEW name \in Names,
         NEW host \in Placements, NEW size \in ReplicaSizes, NEW priority \in Priorities,
         CreateProjectReplica(p, name, host, size, priority)
  PROVE  /\ CapacityInv' /\ Changes(spec, replicas, spec', replicas', p)
         /\ AllUnits(replicas'[p]) = AllUnits(replicas[p]) + size
<1> DEFINE x == [name |-> name, host |-> host, size |-> size, status |-> "provisioning",
                 role |-> "read", priority |-> priority]
           S == replicas[p]
           T == S \cup {x}
           r == ReplicaReservation(size)
<1>1. TypeOK /\ Finite /\ OwnersExist /\ Fits /\ p \in live
  BY DEF CapacityInv, CreateProjectReplica
<1>2. /\ x \in Replicas /\ x.name = name /\ x.host = host /\ x.size = size
      /\ size \in Nat
  BY StatusesAssumption, SizesAssumption DEF Replicas
<1>3. r \in Capacity /\ r.units = size /\ r.projects = 0
  BY <1>2, Reservations
<1>4. replicas' = [replicas EXCEPT ![p] = T] /\ replicas'[p] = T
  BY <1>1 DEF CreateProjectReplica, TypeOK
<1>5. CanReserve(host, r) /\ used' = Reserve(host, r) /\ \A y \in S : y.name # name
  BY DEF CreateProjectReplica, ReplicaNameFree
<1>6. UNCHANGED <<orgVars, hostVars, spec, branches>>
  BY DEF CreateProjectReplica
<1> HIDE DEF x, r
<1>7. ReplicaSet(S) /\ x \notin S
  BY <1>1, <1>2, <1>5 DEF TypeOK, Finite, ReplicaSet
<1>8. /\ ReplicaSet(T) /\ AllUnits(T) = AllUnits(S) + size
      /\ \A h : HostUnits(T, h) = HostUnits(S, h) + (IF host = h THEN size ELSE 0)
  BY <1>2, <1>7, UnitsAdd
<1>9. host \in hosts \cup {NoHost} /\ hosts \subseteq Hosts
  BY <1>1, <1>5 DEF CanReserve, TypeOK
<1>10. \A y \in T : y.host \in hosts \cup {NoHost}
  BY <1>1, <1>2, <1>9 DEF OwnersExist
<1>11. /\ used' \in [Hosts -> Capacity]
       /\ host \in Hosts => used'[host] = Add(used[host], r)
       /\ \A g \in Hosts \ {host} : used'[g] = used[g]
  BY <1>1, <1>3, <1>5, ReserveTyped
<1>12. \A h \in Hosts \ hosts : used'[h] = used[h]
  BY <1>9, <1>11, NoHostAssumption
<1>13. \A h \in hosts : Within(used'[h], capacity[h])
  <2> SUFFICES ASSUME NEW h \in hosts PROVE Within(used'[h], capacity[h])
    OBVIOUS
  <2>1. h \in Hosts /\ h # NoHost
    BY <1>9, NoHostAssumption
  <2>2. CASE h = host
    BY <1>5, <1>11, <2>1, <2>2 DEF CanReserve, HostHasCapacity
  <2>3. CASE h # host
    BY <1>1, <1>11, <2>1, <2>3 DEF Fits
  <2> QED
    BY <2>2, <2>3
<1> HIDE DEF T
<1>14. ASSUME NEW h \in Hosts
       PROVE  used'[h].projects = used[h].projects
              /\ used'[h].units = used[h].units - HostUnits(replicas[p], h) + HostUnits(T, h)
  <2>1. used[h] \in Capacity /\ used[h].units \in Nat /\ used[h].projects \in Nat
    BY <1>1 DEF TypeOK, Capacity
  <2>2. HostUnits(S, h) \in Nat
    BY <1>7, UnitsNat
  <2>3. CASE h = host
    <3>1. used'[h].units = used[h].units + size /\ used'[h].projects = used[h].projects + 0
      BY <1>3, <1>11, <2>1, <2>3, AddFields
    <3> QED
      BY <1>2, <1>8, <2>1, <2>2, <2>3, <3>1
  <2>4. CASE h # host
    <3>1. used'[h] = used[h] /\ HostUnits(T, h) = HostUnits(S, h) + 0
      BY <1>8, <1>11, <2>4
    <3> QED
      BY <2>1, <2>2, <3>1
  <2> QED
    BY <2>3, <2>4
<1>15. CapacityInv' /\ Changes(spec, replicas, spec', replicas', p)
  BY <1>1, <1>4, <1>6, <1>8, <1>10, <1>11, <1>12, <1>13, <1>14, ReplicasKeepCapacity
<1> QED
  BY <1>4, <1>8, <1>15

\* A replica goes; the clamp of subtractHostCapacity does not act.
LEMMA DeleteReplicaKeepsCapacity ==
  ASSUME RegistryInv, CapacityInv, NEW p \in Refs, NEW x \in replicas[p],
         DeleteProjectReplica(p, x)
  PROVE  /\ CapacityInv' /\ Changes(spec, replicas, spec', replicas', p)
         /\ AllUnits(replicas'[p]) <= AllUnits(replicas[p])
<1> DEFINE S == replicas[p]
           T == S \ {x}
           r == ReplicaReservation(x.size)
<1>1. TypeOK /\ Finite /\ OwnersExist /\ Exact /\ Fits /\ p \in live
  BY DEF CapacityInv, DeleteProjectReplica
<1>2. ReplicaSet(S) /\ x \in Replicas /\ x.size \in Nat
  BY <1>1, ReplicaSizesNat DEF TypeOK, Finite, ReplicaSet
<1>3. r \in Capacity /\ r.units = x.size /\ r.projects = 0
  BY <1>2, Reservations
<1>4. replicas' = [replicas EXCEPT ![p] = T] /\ replicas'[p] = T
  BY <1>1 DEF DeleteProjectReplica, TypeOK
<1>5. used' = [h \in Hosts |-> IF h = x.host /\ h \in hosts
                               THEN Subtract(used[h], r) ELSE used[h]]
  BY DEF DeleteProjectReplica
<1>6. UNCHANGED <<orgVars, hostVars, spec, branches>>
  BY DEF DeleteProjectReplica
<1> HIDE DEF r
<1>7. /\ ReplicaSet(T) /\ AllUnits(S) = AllUnits(T) + x.size
      /\ \A h : HostUnits(S, h) = HostUnits(T, h) + (IF x.host = h THEN x.size ELSE 0)
  BY <1>2, UnitsRemove
<1>8. /\ \A y \in T : y.host \in hosts \cup {NoHost}
      /\ x.host \in hosts \cup {NoHost} /\ hosts \subseteq Hosts
  BY <1>1 DEF OwnersExist, TypeOK
<1>9. \A h \in Hosts : used[h] \in Capacity /\ Subtract(used[h], r) \in Capacity
  BY <1>1, <1>3, SubtractFields DEF TypeOK
<1>10. used' \in [Hosts -> Capacity] /\ \A h \in Hosts \ hosts : used'[h] = used[h]
  BY <1>5, <1>9
<1>11. \A h \in hosts : Within(used'[h], capacity[h])
  <2> SUFFICES ASSUME NEW h \in hosts PROVE Within(used'[h], capacity[h])
    OBVIOUS
  <2>1. h \in Hosts /\ capacity[h] \in Capacity /\ used'[h] \in Capacity
    BY <1>1, <1>10 DEF TypeOK
  <2>2. used'[h].units <= used[h].units /\ used'[h].projects <= used[h].projects
    <3>1. used'[h] = used[h] \/ used'[h] = Subtract(used[h], r)
      BY <1>5, <2>1
    <3>2. used[h].units \in Nat /\ used[h].projects \in Nat
      BY <1>9, <2>1 DEF Capacity
    <3> QED
      BY <1>3, <1>9, <2>1, <3>1, <3>2, SubtractFields
  <2> QED
    BY <1>1, <1>9, <2>1, <2>2, WithinLess DEF Fits
<1> HIDE DEF T
<1>12. ASSUME NEW h \in Hosts
       PROVE  used'[h].projects = used[h].projects
              /\ used'[h].units = used[h].units - HostUnits(replicas[p], h) + HostUnits(T, h)
  <2>1. used[h] \in Capacity /\ used[h].units \in Nat /\ used[h].projects \in Nat
    BY <1>1 DEF TypeOK, Capacity
  <2>2. HostUnits(T, h) \in Nat /\ HostUnits(S, h) \in Nat
    BY <1>2, <1>7, UnitsNat
  <2>3. CASE h = x.host
    <3>1. h \in hosts /\ used'[h] = Subtract(used[h], r)
      BY <1>5, <1>8, <2>3, NoHostAssumption
    <3>2. HostUnits(S, h) = HostUnits(T, h) + x.size
      BY <1>7, <2>3
    <3>3. Table(spec, replicas)
      BY <1>1, TableNow
    <3>4. used[h].units = PlacedUnits(spec, h) + ReplicaLoad(spec, replicas, h)
      BY <1>1, <3>3, ReservedTyped DEF Exact
    <3>5. PlacedUnits(spec, h) \in Nat /\ ReplicaLoad(spec, replicas, h) \in Nat
      BY <3>3, LoadsNat
    <3>6. Changes(spec, replicas, spec, replicas, p)
      BY <1>1, <3>3 DEF Changes, live
    <3>7. ReplicaLoad(spec, replicas, h) - HostUnits(S, h) \in Nat
      BY <3>6, ReplicaLoadChanges
    <3>8. used[h].units - r.units \in Nat /\ used[h].projects - r.projects \in Nat
      BY <1>2, <1>3, <2>1, <2>2, <3>2, <3>4, <3>5, <3>7
    <3>9. /\ used'[h].units = used[h].units - r.units
          /\ used'[h].projects = used[h].projects - r.projects
      BY <1>3, <2>1, <3>1, <3>8, SubtractFields
    <3> QED
      BY <1>2, <1>3, <2>1, <2>2, <3>2, <3>9
  <2>4. CASE h # x.host
    <3>1. used'[h] = used[h] /\ HostUnits(S, h) = HostUnits(T, h) + 0
      BY <1>5, <1>7, <2>4
    <3> QED
      BY <2>1, <2>2, <3>1
  <2> QED
    BY <2>3, <2>4
<1>13. CapacityInv' /\ Changes(spec, replicas, spec', replicas', p)
  BY <1>1, <1>4, <1>6, <1>7, <1>8, <1>10, <1>11, <1>12, ReplicasKeepCapacity
<1>14. AllUnits(T) \in Nat
  BY <1>7, UnitsNat
<1> QED
  BY <1>2, <1>4, <1>7, <1>13, <1>14

\* The new status of one replica, and the roles after a promotion, as maps of
\* the replicas of a project.
LEMMA StatusKeepsCapacity ==
  ASSUME RegistryInv, CapacityInv, NEW p \in Refs, NEW x \in replicas[p],
         NEW status \in Statuses, UpdateProjectReplicaStatus(p, x, status)
  PROVE  /\ CapacityInv' /\ Changes(spec, replicas, spec', replicas', p)
         /\ AllUnits(replicas'[p]) = AllUnits(replicas[p])
<1> DEFINE y == [x EXCEPT !.status = status]
           b == [z \in replicas[p] |-> IF z = x THEN y ELSE z]
<1>1. p \in live /\ replicas[p] \subseteq Replicas
  BY DEF RegistryInv, RegistryType, ReplicaRoles
<1>2. y \in Replicas /\ y.name = x.name /\ y.size = x.size /\ y.host = x.host
  BY <1>1 DEF Replicas
<1>3. replicas' = [replicas EXCEPT ![p] = (replicas[p] \ {x}) \cup {y}]
  BY DEF UpdateProjectReplicaStatus, Put
<1>4. UNCHANGED <<orgVars, hostVars, used, spec, branches>>
  BY DEF UpdateProjectReplicaStatus
<1> HIDE DEF y
<1>5. (replicas[p] \ {x}) \cup {y} = {b[z] : z \in replicas[p]}
  OBVIOUS
<1>6. /\ b \in [replicas[p] -> Replicas]
      /\ \A z \in replicas[p] : b[z].name = z.name /\ b[z].size = z.size /\ b[z].host = z.host
  BY <1>1, <1>2
<1> HIDE DEF b
<1> QED
  BY <1>1, <1>3, <1>4, <1>5, <1>6, MapKeepsCapacity

LEMMA MakePrimaryKeepsCapacity ==
  ASSUME RegistryInv, CapacityInv, NEW p \in Refs, NEW x \in replicas[p],
         MakePrimary(p, x), UNCHANGED <<orgVars, hostVars, used, spec, branches>>
  PROVE  /\ CapacityInv' /\ Changes(spec, replicas, spec', replicas', p)
         /\ AllUnits(replicas'[p]) = AllUnits(replicas[p])
<1> DEFINE top == [x EXCEPT !.role = "primary"]
           read(z) == [z EXCEPT !.role = "read"]
           b == [z \in replicas[p] |-> IF z = x THEN top ELSE read(z)]
<1>1. p \in live /\ replicas[p] \subseteq Replicas
  BY DEF RegistryInv, RegistryType, ReplicaRoles
<1>2. top \in Replicas /\ top.name = x.name /\ top.size = x.size /\ top.host = x.host
  BY <1>1 DEF Replicas
<1>3. \A z \in replicas[p] : /\ read(z) \in Replicas /\ read(z).name = z.name
                             /\ read(z).size = z.size /\ read(z).host = z.host
  BY <1>1 DEF Replicas
<1>4. replicas' = [replicas EXCEPT ![p] = {read(z) : z \in replicas[p] \ {x}} \cup {top}]
  BY DEF MakePrimary
<1> HIDE DEF top, read
<1>5. {read(z) : z \in replicas[p] \ {x}} \cup {top} = {b[z] : z \in replicas[p]}
  OBVIOUS
<1>6. /\ b \in [replicas[p] -> Replicas]
      /\ \A z \in replicas[p] : b[z].name = z.name /\ b[z].size = z.size /\ b[z].host = z.host
  BY <1>1, <1>2, <1>3
<1> HIDE DEF b
<1> QED
  BY <1>1, <1>4, <1>5, <1>6, MapKeepsCapacity

LEMMA CapacityNext == RegistryInv /\ CapacityInv /\ [Next]_vars => CapacityInv'
<1> SUFFICES ASSUME RegistryInv, CapacityInv, [Next]_vars
             PROVE  CapacityInv'
  OBVIOUS
<1>1. CASE UNCHANGED vars
  <2>1. \A h \in Hosts : Reserved(h)' = Reserved(h)
    BY <1>1, ReservedNow, ReservedNext DEF vars
  <2>2. Exact'
    BY <1>1, <2>1 DEF vars, CapacityInv, Exact
  <2> QED
    BY <1>1, <2>2 DEF vars, CapacityInv, TypeOK, Finite, OwnersExist, Fits, Within, live
<1>2. CASE OrgAndHostStep
  BY <1>2, OrgAndHostKeepsCapacity
<1>5. CASE ProjectStep
  BY <1>5, CreateProjectKeepsCapacity, BranchKeepsCapacity, ResizeKeepsCapacity,
     DeleteKeepsCapacity DEF ProjectStep, DeleteProjectBranch
<1>6. ASSUME NEW p \in Refs, FailoverProjectReplica(p)
      PROVE  CapacityInv'
  <2>1. PICK x \in replicas[p] : MakePrimary(p, x)
    BY <1>6 DEF FailoverProjectReplica, Candidates
  <2> QED
    BY <1>6, <2>1, MakePrimaryKeepsCapacity DEF FailoverProjectReplica
<1>7. ASSUME NEW p \in Refs, NEW x \in replicas[p], PromoteProjectReplica(p, x)
      PROVE  CapacityInv'
  BY <1>7, MakePrimaryKeepsCapacity DEF PromoteProjectReplica
<1>8. CASE ReplicaStep
  BY <1>6, <1>7, <1>8, CreateReplicaKeepsCapacity, StatusKeepsCapacity,
     DeleteReplicaKeepsCapacity DEF ReplicaStep
<1> QED
  BY <1>1, <1>2, <1>5, <1>8 DEF Next

LEMMA CapacityHolds == Spec => [](RegistryInv /\ CapacityInv)
<1>1. RegistryInv /\ CapacityInv /\ [Next]_vars => (RegistryInv /\ CapacityInv)'
  BY RegistryNext, CapacityNext
<1> QED
  BY <1>1, RegistryInit, CapacityInit, PTL DEF Spec

(***************************************************************************)
(* Orgs, hosts, projects and replicas have their types: a total is never   *)
(* negative, and a host that is gone carries nothing.                      *)
(***************************************************************************)
THEOREM PlacementTypes == Spec => []TypeOK
<1>1. CapacityInv => TypeOK
  BY DEF CapacityInv
<1> QED
  BY <1>1, CapacityHolds, PTL

(***************************************************************************)
(* The total a host carries is what its projects and replicas reserve, and *)
(* within the host's limits, for any number of hosts, projects, replicas   *)
(* and sizes: addHostCapacity and subtractHostCapacity never drift from    *)
(* what is placed, and the clamp at 0 never acts.                          *)
(***************************************************************************)
THEOREM CapacitySound == Spec => []CapacityIsSound
<1>1. CapacityInv => CapacityIsSound
  BY DEF CapacityInv, TypeOK, Exact, Fits, CapacityIsSound
<1> QED
  BY <1>1, CapacityHolds, PTL

(***************************************************************************)
(* The org and the host of every project and replica exist.  For DeleteHost*)
(* this rests on the totals: a host whose total is 0 has nothing on it,    *)
(* because the total is exact and every reservation is positive.           *)
(***************************************************************************)
THEOREM OwnersStay == Spec => []OwnersExist
<1>1. CapacityInv => OwnersExist
  BY DEF CapacityInv
<1> QED
  BY <1>1, CapacityHolds, PTL

-----------------------------------------------------------------------------
(* The quota of an org. *)

\* What a step may do to the usage of an org.
Guarded(o) == OrgUsage(o)'.units > OrgUsage(o).units
                => WithinLimit(OrgUsage(o)'.units, quota[o].units)

LEMMA NoGrowth ==
  ASSUME NEW o \in Orgs, Table(spec, replicas), Table(spec', replicas'),
         OrgUnits(spec', replicas', o) <= OrgUnits(spec, replicas, o)
  PROVE  Guarded(o)
<1>1. OrgUnits(spec, replicas, o) \in Nat /\ OrgUnits(spec', replicas', o) \in Nat
  BY LoadsNat
<1> QED
  BY <1>1, UsageNow, UsageNext DEF Guarded

\* A project appears within the quota of its org.
LEMMA ExtendsGuarded ==
  ASSUME NEW p, Extends(spec, replicas, spec', replicas', p), replicas'[p] = {},
         NEW org, spec'[p].org = org, NEW size, spec'[p].size = size,
         OrgQuotaAllows(org, ProjectReservation(size)), NEW o \in Orgs
  PROVE  Guarded(o)
<1>1. Table(spec, replicas) /\ Table(spec', replicas') /\ size \in Nat
  BY ProjectSizesNat DEF Extends, Table
<1>2. OrgUnits(spec, replicas, o) \in Nat
  BY <1>1, LoadsNat
<1>3. AllUnits(replicas'[p]) = 0
  BY UnitsEmpty
<1>4. CASE org = o
  <2>1. OrgUnits(spec', replicas', o) = OrgUnits(spec, replicas, o) + size
    <3>1. OrgUnits(spec', replicas', o) = OrgUnits(spec, replicas, o) + (size + 0)
      BY <1>3, <1>4, OrgUnitsExtends
    <3> QED
      BY <1>1, <1>2, <3>1
  <2>2. WithinLimit(OrgUsage(o).units + size, quota[o].units)
    BY <1>4 DEF OrgQuotaAllows, Within, Add, ProjectReservation
  <2> QED
    BY <2>1, <2>2, UsageNow, UsageNext DEF Guarded
<1>5. CASE org # o
  <2>1. OrgUnits(spec', replicas', o) = OrgUnits(spec, replicas, o) + 0
    BY <1>5, OrgUnitsExtends
  <2> QED
    BY <1>1, <1>2, <2>1, NoGrowth
<1> QED
  BY <1>4, <1>5

\* The project is checked with its old size taken out; its replicas stay in.
LEMMA ResizeGuarded ==
  ASSUME RegistryInv, CapacityInv, NEW p \in Refs, NEW size \in Sizes,
         UpdateProjectResources(p, size), NEW o \in Orgs
  PROVE  Guarded(o)
<1>1. /\ Changes(spec, replicas, spec', replicas', p) /\ spec'[p].size = size
      /\ UNCHANGED replicas
  BY ResizeKeepsCapacity DEF UpdateProjectResources
<1>2. Table(spec, replicas) /\ Table(spec', replicas') /\ p \in DOMAIN spec
  BY <1>1 DEF Changes
<1>3. OrgUnits(spec, replicas, o) \in Nat
  BY <1>2, LoadsNat
<1>4. CASE spec[p].org = o
  <2> DEFINE u == OrgUnits(spec, replicas, o)
             a == AllUnits(replicas[p])
             n == spec[p].size
  <2>1. a \in Nat /\ n \in Nat /\ size \in Nat
    BY <1>2, UnitsNat, ProjectSizesNat, SizesAssumption DEF Table
  <2>2. u - (n + a) \in Nat /\ OrgUnits(spec', replicas', o) = u - (n + a) + (size + a)
    BY <1>1, <1>4, OrgUnitsChanges
  <2>3. WithinLimit(AtLeastZero(OrgUsage(o).units - n) + size, quota[o].units)
    BY <1>4 DEF UpdateProjectResources, Within, Add, Subtract, ProjectReservation
  <2>4. OrgUsage(o).units = u /\ OrgUsage(o)'.units = OrgUnits(spec', replicas', o)
    BY UsageNow, UsageNext
  <2> HIDE DEF u, a, n
  <2>5. OrgUnits(spec', replicas', o) = AtLeastZero(u - n) + size
    BY <1>3, <2>1, <2>2 DEF AtLeastZero, u
  <2> QED
    BY <2>3, <2>4, <2>5 DEF Guarded
<1>5. CASE spec[p].org # o
  <2>1. OrgUnits(spec', replicas', o) = OrgUnits(spec, replicas, o)
    BY <1>1, <1>5, OrgUnitsChanges
  <2> QED
    BY <1>2, <1>3, <2>1, NoGrowth
<1> QED
  BY <1>4, <1>5

LEMMA DeleteGuarded ==
  ASSUME RegistryInv, CapacityInv, NEW p \in Refs, DeleteProject(p), NEW o \in Orgs
  PROVE  Guarded(o)
<1>1. Extends(spec', replicas', spec, replicas, p)
  BY DeleteKeepsCapacity
<1>2. Table(spec, replicas) /\ Table(spec', replicas') /\ p \in DOMAIN spec
  BY <1>1 DEF Extends
<1>3. /\ OrgUnits(spec', replicas', o) \in Nat
      /\ spec[p].size \in Nat /\ AllUnits(replicas[p]) \in Nat
  BY <1>2, LoadsNat, UnitsNat, ProjectSizesNat DEF Table
<1>4. OrgUnits(spec, replicas, o)
        = OrgUnits(spec', replicas', o)
            + (IF spec[p].org = o THEN spec[p].size + AllUnits(replicas[p]) ELSE 0)
  BY <1>1, OrgUnitsExtends
<1>5. OrgUnits(spec', replicas', o) <= OrgUnits(spec, replicas, o)
  BY <1>3, <1>4
<1> QED
  BY <1>2, <1>5, NoGrowth

\* The replicas of one project change and take a units more, or fewer.
LEMMA ReplicasGuarded ==
  ASSUME NEW p, Changes(spec, replicas, spec', replicas', p), UNCHANGED spec,
         NEW o \in Orgs,
         \/ AllUnits(replicas'[p]) <= AllUnits(replicas[p])
         \/ \E size \in Nat :
              /\ AllUnits(replicas'[p]) = AllUnits(replicas[p]) + size
              /\ OrgReplicaQuotaAllows(spec[p].org, ReplicaReservation(size))
  PROVE  Guarded(o)
<1>1. Table(spec, replicas) /\ Table(spec', replicas') /\ p \in DOMAIN spec
  BY DEF Changes
<1> DEFINE u == OrgUnits(spec, replicas, o)
           a == AllUnits(replicas[p])
           b == AllUnits(replicas'[p])
           n == spec[p].size
<1>2. u \in Nat /\ a \in Nat /\ b \in Nat /\ n \in Nat
  BY <1>1, LoadsNat, UnitsNat, ProjectSizesNat DEF Table
<1>3. CASE spec[p].org = o
  <2>1. OrgUnits(spec', replicas', o) = u - (n + a) + (n + b)
    BY <1>3, OrgUnitsChanges
  <2>2. OrgUsage(o).units = u /\ OrgUsage(o)'.units = OrgUnits(spec', replicas', o)
    BY UsageNow, UsageNext
  <2>3. CASE b <= a
    <3> HIDE DEF u, a, b, n
    <3>1. OrgUnits(spec', replicas', o) <= u
      BY <1>2, <2>1, <2>3
    <3> QED
      BY <1>1, <3>1, NoGrowth DEF u
  <2>4. ASSUME NEW size \in Nat, b = a + size,
               OrgReplicaQuotaAllows(spec[p].org, ReplicaReservation(size))
        PROVE  Guarded(o)
    <3>1. WithinLimit(OrgUsage(o).units + size, quota[o].units)
      BY <1>3, <2>4 DEF OrgReplicaQuotaAllows, ReplicaReservation
    <3> HIDE DEF u, a, b, n
    <3>2. OrgUnits(spec', replicas', o) = u + size
      BY <1>2, <2>1, <2>4
    <3> QED
      BY <2>2, <3>1, <3>2 DEF Guarded
  <2> QED
    BY <2>3, <2>4
<1>4. CASE spec[p].org # o
  <2>1. OrgUnits(spec', replicas', o) = u
    BY <1>4, OrgUnitsChanges
  <2> HIDE DEF u
  <2>2. OrgUnits(spec', replicas', o) <= u
    BY <1>2, <2>1
  <2> QED
    BY <1>1, <2>2, NoGrowth DEF u
<1> QED
  BY <1>3, <1>4

LEMMA NextGuarded ==
  ASSUME RegistryInv, CapacityInv, Next, NEW o \in Orgs
  PROVE  Guarded(o)
<1>1. CASE OrgAndHostStep
  <2>1. UNCHANGED <<spec, replicas>>
    BY <1>1 DEF OrgAndHostStep, CreateOrg, DeleteOrg, UpdateOrgQuota, CreateHost, DeleteHost
  <2>2. Table(spec, replicas) /\ OrgUnits(spec, replicas, o) \in Nat
    BY TableNow, LoadsNat DEF CapacityInv
  <2> QED
    BY <2>1, <2>2, NoGrowth
<1>2. ASSUME NEW p \in Refs, NEW org \in Orgs, NEW h \in Placements, NEW size \in Sizes,
             CreateProject(p, org, h, size)
      PROVE  Guarded(o)
  <2>1. OrgQuotaAllows(org, ProjectReservation(size))
    BY <1>2 DEF CreateProject
  <2> QED
    BY <1>2, <2>1, CreateProjectKeepsCapacity, ExtendsGuarded
<1>3. ASSUME NEW p \in Refs, NEW q \in Refs, CreateProjectBranch(q, p)
      PROVE  Guarded(o)
  <2>1. OrgQuotaAllows(spec[q].org, ProjectReservation(spec[q].size))
    BY <1>3 DEF CreateProjectBranch
  <2>2. /\ Extends(spec, replicas, spec', replicas', p)
        /\ spec'[p] = spec[q] /\ replicas'[p] = {}
    BY <1>3, BranchKeepsCapacity
  <2> QED
    BY <2>1, <2>2, ExtendsGuarded
<1>4. CASE ProjectStep
  BY <1>2, <1>3, <1>4, ResizeGuarded, DeleteGuarded DEF ProjectStep, DeleteProjectBranch
<1>5. ASSUME NEW p \in Refs, NEW n \in Names, NEW h \in Placements, NEW size \in ReplicaSizes,
             NEW k \in Priorities, CreateProjectReplica(p, n, h, size, k)
      PROVE  Guarded(o)
  <2>1. size \in Nat /\ OrgReplicaQuotaAllows(spec[p].org, ReplicaReservation(size))
    BY <1>5, SizesAssumption DEF CreateProjectReplica
  <2>2. /\ Changes(spec, replicas, spec', replicas', p)
        /\ AllUnits(replicas'[p]) = AllUnits(replicas[p]) + size
    BY <1>5, CreateReplicaKeepsCapacity
  <2>3. UNCHANGED spec
    BY <1>5 DEF CreateProjectReplica
  <2> QED
    BY <2>1, <2>2, <2>3, ReplicasGuarded
<1>6. ASSUME NEW p \in Refs, Changes(spec, replicas, spec', replicas', p), UNCHANGED spec,
             AllUnits(replicas'[p]) = AllUnits(replicas[p])
      PROVE  Guarded(o)
  <2>1. AllUnits(replicas[p]) \in Nat
    BY <1>6, UnitsNat DEF Changes, Table
  <2>2. AllUnits(replicas'[p]) <= AllUnits(replicas[p])
    BY <1>6, <2>1
  <2> QED
    BY <1>6, <2>2, ReplicasGuarded
<1>7. ASSUME NEW p \in Refs, NEW x \in replicas[p], NEW s \in Statuses,
             UpdateProjectReplicaStatus(p, x, s)
      PROVE  Guarded(o)
  BY <1>6, <1>7, StatusKeepsCapacity DEF UpdateProjectReplicaStatus
<1>8. ASSUME NEW p \in Refs, NEW x \in replicas[p], DeleteProjectReplica(p, x)
      PROVE  Guarded(o)
  <2>1. UNCHANGED spec
    BY <1>8 DEF DeleteProjectReplica
  <2> QED
    BY <1>8, <2>1, DeleteReplicaKeepsCapacity, ReplicasGuarded
<1>9. ASSUME NEW p \in Refs, NEW x \in replicas[p], PromoteProjectReplica(p, x)
      PROVE  Guarded(o)
  BY <1>6, <1>9, MakePrimaryKeepsCapacity DEF PromoteProjectReplica
<1>10. ASSUME NEW p \in Refs, FailoverProjectReplica(p)
       PROVE  Guarded(o)
  <2>1. PICK x \in replicas[p] : MakePrimary(p, x)
    BY <1>10 DEF FailoverProjectReplica, Candidates
  <2> QED
    BY <1>6, <1>10, <2>1, MakePrimaryKeepsCapacity DEF FailoverProjectReplica
<1>11. CASE ReplicaStep
  BY <1>5, <1>7, <1>8, <1>9, <1>10, <1>11 DEF ReplicaStep
<1> QED
  BY <1>1, <1>4, <1>11 DEF Next

(***************************************************************************)
(* The recomputed usage of an org grows only to a value its quota allows,  *)
(* in every step of every method: the check of validateOrgQuotaLocked, the *)
(* one for replicas and the one for a resize each compare the usage that   *)
(* the step leads to.                                                      *)
(***************************************************************************)
THEOREM QuotaIsRespected == Spec => QuotaGuardsGrowth
<1>1. RegistryInv /\ CapacityInv /\ [Next]_vars
        => [\A o \in orgs : OrgUsage(o)'.units > OrgUsage(o).units
              => WithinLimit(OrgUsage(o)'.units, quota[o].units)]_vars
  <2> SUFFICES ASSUME RegistryInv, CapacityInv, Next, NEW o \in orgs
               PROVE  Guarded(o)
    BY DEF Guarded
  <2>1. o \in Orgs
    BY DEF CapacityInv, TypeOK
  <2> QED
    BY <2>1, NextGuarded
<1> QED
  BY <1>1, CapacityHolds, PTL DEF Spec, QuotaGuardsGrowth

-----------------------------------------------------------------------------
LEMMA NextKeepsPrimary ==
  ASSUME RegistryInv, Next, NEW p \in live, HasPrimary(p)
  PROVE  HasPrimary(p)' \/ p \notin live'
<1>1. p \in Refs /\ replicas \in [Refs -> SUBSET Replicas]
  BY DEF RegistryInv, RegistryType
<1>2. PICK y \in replicas[p] : y.role = "primary"
  BY DEF HasPrimary
<1>3. ASSUME replicas'[p] = replicas[p]
      PROVE  HasPrimary(p)'
  BY <1>2, <1>3 DEF HasPrimary
<1>4. CASE OrgAndHostStep
  BY <1>3, <1>4 DEF OrgAndHostStep, CreateOrg, DeleteOrg, UpdateOrgQuota, CreateHost, DeleteHost
<1>5. ASSUME NEW q \in Refs, DeleteProject(q)
      PROVE  HasPrimary(p)' \/ p \notin live'
  <2>1. CASE q = p
    BY <1>5, <2>1 DEF DeleteProject, live
  <2>2. CASE q # p
    BY <1>1, <1>3, <1>5, <2>2 DEF DeleteProject
  <2> QED
    BY <2>1, <2>2
<1>6. CASE ProjectStep
  <2>1. CASE UNCHANGED replicas
    BY <1>3, <2>1
  <2>2. UNCHANGED replicas \/ \E q \in Refs : DeleteProject(q)
    BY <1>6 DEF ProjectStep, CreateProject, UpdateProjectResources,
                CreateProjectBranch, DeleteProjectBranch
  <2> QED
    BY <1>5, <2>1, <2>2
<1>7. ASSUME NEW T, replicas' = [replicas EXCEPT ![p] = T], \E x \in T : x.role = "primary"
      PROVE  HasPrimary(p)'
  <2>1. replicas'[p] = T
    BY <1>1, <1>7
  <2> QED
    BY <1>7, <2>1 DEF HasPrimary
<1>8. ASSUME NEW q \in Refs, q # p, NEW T, replicas' = [replicas EXCEPT ![q] = T]
      PROVE  HasPrimary(p)'
  BY <1>1, <1>3, <1>8
<1>9. ASSUME NEW q \in Refs, NEW x \in replicas[q], MakePrimary(q, x)
      PROVE  HasPrimary(p)'
  <2> DEFINE top == [x EXCEPT !.role = "primary"]
             T == {[z EXCEPT !.role = "read"] : z \in replicas[q] \ {x}} \cup {top}
  <2>1. top \in T /\ top.role = "primary"
    BY <1>1 DEF Replicas
  <2>2. replicas' = [replicas EXCEPT ![q] = T]
    BY <1>9 DEF MakePrimary
  <2> HIDE DEF T, top
  <2> QED
    BY <1>7, <1>8, <2>1, <2>2
<1>10. ASSUME NEW q \in Refs, NEW x \in replicas[q], NEW s \in Statuses,
              UpdateProjectReplicaStatus(q, x, s)
       PROVE  HasPrimary(p)'
  <2> DEFINE z == [x EXCEPT !.status = s]
             T == (replicas[q] \ {x}) \cup {z}
  <2>1. z.role = x.role
    BY <1>1 DEF Replicas
  <2>2. replicas' = [replicas EXCEPT ![q] = T]
    BY <1>10 DEF UpdateProjectReplicaStatus, Put
  <2> HIDE DEF z
  <2>3. q = p => \E w \in T : w.role = "primary"
    BY <1>2, <2>1
  <2> HIDE DEF T
  <2> QED
    BY <1>7, <1>8, <2>2, <2>3
<1>11. ASSUME NEW q \in Refs, NEW x \in replicas[q], DeleteProjectReplica(q, x)
       PROVE  HasPrimary(p)'
  <2>1. x.role # "primary" /\ replicas' = [replicas EXCEPT ![q] = replicas[q] \ {x}]
    BY <1>11 DEF DeleteProjectReplica
  <2>2. q = p => y \in replicas[q] \ {x}
    BY <1>2, <2>1
  <2> QED
    BY <1>2, <1>7, <1>8, <2>1, <2>2
<1>12. ASSUME NEW q \in Refs, NEW n \in Names, NEW h \in Placements,
              NEW s \in ReplicaSizes, NEW k \in Priorities, CreateProjectReplica(q, n, h, s, k)
       PROVE  HasPrimary(p)'
  <2>1. PICK T : replicas' = [replicas EXCEPT ![q] = replicas[q] \cup T]
    BY <1>12 DEF CreateProjectReplica
  <2> QED
    BY <1>2, <1>7, <1>8, <2>1
<1>13. ASSUME NEW q \in Refs, FailoverProjectReplica(q)
       PROVE  HasPrimary(p)'
  <2>1. PICK x \in replicas[q] : MakePrimary(q, x)
    BY <1>13 DEF FailoverProjectReplica, Candidates
  <2> QED
    BY <1>9, <2>1
<1>14. ASSUME NEW q \in Refs, NEW x \in replicas[q], PromoteProjectReplica(q, x)
       PROVE  HasPrimary(p)'
  BY <1>9, <1>14 DEF PromoteProjectReplica
<1>15. CASE ReplicaStep
  BY <1>10, <1>11, <1>12, <1>13, <1>14, <1>15 DEF ReplicaStep
<1> QED
  BY <1>4, <1>6, <1>15 DEF Next

(***************************************************************************)
(* A project with a primary replica has one after every step, unless the   *)
(* step deletes the project (DeleteProjectReplica, PromoteProjectReplica,  *)
(* FailoverProjectReplica, UpdateProjectReplicaStatus).                    *)
(***************************************************************************)
THEOREM PrimaryStays == Spec => PrimaryIsKept
<1>1. RegistryInv /\ [Next]_vars
        => [\A p \in live : HasPrimary(p) => HasPrimary(p)' \/ p \notin live']_vars
  BY NextKeepsPrimary
<1> QED
  BY <1>1, RegistryHolds, PTL DEF Spec, PrimaryIsKept
-----------------------------------------------------------------------------
(* Durability. *)

\* There is one process on the meta database.
Single == \A i, j \in Instances : i = j

Saving(i) == stage[i] \in {"checkpoint", "tables"}

\* Who can hold saveMu, in which phase, and what an open request needs.
LockInv ==
  \A i \in Instances :
    /\ phase[i] = "down" => stage[i] = "none"
    /\ phase[i] = "starting" => stage[i] \in {"none", "checkpoint", "tables"}
    /\ saver[i] = Boot => phase[i] = "starting" /\ Saving(i)
    /\ saver[i] = Importer <=> stage[i] \in {"import", "install"}
    /\ saver[i] \in Requests => /\ phase[i] = "serving"
                                /\ req[saver[i]] = "saving"
                                /\ at[saver[i]] = i

OpenInv ==
  \A r \in Requests : req[r] \in Open => phase[at[r]] = "serving"

\* The write of an open request is in the image, unless a restore dropped it.
AppliedInv ==
  \A r \in Requests :
    req[r] \in {"applied", "saving"} => r \in mem[at[r]] \cup undone

\* A running process knows everything the row holds and is not dropped.
ImageInv ==
  \A i \in Instances : phase[i] # "down" => row \subseteq mem[i] \cup undone

\* A snapshot being saved keeps the row and contains the write it is for.
SnapInv ==
  \A i \in Instances :
    /\ Saving(i) => row \subseteq snap[i] \cup undone /\ snap[i] \subseteq mem[i]
    /\ Saving(i) /\ saver[i] \in Requests => saver[i] \in snap[i] \cup undone
    /\ stage[i] \in {"tables", "install"} => row = snap[i]
    /\ stage[i] = "import" => snap[i] \subseteq mem[i] \cup undone
    /\ stage[i] = "install" => mem[i] \subseteq snap[i] \cup undone

\* Nothing in an artifact has left the row but by a restore.
ArchiveInv == \A b \in Backups : archive[b] \subseteq row \cup undone

RowInv == ~hasRow => row = {}

DurabilityIInv == /\ DurabilityTypeOK
        /\ LockInv
        /\ OpenInv
        /\ AppliedInv
        /\ ImageInv
        /\ SnapInv
        /\ ArchiveInv
        /\ RowInv
        /\ AckedDurable

LEMMA DurabilityInitIInv == DurabilityInit => DurabilityIInv
<1> SUFFICES ASSUME DurabilityInit PROVE DurabilityIInv
  OBVIOUS
<1> USE BackupsAssumption, MarkersAssumption DEF DurabilityInit
<1>1. DurabilityTypeOK
  BY DEF DurabilityTypeOK, Phases, Stages, RequestStates
<1>2. LockInv /\ OpenInv /\ AppliedInv
  BY DEF LockInv, OpenInv, AppliedInv, Open, Saving
<1>3. ImageInv /\ SnapInv /\ ArchiveInv /\ RowInv /\ AckedDurable
  BY DEF ImageInv, SnapInv, ArchiveInv, RowInv, AckedDurable, Acked, Saving
<1> QED
  BY <1>1, <1>2, <1>3 DEF DurabilityIInv

LEMMA LoadStep ==
  ASSUME Single, DurabilityIInv, NEW i \in Instances, Load(i)
  PROVE  DurabilityIInv'
<1> USE BackupsAssumption, MarkersAssumption
    DEF DurabilityIInv, Load, Loaded,
        process, database, requests
<1>1. DurabilityTypeOK'
  BY DEF DurabilityTypeOK, Phases, Stages, RequestStates
<1>2. LockInv' /\ OpenInv'
  BY DEF LockInv, Saving, OpenInv, Open
<1>3. AppliedInv' /\ ImageInv'
  BY DEF Single, DurabilityTypeOK, LockInv, Saving, OpenInv, Open, AppliedInv, ImageInv, SnapInv, ArchiveInv, RowInv
<1>4. SnapInv'
  BY DEF DurabilityTypeOK, LockInv, Saving, SnapInv
<1>5. ArchiveInv' /\ RowInv' /\ AckedDurable'
  BY DEF ArchiveInv, RowInv, AckedDurable, Acked
<1> QED
  BY <1>1, <1>2, <1>3, <1>4, <1>5

LEMMA BeginBootSaveStep ==
  ASSUME Single, DurabilityIInv, NEW i \in Instances, BeginBootSave(i)
  PROVE  DurabilityIInv'
<1> USE BackupsAssumption, MarkersAssumption
    DEF DurabilityIInv, BeginBootSave, LockAndSnapshot,
        process, database, requests
<1>1. DurabilityTypeOK'
  BY DEF DurabilityTypeOK, Phases, Stages, RequestStates
<1>2. LockInv' /\ OpenInv'
  BY DEF DurabilityTypeOK, LockInv, Saving, OpenInv, Open
<1>3. AppliedInv' /\ ImageInv'
  BY DEF AppliedInv, ImageInv
<1>4. SnapInv'
  BY DEF Single, DurabilityTypeOK, LockInv, Saving, ImageInv, SnapInv
<1>5. ArchiveInv' /\ RowInv' /\ AckedDurable'
  BY DEF ArchiveInv, RowInv, AckedDurable, Acked
<1> QED
  BY <1>1, <1>2, <1>3, <1>4, <1>5

LEMMA ApplyStep ==
  ASSUME Single, DurabilityIInv, NEW i \in Instances, NEW r \in Requests, Apply(i, r)
  PROVE  DurabilityIInv'
<1> USE BackupsAssumption, MarkersAssumption
    DEF DurabilityIInv, Apply, ReadyToApply, StoreMutexFree,
        process, database, requests
<1>1. DurabilityTypeOK'
  BY DEF DurabilityTypeOK, Phases, Stages, RequestStates
<1>2. LockInv' /\ OpenInv'
  BY DEF LockInv, Saving, OpenInv, Open
<1>3. AppliedInv' /\ ImageInv'
  BY DEF DurabilityTypeOK, AppliedInv, ImageInv
<1>4. SnapInv'
  BY DEF Saving, SnapInv
<1>5. ArchiveInv' /\ RowInv' /\ AckedDurable'
  BY DEF ArchiveInv, RowInv, AckedDurable, Acked
<1> QED
  BY <1>1, <1>2, <1>3, <1>4, <1>5

LEMMA ApplyRejectedStep ==
  ASSUME Single, DurabilityIInv, NEW i \in Instances, NEW r \in Requests, ApplyRejected(i, r)
  PROVE  DurabilityIInv'
<1> USE BackupsAssumption, MarkersAssumption
    DEF DurabilityIInv, ApplyRejected, ReadyToApply,
        process, database, requests
<1>1. DurabilityTypeOK'
  BY DEF DurabilityTypeOK, Phases, Stages, RequestStates
<1>2. LockInv' /\ OpenInv'
  BY DEF LockInv, Saving, OpenInv, Open
<1>3. AppliedInv' /\ ImageInv'
  BY DEF AppliedInv, ImageInv
<1>4. SnapInv'
  BY DEF Saving, SnapInv
<1>5. ArchiveInv' /\ RowInv' /\ AckedDurable'
  BY DEF ArchiveInv, RowInv, AckedDurable, Acked
<1> QED
  BY <1>1, <1>2, <1>3, <1>4, <1>5

LEMMA BeginSaveStep ==
  ASSUME Single, DurabilityIInv, NEW i \in Instances, NEW r \in Requests, BeginSave(i, r)
  PROVE  DurabilityIInv'
<1> USE BackupsAssumption, MarkersAssumption
    DEF DurabilityIInv, BeginSave, LockAndSnapshot,
        process, database, requests
<1>1. DurabilityTypeOK'
  BY DEF DurabilityTypeOK, Phases, Stages, RequestStates
<1>2. LockInv' /\ OpenInv'
  BY DEF DurabilityTypeOK, LockInv, Saving, OpenInv, Open
<1>3. AppliedInv' /\ ImageInv'
  BY DEF AppliedInv, ImageInv
<1>4. SnapInv'
  BY DEF Single, DurabilityTypeOK, LockInv, Saving, OpenInv, Open, AppliedInv, ImageInv, SnapInv, ArchiveInv, RowInv
<1>5. ArchiveInv' /\ RowInv' /\ AckedDurable'
  BY DEF ArchiveInv, RowInv, AckedDurable, Acked
<1> QED
  BY <1>1, <1>2, <1>3, <1>4, <1>5

LEMMA WriteArtifactStep ==
  ASSUME Single, DurabilityIInv, NEW i \in Instances, NEW b \in Backups, WriteArtifact(i, b)
  PROVE  DurabilityIInv'
<1> USE BackupsAssumption, MarkersAssumption
    DEF DurabilityIInv, WriteArtifact,
        process, database, requests
<1>1. DurabilityTypeOK'
  BY DEF DurabilityTypeOK, Phases, Stages, RequestStates
<1>2. LockInv' /\ OpenInv'
  BY DEF LockInv, Saving, OpenInv, Open
<1>3. AppliedInv' /\ ImageInv'
  BY DEF AppliedInv, ImageInv
<1>4. SnapInv'
  BY DEF Saving, SnapInv
<1>5. ArchiveInv' /\ RowInv' /\ AckedDurable'
  BY DEF ArchiveInv, RowInv, AckedDurable, Acked
<1> QED
  BY <1>1, <1>2, <1>3, <1>4, <1>5

LEMMA BeginRestoreStep ==
  ASSUME Single, DurabilityIInv, NEW i \in Instances, NEW b \in Backups, BeginRestore(i, b)
  PROVE  DurabilityIInv'
<1> USE BackupsAssumption, MarkersAssumption
    DEF DurabilityIInv, BeginRestore, PreservePlatformBackups,
        process, database, requests
<1>1. DurabilityTypeOK'
  BY DEF DurabilityTypeOK, Phases, Stages, RequestStates
<1>2. LockInv' /\ OpenInv'
  BY DEF DurabilityTypeOK, LockInv, Saving, OpenInv, Open
<1>3. AppliedInv' /\ ImageInv'
  BY DEF AppliedInv, ImageInv
<1>4. SnapInv'
  BY DEF Single, DurabilityTypeOK, LockInv, Saving, OpenInv, Open, AppliedInv, ImageInv, SnapInv, ArchiveInv, RowInv
<1>5. ArchiveInv' /\ RowInv' /\ AckedDurable'
  BY DEF ArchiveInv, RowInv, AckedDurable, Acked
<1> QED
  BY <1>1, <1>2, <1>3, <1>4, <1>5

LEMMA WriteCheckpointStep ==
  ASSUME Single, DurabilityIInv, NEW i \in Instances, WriteCheckpoint(i)
  PROVE  DurabilityIInv'
<1> USE BackupsAssumption, MarkersAssumption
    DEF DurabilityIInv, WriteCheckpoint, Upsert,
        process, database, requests
<1>1. DurabilityTypeOK'
  BY DEF DurabilityTypeOK, Phases, Stages, RequestStates
<1>2. LockInv' /\ OpenInv'
  BY DEF LockInv, Saving, OpenInv, Open
<1>3. AppliedInv' /\ ImageInv'
  BY DEF Single, DurabilityTypeOK, LockInv, Saving, AppliedInv, ImageInv, SnapInv
<1>4. SnapInv'
  BY DEF Single, DurabilityTypeOK, LockInv, Saving, OpenInv, Open, SnapInv
<1>5. ArchiveInv' /\ RowInv' /\ AckedDurable'
  BY DEF Single, DurabilityTypeOK, LockInv, Saving, ImageInv, SnapInv, ArchiveInv, RowInv, AckedDurable, Acked
<1> QED
  BY <1>1, <1>2, <1>3, <1>4, <1>5

LEMMA WriteCheckpointFailsStep ==
  ASSUME Single, DurabilityIInv, NEW i \in Instances, WriteCheckpointFails(i)
  PROVE  DurabilityIInv'
<1> USE BackupsAssumption, MarkersAssumption
    DEF DurabilityIInv, WriteCheckpointFails, Upsert, Return,
        process, database, requests
<1>1. DurabilityTypeOK'
  BY DEF DurabilityTypeOK, Phases, Stages, RequestStates
<1>2. LockInv' /\ OpenInv'
  BY DEF DurabilityTypeOK, LockInv, Saving, OpenInv, Open
<1>3. AppliedInv' /\ ImageInv'
  BY DEF Single, DurabilityTypeOK, LockInv, Saving, OpenInv, Open, AppliedInv, ImageInv, SnapInv, ArchiveInv, RowInv
<1>4. SnapInv'
  BY DEF Single, DurabilityTypeOK, LockInv, Saving, OpenInv, Open, SnapInv
<1>5. ArchiveInv' /\ RowInv' /\ AckedDurable'
  BY DEF Single, DurabilityTypeOK, LockInv, Saving, ImageInv, SnapInv, ArchiveInv, RowInv, AckedDurable, Acked
<1> QED
  BY <1>1, <1>2, <1>3, <1>4, <1>5

LEMMA SyncTablesStep ==
  ASSUME Single, DurabilityIInv, NEW i \in Instances, SyncTables(i)
  PROVE  DurabilityIInv'
<1> USE BackupsAssumption, MarkersAssumption
    DEF DurabilityIInv, SyncTables, Return,
        process, database, requests
<1>1. DurabilityTypeOK'
  BY DEF DurabilityTypeOK, Phases, Stages, RequestStates
<1>2. LockInv' /\ OpenInv'
  BY DEF DurabilityTypeOK, LockInv, Saving, OpenInv, Open
<1>3. AppliedInv' /\ ImageInv'
  BY DEF DurabilityTypeOK, LockInv, Saving, AppliedInv, ImageInv
<1>4. SnapInv'
  BY DEF DurabilityTypeOK, Saving, SnapInv
<1>5. ArchiveInv' /\ RowInv' /\ AckedDurable'
  BY DEF Single, DurabilityTypeOK, LockInv, Saving, ImageInv, SnapInv, ArchiveInv, RowInv, AckedDurable, Acked
<1> QED
  BY <1>1, <1>2, <1>3, <1>4, <1>5

LEMMA SyncTablesFailsStep ==
  ASSUME Single, DurabilityIInv, NEW i \in Instances, SyncTablesFails(i)
  PROVE  DurabilityIInv'
<1> USE BackupsAssumption, MarkersAssumption
    DEF DurabilityIInv, SyncTablesFails, Return,
        process, database, requests
<1>1. DurabilityTypeOK'
  BY DEF DurabilityTypeOK, Phases, Stages, RequestStates
<1>2. LockInv' /\ OpenInv'
  BY DEF DurabilityTypeOK, LockInv, Saving, OpenInv, Open
<1>3. AppliedInv' /\ ImageInv'
  BY DEF DurabilityTypeOK, LockInv, Saving, OpenInv, Open, AppliedInv, ImageInv
<1>4. SnapInv'
  BY DEF DurabilityTypeOK, Saving, SnapInv
<1>5. ArchiveInv' /\ RowInv' /\ AckedDurable'
  BY DEF ArchiveInv, RowInv, AckedDurable, Acked
<1> QED
  BY <1>1, <1>2, <1>3, <1>4, <1>5

LEMMA ImportCheckpointStep ==
  ASSUME Single, DurabilityIInv, NEW i \in Instances, ImportCheckpoint(i)
  PROVE  DurabilityIInv'
<1> USE BackupsAssumption, MarkersAssumption
    DEF DurabilityIInv, ImportCheckpoint, CommitImport, Upsert,
        process, database, requests
<1>1. DurabilityTypeOK'
  BY DEF DurabilityTypeOK, Phases, Stages, RequestStates
<1>2. LockInv' /\ OpenInv'
  BY DEF LockInv, Saving, OpenInv, Open
<1>3. AppliedInv' /\ ImageInv'
  BY DEF Single, DurabilityTypeOK, LockInv, Saving, AppliedInv, ImageInv, SnapInv
<1>4. SnapInv'
  BY DEF Single, DurabilityTypeOK, LockInv, Saving, OpenInv, Open, SnapInv
<1>5. ArchiveInv' /\ RowInv' /\ AckedDurable'
  BY DEF Single, DurabilityTypeOK, LockInv, Saving, ImageInv, SnapInv, ArchiveInv, RowInv, AckedDurable, Acked
<1> QED
  BY <1>1, <1>2, <1>3, <1>4, <1>5

LEMMA ImportFailsStep ==
  ASSUME Single, DurabilityIInv, NEW i \in Instances, ImportFails(i)
  PROVE  DurabilityIInv'
<1> USE BackupsAssumption, MarkersAssumption
    DEF DurabilityIInv, ImportFails, CommitImport, Upsert,
        process, database, requests
<1>1. DurabilityTypeOK'
  BY DEF DurabilityTypeOK, Phases, Stages, RequestStates
<1>2. LockInv' /\ OpenInv'
  BY DEF DurabilityTypeOK, LockInv, Saving, OpenInv, Open
<1>3. AppliedInv' /\ ImageInv'
  BY DEF Single, DurabilityTypeOK, LockInv, Saving, AppliedInv, ImageInv, SnapInv
<1>4. SnapInv'
  BY DEF Single, DurabilityTypeOK, LockInv, Saving, OpenInv, Open, SnapInv
<1>5. ArchiveInv' /\ RowInv' /\ AckedDurable'
  BY DEF Single, DurabilityTypeOK, LockInv, Saving, ImageInv, SnapInv, ArchiveInv, RowInv, AckedDurable, Acked
<1> QED
  BY <1>1, <1>2, <1>3, <1>4, <1>5

LEMMA InstallImportStep ==
  ASSUME Single, DurabilityIInv, NEW i \in Instances, InstallImport(i)
  PROVE  DurabilityIInv'
<1> USE BackupsAssumption, MarkersAssumption
    DEF DurabilityIInv, InstallImport,
        process, database, requests
<1>1. DurabilityTypeOK'
  BY DEF DurabilityTypeOK, Phases, Stages, RequestStates
<1>2. LockInv' /\ OpenInv'
  BY DEF DurabilityTypeOK, LockInv, Saving, OpenInv, Open
<1>3. AppliedInv' /\ ImageInv'
  BY DEF Single, DurabilityTypeOK, LockInv, Saving, AppliedInv, ImageInv, SnapInv
<1>4. SnapInv'
  BY DEF DurabilityTypeOK, Saving, SnapInv
<1>5. ArchiveInv' /\ RowInv' /\ AckedDurable'
  BY DEF ArchiveInv, RowInv, AckedDurable, Acked
<1> QED
  BY <1>1, <1>2, <1>3, <1>4, <1>5

LEMMA CrashStep ==
  ASSUME Single, DurabilityIInv, NEW i \in Instances, Crash(i)
  PROVE  DurabilityIInv'
<1> USE BackupsAssumption, MarkersAssumption
    DEF DurabilityIInv, Crash,
        process, database, requests
<1>1. DurabilityTypeOK'
  BY DEF DurabilityTypeOK, Phases, Stages, RequestStates
<1>2. LockInv' /\ OpenInv'
  BY DEF DurabilityTypeOK, LockInv, Saving, OpenInv, Open
<1>3. AppliedInv' /\ ImageInv'
  BY DEF DurabilityTypeOK, LockInv, Saving, OpenInv, Open, AppliedInv, ImageInv
<1>4. SnapInv'
  BY DEF DurabilityTypeOK, Saving, SnapInv
<1>5. ArchiveInv' /\ RowInv' /\ AckedDurable'
  BY DEF ArchiveInv, RowInv, AckedDurable, Acked
<1> QED
  BY <1>1, <1>2, <1>3, <1>4, <1>5

LEMMA DurabilityNextIInv == Single /\ DurabilityIInv /\ [DurabilityNext]_durabilityVars => DurabilityIInv'
<1> SUFFICES ASSUME Single, DurabilityIInv, [DurabilityNext]_durabilityVars
             PROVE  DurabilityIInv'
  OBVIOUS
<1>1. CASE UNCHANGED durabilityVars
  BY <1>1 DEF durabilityVars, process, database, requests, DurabilityIInv, DurabilityTypeOK, LockInv, Saving,
              OpenInv, AppliedInv, ImageInv, SnapInv, ArchiveInv, RowInv,
              AckedDurable, Acked
<1>2. CASE DurabilityNext
  <2>1. PICK i \in Instances :
          \/ Load(i) \/ BeginBootSave(i)
          \/ \E r \in Requests : Apply(i, r) \/ ApplyRejected(i, r) \/ BeginSave(i, r)
          \/ \E b \in Backups : WriteArtifact(i, b) \/ BeginRestore(i, b)
          \/ SaveStep(i) \/ ImportStep(i)
          \/ Crash(i)
    BY <1>2 DEF DurabilityNext
  <2>2. CASE Load(i) \/ BeginBootSave(i) \/ Crash(i)
    BY <2>2, LoadStep, BeginBootSaveStep, CrashStep
  <2>3. CASE \E r \in Requests : Apply(i, r) \/ ApplyRejected(i, r) \/ BeginSave(i, r)
    BY <2>3, ApplyStep, ApplyRejectedStep, BeginSaveStep
  <2>4. CASE \E b \in Backups : WriteArtifact(i, b) \/ BeginRestore(i, b)
    BY <2>4, WriteArtifactStep, BeginRestoreStep
  <2>5. CASE SaveStep(i)
    BY <2>5, WriteCheckpointStep, WriteCheckpointFailsStep, SyncTablesStep,
       SyncTablesFailsStep DEF SaveStep
  <2>6. CASE ImportStep(i)
    BY <2>6, ImportCheckpointStep, ImportFailsStep, InstallImportStep DEF ImportStep
  <2> QED
    BY <2>1, <2>2, <2>3, <2>4, <2>5, <2>6
<1> QED
  BY <1>1, <1>2

LEMMA InvariantHolds ==
  ASSUME Single
  PROVE  DurabilitySpec => []DurabilityIInv
<1>1. DurabilityIInv /\ [DurabilityNext]_durabilityVars => DurabilityIInv'
  BY DurabilityNextIInv
<1> QED
  BY <1>1, DurabilityInitIInv, PTL DEF DurabilitySpec

(***************************************************************************)
(* A single control plane never loses a write it acknowledged, but by a    *)
(* restore of an older platform backup, whatever saves fail and whenever   *)
(* it crashes (PersistentStore.save before every answer).                  *)
(***************************************************************************)
THEOREM AckedWritesAreDurable ==
  ASSUME Single
  PROVE  DurabilitySpec => []AckedDurable
<1>1. DurabilityIInv => AckedDurable
  BY DEF DurabilityIInv
<1> QED
  BY <1>1, InvariantHolds, PTL

(***************************************************************************)
(* The variables keep their types, with a single control plane: the image, *)
(* the saves in progress and the database hold sets of requests.           *)
(***************************************************************************)
THEOREM TypeCorrect ==
  ASSUME Single
  PROVE  DurabilitySpec => []DurabilityTypeOK
<1>1. DurabilityIInv => DurabilityTypeOK
  BY DEF DurabilityIInv
<1> QED
  BY <1>1, InvariantHolds, PTL

(***************************************************************************)
(* The image of a serving control plane covers the checkpoint row, so a    *)
(* whole-image save erases nothing but what a restore dropped.             *)
(***************************************************************************)
THEOREM SavesEraseNothing ==
  ASSUME Single
  PROVE  DurabilitySpec => []ImageCoversRow
<1>1. DurabilityIInv => ImageCoversRow
  BY DEF DurabilityIInv, ImageInv, ImageCoversRow, DurabilityTypeOK, Phases
<1> QED
  BY <1>1, InvariantHolds, PTL

\* One step of the store is a step of the durable log or a stutter.
LEMMA StepRefines ==
  ASSUME Single, DurabilityIInv, [DurabilityNext]_durabilityVars
  PROVE  [Log!Next]_(Log!vars)
<1> USE BackupsAssumption, MarkersAssumption
    DEF DurabilityIInv, Log!Next, Log!Persist, Log!Ack, Log!Restore, Log!vars
<1>1. CASE UNCHANGED durabilityVars
  BY <1>1 DEF durabilityVars, process, database, requests, Acked
<1>2. CASE DurabilityNext
  <2>1. PICK i \in Instances :
          \/ Load(i) \/ BeginBootSave(i)
          \/ \E r \in Requests : Apply(i, r) \/ ApplyRejected(i, r) \/ BeginSave(i, r)
          \/ \E b \in Backups : WriteArtifact(i, b) \/ BeginRestore(i, b)
          \/ SaveStep(i) \/ ImportStep(i)
          \/ Crash(i)
    BY <1>2 DEF DurabilityNext
  <2>2. CASE Load(i) \/ BeginBootSave(i)
    BY <2>2 DEF Load, BeginBootSave, LockAndSnapshot, database, requests, Acked
  <2>3. CASE \E r \in Requests : Apply(i, r) \/ ApplyRejected(i, r) \/ BeginSave(i, r)
    BY <2>3 DEF Apply, ApplyRejected, BeginSave, ReadyToApply, database, Acked, DurabilityTypeOK
  <2>4. CASE \E b \in Backups : WriteArtifact(i, b) \/ BeginRestore(i, b)
    BY <2>4 DEF WriteArtifact, BeginRestore, database, requests, Acked, DurabilityTypeOK
  <2>5. CASE WriteCheckpoint(i)
    BY <2>5 DEF WriteCheckpoint, Upsert, requests, Acked, DurabilityTypeOK, SnapInv, Saving
  <2>6. CASE WriteCheckpointFails(i)
    <3>1. Acked' = Acked
      BY <2>6 DEF WriteCheckpointFails, Return, Acked, LockInv, DurabilityTypeOK
    <3>2. row' \in SUBSET Requests /\ row \ undone \subseteq row'
      BY <2>6 DEF WriteCheckpointFails, Upsert, DurabilityTypeOK, SnapInv, Saving
    <3> QED
      BY <2>6, <3>1, <3>2 DEF WriteCheckpointFails
  <2>7. CASE SyncTables(i)
    <3>1. CASE saver[i] \in Requests
      <4>1. Acked' = Acked \cup {saver[i]}
        BY <2>7, <3>1 DEF SyncTables, Return, Acked, DurabilityTypeOK
      <4>2. saver[i] \in row \cup undone
        BY <2>7, <3>1 DEF SyncTables, SnapInv, Saving
      <4> QED
        BY <2>7, <3>1, <4>1, <4>2 DEF SyncTables
    <3>2. CASE saver[i] \notin Requests
      <4>1. Acked' = Acked
        BY <2>7, <3>2 DEF SyncTables, Return, Acked, DurabilityTypeOK
      <4> QED
        BY <2>7, <4>1 DEF SyncTables
    <3> QED
      BY <3>1, <3>2
  <2>8. CASE SyncTablesFails(i)
    <3>1. Acked' = Acked
      BY <2>8 DEF SyncTablesFails, Return, Acked, LockInv, DurabilityTypeOK
    <3> QED
      BY <2>8, <3>1 DEF SyncTablesFails
  <2>9. CASE ImportCheckpoint(i) \/ ImportFails(i)
    <3>1. Acked' = Acked
      BY <2>9 DEF ImportCheckpoint, ImportFails, requests, Acked
    <3>2. CASE UNCHANGED <<row, undone>>
      BY <3>1, <3>2
    <3>3. CASE CommitImport(i)
      <4>1. row' \in SUBSET Requests /\ row' = snap[i]
        BY <3>3 DEF CommitImport, Upsert, DurabilityTypeOK
      <4>2. row \ snap[i] \subseteq undone'
        BY <2>9, <3>3 DEF CommitImport, ImportCheckpoint, ImportFails, LockInv, ImageInv, DurabilityTypeOK
      <4>3. undone' \in SUBSET Requests /\ undone' = undone \cup undone'
        BY <3>3 DEF CommitImport, DurabilityTypeOK
      <4>4. Log!Restore
        BY <3>1, <4>1, <4>2, <4>3
      <4> QED
        BY <4>4
    <3> QED
      BY <2>9, <3>2, <3>3 DEF ImportCheckpoint, ImportFails, database
  <2>10. CASE InstallImport(i) \/ Crash(i)
    BY <2>10 DEF InstallImport, Crash, database, requests, Acked, Open, DurabilityTypeOK
  <2> QED
    BY <2>1, <2>2, <2>3, <2>4, <2>5, <2>6, <2>7, <2>8, <2>9, <2>10
       DEF SaveStep, ImportStep
<1> QED
  BY <1>1, <1>2

(***************************************************************************)
(* The store of a single control plane implements the durable log: it      *)
(* reports success only for stored writes and the row forgets only what a  *)
(* restore dropped.                                                        *)
(***************************************************************************)
THEOREM ImplementsDurableLog ==
  ASSUME Single
  PROVE  DurabilitySpec => LogSpec
<1>1. DurabilityInit => Log!Init
  BY DEF DurabilityInit, Log!Init, Acked
<1>2. DurabilityIInv /\ [DurabilityNext]_durabilityVars => [Log!Next]_(Log!vars)
  BY StepRefines
<1> QED
  BY <1>1, <1>2, InvariantHolds, PTL DEF DurabilitySpec, LogSpec, Log!Spec

----------------------------------------------------------------------------
(***************************************************************************)
(* Where the writes in an image come from, with any number of processes.   *)
(***************************************************************************)
\* Only requests that got as far as the store are found anywhere.
RecordedInv ==
  \A r \in Requests :
    req[r] \in {"new", "exported"} =>
      /\ r \notin row \cup tables
      /\ \A i \in Instances : r \notin mem[i] \cup snap[i]
      /\ \A b \in Backups : r \notin archive[b]

\* A restore installs the artifact of a backup and the record of that backup;
\* the artifact is written no more.
RestoringInv ==
  \A i \in Instances :
    stage[i] \in {"import", "install"} =>
      \E b \in Backups : req[b] # "new" /\ snap[i] = archive[b] \cup {b}

\* The constructor saves what it loaded.
BootInv == \A i \in Instances : saver[i] = Boot => snap[i] = mem[i]

HistoryInv == DurabilityTypeOK /\ LockInv /\ RecordedInv /\ RestoringInv /\ BootInv

LEMMA InitHistory == DurabilityInit => HistoryInv
<1> SUFFICES ASSUME DurabilityInit PROVE HistoryInv
  OBVIOUS
<1> USE BackupsAssumption, MarkersAssumption DEF DurabilityInit
<1>1. DurabilityTypeOK
  BY DEF DurabilityTypeOK, Phases, Stages, RequestStates
<1>2. LockInv /\ RecordedInv /\ RestoringInv /\ BootInv
  BY DEF LockInv, Saving, RecordedInv, RestoringInv, BootInv
<1> QED
  BY <1>1, <1>2 DEF HistoryInv

LEMMA LoadHistory ==
  ASSUME HistoryInv, NEW i \in Instances, Load(i)
  PROVE  HistoryInv'
<1> USE BackupsAssumption, MarkersAssumption
    DEF HistoryInv, Load, Loaded,
        process, database, requests
<1>1. DurabilityTypeOK'
  BY DEF DurabilityTypeOK, Phases, Stages, RequestStates
<1>2. LockInv'
  BY DEF DurabilityTypeOK, LockInv, Saving
<1>3. RecordedInv'
  BY DEF DurabilityTypeOK, RecordedInv
<1>4. RestoringInv'
  BY DEF DurabilityTypeOK, RestoringInv
<1>5. BootInv'
  BY DEF DurabilityTypeOK, LockInv, Saving, BootInv
<1> QED
  BY <1>1, <1>2, <1>3, <1>4, <1>5

LEMMA BeginBootSaveHistory ==
  ASSUME HistoryInv, NEW i \in Instances, BeginBootSave(i)
  PROVE  HistoryInv'
<1> USE BackupsAssumption, MarkersAssumption
    DEF HistoryInv, BeginBootSave, LockAndSnapshot,
        process, database, requests
<1>1. DurabilityTypeOK'
  BY DEF DurabilityTypeOK, Phases, Stages, RequestStates
<1>2. LockInv'
  BY DEF DurabilityTypeOK, LockInv, Saving
<1>3. RecordedInv'
  BY DEF DurabilityTypeOK, RecordedInv
<1>4. RestoringInv'
  BY DEF DurabilityTypeOK, RestoringInv
<1>5. BootInv'
  BY DEF DurabilityTypeOK, LockInv, Saving, BootInv
<1> QED
  BY <1>1, <1>2, <1>3, <1>4, <1>5

LEMMA ApplyHistory ==
  ASSUME HistoryInv, NEW i \in Instances, NEW r \in Requests, Apply(i, r)
  PROVE  HistoryInv'
<1> USE BackupsAssumption, MarkersAssumption
    DEF HistoryInv, Apply, ReadyToApply, StoreMutexFree,
        process, database, requests
<1>1. DurabilityTypeOK'
  BY DEF DurabilityTypeOK, Phases, Stages, RequestStates
<1>2. LockInv'
  BY DEF DurabilityTypeOK, LockInv, Saving
<1>3. RecordedInv'
  BY DEF DurabilityTypeOK, RecordedInv
<1>4. RestoringInv'
  BY DEF DurabilityTypeOK, RestoringInv
<1>5. BootInv'
  BY DEF DurabilityTypeOK, LockInv, Saving, BootInv
<1> QED
  BY <1>1, <1>2, <1>3, <1>4, <1>5

LEMMA ApplyRejectedHistory ==
  ASSUME HistoryInv, NEW i \in Instances, NEW r \in Requests, ApplyRejected(i, r)
  PROVE  HistoryInv'
<1> USE BackupsAssumption, MarkersAssumption
    DEF HistoryInv, ApplyRejected, ReadyToApply,
        process, database, requests
<1>1. DurabilityTypeOK'
  BY DEF DurabilityTypeOK, Phases, Stages, RequestStates
<1>2. LockInv'
  BY DEF DurabilityTypeOK, LockInv, Saving
<1>3. RecordedInv'
  BY DEF DurabilityTypeOK, RecordedInv
<1>4. RestoringInv'
  BY DEF DurabilityTypeOK, RestoringInv
<1>5. BootInv'
  BY DEF DurabilityTypeOK, LockInv, Saving, BootInv
<1> QED
  BY <1>1, <1>2, <1>3, <1>4, <1>5

LEMMA BeginSaveHistory ==
  ASSUME HistoryInv, NEW i \in Instances, NEW r \in Requests, BeginSave(i, r)
  PROVE  HistoryInv'
<1> USE BackupsAssumption, MarkersAssumption
    DEF HistoryInv, BeginSave, LockAndSnapshot,
        process, database, requests
<1>1. DurabilityTypeOK'
  BY DEF DurabilityTypeOK, Phases, Stages, RequestStates
<1>2. LockInv'
  BY DEF DurabilityTypeOK, LockInv, Saving
<1>3. RecordedInv'
  BY DEF DurabilityTypeOK, RecordedInv
<1>4. RestoringInv'
  BY DEF DurabilityTypeOK, RestoringInv
<1>5. BootInv'
  BY DEF DurabilityTypeOK, LockInv, Saving, BootInv
<1> QED
  BY <1>1, <1>2, <1>3, <1>4, <1>5

LEMMA WriteArtifactHistory ==
  ASSUME HistoryInv, NEW i \in Instances, NEW b \in Backups, WriteArtifact(i, b)
  PROVE  HistoryInv'
<1> USE BackupsAssumption, MarkersAssumption
    DEF HistoryInv, WriteArtifact,
        process, database, requests
<1>1. DurabilityTypeOK'
  BY DEF DurabilityTypeOK, Phases, Stages, RequestStates
<1>2. LockInv'
  BY DEF DurabilityTypeOK, LockInv, Saving
<1>3. RecordedInv'
  BY DEF DurabilityTypeOK, RecordedInv
<1>4. RestoringInv'
  BY DEF DurabilityTypeOK, RestoringInv
<1>5. BootInv'
  BY DEF DurabilityTypeOK, LockInv, Saving, BootInv
<1> QED
  BY <1>1, <1>2, <1>3, <1>4, <1>5

LEMMA BeginRestoreHistory ==
  ASSUME HistoryInv, NEW i \in Instances, NEW b \in Backups, BeginRestore(i, b)
  PROVE  HistoryInv'
<1> USE BackupsAssumption, MarkersAssumption
    DEF HistoryInv, BeginRestore, PreservePlatformBackups,
        process, database, requests
<1>1. DurabilityTypeOK'
  BY DEF DurabilityTypeOK, Phases, Stages, RequestStates
<1>2. LockInv'
  BY DEF DurabilityTypeOK, LockInv, Saving
<1>3. RecordedInv'
  BY DEF DurabilityTypeOK, RecordedInv
<1>4. RestoringInv'
  BY DEF DurabilityTypeOK, RecordedInv, RestoringInv
<1>5. BootInv'
  BY DEF DurabilityTypeOK, LockInv, Saving, BootInv
<1> QED
  BY <1>1, <1>2, <1>3, <1>4, <1>5

LEMMA WriteCheckpointHistory ==
  ASSUME HistoryInv, NEW i \in Instances, WriteCheckpoint(i)
  PROVE  HistoryInv'
<1> USE BackupsAssumption, MarkersAssumption
    DEF HistoryInv, WriteCheckpoint, Upsert,
        process, database, requests
<1>1. DurabilityTypeOK'
  BY DEF DurabilityTypeOK, Phases, Stages, RequestStates
<1>2. LockInv'
  BY DEF DurabilityTypeOK, LockInv, Saving
<1>3. RecordedInv'
  BY DEF DurabilityTypeOK, RecordedInv
<1>4. RestoringInv'
  BY DEF DurabilityTypeOK, RestoringInv
<1>5. BootInv'
  BY DEF DurabilityTypeOK, LockInv, Saving, BootInv
<1> QED
  BY <1>1, <1>2, <1>3, <1>4, <1>5

LEMMA WriteCheckpointFailsHistory ==
  ASSUME HistoryInv, NEW i \in Instances, WriteCheckpointFails(i)
  PROVE  HistoryInv'
<1> USE BackupsAssumption, MarkersAssumption
    DEF HistoryInv, WriteCheckpointFails, Upsert, Return,
        process, database, requests
<1>1. DurabilityTypeOK'
  BY DEF DurabilityTypeOK, Phases, Stages, RequestStates
<1>2. LockInv'
  BY DEF DurabilityTypeOK, LockInv, Saving
<1>3. RecordedInv'
  BY DEF DurabilityTypeOK, RecordedInv
<1>4. RestoringInv'
  BY DEF DurabilityTypeOK, RestoringInv
<1>5. BootInv'
  BY DEF DurabilityTypeOK, LockInv, Saving, BootInv
<1> QED
  BY <1>1, <1>2, <1>3, <1>4, <1>5

LEMMA SyncTablesHistory ==
  ASSUME HistoryInv, NEW i \in Instances, SyncTables(i)
  PROVE  HistoryInv'
<1> USE BackupsAssumption, MarkersAssumption
    DEF HistoryInv, SyncTables, Return,
        process, database, requests
<1>1. DurabilityTypeOK'
  BY DEF DurabilityTypeOK, Phases, Stages, RequestStates
<1>2. LockInv'
  BY DEF DurabilityTypeOK, LockInv, Saving
<1>3. RecordedInv'
  BY DEF DurabilityTypeOK, RecordedInv
<1>4. RestoringInv'
  BY DEF DurabilityTypeOK, RestoringInv
<1>5. BootInv'
  BY DEF DurabilityTypeOK, LockInv, Saving, BootInv
<1> QED
  BY <1>1, <1>2, <1>3, <1>4, <1>5

LEMMA SyncTablesFailsHistory ==
  ASSUME HistoryInv, NEW i \in Instances, SyncTablesFails(i)
  PROVE  HistoryInv'
<1> USE BackupsAssumption, MarkersAssumption
    DEF HistoryInv, SyncTablesFails, Return,
        process, database, requests
<1>1. DurabilityTypeOK'
  BY DEF DurabilityTypeOK, Phases, Stages, RequestStates
<1>2. LockInv'
  BY DEF DurabilityTypeOK, LockInv, Saving
<1>3. RecordedInv'
  BY DEF DurabilityTypeOK, RecordedInv
<1>4. RestoringInv'
  BY DEF DurabilityTypeOK, RestoringInv
<1>5. BootInv'
  BY DEF DurabilityTypeOK, LockInv, Saving, BootInv
<1> QED
  BY <1>1, <1>2, <1>3, <1>4, <1>5

LEMMA ImportCheckpointHistory ==
  ASSUME HistoryInv, NEW i \in Instances, ImportCheckpoint(i)
  PROVE  HistoryInv'
<1> USE BackupsAssumption, MarkersAssumption
    DEF HistoryInv, ImportCheckpoint, CommitImport, Upsert,
        process, database, requests
<1>1. DurabilityTypeOK'
  BY DEF DurabilityTypeOK, Phases, Stages, RequestStates
<1>2. LockInv'
  BY DEF DurabilityTypeOK, LockInv, Saving
<1>3. RecordedInv'
  BY DEF DurabilityTypeOK, RecordedInv
<1>4. RestoringInv'
  BY DEF DurabilityTypeOK, RestoringInv
<1>5. BootInv'
  BY DEF DurabilityTypeOK, LockInv, Saving, BootInv
<1> QED
  BY <1>1, <1>2, <1>3, <1>4, <1>5

LEMMA ImportFailsHistory ==
  ASSUME HistoryInv, NEW i \in Instances, ImportFails(i)
  PROVE  HistoryInv'
<1> USE BackupsAssumption, MarkersAssumption
    DEF HistoryInv, ImportFails, CommitImport, Upsert,
        process, database, requests
<1>1. DurabilityTypeOK'
  BY DEF DurabilityTypeOK, Phases, Stages, RequestStates
<1>2. LockInv'
  BY DEF DurabilityTypeOK, LockInv, Saving
<1>3. RecordedInv'
  BY DEF DurabilityTypeOK, RecordedInv
<1>4. RestoringInv'
  BY DEF DurabilityTypeOK, RestoringInv
<1>5. BootInv'
  BY DEF DurabilityTypeOK, LockInv, Saving, BootInv
<1> QED
  BY <1>1, <1>2, <1>3, <1>4, <1>5

LEMMA InstallImportHistory ==
  ASSUME HistoryInv, NEW i \in Instances, InstallImport(i)
  PROVE  HistoryInv'
<1> USE BackupsAssumption, MarkersAssumption
    DEF HistoryInv, InstallImport,
        process, database, requests
<1>1. DurabilityTypeOK'
  BY DEF DurabilityTypeOK, Phases, Stages, RequestStates
<1>2. LockInv'
  BY DEF DurabilityTypeOK, LockInv, Saving
<1>3. RecordedInv'
  BY DEF DurabilityTypeOK, RecordedInv
<1>4. RestoringInv'
  BY DEF DurabilityTypeOK, RestoringInv
<1>5. BootInv'
  BY DEF DurabilityTypeOK, LockInv, Saving, BootInv
<1> QED
  BY <1>1, <1>2, <1>3, <1>4, <1>5

LEMMA CrashHistory ==
  ASSUME HistoryInv, NEW i \in Instances, Crash(i)
  PROVE  HistoryInv'
<1> USE BackupsAssumption, MarkersAssumption
    DEF HistoryInv, Crash, Open,
        process, database, requests
<1>1. DurabilityTypeOK'
  BY DEF DurabilityTypeOK, Phases, Stages, RequestStates
<1>2. LockInv'
  BY DEF DurabilityTypeOK, LockInv, Saving
<1>3. RecordedInv'
  BY DEF DurabilityTypeOK, RecordedInv
<1>4. RestoringInv'
  BY DEF DurabilityTypeOK, RestoringInv
<1>5. BootInv'
  BY DEF DurabilityTypeOK, LockInv, Saving, BootInv
<1> QED
  BY <1>1, <1>2, <1>3, <1>4, <1>5

LEMMA NextHistory == HistoryInv /\ [DurabilityNext]_durabilityVars => HistoryInv'
<1> SUFFICES ASSUME HistoryInv, [DurabilityNext]_durabilityVars
             PROVE  HistoryInv'
  OBVIOUS
<1>1. CASE UNCHANGED durabilityVars
  BY <1>1 DEF durabilityVars, process, database, requests, HistoryInv, DurabilityTypeOK, LockInv, Saving,
              RecordedInv, RestoringInv, BootInv
<1>2. CASE DurabilityNext
  <2>1. PICK i \in Instances :
          \/ Load(i) \/ BeginBootSave(i)
          \/ \E r \in Requests : Apply(i, r) \/ ApplyRejected(i, r) \/ BeginSave(i, r)
          \/ \E b \in Backups : WriteArtifact(i, b) \/ BeginRestore(i, b)
          \/ SaveStep(i) \/ ImportStep(i)
          \/ Crash(i)
    BY <1>2 DEF DurabilityNext
  <2>2. CASE Load(i) \/ BeginBootSave(i) \/ Crash(i)
    BY <2>2, LoadHistory, BeginBootSaveHistory, CrashHistory
  <2>3. CASE \E r \in Requests : Apply(i, r) \/ ApplyRejected(i, r) \/ BeginSave(i, r)
    BY <2>3, ApplyHistory, ApplyRejectedHistory, BeginSaveHistory
  <2>4. CASE \E b \in Backups : WriteArtifact(i, b) \/ BeginRestore(i, b)
    BY <2>4, WriteArtifactHistory, BeginRestoreHistory
  <2>5. CASE SaveStep(i)
    BY <2>5, WriteCheckpointHistory, WriteCheckpointFailsHistory, SyncTablesHistory,
       SyncTablesFailsHistory DEF SaveStep
  <2>6. CASE ImportStep(i)
    BY <2>6, ImportCheckpointHistory, ImportFailsHistory, InstallImportHistory DEF ImportStep
  <2> QED
    BY <2>1, <2>2, <2>3, <2>4, <2>5, <2>6
<1> QED
  BY <1>1, <1>2

LEMMA HistoryHolds == DurabilitySpec => []HistoryInv
<1>1. HistoryInv /\ [DurabilityNext]_durabilityVars => HistoryInv'
  BY NextHistory
<1> QED
  BY <1>1, InitHistory, PTL DEF DurabilitySpec

\* What one step of one process may do to the phase and the image of another,
\* and to its own.
LEMMA InstallStep ==
  ASSUME HistoryInv, [DurabilityNext]_durabilityVars, NEW i \in Instances,
         stage[i] = "install", mem'[i] # mem[i], phase'[i] = "serving"
  PROVE  InstallImport(i)
<1> USE DEF HistoryInv, DurabilityTypeOK
<1>1. PICK j \in Instances :
        \/ Load(j) \/ BeginBootSave(j)
        \/ \E r \in Requests : Apply(j, r) \/ ApplyRejected(j, r) \/ BeginSave(j, r)
        \/ \E b \in Backups : WriteArtifact(j, b) \/ BeginRestore(j, b)
        \/ SaveStep(j) \/ ImportStep(j)
        \/ Crash(j)
  BY DEF DurabilityNext, durabilityVars, process
<1>2. ~Load(j) /\ ~Crash(j)
  BY DEF Load, Crash, LockInv
<1>3. ~BeginBootSave(j) /\ \A r \in Requests : ~Apply(j, r) /\ ~ApplyRejected(j, r) /\ ~BeginSave(j, r)
  BY DEF BeginBootSave, Apply, StoreMutexFree, ApplyRejected, BeginSave, process
<1>4. \A b \in Backups : ~WriteArtifact(j, b) /\ ~BeginRestore(j, b)
  BY DEF WriteArtifact, BeginRestore, process
<1>5. ~SaveStep(j)
  BY DEF SaveStep, WriteCheckpoint, WriteCheckpointFails, SyncTables, SyncTablesFails, Return
<1>6. ~ImportCheckpoint(j) /\ ~ImportFails(j)
  BY DEF ImportCheckpoint, ImportFails
<1>7. InstallImport(j)
  BY <1>1, <1>2, <1>3, <1>4, <1>5, <1>6 DEF ImportStep
<1>8. j = i
  BY <1>7 DEF InstallImport
<1> QED
  BY <1>7, <1>8

(***************************************************************************)
(* A platform backup can be restored again after a restore of it, however  *)
(* many processes use the database: the image that a restore installs is   *)
(* an artifact with the record of its own backup                           *)
(* (preservePlatformBackups in ImportControlPlaneCheckpoint).              *)
(***************************************************************************)
THEOREM RestoresKeepTheirRecord == DurabilitySpec => RestoreKeepsRecord
<1> DEFINE Installs ==
      \A i \in Instances :
        stage[i] = "install" /\ mem'[i] # mem[i] /\ phase'[i] = "serving"
          => \E b \in Backups : b \in mem'[i] /\ mem'[i] = archive[b] \cup {b}
<1>1. HistoryInv /\ [DurabilityNext]_durabilityVars => [Installs]_durabilityVars
  <2> SUFFICES ASSUME HistoryInv, [DurabilityNext]_durabilityVars, NEW i \in Instances,
                      stage[i] = "install", mem'[i] # mem[i], phase'[i] = "serving"
               PROVE  \E b \in Backups : b \in mem'[i] /\ mem'[i] = archive[b] \cup {b}
    OBVIOUS
  <2>1. mem'[i] = snap[i]
    BY InstallStep DEF InstallImport, HistoryInv, DurabilityTypeOK
  <2> QED
    BY <2>1 DEF HistoryInv, RestoringInv
<1> QED
  BY <1>1, HistoryHolds, PTL DEF DurabilitySpec, RestoreKeepsRecord

\* Only the constructor's save, when all of it succeeded, lets a process serve.
LEMMA ServeStep ==
  ASSUME HistoryInv, [DurabilityNext]_durabilityVars, NEW i \in Instances,
         phase[i] = "starting", phase'[i] = "serving"
  PROVE  SyncTables(i) /\ saver[i] = Boot
<1> USE DEF HistoryInv, DurabilityTypeOK
<1>1. PICK j \in Instances :
        \/ Load(j) \/ BeginBootSave(j)
        \/ \E r \in Requests : Apply(j, r) \/ ApplyRejected(j, r) \/ BeginSave(j, r)
        \/ \E b \in Backups : WriteArtifact(j, b) \/ BeginRestore(j, b)
        \/ SaveStep(j) \/ ImportStep(j)
        \/ Crash(j)
  BY DEF DurabilityNext, durabilityVars, process
<1>2. ~Load(j) /\ ~Crash(j)
  BY DEF Load, Crash
<1>3. ~BeginBootSave(j) /\ \A r \in Requests : ~Apply(j, r) /\ ~ApplyRejected(j, r) /\ ~BeginSave(j, r)
  BY DEF BeginBootSave, Apply, ApplyRejected, BeginSave, process
<1>4. \A b \in Backups : ~WriteArtifact(j, b) /\ ~BeginRestore(j, b)
  BY DEF WriteArtifact, BeginRestore, process
<1>5. ~ImportStep(j)
  BY DEF ImportStep, ImportCheckpoint, ImportFails, InstallImport
<1>6. ~WriteCheckpoint(j) /\ ~WriteCheckpointFails(j) /\ ~SyncTablesFails(j)
  BY DEF WriteCheckpoint, WriteCheckpointFails, SyncTablesFails, Return
<1>7. SyncTables(j)
  BY <1>1, <1>2, <1>3, <1>4, <1>5, <1>6 DEF SaveStep
<1>8. j = i /\ saver[i] = Boot
  BY <1>7 DEF SyncTables, Return
<1> QED
  BY <1>7, <1>8

(***************************************************************************)
(* However the previous process died, and whatever it left in the          *)
(* normalized tables: a single control plane starts to serve with the same *)
(* state in its image, in the checkpoint row and in the tables             *)
(* (NewPersistentStoreWithEncryption saves what it loaded).                *)
(***************************************************************************)
THEOREM BootsHeal ==
  ASSUME Single
  PROVE  DurabilitySpec => BootHeals
<1> DEFINE Boots ==
      \A i \in Instances :
        phase[i] = "starting" /\ phase'[i] = "serving" => mem'[i] = row' /\ tables' = row'
<1>1. DurabilityIInv /\ HistoryInv /\ [DurabilityNext]_durabilityVars => [Boots]_durabilityVars
  <2> SUFFICES ASSUME DurabilityIInv, HistoryInv, [DurabilityNext]_durabilityVars, NEW i \in Instances,
                      phase[i] = "starting", phase'[i] = "serving"
               PROVE  mem'[i] = row' /\ tables' = row'
    OBVIOUS
  <2>1. SyncTables(i) /\ saver[i] = Boot
    BY ServeStep
  <2>2. snap[i] = mem[i] /\ row = snap[i]
    BY <2>1 DEF HistoryInv, BootInv, DurabilityIInv, SnapInv, SyncTables
  <2>3. mem'[i] = mem[i] /\ row' = row /\ tables' = snap[i]
    BY <2>1 DEF SyncTables, Return, HistoryInv, DurabilityTypeOK
  <2> QED
    BY <2>2, <2>3
<1> QED
  BY <1>1, HistoryHolds, InvariantHolds, PTL DEF DurabilitySpec, BootHeals
=============================================================================
