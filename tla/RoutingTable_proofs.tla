------------------------ MODULE RoutingTable_proofs ------------------------
(***************************************************************************)
(* The theorems about RoutingTable: types, the agreement of the index with *)
(* the vector, what the removal of a backend spares, and the refinement of *)
(* RouteMap.                                                               *)
(***************************************************************************)
EXTENDS RoutingTable, Endpoints_proofs

IInv == WellFormed(table)

(* Every operation of the class keeps the table well-formed.               *)
LEMMA StepWellFormed ==
  ASSUME IInv, [Next]_table
  PROVE  IInv'
<1> USE DEF IInv
<1>1. ASSUME NEW def \in Definitions, Register(def)
      PROVE  WellFormed(table)'
  BY <1>1, RegisterWellFormed DEF Register
<1>2. ASSUME NEW key \in RouteKeys, Unregister(key)
      PROVE  WellFormed(table)'
  BY <1>2, UnregisterWellFormed DEF Unregister
<1>3. ASSUME NEW backend \in BackendIds, RemoveBackend(backend)
      PROVE  WellFormed(table)'
  BY <1>3, RemoveWellFormed DEF RemoveBackend
<1>4. CASE Clear
  BY <1>4, EmptyWellFormed DEF Clear
<1>5. CASE UNCHANGED table
  BY <1>5
<1> QED BY <1>1, <1>2, <1>3, <1>4, <1>5 DEF Next

(* The table is well-formed in every reachable state, for any paths,       *)
(* methods, backends and capacity.                                         *)
THEOREM Invariance == Spec => []IInv
<1>1. Init => IInv
  BY EmptyWellFormed DEF Init, IInv
<1>2. IInv /\ [Next]_table => IInv'
  BY StepWellFormed
<1> QED BY <1>1, <1>2, PTL DEF Spec

(* The vector never outgrows msc_un32MaxEndpoints, holds valid definitions *)
(* only, and every index entry is a position of it.                        *)
THEOREM TypeCorrect == Spec => []TypeOK
<1>1. IInv => TypeOK
  BY DEF IInv, WellFormed, TypeOK
<1> QED BY <1>1, Invariance, PTL

(* The index and the vector agree after any sequence of operations.        *)
THEOREM IndexAgrees == Spec => []IndexConsistent
<1>1. IInv => IndexConsistent
  BY DEF IInv, WellFormed, IndexConsistent
<1> QED BY <1>1, Invariance, PTL

-----------------------------------------------------------------------------
(* What the removal of a backend spares. *)

(* A lookup that found another backend's endpoint by its exact key finds   *)
(* it by that key afterwards.                                              *)
LEMMA RemovalSparesExact ==
  ASSUME NEW t, WellFormed(t), NEW backend, NEW method, NEW path,
         << method, path >> \in DOMAIN t.index,
         FindEndpoint(t, method, path).endpoint.backend # backend
  PROVE  FindEndpoint(RemoveEndpointsByBackend(t, backend), method, path)
           = FindEndpoint(t, method, path)
<1> DEFINE after == RemoveEndpointsByBackend(t, backend)
           kept == Kept(t, backend)
           key == << method, path >>
           i == t.index[key]
<1>1. FindEndpoint(t, method, path) = [found |-> TRUE, endpoint |-> t.endpoints[i], parameters |-> << >>]
  BY DEF FindEndpoint
<1>2. i \in kept /\ GetRouteKey(t.endpoints[i]) = key
  BY <1>1 DEF WellFormed, TableTyped, TableConsistent, Kept
<1>3. /\ key \in DOMAIN after.index
      /\ after.index[key] = Rank(kept, i)
      /\ after.endpoints[Rank(kept, i)] = t.endpoints[i]
  BY <1>2, RemoveKeepsOthers
<1> QED BY <1>1, <1>3 DEF FindEndpoint

(* A lookup that found another backend's endpoint by scanning the vector   *)
(* stops at the same endpoint afterwards.                                  *)
LEMMA RemovalSparesScan ==
  ASSUME NEW t, WellFormed(t), NEW backend, NEW method, NEW path,
         << method, path >> \notin DOMAIN t.index,
         FindEndpoint(t, method, path).found,
         FindEndpoint(t, method, path).endpoint.backend # backend
  PROVE  FindEndpoint(RemoveEndpointsByBackend(t, backend), method, path)
           = FindEndpoint(t, method, path)
<1> DEFINE after == RemoveEndpointsByBackend(t, backend)
           kept == Kept(t, backend)
           n == Len(t.endpoints)
           before == FindEndpoint(t, method, path)
           some == Candidates(t, method, path)
           left == Candidates(after, method, path)
           first == CHOOSE i \in some : \A j \in some : i <= j
           Result(def) == [found |-> TRUE, endpoint |-> def, parameters |-> PathParameters(def, path)]
<1>1. n \in Nat /\ DOMAIN t.endpoints = 1..n /\ some \in SUBSET (1..n) /\ kept \in SUBSET (1..n)
  BY DEF WellFormed, TableTyped, Candidates, Kept
<1>2. some # {} /\ before = Result(t.endpoints[first])
  BY DEF FindEndpoint
<1>3. first \in some /\ \A j \in some : first <= j
  BY <1>1, <1>2, LeastExists
<1>4. first \in kept
  BY <1>1, <1>2, <1>3 DEF Kept
<1>5. /\ after.endpoints \in [1..Cardinality(kept) -> {t.endpoints[i] : i \in kept}]
      /\ DOMAIN after.index = {GetRouteKey(t.endpoints[i]) : i \in kept}
      /\ \A i \in kept : after.endpoints[Rank(kept, i)] = t.endpoints[i]
  BY RemoveKeepsOthers
<1> HIDE DEF after, kept, n, first
<1>6. /\ Cardinality(kept) \in Nat
      /\ \A i \in kept : Rank(kept, i) \in 1..Cardinality(kept)
      /\ \A i, j \in kept : i < j => Rank(kept, i) < Rank(kept, j)
      /\ \A m \in 1..Cardinality(kept) : \E i \in kept : Rank(kept, i) = m
  <2>1. /\ Cardinality(kept) \in 0..n
        /\ \A i \in kept : Rank(kept, i) \in 1..Cardinality(kept)
        /\ \A i, j \in kept : i < j => Rank(kept, i) < Rank(kept, j)
    BY <1>1, RankMonotonic
  <2>2. \A m \in 1..Cardinality(kept) : \E i \in kept : Rank(kept, i) = m
    BY <1>1, RankBijective
  <2> QED BY <1>1, <2>1, <2>2
<1>7. << method, path >> \notin DOMAIN after.index
  BY <1>1, <1>5 DEF WellFormed, TableConsistent
<1>8. Rank(kept, first) \in left
  BY <1>3, <1>4, <1>5, <1>6 DEF Candidates
<1>9. \A m \in left : Rank(kept, first) <= m
  <2> TAKE m \in left
  <2>1. m \in 1..Cardinality(kept)
    BY <1>5 DEF Candidates
  <2>2. PICK i \in kept : Rank(kept, i) = m
    BY <1>6, <2>1
  <2>3. i \in some
    BY <1>1, <1>5, <2>2 DEF Candidates
  <2>4. first <= i /\ first \in Nat /\ i \in Nat
    BY <1>1, <1>3, <2>3
  <2>5. CASE first = i
    BY <1>6, <2>1, <2>2, <2>5
  <2>6. CASE first < i
    BY <1>4, <1>6, <2>1, <2>2, <2>6
  <2> QED BY <2>4, <2>5, <2>6
<1> DEFINE chosen == CHOOSE m \in left : \A l \in left : m <= l
<1>10. left \subseteq Nat
  <2>1. left \subseteq 1..Cardinality(kept)
    BY <1>5 DEF Candidates
  <2> QED BY <1>6, <2>1
<1>11. chosen = Rank(kept, first)
  <2>1. \A m \in left : (\A l \in left : m <= l) => m = Rank(kept, first)
    BY <1>8, <1>9, <1>10
  <2> QED BY <1>8, <1>9, <2>1
<1> HIDE DEF left, chosen
<1>12. after.endpoints[chosen] = t.endpoints[first]
  BY <1>4, <1>5, <1>11
<1>13. left # {}
  BY <1>8
<1>14. FindEndpoint(after, method, path) = Result(after.endpoints[chosen])
  BY <1>7, <1>13 DEF FindEndpoint, left, chosen
<1> QED BY <1>2, <1>12, <1>14 DEF after, first

(* Removing a backend's endpoints changes no answer that another backend's *)
(* endpoint gave: RemoveEndpointsByBackend keeps the vector's order.       *)
THEOREM RemovalSpares == Spec => RemovalSparesOthers
<1>1. IInv /\ [Next]_table =>
        [\A backend \in BackendIds : RemoveBackend(backend) =>
           \A method \in Methods, path \in Paths :
             LET before == FindEndpoint(table, method, path)
             IN  before.found /\ before.endpoint.backend # backend =>
                   FindEndpoint(table', method, path) = before]_table
  <2> SUFFICES ASSUME IInv,
                      NEW backend \in BackendIds, RemoveBackend(backend),
                      NEW method \in Methods, NEW path \in Paths,
                      FindEndpoint(table, method, path).found,
                      FindEndpoint(table, method, path).endpoint.backend # backend
               PROVE  FindEndpoint(table', method, path) = FindEndpoint(table, method, path)
    OBVIOUS
  <2>1. table' = RemoveEndpointsByBackend(table, backend)
    BY DEF RemoveBackend
  <2>2. CASE << method, path >> \in DOMAIN table.index
    BY <2>1, <2>2, RemovalSparesExact DEF IInv
  <2>3. CASE << method, path >> \notin DOMAIN table.index
    BY <2>1, <2>3, RemovalSparesScan DEF IInv
  <2> QED BY <2>2, <2>3
<1> QED BY <1>1, Invariance, PTL DEF Spec, RemovalSparesOthers

-----------------------------------------------------------------------------
(* The refinement of RouteMap. *)

(* Registering is Put on the keys and their endpoints, or changes nothing. *)
LEMMA RegisterRefines ==
  ASSUME WellFormed(table), NEW def \in Definitions, Register(def)
  PROVE  Map!Put(def) \/ UNCHANGED Routes
<1> DEFINE key == GetRouteKey(def)
           n == Len(table.endpoints)
<1>1. /\ n \in Nat
      /\ DOMAIN table.endpoints = 1..n
      /\ table.endpoints \in Seq(ValidDefinitions)
      /\ \A k \in DOMAIN table.index : table.index[k] \in 1..n
  BY DEF WellFormed, TableTyped, ValidDefinitions
<1>2. /\ DOMAIN Routes = DOMAIN table.index
      /\ Cardinality(DOMAIN Routes) = n
      /\ Routes' = [k \in DOMAIN table'.index |-> table'.endpoints[table'.index[k]]]
  BY KeysCounted DEF Routes
<1>3. CASE table' = table
  BY <1>3 DEF Routes
<1>4. CASE IsValid(def) /\ key \in DOMAIN table.index
  <2>1. table' = [table EXCEPT !.endpoints[table.index[key]] = def]
    BY <1>4 DEF Register, RegisterEndpoint
  <2>2. /\ table'.endpoints = [table.endpoints EXCEPT ![table.index[key]] = def]
        /\ table'.index = table.index
    BY <2>1 DEF WellFormed, TableTyped
  <2>3. \A k \in DOMAIN table.index :
          table'.endpoints[table.index[k]] = IF k = key THEN def ELSE table.endpoints[table.index[k]]
    BY <1>1, <1>4, <2>2 DEF WellFormed, TableConsistent
  <2>4. Routes' = [k \in DOMAIN Routes \cup {key} |-> IF k = key THEN def ELSE Routes[k]]
    <3>1. DOMAIN Routes \cup {key} = DOMAIN table.index
      BY <1>2, <1>4
    <3> QED BY <1>2, <2>2, <2>3, <3>1 DEF Routes
  <2> QED BY <1>2, <1>4, <2>4 DEF Map!Put, Map!IsValid, Map!GetRouteKey, Map!NoPath, Map!Empty,
                                  Map!Unknown, IsValid, GetRouteKey, NoPath, Empty, Unknown
<1>5. CASE IsValid(def) /\ key \notin DOMAIN table.index /\ n < MaxEndpoints
  <2>1. /\ table'.endpoints = Append(table.endpoints, def)
        /\ table'.index = [k \in DOMAIN table.index \cup {key} |->
                             IF k = key THEN n + 1 ELSE table.index[k]]
    BY <1>5 DEF Register, RegisterEndpoint
  <2>2. /\ table'.endpoints[n + 1] = def
        /\ \A i \in 1..n : table'.endpoints[i] = table.endpoints[i]
    <3>1. def \in ValidDefinitions
      BY <1>5 DEF ValidDefinitions
    <3> QED BY <1>1, <2>1, <3>1
  <2>3. Routes' = [k \in DOMAIN Routes \cup {key} |-> IF k = key THEN def ELSE Routes[k]]
    <3>1. \A k \in DOMAIN table.index \cup {key} :
            table'.endpoints[table'.index[k]] = IF k = key THEN def ELSE Routes[k]
      BY <1>1, <1>5, <2>1, <2>2 DEF Routes
    <3> QED BY <1>2, <2>1, <3>1
  <2>4. Map!Cardinality(DOMAIN Routes) < MaxEndpoints
    BY <1>2, <1>5 DEF Map!Cardinality, Cardinality
  <2> QED BY <1>2, <1>5, <2>3, <2>4 DEF Map!Put, Map!IsValid, Map!GetRouteKey, Map!NoPath, Map!Empty,
                                       Map!Unknown, IsValid, GetRouteKey, NoPath, Empty, Unknown
<1>6. \/ table' = table
      \/ IsValid(def) /\ key \in DOMAIN table.index
      \/ IsValid(def) /\ key \notin DOMAIN table.index /\ n < MaxEndpoints
  BY DEF Register, RegisterEndpoint
<1> QED BY <1>3, <1>4, <1>5, <1>6

(* Swap-and-pop is DropKey.                                                *)
LEMMA UnregisterRefines ==
  ASSUME WellFormed(table), NEW key, Unregister(key)
  PROVE  Map!DropKey(key) \/ UNCHANGED Routes
<1> DEFINE n == Len(table.endpoints)
           hole == table.index[key]
           moved == GetRouteKey(table.endpoints[n])
<1>1. /\ n \in Nat
      /\ DOMAIN table.endpoints = 1..n
      /\ \A k \in DOMAIN table.index : table.index[k] \in 1..n
  BY DEF WellFormed, TableTyped
<1>2. CASE key \notin DOMAIN table.index
  BY <1>2 DEF Unregister, UnregisterEndpoint, Routes
<1>3. CASE key \in DOMAIN table.index
  <2>1. /\ table'.endpoints = [i \in 1..(n - 1) |-> table.endpoints[IF i = hole THEN n ELSE i]]
        /\ table'.index = [k \in DOMAIN table.index \ {key} |->
                             IF k = moved THEN hole ELSE table.index[k]]
    BY <1>3 DEF Unregister, UnregisterEndpoint
  <2>2. hole \in 1..n /\ moved \in DOMAIN table.index /\ table.index[moved] = n
    BY <1>1, <1>3 DEF WellFormed, TableConsistent
  <2>3. ASSUME NEW k \in DOMAIN table.index \ {key}
        PROVE  table'.endpoints[table'.index[k]] = table.endpoints[table.index[k]]
    <3>1. table.index[k] \in 1..n /\ table.index[k] # hole
      BY <1>1, <1>3, <2>2 DEF WellFormed, TableConsistent
    <3>2. CASE k = moved
      <4>1. table'.index[k] = hole /\ hole # n
        BY <2>1, <2>2, <3>1, <3>2
      <4>2. hole \in 1..(n - 1)
        BY <1>1, <2>2, <4>1
      <4> QED BY <2>1, <2>2, <3>2, <4>1, <4>2
    <3>3. CASE k # moved
      <4>1. table'.index[k] = table.index[k] /\ table.index[k] # n
        BY <1>1, <2>1, <2>2, <3>3 DEF WellFormed, TableConsistent
      <4>2. table.index[k] \in 1..(n - 1)
        BY <1>1, <3>1, <4>1
      <4> QED BY <2>1, <3>1, <4>1, <4>2
    <3> QED BY <3>2, <3>3
  <2>4. Routes' = [k \in DOMAIN Routes \ {key} |-> Routes[k]]
    BY <2>1, <2>3 DEF Routes
  <2> QED BY <2>4 DEF Map!DropKey, Map!Drop
<1> QED BY <1>2, <1>3

(* The rebuild is DropBackend.                                             *)
LEMMA RemoveBackendRefines ==
  ASSUME WellFormed(table), NEW backend, RemoveBackend(backend)
  PROVE  Map!DropBackend(backend)
<1> DEFINE kept == Kept(table, backend)
           gone == {k \in DOMAIN Routes : Routes[k].backend = backend}
<1>1. /\ DOMAIN table'.index = {GetRouteKey(table.endpoints[i]) : i \in kept}
      /\ \A i \in kept : /\ table'.index[GetRouteKey(table.endpoints[i])] = Rank(kept, i)
                        /\ table'.endpoints[Rank(kept, i)] = table.endpoints[i]
  BY RemoveKeepsOthers DEF RemoveBackend
<1>2. \A k \in DOMAIN table.index :
        /\ table.index[k] \in DOMAIN table.endpoints
        /\ GetRouteKey(table.endpoints[table.index[k]]) = k
  BY DEF WellFormed, TableTyped, TableConsistent
<1>3. \A i \in kept :
        /\ i \in DOMAIN table.endpoints
        /\ table.endpoints[i].backend # backend
        /\ GetRouteKey(table.endpoints[i]) \in DOMAIN table.index
        /\ table.index[GetRouteKey(table.endpoints[i])] = i
  BY DEF WellFormed, TableConsistent, Kept
<1>4. DOMAIN table'.index = DOMAIN Routes \ gone
  <2>1. ASSUME NEW k \in DOMAIN Routes \ gone
        PROVE  table.index[k] \in kept
    BY <1>2 DEF Routes, Kept
  <2>2. DOMAIN Routes \ gone \subseteq DOMAIN table'.index
    BY <1>1, <1>2, <2>1 DEF Routes
  <2>3. DOMAIN table'.index \subseteq DOMAIN Routes \ gone
    BY <1>1, <1>3 DEF Routes
  <2> QED BY <2>2, <2>3
<1>5. \A k \in DOMAIN table'.index : table'.endpoints[table'.index[k]] = Routes[k]
  BY <1>1, <1>3 DEF Routes
<1>6. Routes' = [k \in DOMAIN Routes \ gone |-> Routes[k]]
  BY <1>4, <1>5 DEF Routes
<1> QED BY <1>6 DEF Map!DropBackend, Map!Drop

(* The class implements the bounded map of route keys: no caller can tell  *)
(* the vector with its index from a partial map.                           *)
THEOREM Refinement == Spec => ImplementsRouteMap
<1>1. Init => Map!Init
  <2> SUFFICES ASSUME Init PROVE Routes = [key \in {} |-> 0]
    BY DEF Map!Init
  <2>1. table.index = [key \in {} |-> 0]
    BY DEF Init, EmptyTable
  <2> QED BY <2>1 DEF Routes
<1>2. IInv /\ [Next]_table => [Map!Next]_Routes
  <2> SUFFICES ASSUME IInv, [Next]_table
               PROVE  Map!Next \/ UNCHANGED Routes
    OBVIOUS
  <2> USE DEF IInv
  <2>1. ASSUME NEW def \in Definitions, Register(def)
        PROVE  Map!Next \/ UNCHANGED Routes
    BY <2>1, RegisterRefines DEF Map!Next, Map!Definitions, Definitions
  <2>2. ASSUME NEW key \in RouteKeys, Unregister(key)
        PROVE  Map!Next \/ UNCHANGED Routes
    BY <2>2, UnregisterRefines DEF Map!Next, Map!RouteKeys, RouteKeys
  <2>3. ASSUME NEW backend \in BackendIds, RemoveBackend(backend)
        PROVE  Map!Next
    BY <2>3, RemoveBackendRefines DEF Map!Next
  <2>4. CASE Clear
    <3>1. table'.index = [key \in {} |-> 0]
      BY <2>4 DEF Clear, EmptyTable
    <3>2. Routes' = [k \in DOMAIN Routes \ DOMAIN Routes |-> Routes[k]]
      BY <3>1 DEF Routes
    <3> QED BY <3>2 DEF Map!Next, Map!DropAll, Map!Drop
  <2>5. CASE UNCHANGED table
    BY <2>5 DEF Routes
  <2> QED BY <2>1, <2>2, <2>3, <2>4, <2>5 DEF Next
<1> QED BY <1>1, <1>2, Invariance, PTL DEF Spec, ImplementsRouteMap, Map!Spec
=============================================================================
