-------------------------- MODULE Endpoints_proofs --------------------------
(***************************************************************************)
(* Lemmas about the operators of Endpoints: what each operation of the     *)
(* routing table returns for a well-formed table.                          *)
(***************************************************************************)
EXTENDS Endpoints, FiniteSetTheorems, TLAPS

WellFormed(table) == TableTyped(table) /\ TableConsistent(table)

ValidDefinitions == {def \in Definitions : IsValid(def)}

(* The initial table is well-formed.                                       *)
LEMMA EmptyWellFormed == WellFormed(EmptyTable)
  BY EndpointsAssumption DEF WellFormed, EmptyTable, TableTyped, TableConsistent

(* Registering updates in place, appends, or leaves the table alone; it is *)
(* well-formed afterwards.                                                 *)
LEMMA RegisterWellFormed ==
  ASSUME NEW table, WellFormed(table), NEW def \in Definitions
  PROVE  WellFormed(RegisterEndpoint(table, def))
<1> DEFINE key == GetRouteKey(def)
           n == Len(table.endpoints)
           after == RegisterEndpoint(table, def)
<1> USE DEF ValidDefinitions
<1>1. /\ table.endpoints \in Seq(ValidDefinitions)
      /\ n \in Nat
      /\ DOMAIN table.endpoints = 1..n
      /\ n <= MaxEndpoints
      /\ table.index \in [DOMAIN table.index -> 1..n]
  BY DEF WellFormed, TableTyped
<1>2. CASE ~IsValid(def)
  BY <1>2 DEF RegisterEndpoint
<1>3. CASE IsValid(def) /\ key \in DOMAIN table.index
  <2> DEFINE hole == table.index[key]
  <2>1. after = [table EXCEPT !.endpoints[hole] = def]
    BY <1>3 DEF RegisterEndpoint
  <2>2. hole \in 1..n /\ GetRouteKey(table.endpoints[hole]) = key
    BY <1>1, <1>3 DEF WellFormed, TableConsistent
  <2>3. /\ after.endpoints = [table.endpoints EXCEPT ![hole] = def]
        /\ after.index = table.index
        /\ after = [endpoints |-> after.endpoints, index |-> after.index]
    BY <2>1 DEF WellFormed, TableTyped
  <2>4. after.endpoints \in Seq(ValidDefinitions) /\ Len(after.endpoints) = n
    BY <1>1, <1>3, <2>2, <2>3
  <2>5. TableTyped(after)
    BY <1>1, <2>3, <2>4 DEF TableTyped
  <2>6. TableConsistent(after)
    BY <1>1, <2>2, <2>3, <2>4, SMTT(40) DEF WellFormed, TableConsistent
  <2> QED BY <2>5, <2>6 DEF WellFormed
<1>4. CASE IsValid(def) /\ key \notin DOMAIN table.index /\ n < MaxEndpoints
  <2>1. /\ after.endpoints = Append(table.endpoints, def)
        /\ after.index = [k \in DOMAIN table.index \cup {key} |->
                            IF k = key THEN n + 1 ELSE table.index[k]]
        /\ after = [endpoints |-> after.endpoints, index |-> after.index]
    BY <1>4 DEF RegisterEndpoint
  <2>2. after.endpoints \in Seq(ValidDefinitions) /\ Len(after.endpoints) = n + 1
    BY <1>1, <1>4, <2>1
  <2>3. TableTyped(after)
    BY <1>1, <1>4, <2>1, <2>2, EndpointsAssumption DEF TableTyped
  <2>4. TableConsistent(after)
    <3>1. \A i \in 1..n : after.endpoints[i] = table.endpoints[i]
      BY <1>1, <2>1
    <3>2. after.endpoints[n + 1] = def
      BY <1>1, <2>1
    <3>3. \A i \in 1..n : GetRouteKey(table.endpoints[i]) \in DOMAIN table.index
      BY <1>1 DEF WellFormed, TableConsistent
    <3> QED BY <1>1, <1>4, <2>1, <2>2, <3>1, <3>2, <3>3 DEF WellFormed, TableConsistent
  <2> QED BY <2>3, <2>4 DEF WellFormed
<1>5. CASE IsValid(def) /\ key \notin DOMAIN table.index /\ ~(n < MaxEndpoints)
  BY <1>5 DEF RegisterEndpoint
<1> QED BY <1>2, <1>3, <1>4, <1>5

(* Swap-and-pop moves the last endpoint into the hole and corrects its     *)
(* index entry; all other endpoints stay where they are.                   *)
LEMMA UnregisterWellFormed ==
  ASSUME NEW table, WellFormed(table), NEW key
  PROVE  WellFormed(UnregisterEndpoint(table, key))
<1> DEFINE n == Len(table.endpoints)
           hole == table.index[key]
           moved == GetRouteKey(table.endpoints[n])
           after == UnregisterEndpoint(table, key)
<1> USE DEF ValidDefinitions
<1>1. /\ table.endpoints \in Seq(ValidDefinitions)
      /\ n \in Nat
      /\ DOMAIN table.endpoints = 1..n
      /\ n <= MaxEndpoints
      /\ table.index \in [DOMAIN table.index -> 1..n]
  BY DEF WellFormed, TableTyped
<1>2. CASE key \notin DOMAIN table.index
  BY <1>2 DEF UnregisterEndpoint
<1>3. CASE key \in DOMAIN table.index
  <2>1. /\ after.endpoints = [i \in 1..(n - 1) |-> table.endpoints[IF i = hole THEN n ELSE i]]
        /\ after.index = [k \in DOMAIN table.index \ {key} |->
                            IF k = moved THEN hole ELSE table.index[k]]
        /\ after = [endpoints |-> after.endpoints, index |-> after.index]
    BY <1>3 DEF UnregisterEndpoint
  <2>2. hole \in 1..n /\ GetRouteKey(table.endpoints[hole]) = key
    BY <1>1, <1>3 DEF WellFormed, TableConsistent
  <2>3. moved \in DOMAIN table.index /\ table.index[moved] = n
    BY <1>1, <2>2 DEF WellFormed, TableConsistent
  <2>4. \A k \in DOMAIN table.index \ {key} : table.index[k] # hole /\ (k # moved => table.index[k] # n)
    BY <1>1, <2>2 DEF WellFormed, TableConsistent
  <2>5. /\ after.endpoints \in Seq(ValidDefinitions)
        /\ Len(after.endpoints) = n - 1
        /\ DOMAIN after.endpoints = 1..(n - 1)
    <3>1. \A i \in 1..(n - 1) : table.endpoints[IF i = hole THEN n ELSE i] \in ValidDefinitions
      BY <1>1, <2>2
    <3>2. after.endpoints \in [1..(n - 1) -> ValidDefinitions]
      BY <2>1, <3>1
    <3>3. n - 1 \in Nat
      BY <1>1, <2>2
    <3> QED BY <3>2, <3>3
  <2>6. after.index \in [DOMAIN after.index -> 1..(n - 1)]
    <3>1. \A k \in DOMAIN table.index \ {key} :
            (IF k = moved THEN hole ELSE table.index[k]) \in 1..(n - 1)
      <4> TAKE k \in DOMAIN table.index \ {key}
      <4>1. CASE k = moved
        <5>1. hole # n
          BY <2>2, <4>1
        <5> QED BY <1>1, <2>2, <4>1, <5>1
      <4>2. CASE k # moved
        BY <1>1, <2>4, <4>2
      <4> QED BY <4>1, <4>2
    <3> QED BY <2>1, <3>1
  <2>7. TableTyped(after)
    <3> HIDE DEF after, n
    <3>1. n - 1 <= MaxEndpoints
      BY <1>1, EndpointsAssumption
    <3>2. Len(after.endpoints) <= MaxEndpoints
      BY <2>5, <3>1
    <3>3. after.index \in [DOMAIN after.index -> DOMAIN after.endpoints]
      BY <2>5, <2>6
    <3> QED BY <2>1, <2>5, <3>2, <3>3 DEF TableTyped
  <2>8. ASSUME NEW i \in 1..(n - 1)
        PROVE  /\ GetRouteKey(after.endpoints[i]) \in DOMAIN after.index
               /\ after.index[GetRouteKey(after.endpoints[i])] = i
    <3>1. CASE i = hole
      <4>1. after.endpoints[i] = table.endpoints[n]
        BY <2>1, <3>1
      <4>2. moved # key
        BY <1>1, <2>2, <2>3, <3>1
      <4> QED BY <2>1, <2>3, <3>1, <4>1, <4>2
    <3>2. CASE i # hole
      <4> DEFINE own == GetRouteKey(table.endpoints[i])
      <4>1. after.endpoints[i] = table.endpoints[i]
        BY <2>1, <3>2
      <4>2. own \in DOMAIN table.index /\ table.index[own] = i
        BY <1>1 DEF WellFormed, TableConsistent
      <4>3. own # key /\ own # moved
        BY <1>1, <2>3, <3>2, <4>2
      <4> QED BY <2>1, <4>1, <4>2, <4>3
    <3> QED BY <3>1, <3>2
  <2>9. ASSUME NEW k \in DOMAIN after.index
        PROVE  GetRouteKey(after.endpoints[after.index[k]]) = k
    <3>1. CASE k = moved
      BY <2>1, <2>6, <3>1
    <3>2. CASE k # moved
      <4>1. after.index[k] = table.index[k] /\ table.index[k] # hole
        BY <2>1, <2>4, <3>2
      <4>2. after.endpoints[after.index[k]] = table.endpoints[table.index[k]]
        BY <2>1, <2>6, <4>1
      <4> QED BY <2>1, <4>2 DEF WellFormed, TableConsistent
    <3> QED BY <3>1, <3>2
  <2>10. TableConsistent(after)
    BY <2>5, <2>8, <2>9 DEF TableConsistent
  <2> QED BY <2>7, <2>10 DEF WellFormed
<1> QED BY <1>2, <1>3

-----------------------------------------------------------------------------
(* Ranks. *)

(* The rank of an element among the first n numbers kept is between 1 and  *)
(* their count, and grows with the element.                                *)
LEMMA RankMonotonic ==
  ASSUME NEW n \in Nat, NEW kept \in SUBSET (1..n)
  PROVE  /\ IsFiniteSet(kept)
         /\ Cardinality(kept) \in 0..n
         /\ \A i \in kept : Rank(kept, i) \in 1..Cardinality(kept)
         /\ \A i, j \in kept : i < j => Rank(kept, i) < Rank(kept, j)
<1> DEFINE Upto(i) == {j \in kept : j <= i}
<1>1. IsFiniteSet(1..n) /\ Cardinality(1..n) = n
  BY FS_Interval
<1>2. IsFiniteSet(kept) /\ Cardinality(kept) \in Nat /\ Cardinality(kept) <= n
  BY <1>1, FS_Subset, FS_CardinalityType
<1>3. ASSUME NEW i \in kept
      PROVE  /\ IsFiniteSet(Upto(i))
             /\ Cardinality(Upto(i)) \in Nat
             /\ Cardinality(Upto(i)) <= Cardinality(kept)
             /\ Cardinality(Upto(i)) # 0
  <2>1. Upto(i) \in SUBSET kept
    OBVIOUS
  <2>2. IsFiniteSet(Upto(i)) /\ Cardinality(Upto(i)) <= Cardinality(kept)
    BY <1>2, <2>1, FS_Subset
  <2>3. i \in Upto(i)
    OBVIOUS
  <2>4. Cardinality(Upto(i)) # 0
    BY <2>2, <2>3, FS_EmptySet
  <2> QED BY <2>2, <2>4, FS_CardinalityType
<1>4. ASSUME NEW i \in kept, NEW j \in kept, i < j
      PROVE  Cardinality(Upto(i)) < Cardinality(Upto(j))
  <2> kept \subseteq Nat
    OBVIOUS
  <2>1. Upto(i) \in SUBSET Upto(j)
    <3> SUFFICES ASSUME NEW x \in Upto(i)
                 PROVE  x \in Upto(j)
      OBVIOUS
    <3>1. x \in Nat /\ i \in Nat /\ j \in Nat /\ x <= i
      OBVIOUS
    <3> QED BY <1>4, <3>1
  <2>2. j \in Upto(j) /\ j \notin Upto(i)
    BY <1>4
  <2>3. /\ Cardinality(Upto(i)) <= Cardinality(Upto(j))
        /\ Cardinality(Upto(j)) = Cardinality(Upto(i)) => Upto(j) = Upto(i)
    BY <1>3, <2>1, FS_Subset
  <2> QED BY <1>3, <2>2, <2>3
<1> QED BY <1>2, <1>3, <1>4 DEF Rank

(* Every position up to the count is the rank of exactly one element.      *)
LEMMA RankBijective ==
  ASSUME NEW n \in Nat, NEW kept \in SUBSET (1..n)
  PROVE  /\ \A i, j \in kept : Rank(kept, i) = Rank(kept, j) => i = j
         /\ \A m \in 1..Cardinality(kept) : \E i \in kept : Rank(kept, i) = m
<1> DEFINE c == Cardinality(kept)
           rank == [i \in kept |-> Rank(kept, i)]
<1>1. /\ IsFiniteSet(kept)
      /\ c \in Nat
      /\ \A i \in kept : Rank(kept, i) \in 1..c
      /\ \A i, j \in kept : i < j => Rank(kept, i) < Rank(kept, j)
  BY RankMonotonic
<1>2. \A i, j \in kept : Rank(kept, i) = Rank(kept, j) => i = j
  BY <1>1
<1>3. rank \in Injection(kept, 1..c)
  BY <1>1, <1>2 DEF Injection, IsInjective
<1>4. IsFiniteSet(1..c) /\ Cardinality(1..c) = c
  BY <1>1, FS_Interval
<1>5. rank \in Surjection(kept, 1..c)
  BY <1>3, <1>4, FS_Injection
<1> QED BY <1>2, <1>5 DEF Surjection

-----------------------------------------------------------------------------
(* RemoveEndpointsByBackend. *)

(* What is left of a well-formed table when a backend's endpoints go: the  *)
(* keys of the others, each with its endpoint, in the order they had.      *)
LEMMA RemoveKeepsOthers ==
  ASSUME NEW table, WellFormed(table), NEW backend
  PROVE  LET after == RemoveEndpointsByBackend(table, backend)
             kept  == Kept(table, backend)
         IN  /\ after = [endpoints |-> after.endpoints, index |-> after.index]
             /\ after.endpoints \in [1..Cardinality(kept) -> {table.endpoints[i] : i \in kept}]
             /\ DOMAIN after.index = {GetRouteKey(table.endpoints[i]) : i \in kept}
             /\ \A i \in kept : /\ after.index[GetRouteKey(table.endpoints[i])] = Rank(kept, i)
                               /\ after.endpoints[Rank(kept, i)] = table.endpoints[i]
<1> DEFINE after == RemoveEndpointsByBackend(table, backend)
           kept == Kept(table, backend)
           c == Cardinality(kept)
           key(i) == GetRouteKey(table.endpoints[i])
           Nth(m) == CHOOSE i \in kept : Rank(kept, i) = m
           At(k) == CHOOSE i \in kept : key(i) = k /\ \A j \in kept : key(j) = k => j <= i
<1>1. /\ after = [endpoints |-> after.endpoints, index |-> after.index]
      /\ after.endpoints = [m \in 1..c |-> table.endpoints[Nth(m)]]
      /\ after.index = [k \in {key(i) : i \in kept} |-> Rank(kept, At(k))]
  BY DEF RemoveEndpointsByBackend
<1>2. /\ Len(table.endpoints) \in Nat
      /\ DOMAIN table.endpoints = 1..Len(table.endpoints)
      /\ kept \in SUBSET (1..Len(table.endpoints))
  BY DEF WellFormed, TableTyped, Kept
<1> HIDE DEF after, kept
<1>3. /\ \A i \in kept : Rank(kept, i) \in 1..c
      /\ \A i, j \in kept : Rank(kept, i) = Rank(kept, j) => i = j
      /\ \A m \in 1..c : \E i \in kept : Rank(kept, i) = m
  BY <1>2, RankMonotonic, RankBijective
<1>4. \A m \in 1..c : Nth(m) \in kept
  BY <1>3
<1>5. \A i \in kept : Nth(Rank(kept, i)) = i
  BY <1>3
<1>6. \A i, j \in kept : key(i) = key(j) => i = j
  BY <1>2 DEF WellFormed, TableConsistent
<1> HIDE DEF key, Nth
<1>7. ASSUME NEW i \in kept
      PROVE  At(key(i)) = i
  <2>1. \A j \in kept : key(j) = key(i) => j <= i
    BY <1>2, <1>6
  <2>2. \A x \in kept : key(x) = key(i) => x = i
    BY <1>6
  <2> QED BY <2>1, <2>2
<1> HIDE DEF At
<1>8. after.endpoints \in [1..c -> {table.endpoints[i] : i \in kept}]
  <2>1. \A m \in 1..c : table.endpoints[Nth(m)] \in {table.endpoints[i] : i \in kept}
    BY <1>4
  <2> QED BY <1>1, <2>1
<1>9. ASSUME NEW i \in kept
      PROVE  /\ after.index[key(i)] = Rank(kept, i)
             /\ after.endpoints[Rank(kept, i)] = table.endpoints[i]
  <2>1. after.index[key(i)] = Rank(kept, At(key(i)))
    BY <1>1
  <2>2. after.endpoints[Rank(kept, i)] = table.endpoints[Nth(Rank(kept, i))]
    BY <1>1, <1>3
  <2> QED BY <2>1, <2>2, <1>5, <1>7
<1>10. DOMAIN after.index = {key(i) : i \in kept}
  BY <1>1
<1> QED BY <1>1, <1>8, <1>9, <1>10 DEF after, kept, key

(* The rebuilt table is well-formed.                                       *)
LEMMA RemoveWellFormed ==
  ASSUME NEW table, WellFormed(table), NEW backend
  PROVE  WellFormed(RemoveEndpointsByBackend(table, backend))
<1> DEFINE after == RemoveEndpointsByBackend(table, backend)
           kept == Kept(table, backend)
           c == Cardinality(kept)
           n == Len(table.endpoints)
           key(i) == GetRouteKey(table.endpoints[i])
<1>1. /\ after = [endpoints |-> after.endpoints, index |-> after.index]
      /\ after.endpoints \in [1..c -> {table.endpoints[i] : i \in kept}]
      /\ DOMAIN after.index = {key(i) : i \in kept}
      /\ \A i \in kept : /\ after.index[key(i)] = Rank(kept, i)
                        /\ after.endpoints[Rank(kept, i)] = table.endpoints[i]
  BY RemoveKeepsOthers
<1>2. /\ n \in Nat
      /\ n <= MaxEndpoints
      /\ kept \in SUBSET (1..n)
      /\ {table.endpoints[i] : i \in kept} \subseteq ValidDefinitions
  BY DEF WellFormed, TableTyped, Kept, ValidDefinitions
<1> HIDE DEF after, kept, n
<1>3. /\ c \in 0..n
      /\ \A i \in kept : Rank(kept, i) \in 1..c
      /\ \A m \in 1..c : \E i \in kept : Rank(kept, i) = m
  BY <1>2, RankMonotonic, RankBijective
<1>4. after.endpoints \in Seq(ValidDefinitions) /\ Len(after.endpoints) = c /\ DOMAIN after.endpoints = 1..c
  <2>1. after.endpoints \in [1..c -> ValidDefinitions]
    BY <1>1, <1>2
  <2> QED BY <1>3, <2>1
<1>5. TableTyped(after)
  <2>1. Len(after.endpoints) <= MaxEndpoints
    BY <1>2, <1>3, <1>4, EndpointsAssumption
  <2>2. after.index \in [DOMAIN after.index -> DOMAIN after.endpoints]
    <3>1. \A k \in DOMAIN after.index : after.index[k] \in 1..c
      BY <1>1, <1>3
    <3>2. after.index = [k \in DOMAIN after.index |-> after.index[k]]
      BY DEF after, RemoveEndpointsByBackend
    <3> QED BY <1>4, <3>1, <3>2
  <2> QED BY <1>1, <1>4, <2>1, <2>2 DEF TableTyped, ValidDefinitions
<1>6. TableConsistent(after)
  <2>1. ASSUME NEW m \in 1..c
        PROVE  /\ GetRouteKey(after.endpoints[m]) \in DOMAIN after.index
               /\ after.index[GetRouteKey(after.endpoints[m])] = m
    <3>1. PICK i \in kept : Rank(kept, i) = m
      BY <1>3
    <3> QED BY <1>1, <3>1
  <2>2. ASSUME NEW k \in DOMAIN after.index
        PROVE  GetRouteKey(after.endpoints[after.index[k]]) = k
    <3>1. PICK i \in kept : k = key(i)
      BY <1>1
    <3> QED BY <1>1, <3>1
  <2> QED BY <1>4, <2>1, <2>2 DEF TableConsistent
<1> QED BY <1>5, <1>6 DEF WellFormed, after

-----------------------------------------------------------------------------
(* Facts for the refinement and for lookups. *)

(* A well-formed table has as many keys as endpoints.                      *)
LEMMA KeysCounted ==
  ASSUME NEW table, WellFormed(table)
  PROVE  Cardinality(DOMAIN table.index) = Len(table.endpoints)
<1> DEFINE n == Len(table.endpoints)
<1>1. /\ n \in Nat
      /\ DOMAIN table.endpoints = 1..n
      /\ table.index \in [DOMAIN table.index -> 1..n]
  BY DEF WellFormed, TableTyped
<1>2. table.index \in Injection(DOMAIN table.index, 1..n)
  BY <1>1 DEF WellFormed, TableConsistent, Injection, IsInjective
<1>3. table.index \in Surjection(DOMAIN table.index, 1..n)
  BY <1>1 DEF WellFormed, TableConsistent, Surjection
<1>4. IsFiniteSet(1..n) /\ Cardinality(1..n) = n
  BY <1>1, FS_Interval
<1> QED BY <1>2, <1>3, <1>4, FS_Injection

(* Among the first n numbers, a set that is not empty has a least element: *)
(* the one of rank 1.                                                      *)
LEMMA LeastExists ==
  ASSUME NEW n \in Nat, NEW S \in SUBSET (1..n), S # {}
  PROVE  \E i \in S : \A j \in S : i <= j
<1>1. /\ IsFiniteSet(S)
      /\ Cardinality(S) \in Nat
      /\ \A i \in S : Rank(S, i) \in 1..Cardinality(S)
      /\ \A i, j \in S : i < j => Rank(S, i) < Rank(S, j)
  BY RankMonotonic
<1>2. 1 \in 1..Cardinality(S)
  BY <1>1, FS_EmptySet
<1>3. PICK i \in S : Rank(S, i) = 1
  BY <1>2, RankBijective
<1>4. \A j \in S : i <= j
  BY <1>1, <1>3
<1> QED BY <1>4

=============================================================================
