--------------------------- MODULE IngressProofs ---------------------------
(***************************************************************************)
(* Theorems about Ingress.  Three questions: the order and the rules that  *)
(* an Ingress is translated into, type correctness, and what the worker    *)
(* and the sweep may delete of a load balancer that is in service.         *)
(***************************************************************************)
EXTENDS Ingress, FiniteSetTheorems, TLAPS

-----------------------------------------------------------------------------
(* Order.                                                                  *)

(* InOrder lists every position once, each after those ahead of it.        *)
LEMMA InOrderSorts ==
    ASSUME NEW D, IsFiniteSet(D), NEW ahead \in [D -> SUBSET D],
           \A i \in D : i \notin ahead[i],
           \A i, j \in D : i # j => j \in ahead[i] \/ i \in ahead[j],
           \A i, j, k \in D : j \in ahead[i] /\ k \in ahead[j] => k \in ahead[i]
    PROVE  /\ Cardinality(D) \in Nat
           /\ InOrder(ahead) \in [1..Cardinality(D) -> D]
           /\ \A i \in D : \E k \in 1..Cardinality(D) : InOrder(ahead)[k] = i
           /\ \A k, l \in 1..Cardinality(D) :
                k < l => InOrder(ahead)[k] \in ahead[InOrder(ahead)[l]]
<1> DEFINE n == Cardinality(D)
           card(i) == Cardinality(ahead[i])
           rank == [i \in D |-> card(i) + 1]
<1>1. n \in Nat
  BY FS_CardinalityType
<1>2. ASSUME NEW S \in SUBSET D, NEW i \in D, i \notin S
      PROVE  /\ IsFiniteSet(S) /\ Cardinality(S) \in Nat /\ Cardinality(S) < n
             /\ \A T \in SUBSET D : S \subseteq T /\ i \in T => Cardinality(S) < Cardinality(T)
  <2>1. IsFiniteSet(S) /\ Cardinality(S) \in Nat
    BY FS_Subset, FS_CardinalityType
  <2>2. Cardinality(S \cup {i}) = Cardinality(S) + 1
    BY <1>2, <2>1, FS_AddElement
  <2>3. ASSUME NEW T \in SUBSET D, S \subseteq T, i \in T
        PROVE  Cardinality(S) < Cardinality(T)
    <3>1. IsFiniteSet(T) /\ Cardinality(T) \in Nat
      BY FS_Subset, FS_CardinalityType
    <3>2. Cardinality(S \cup {i}) <= Cardinality(T)
      <4>1. S \cup {i} \in SUBSET T
        BY <2>3
      <4> QED BY <3>1, <4>1, FS_Subset
    <3> QED BY <2>1, <2>2, <3>1, <3>2
  <2> QED BY <1>2, <2>1, <2>3
<1>3. \A i \in D : card(i) \in Nat /\ card(i) < n
  <2> SUFFICES ASSUME NEW i \in D PROVE card(i) \in Nat /\ card(i) < n
    OBVIOUS
  <2>1. ahead[i] \in SUBSET D /\ i \notin ahead[i]
    OBVIOUS
  <2> QED BY <2>1, <1>2
<1>4. \A i, j \in D : j \in ahead[i] => card(j) < card(i)
  <2> SUFFICES ASSUME NEW i \in D, NEW j \in D, j \in ahead[i] PROVE card(j) < card(i)
    OBVIOUS
  <2>1. ahead[j] \in SUBSET D /\ j \notin ahead[j] /\ ahead[i] \in SUBSET D
    OBVIOUS
  <2>2. ahead[j] \subseteq ahead[i]
    BY <2>1
  <2> QED BY <2>1, <2>2, <1>2
<1>5. \A i, j \in D : card(i) = card(j) => i = j
  BY <1>3, <1>4
<1>6. rank \in Injection(D, 1..n)
  <2>1. rank \in [D -> 1..n]
    BY <1>1, <1>3
  <2>2. \A i, j \in D : rank[i] = rank[j] => i = j
    BY <1>3, <1>5
  <2> QED BY <2>1, <2>2 DEF Injection, IsInjective
<1>7. \A k \in 1..n : \E i \in D : card(i) = k - 1
  <2>1. IsFiniteSet(1..n) /\ Cardinality(1..n) = n
    BY <1>1, FS_Interval
  <2>2. rank \in Surjection(D, 1..n)
    BY <1>6, <2>1, FS_Injection
  <2>3. \A k \in 1..n : \E i \in D : rank[i] = k
    BY <2>2 DEF Surjection
  <2> QED BY <2>3, <1>1, <1>3
<1> DEFINE order == InOrder(ahead)
<1>8. DOMAIN order = 1..n /\ \A k \in 1..n : order[k] = CHOOSE i \in D : card(i) = k - 1
  BY DEF InOrder
<1>9. \A k \in 1..n : order[k] \in D /\ card(order[k]) = k - 1
  BY <1>7, <1>8
<1>10. order \in [1..n -> D]
  <2>1. order = [k \in 1..n |-> order[k]]
    BY DEF InOrder
  <2> HIDE DEF order
  <2> QED BY <2>1, <1>9
<1> HIDE DEF order
<1>11. ASSUME NEW i \in D PROVE \E k \in 1..n : order[k] = i
  <2>1. card(i) + 1 \in 1..n
    BY <1>1, <1>3
  <2>2. order[card(i) + 1] \in D /\ card(order[card(i) + 1]) = card(i)
    BY <2>1, <1>3, <1>9
  <2> QED BY <2>1, <2>2, <1>5
<1>12. ASSUME NEW k \in 1..n, NEW l \in 1..n, k < l PROVE order[k] \in ahead[order[l]]
  <2>1. card(order[k]) < card(order[l]) /\ order[k] \in D /\ order[l] \in D
    BY <1>1, <1>9, <1>12
  <2>2. order[k] # order[l]
    BY <2>1, <1>3
  <2>3. order[l] \notin ahead[order[k]]
    BY <2>1, <1>3, <1>4
  <2> QED BY <2>1, <2>2, <2>3
<1> QED BY <1>1, <1>10, <1>11, <1>12 DEF order

(* A set of naturals that is not empty has a least element.                *)
LEMMA LeastOf ==
    ASSUME NEW S \in SUBSET Nat, S # {}
    PROVE  \E x \in S : \A y \in S : x <= y
<1>1. PICK x \in S : \A y \in S : ~ (<<y, x>> \in OpToRel(<, Nat))
  BY NatLessThanWellFounded, WFMin
<1>2. \A y \in S : ~ (y < x)
  BY <1>1 DEF OpToRel
<1> QED BY <1>2

(* The backends an Ingress names.                                          *)
BackendsOf(s) == ({s.default} \ {NoBackend}) \cup {s.rules[k].to : k \in DOMAIN s.rules}

(* collectBackends lists each backend the Ingress names, and no other,     *)
(* exactly once.  So each gets a pool, and gcStalePools, which keeps what  *)
(* is listed, deletes no pool that a rule or the default leads to.         *)
THEOREM BackendsListed ==
    ASSUME NEW s, IsManifest(s)
    PROVE  /\ collectBackends(s) \in Seq(Backend)
           /\ ToSet(collectBackends(s)) = BackendsOf(s)
           /\ \A k, l \in DOMAIN collectBackends(s) :
                k # l => collectBackends(s)[k] # collectBackends(s)[l]
<1> DEFINE head   == IF s.default = NoBackend THEN <<>> ELSE <<s.default>>
           tos    == [k \in DOMAIN s.rules |-> s.rules[k].to]
           all    == head \o tos
           firsts == {k \in DOMAIN all : \A j \in 1..(k - 1) : all[j] # all[k]}
           ahead  == [k \in firsts |-> {j \in firsts : j < k}]
           n      == Cardinality(firsts)
           order  == InOrder(ahead)
<1>1. s.rules \in Seq(Rule) /\ s.default \in Backend \cup {NoBackend}
  BY DEF IsManifest
<1>2. /\ DOMAIN s.rules = 1..Len(s.rules) /\ Len(s.rules) \in Nat
      /\ \A k \in DOMAIN s.rules : s.rules[k].to \in Backend
  <2>1. \A r \in Rule : r.to \in Backend
    BY DEF Rule
  <2>2. /\ DOMAIN s.rules = 1..Len(s.rules) /\ Len(s.rules) \in Nat
        /\ \A k \in DOMAIN s.rules : s.rules[k] \in Rule
    BY <1>1
  <2> QED BY <2>1, <2>2
<1>3. head \in Seq(Backend) /\ tos \in Seq(Backend) /\ Len(tos) = Len(s.rules)
  <2>1. head \in Seq(Backend)
    BY <1>1
  <2>2. tos \in [1..Len(s.rules) -> Backend]
    BY <1>2
  <2> QED BY <1>2, <2>1, <2>2
<1>4. all \in Seq(Backend) /\ Len(all) = Len(head) + Len(tos) /\ Len(all) \in Nat
  BY <1>3
<1>5. \A k \in 1..Len(all) : all[k] = IF k <= Len(head) THEN head[k] ELSE tos[k - Len(head)]
  BY <1>3
<1>6. {all[k] : k \in 1..Len(all)} = BackendsOf(s)
  <2>1. ASSUME NEW k \in 1..Len(all) PROVE all[k] \in BackendsOf(s)
    <3>1. CASE k <= Len(head)
      <4>1. s.default # NoBackend /\ k = 1 /\ head[k] = s.default
        BY <3>1, <1>3
      <4> QED BY <4>1, <3>1, <1>5 DEF BackendsOf
    <3>2. CASE ~ (k <= Len(head))
      <4>1. Len(head) \in Nat
        BY <1>3
      <4>2. k - Len(head) \in DOMAIN s.rules /\ all[k] = tos[k - Len(head)]
        BY <3>2, <4>1, <1>2, <1>3, <1>4, <1>5
      <4> QED BY <4>2 DEF BackendsOf
    <3> QED BY <3>1, <3>2
  <2>2. ASSUME NEW b \in BackendsOf(s) PROVE \E k \in 1..Len(all) : all[k] = b
    <3>1. CASE b = s.default /\ b # NoBackend
      <4>1. head = <<b>> /\ Len(head) = 1 /\ head[1] = b
        BY <3>1
      <4>2. 1 \in 1..Len(all) /\ all[1] = b
        BY <4>1, <1>2, <1>3, <1>4, <1>5
      <4> QED BY <4>2
    <3>2. CASE \E k \in DOMAIN s.rules : b = s.rules[k].to
      <4>1. PICK k \in DOMAIN s.rules : b = s.rules[k].to
        BY <3>2
      <4>2. Len(head) \in Nat /\ k \in Nat /\ k > 0 /\ k <= Len(tos) /\ tos[k] = b
        BY <4>1, <1>2, <1>3
      <4>3. k + Len(head) \in 1..Len(all) /\ ~ (k + Len(head) <= Len(head))
            /\ (k + Len(head)) - Len(head) = k
        BY <4>2, <1>3, <1>4
      <4>4. all[k + Len(head)] = tos[k]
        BY <4>3, <1>5
      <4> QED BY <4>2, <4>3, <4>4
    <3> QED BY <3>1, <3>2 DEF BackendsOf
  <2> QED BY <2>1, <2>2
<1> HIDE DEF head, tos, all
<1>7. DOMAIN all = 1..Len(all)
  BY <1>4
<1>8. firsts \in SUBSET (1..Len(all)) /\ firsts \in SUBSET Nat /\ IsFiniteSet(firsts)
  <2>1. firsts \in SUBSET (1..Len(all))
    BY <1>7
  <2>2. IsFiniteSet(1..Len(all))
    BY <1>4, FS_Interval
  <2> QED BY <2>1, <2>2, <1>4, FS_Subset
<1>9. \A k \in 1..Len(all) : \E j \in firsts : all[j] = all[k]
  <2> SUFFICES ASSUME NEW k \in 1..Len(all) PROVE \E j \in firsts : all[j] = all[k]
    OBVIOUS
  <2> DEFINE same == {j \in 1..Len(all) : all[j] = all[k]}
  <2>1. PICK j \in same : \A i \in same : j <= i
    <3>1. same \in SUBSET Nat /\ same # {}
      BY <1>4
    <3> HIDE DEF same
    <3> QED BY <3>1, LeastOf, Zenon
  <2>2. ASSUME NEW i \in 1..(j - 1) PROVE all[i] # all[j]
    <3>1. i \in 1..Len(all) /\ i < j
      BY <2>1, <1>4
    <3> QED BY <3>1, <2>1
  <2> QED BY <2>1, <2>2, <1>7
<1>10. \A i, j \in firsts : all[i] = all[j] => i = j
  <2> SUFFICES ASSUME NEW i \in firsts, NEW j \in firsts, all[i] = all[j], i < j PROVE FALSE
    BY <1>8
  <2>1. i \in 1..(j - 1)
    BY <1>8
  <2> QED BY <2>1
<1>11. /\ n \in Nat /\ order \in [1..n -> firsts]
       /\ \A i \in firsts : \E k \in 1..n : order[k] = i
       /\ \A k, l \in 1..n : k < l => order[k] \in ahead[order[l]]
  <2>1. ahead \in [firsts -> SUBSET firsts]
    OBVIOUS
  <2>2. \A i \in firsts : i \notin ahead[i]
    BY <1>8
  <2>3. \A i, j \in firsts : i # j => j \in ahead[i] \/ i \in ahead[j]
    BY <1>8
  <2>4. \A i, j, k \in firsts : j \in ahead[i] /\ k \in ahead[j] => k \in ahead[i]
    BY <1>8
  <2> HIDE DEF firsts, ahead
  <2> QED BY <1>8, <2>1, <2>2, <2>3, <2>4, InOrderSorts
<1> HIDE DEF order
<1>12. \A k, l \in 1..n : k # l => order[k] # order[l]
  <2> SUFFICES ASSUME NEW k \in 1..n, NEW l \in 1..n, k < l PROVE order[k] # order[l]
    BY <1>11
  <2>1. order[k] \in ahead[order[l]] /\ order[k] \in firsts /\ order[l] \in firsts
    BY <1>11
  <2>2. order[k] < order[l]
    BY <2>1
  <2> QED BY <2>1, <2>2, <1>8
<1>13. collectBackends(s) = [k \in 1..n |-> all[order[k]]]
  <2>1. DOMAIN order = 1..n
    BY <1>11
  <2> QED BY <2>1 DEF collectBackends, order, all, head, tos
<1> DEFINE list == collectBackends(s)
<1>14. list \in [1..n -> Backend] /\ DOMAIN list = 1..n
  <2>1. \A k \in 1..n : all[order[k]] \in Backend
    BY <1>4, <1>7, <1>8, <1>11
  <2> QED BY <2>1, <1>13
<1> HIDE DEF list
<1>15. ToSet(list) = BackendsOf(s)
  <2>1. \A k \in 1..n : list[k] = all[order[k]] /\ order[k] \in firsts
    BY <1>11, <1>13 DEF list
  <2>2. ASSUME NEW b \in BackendsOf(s) PROVE \E k \in 1..n : list[k] = b
    <3>1. PICK i \in 1..Len(all) : all[i] = b
      BY <1>6
    <3>2. PICK j \in firsts : all[j] = b
      BY <3>1, <1>9
    <3>3. PICK k \in 1..n : order[k] = j
      BY <1>11
    <3> QED BY <3>2, <3>3, <2>1
  <2>3. \A k \in 1..n : list[k] \in BackendsOf(s)
    BY <1>6, <1>8, <2>1
  <2> QED BY <1>14, <2>2, <2>3 DEF ToSet
<1>16. \A k, l \in DOMAIN list : k # l => list[k] # list[l]
  BY <1>10, <1>11, <1>12, <1>13, <1>14 DEF list
<1>17. list \in Seq(Backend)
  BY <1>11, <1>14
<1> QED BY <1>15, <1>16, <1>17 DEF list

(* The rule at i comes before the one at j: it has the longer path, or one *)
(* as long and stands before it in the manifest.                           *)
Precedes(s, i, j) ==
    \/ PathLen[s.rules[i].path] > PathLen[s.rules[j].path]
    \/ PathLen[s.rules[i].path] = PathLen[s.rules[j].path] /\ i < j

LEMMA ManifestRules ==
    ASSUME NEW s, IsManifest(s)
    PROVE  /\ DOMAIN s.rules = 1..Len(s.rules) /\ Len(s.rules) \in Nat
           /\ \A k \in DOMAIN s.rules :
                /\ s.rules[k] \in Rule
                /\ s.rules[k].to \in Backend /\ s.rules[k].path \in Path \cup {NoPath}
                /\ s.rules[k].host \in Host \cup {AnyHost}
                /\ PathLen[s.rules[k].path] \in Nat
<1>1. s.rules \in Seq(Rule)
  BY DEF IsManifest
<1>2. /\ DOMAIN s.rules = 1..Len(s.rules) /\ Len(s.rules) \in Nat
      /\ \A k \in DOMAIN s.rules : s.rules[k] \in Rule
  BY <1>1
<1>3. \A r \in Rule : /\ r.to \in Backend /\ r.path \in Path \cup {NoPath}
                      /\ r.host \in Host \cup {AnyHost}
  BY DEF Rule
<1>4. PathLen \in [Path \cup {NoPath} -> Nat]
  BY IngressConstants
<1> QED BY <1>2, <1>3, <1>4

(* buildDesiredPolicies has each rule of the manifest once, a longer path  *)
(* before a shorter one, and paths of one length in the manifest's order.  *)
LEMMA PoliciesSorted ==
    ASSUME NEW s, IsManifest(s)
    PROVE  \E order \in [1..Len(s.rules) -> 1..Len(s.rules)] :
              /\ buildDesiredPolicies(s) = [k \in 1..Len(s.rules) |-> s.rules[order[k]]]
              /\ \A i \in 1..Len(s.rules) : \E k \in 1..Len(s.rules) : order[k] = i
              /\ \A k, l \in 1..Len(s.rules) : k < l => Precedes(s, order[k], order[l])
<1> DEFINE n     == Len(s.rules)
           D     == 1..n
           ahead == [i \in D |-> {j \in D : Precedes(s, j, i)}]
           order == InOrder(ahead)
<1>1. DOMAIN s.rules = D /\ n \in Nat /\ \A k \in D : PathLen[s.rules[k].path] \in Nat
  BY ManifestRules
<1>2. IsFiniteSet(D) /\ Cardinality(D) = n
  BY <1>1, FS_Interval
<1>3. /\ ahead \in [D -> SUBSET D]
      /\ \A i \in D : i \notin ahead[i]
      /\ \A i, j \in D : i # j => j \in ahead[i] \/ i \in ahead[j]
      /\ \A i, j, k \in D : j \in ahead[i] /\ k \in ahead[j] => k \in ahead[i]
  BY <1>1 DEF Precedes
<1>4. /\ order \in [D -> D]
      /\ \A i \in D : \E k \in D : order[k] = i
      /\ \A k, l \in D : k < l => order[k] \in ahead[order[l]]
  <2> HIDE DEF ahead, D
  <2>1. /\ order \in [1..Cardinality(D) -> D]
        /\ \A i \in D : \E k \in 1..Cardinality(D) : order[k] = i
        /\ \A k, l \in 1..Cardinality(D) : k < l => order[k] \in ahead[order[l]]
    BY <1>2, <1>3, InOrderSorts
  <2> QED BY <2>1, <1>2 DEF D
<1>5. \A k, l \in D : k < l => Precedes(s, order[k], order[l])
  <2> HIDE DEF order
  <2> QED BY <1>4
<1>6. buildDesiredPolicies(s) = [k \in D |-> s.rules[order[k]]]
  <2>1. DOMAIN order = D
    BY <1>4
  <2>2. buildDesiredPolicies(s) = [k \in DOMAIN order |-> s.rules[order[k]]]
    BY <1>1 DEF buildDesiredPolicies, Precedes
  <2> QED BY <2>1, <2>2
<1> HIDE DEF order
<1> QED BY <1>4, <1>5, <1>6

LEMMA PoliciesTyped ==
    ASSUME NEW s, IsManifest(s)
    PROVE  /\ buildDesiredPolicies(s) \in Seq(Rule)
           /\ Len(buildDesiredPolicies(s)) = Len(s.rules)
           /\ \A k \in 1..Len(s.rules) :
                \E j \in DOMAIN s.rules : buildDesiredPolicies(s)[k] = s.rules[j]
<1>1. PICK order \in [1..Len(s.rules) -> 1..Len(s.rules)] :
         buildDesiredPolicies(s) = [k \in 1..Len(s.rules) |-> s.rules[order[k]]]
  BY PoliciesSorted
<1>2. /\ DOMAIN s.rules = 1..Len(s.rules) /\ Len(s.rules) \in Nat
      /\ \A k \in DOMAIN s.rules : s.rules[k] \in Rule
  BY ManifestRules
<1>3. buildDesiredPolicies(s) \in [1..Len(s.rules) -> Rule]
  BY <1>1, <1>2
<1>4. buildDesiredPolicies(s) \in Seq(Rule) /\ Len(buildDesiredPolicies(s)) = Len(s.rules)
  BY <1>2, <1>3
<1>5. \A k \in 1..Len(s.rules) :
        /\ order[k] \in DOMAIN s.rules /\ buildDesiredPolicies(s)[k] = s.rules[order[k]]
  BY <1>1, <1>2
<1> QED BY <1>4, <1>5

LEMMA PairOf ==
    ASSUME NEW a, NEW b
    PROVE  <<a>> \o <<b>> = <<a, b>>
<1> DEFINE S == {a, b}
<1>1. <<a>> \in Seq(S) /\ <<b>> \in Seq(S) /\ <<a, b>> \in Seq(S)
  OBVIOUS
<1>2. <<a>> \o <<b>> \in Seq(S) /\ Len(<<a>> \o <<b>>) = 2
  BY <1>1
<1>3. (<<a>> \o <<b>>)[1] = a /\ (<<a>> \o <<b>>)[2] = b
  BY <1>1
<1>4. DOMAIN (<<a>> \o <<b>>) = 1..2
  BY <1>2
<1> DEFINE q == <<a>> \o <<b>>
<1>5. q = [k \in 1..2 |-> q[k]]
  BY <1>2, <1>4
<1> HIDE DEF q
<1>6. q[1] = a /\ q[2] = b
  BY <1>3 DEF q
<1> DEFINE r == <<a, b>>
<1>7. r = [k \in 1..2 |-> r[k]] /\ r[1] = a /\ r[2] = b
  OBVIOUS
<1> HIDE DEF r
<1>8. \A k \in 1..2 : q[k] = r[k]
  BY <1>6, <1>7
<1> QED BY <1>5, <1>7, <1>8 DEF q, r

(* One policy's rules match the requests its Ingress rule covers.          *)
LEMMA RulesMatch ==
    ASSUME NEW d \in Rule, d.path # NoPath, NEW h \in Host, NEW p \in Path
    PROVE  /\ rulesFor(d) # <<>>
           /\ (\A rule \in ToSet(rulesFor(d)) : Holds(rule, h, p)) <=> Covers(d, h, p)
<1> DEFINE onHost == [on |-> "host", value |-> d.host, how |-> "equal"]
           onPath == [on |-> "path", value |-> d.path,
                      how |-> IF d.type = "exact" THEN "equal" ELSE "starts"]
<1>1. Holds(onHost, h, p) <=> d.host = h
  <2>1. onHost.on = "host" /\ onHost.value = d.host
    OBVIOUS
  <2> HIDE DEF onHost
  <2> QED BY <2>1 DEF Holds
<1>2. Holds(onPath, h, p) <=> IF d.type = "exact" THEN d.path = p ELSE p \in Under[d.path]
  BY DEF Holds
<1> HIDE DEF onHost, onPath
<1>3. CASE d.host = AnyHost
  <2>1. rulesFor(d) = <<onPath>>
    BY <1>3 DEF rulesFor, onPath
  <2>2. ToSet(rulesFor(d)) = {onPath}
    BY <2>1 DEF ToSet
  <2>3. Covers(d, h, p) <=> Holds(onPath, h, p)
    BY <1>2, <1>3 DEF Covers
  <2> QED BY <2>1, <2>2, <2>3
<1>4. CASE d.host # AnyHost
  <2>1. rulesFor(d) = <<onHost, onPath>>
    <3>1. rulesFor(d) = <<onHost>> \o <<onPath>>
      BY <1>4 DEF rulesFor, onHost, onPath
    <3> QED BY <3>1, PairOf
  <2>2. ToSet(rulesFor(d)) = {onHost, onPath}
    BY <2>1 DEF ToSet
  <2>3. Covers(d, h, p) <=> Holds(onHost, h, p) /\ Holds(onPath, h, p)
    BY <1>1, <1>2, <1>4 DEF Covers
  <2> QED BY <2>1, <2>2, <2>3
<1> QED BY <1>3, <1>4

(* The policies syncL7Policies makes for an Ingress, complete.             *)
Complete(s, policies) ==
    LET desired == buildDesiredPolicies(s) IN
    policies = [k \in DOMAIN desired |-> [to |-> desired[k].to, rules |-> rulesFor(desired[k])]]

(* With all policies made and the default pool set, Octavia, which takes   *)
(* the first policy that matches, sends every request to the backend the   *)
(* Ingress says, which is that of the longest path: buildDesiredPolicies   *)
(* loses no rule and puts none before a more specific one, and rulesFor    *)
(* translates each.  A rule must have a path, as the API server demands    *)
(* but for the type ImplementationSpecific.                                *)
THEOREM RoutingIsRight ==
    ASSUME NEW s, IsManifest(s), \A k \in DOMAIN s.rules : s.rules[k].path # NoPath,
           NEW l, l.default = s.default, Complete(s, l.policies),
           NEW h \in Host, NEW p \in Path
    PROVE  Routed(l, h, p) = Said(s, h, p)
<1> DEFINE n       == Len(s.rules)
           D       == 1..n
           desired == buildDesiredPolicies(s)
           len(i)  == PathLen[s.rules[i].path]
           taken   == {k \in DOMAIN l.policies :
                         /\ l.policies[k].rules # <<>>
                         /\ \A rule \in ToSet(l.policies[k].rules) : Holds(rule, h, p)}
           hit     == {k \in DOMAIN s.rules : Covers(s.rules[k], h, p)}
           longest == {k \in hit : \A j \in hit : len(k) >= len(j)}
<1>1. DOMAIN s.rules = D /\ n \in Nat /\ \A k \in D : s.rules[k] \in Rule /\ len(k) \in Nat
  BY ManifestRules
<1>2. PICK order \in [D -> D] :
         /\ desired = [k \in D |-> s.rules[order[k]]]
         /\ \A i \in D : \E k \in D : order[k] = i
         /\ \A k, m \in D : k < m => Precedes(s, order[k], order[m])
  BY PoliciesSorted
<1>3. /\ DOMAIN l.policies = D
      /\ \A k \in D : /\ l.policies[k].to = s.rules[order[k]].to
                      /\ l.policies[k].rules = rulesFor(s.rules[order[k]])
  BY <1>2 DEF Complete
<1>4. \A k \in D : k \in taken <=> order[k] \in hit
  <2> SUFFICES ASSUME NEW k \in D PROVE k \in taken <=> order[k] \in hit
    OBVIOUS
  <2>1. s.rules[order[k]] \in Rule /\ s.rules[order[k]].path # NoPath /\ order[k] \in DOMAIN s.rules
    BY <1>1, <1>2
  <2>2. /\ rulesFor(s.rules[order[k]]) # <<>>
        /\ (\A rule \in ToSet(rulesFor(s.rules[order[k]])) : Holds(rule, h, p))
              <=> Covers(s.rules[order[k]], h, p)
    BY <2>1, RulesMatch
  <2> QED BY <2>1, <2>2, <1>3
<1>5. taken \in SUBSET D /\ hit \in SUBSET D
  BY <1>1, <1>3
<1>6. /\ Routed(l, h, p) = IF taken = {} THEN l.default
                           ELSE l.policies[CHOOSE k \in taken : \A j \in taken : k <= j].to
      /\ Said(s, h, p) = IF hit = {} THEN s.default
                         ELSE s.rules[CHOOSE k \in longest : \A j \in longest : k <= j].to
  BY DEF Routed, Said
<1> HIDE DEF taken, hit
<1>7. CASE hit = {}
  <2>1. taken = {}
    BY <1>4, <1>5, <1>7
  <2> QED BY <2>1, <1>6, <1>7
<1>8. CASE hit # {}
  <2>1. taken # {}
    <3>1. PICK i \in D : i \in hit
      BY <1>5, <1>8
    <3>2. PICK k \in D : order[k] = i
      BY <1>2
    <3> QED BY <3>1, <3>2, <1>4
  <2>2. \E k \in taken : \A j \in taken : k <= j
    <3>1. taken \in SUBSET Nat
      BY <1>5
    <3> QED BY <3>1, <2>1, LeastOf, Zenon
  <2> DEFINE first == CHOOSE k \in taken : \A j \in taken : k <= j
  <2>3. first \in taken /\ \A j \in taken : first <= j
    BY <2>2
  <2> HIDE DEF first
  <2>4. first \in D /\ order[first] \in hit /\ order[first] \in D
    BY <2>3, <1>2, <1>4, <1>5
  <2>5. ASSUME NEW j \in hit, j # order[first] PROVE Precedes(s, order[first], j)
    <3>1. PICK k \in D : order[k] = j
      BY <1>2, <1>5
    <3>2. k \in taken
      BY <3>1, <1>4
    <3>3. first < k
      BY <3>1, <3>2, <2>3, <2>4, <2>5
    <3> QED BY <3>1, <3>3, <2>4, <1>2
  <2>6. order[first] \in longest /\ \A j \in longest : order[first] <= j
    <3> DEFINE i == order[first]
    <3>1. i \in hit /\ len(i) \in Nat /\ i \in Nat
      BY <2>4, <1>1
    <3>2. \A j \in hit : len(j) \in Nat /\ j \in Nat
      BY <1>1, <1>5
    <3>3. \A j \in hit : j # i => len(i) > len(j) \/ (len(i) = len(j) /\ i < j)
      BY <2>5 DEF Precedes
    <3> HIDE DEF i
    <3>4. \A j \in hit : len(i) >= len(j)
      BY <3>1, <3>2, <3>3
    <3>5. ASSUME NEW j \in longest PROVE i <= j
      <4>1. j \in hit /\ len(j) >= len(i)
        BY <3>1
      <4> QED BY <4>1, <3>1, <3>2, <3>3
    <3>6. i \in longest
      BY <3>1, <3>4
    <3> QED BY <3>5, <3>6 DEF i
  <2> HIDE DEF longest
  <2>7. \A k \in longest : k \in Nat
    BY <1>1, <1>5 DEF longest
  <2>8. (CHOOSE k \in longest : \A j \in longest : k <= j) = order[first]
    BY <2>6, <2>7
  <2>9. Said(s, h, p) = s.rules[order[first]].to
    BY <2>8, <1>6, <1>8
  <2>10. Routed(l, h, p) = l.policies[first].to
    BY <2>1, <1>6 DEF first
  <2> QED BY <2>4, <2>9, <2>10, <1>3
<1> QED BY <1>7, <1>8

-----------------------------------------------------------------------------
(* Types.  TypeOK says of Octavia's objects and of the worker what a       *)
(* reader needs; what is invariant is the whole of their records, and how  *)
(* far a reconcile has come with what it has found.                        *)

L7Rule      == [on: {"host", "path"}, value: Host \cup Path, how: {"equal", "starts"}]
L7Policy    == [to: Backend, rules: Seq(L7Rule)]
ListenerRec == [proto: {"none", "http", "https"}, ref: Ref \cup {0}, sni: Seq(Ref),
                default: Backend \cup {NoBackend}, cidrs: {"any", "some"}, timeout: Nat,
                policies: Seq(L7Policy)]
ListenerSet == {l \in ListenerRec : l.proto = "https" <=> l.ref # 0}
PoolRec     == [made: 0..2, members: 0..1]
LBState     == {"none", "pending", "active", "deleting"}
LBRec       == [st: LBState, provider: STRING \cup {""}, listener: ListenerSet,
                pools: [Backend -> PoolRec]]
FIPRec      == [mark: {"none", "own", "keep", "tenant"}, port: LB \cup {0}]
BundleSet   == [secret: Secret, ver: 1..MaxCerts] \cup {NoBundle}

Early       == {"ensure", "byName", "wait", "record"}
Late        == {"tls", "pools", "listener", "clean", "members", "policies", "drop", "make",
                "gc", "address", "status"}
Teardown    == {"release", "delete"}
Holding     == {"wait", "record"} \cup Late \cup Teardown
PCs         == {"idle", "lookup", "bundles"} \cup Early \cup Late \cup Teardown
WorkerRec   == [pc: PCs, snap: IngRec, fresh: BOOLEAN, lb: LB \cup {0}, refs: Seq(Ref),
                n: Nat \ {0}, addr: Address, next: {"idle", "record", "tls"}]
SweepRec    == [pc: {"idle", "release", "delete", "list", "clean"}, id: LB \cup {0},
                doomed: SUBSET Ref, overtaken: BOOLEAN]

(* A worker that reconciles does it for an Ingress of this class, has a    *)
(* load balancer once it waits for one, and has one bundle for each of the *)
(* Secrets it has dealt with, hence for all of them at the listener.       *)
WorkerSet ==
    {x \in WorkerRec :
       /\ x.pc \in Early \cup Late => Wanted(x.snap)
       /\ x.pc \in Holding => x.lb \in LB
       /\ x.pc = "wait" => x.next \in {"record", "tls"}
       /\ x.pc \in Early => x.refs = <<>> /\ x.n = 1
       /\ x.pc = "tls" => Len(x.refs) = x.n - 1 /\ x.n <= Len(Manifest[x.snap.spec].tls) + 1
       /\ x.pc \in {"pools", "listener"} => Len(x.refs) = Len(Manifest[x.snap.spec].tls)}

K8sOK   == /\ ing \in IngRec /\ cache \in IngRec /\ fresh \in BOOLEAN
           /\ cert \in [Secret -> 1..MaxCerts] /\ eps \in [Backend -> 0..1]
ProcOK  == /\ served \in {"unknown", "yes", "no"} /\ queued \in BOOLEAN
           /\ events \in 0..MaxEvents
CloudOK == /\ bundles \in [Ref -> BundleSet] /\ lbs \in [LB -> LBRec] /\ fips \in [FIP -> FIPRec]
SweepOK == g \in SweepRec /\ (g.pc # "idle" => g.id \in LB)

TypeInv == K8sOK /\ ProcOK /\ CloudOK /\ w \in WorkerSet /\ SweepOK

LEMMA Numbers ==
    /\ MaxLBs \in Nat /\ MaxRefs \in Nat /\ MaxEvents \in Nat
    /\ MaxFIPs \in Nat /\ MaxFIPs > 0 /\ MaxCerts \in Nat /\ MaxCerts > 0
    /\ TenantFIP \in FIP
    /\ LB \in SUBSET Nat /\ 0 \notin LB /\ Ref \in SUBSET Nat /\ 0 \notin Ref
<1>1. /\ MaxLBs \in Nat /\ MaxRefs \in Nat /\ MaxEvents \in Nat
      /\ MaxFIPs \in Nat \ {0} /\ MaxCerts \in Nat \ {0}
  BY IngressConstants, Zenon
<1> QED BY <1>1 DEF TenantFIP, FIP, LB, Ref

LEMMA ManifestIs ==
    ASSUME NEW v \in Version
    PROVE  /\ IsManifest(Manifest[v])
           /\ Manifest[v].ours \in BOOLEAN /\ Manifest[v].provider \in STRING
           /\ Manifest[v].tls \in Seq(Secret) /\ Manifest[v].rules \in Seq(Rule)
           /\ Manifest[v].default \in Backend \cup {NoBackend}
           /\ Manifest[v].expose \in {"internal", "own", "keep", "tenant"}
           /\ Manifest[v].cidrs \in {"any", "some", "malformed"} /\ Manifest[v].timeout \in Nat
<1>1. IsManifest(Manifest[v])
  BY IngressConstants, Zenon
<1> QED BY <1>1 DEF IsManifest

LEMMA Steps ==
    /\ Order[1] = "tls"
    /\ ToSet(Order) = Late \ {"drop", "make"}
    /\ After("tls") = [w EXCEPT !.pc = "pools", !.n = 1]
    /\ After("pools") = [w EXCEPT !.pc = "listener", !.n = 1]
    /\ After("listener") = [w EXCEPT !.pc = "clean", !.n = 1]
    /\ After("clean") = [w EXCEPT !.pc = "members", !.n = 1]
    /\ After("members") = [w EXCEPT !.pc = "policies", !.n = 1]
    /\ After("policies") = [w EXCEPT !.pc = "gc", !.n = 1]
    /\ After("gc") = [w EXCEPT !.pc = "address", !.n = 1]
    /\ After("address") = [w EXCEPT !.pc = "status", !.n = 1]
<1>1. /\ DOMAIN Order = 1..9
      /\ Order[1] = "tls" /\ Order[2] = "pools" /\ Order[3] = "listener" /\ Order[4] = "clean"
      /\ Order[5] = "members" /\ Order[6] = "policies" /\ Order[7] = "gc"
      /\ Order[8] = "address" /\ Order[9] = "status"
  BY DEF Order
<1> DEFINE at(pc) == CHOOSE k \in DOMAIN Order : Order[k] = pc
<1>2. \A k \in 1..9 : k = 1 \/ k = 2 \/ k = 3 \/ k = 4 \/ k = 5 \/ k = 6 \/ k = 7 \/ k = 8 \/ k = 9
  OBVIOUS
<1> HIDE DEF Order
<1>3. at("tls") = 1 /\ at("pools") = 2 /\ at("listener") = 3 /\ at("clean") = 4
  BY <1>1, <1>2
<1>4. at("members") = 5 /\ at("policies") = 6 /\ at("gc") = 7 /\ at("address") = 8
  BY <1>1, <1>2
<1>5. ToSet(Order) = Late \ {"drop", "make"}
  BY <1>1, <1>2 DEF ToSet, Late
<1>6. \A pc : After(pc) = [w EXCEPT !.pc = Order[1 + at(pc)], !.n = 1]
  BY DEF After
<1> HIDE DEF at
<1>7. /\ 1 + at("tls") = 2 /\ 1 + at("pools") = 3 /\ 1 + at("listener") = 4 /\ 1 + at("clean") = 5
      /\ 1 + at("members") = 6 /\ 1 + at("policies") = 7 /\ 1 + at("gc") = 8
      /\ 1 + at("address") = 9
  BY <1>3, <1>4
<1> QED BY <1>1, <1>5, <1>6, <1>7

LEMMA Blanks ==
    /\ Absent \in IngRec /\ Absent.st = "absent" /\ Absent.lbId = 0
    /\ NoListener \in ListenerSet /\ NoListener.ref = 0 /\ NoListener.policies = <<>>
    /\ NoListener.default = NoBackend
    /\ NoPool \in PoolRec /\ NoPool.made = 0
    /\ NoLB \in LBRec /\ NoLB.st = "none" /\ NoLB.listener = NoListener
    /\ NoLB.pools = [b \in Backend |-> NoPool]
    /\ NoFIP \in FIPRec
    /\ Idle.pc = "idle" /\ Idle.snap = Absent /\ Idle.fresh = FALSE /\ Idle.lb = 0
    /\ Idle.refs = <<>> /\ Idle.n = 1
    /\ Idle \in WorkerSet
    /\ Resting \in SweepRec /\ Resting.pc = "idle"
<1>1. Absent.spec \in Version
  <2>1. \E v : v \in Version
    BY IngressConstants, Zenon
  <2> QED BY <2>1 DEF Absent
<1>2. None \in Address
  BY DEF None, Address
<1>3. Absent \in IngRec /\ Absent.st = "absent" /\ Absent.lbId = 0
  BY <1>1, <1>2 DEF Absent, IngRec
<1>4. /\ NoListener \in ListenerRec /\ NoListener.proto = "none" /\ NoListener.ref = 0
      /\ NoListener.policies = <<>> /\ NoListener.default = NoBackend
  BY DEF NoListener, ListenerRec
<1>5. NoListener \in ListenerSet
  BY <1>4 DEF ListenerSet
<1>6. NoPool \in PoolRec /\ NoPool.made = 0
  BY DEF NoPool, PoolRec
<1>7. /\ NoLB \in LBRec /\ NoLB.st = "none" /\ NoLB.listener = NoListener
      /\ NoLB.pools = [b \in Backend |-> NoPool]
  <2> DEFINE blank == [b \in Backend |-> NoPool]
  <2>1. blank \in [Backend -> PoolRec]
    BY <1>6
  <2>2. "" \in STRING \cup {""}
    OBVIOUS
  <2>3. NoLB = [st |-> "none", provider |-> "", listener |-> NoListener, pools |-> blank]
    BY DEF NoLB
  <2> HIDE DEF blank
  <2>4. NoLB \in LBRec /\ NoLB.st = "none" /\ NoLB.listener = NoListener /\ NoLB.pools = blank
    BY <1>5, <2>1, <2>2, <2>3 DEF LBRec, LBState
  <2> QED BY <2>4 DEF blank
<1>8. NoFIP \in FIPRec
  BY DEF NoFIP, FIPRec
<1>9. Idle \in WorkerRec
  BY <1>2, <1>3 DEF Idle, WorkerRec, PCs
<1>10. /\ Idle.pc = "idle" /\ Idle.snap = Absent /\ Idle.fresh = FALSE /\ Idle.lb = 0
       /\ Idle.refs = <<>> /\ Idle.n = 1
  BY DEF Idle
<1>11. Idle \in WorkerSet
  BY <1>9, <1>10 DEF WorkerSet, Early, Late, Holding, Teardown
<1>12. Resting \in SweepRec /\ Resting.pc = "idle"
  BY DEF Resting, SweepRec
<1> QED BY <1>3, <1>4, <1>5, <1>6, <1>7, <1>8, <1>10, <1>11, <1>12

LEMMA TypesFollow == TypeInv => TypeOK
<1> SUFFICES ASSUME TypeInv PROVE TypeOK
  OBVIOUS
<1>1. ASSUME NEW i \in LB
      PROVE  /\ lbs[i].st \in {"none", "pending", "active", "deleting"}
             /\ lbs[i].pools \in [Backend -> [made: 0..2, members: 0..1]]
             /\ lbs[i].listener.proto \in {"none", "http", "https"}
             /\ lbs[i].listener.ref \in Ref \cup {0}
             /\ lbs[i].listener.proto = "https" <=> lbs[i].listener.ref # 0
             /\ lbs[i].listener.cidrs \in {"any", "some"}
  <2>1. lbs[i] \in LBRec
    BY DEF TypeInv, CloudOK
  <2>2. /\ lbs[i].st \in LBState /\ lbs[i].listener \in ListenerSet
        /\ lbs[i].pools \in [Backend -> PoolRec]
    BY <2>1 DEF LBRec
  <2>3. /\ lbs[i].listener \in ListenerRec
        /\ lbs[i].listener.proto = "https" <=> lbs[i].listener.ref # 0
    BY <2>2 DEF ListenerSet
  <2> QED BY <2>2, <2>3 DEF ListenerRec, LBState, PoolRec
<1>2. /\ w.pc \in WorkerPC /\ w.snap \in IngRec /\ w.lb \in LB \cup {0}
      /\ ToSet(w.refs) \subseteq Ref /\ w.addr \in Address
  <2>1. w \in WorkerRec
    BY DEF TypeInv, WorkerSet
  <2>2. /\ w.pc \in PCs /\ w.snap \in IngRec /\ w.lb \in LB \cup {0}
        /\ w.refs \in Seq(Ref) /\ w.addr \in Address
    BY <2>1 DEF WorkerRec
  <2>3. w.pc \in WorkerPC
    BY <2>2, Steps DEF WorkerPC, PCs, Early, Late, Teardown
  <2> QED BY <2>2, <2>3 DEF ToSet
<1>3. g.pc \in {"idle", "release", "delete", "list", "clean"} /\ g.doomed \subseteq Ref
  BY DEF TypeInv, SweepOK, SweepRec
<1> QED BY <1>1, <1>2, <1>3 DEF TypeInv, TypeOK, K8sOK, ProcOK, CloudOK, FIPRec, BundleSet

LEMMA InitTypes == Init => TypeInv
<1> SUFFICES ASSUME Init PROVE TypeInv
  OBVIOUS
<1>1. ing \in IngRec
  <2>1. ASSUME NEW v \in Version, ing = [Absent EXCEPT !.st = "here", !.spec = v]
        PROVE  ing \in IngRec
    BY <2>1, Blanks DEF IngRec
  <2> QED BY <2>1, Blanks DEF Init
<1>2. K8sOK
  <2>1. cert = [s \in Secret |-> 1] /\ eps = [b \in Backend |-> 0]
    BY DEF Init
  <2>2. 1 \in 1..MaxCerts /\ 0 \in 0..1
    BY Numbers
  <2>3. cert \in [Secret -> 1..MaxCerts] /\ eps \in [Backend -> 0..1]
    BY <2>1, <2>2
  <2> QED BY <1>1, <2>3 DEF Init, K8sOK
<1>3. ProcOK
  <2>1. events = 0 /\ queued = (ing.st = "here") /\ served = "unknown"
    BY DEF Init
  <2>2. 0 \in 0..MaxEvents
    BY Numbers
  <2> QED BY <2>1, <2>2 DEF ProcOK
<1>4. CloudOK
  <2>1. bundles \in [Ref -> BundleSet] /\ lbs \in [LB -> LBRec]
    BY Blanks DEF Init, BundleSet
  <2>2. [mark |-> "tenant", port |-> 0] \in FIPRec
    BY DEF FIPRec
  <2>3. fips \in [FIP -> FIPRec]
    BY <2>2, Blanks DEF Init
  <2> QED BY <2>1, <2>3 DEF CloudOK
<1>5. w \in WorkerSet /\ SweepOK
  BY Blanks DEF Init, SweepOK
<1> QED BY <1>2, <1>3, <1>4, <1>5 DEF TypeInv

-----------------------------------------------------------------------------
(* The worker's steps.  Whatever a call does, the reconcile goes on from   *)
(* there or is over.                                                       *)

Outcome(x) == Goto(x) \/ Fail \/ (Fault /\ Failed)

LEMMA Outcomes ==
    ASSUME NEW x \in WorkerSet, ProcOK, Outcome(x), UNCHANGED served
    PROVE  ProcOK' /\ w' \in WorkerSet /\ (w' = x \/ w' = Idle)
<1>1. w' = x \/ w' = Idle
  BY DEF Outcome, Goto, Fail, Failed
<1>2. queued' \in BOOLEAN
  BY DEF Outcome, Goto, Fail, Failed, ProcOK
<1>3. events' \in 0..MaxEvents
  BY Numbers DEF Outcome, Goto, Fail, Failed, Fault, Spend, ProcOK
<1> QED BY <1>1, <1>2, <1>3, Blanks DEF ProcOK

LEMMA WorkerFields ==
    ASSUME TypeInv
    PROVE  /\ w \in WorkerRec /\ w.pc \in PCs /\ w.snap \in IngRec /\ w.fresh \in BOOLEAN
           /\ w.lb \in LB \cup {0} /\ w.refs \in Seq(Ref) /\ w.n \in Nat \ {0}
           /\ w.addr \in Address /\ w.next \in {"idle", "record", "tls"}
           /\ w.snap.spec \in Version /\ IsManifest(Asked)
<1>1. w \in WorkerRec
  BY DEF TypeInv, WorkerSet
<1>2. /\ w.pc \in PCs /\ w.snap \in IngRec /\ w.fresh \in BOOLEAN
      /\ w.lb \in LB \cup {0} /\ w.refs \in Seq(Ref) /\ w.n \in Nat \ {0}
      /\ w.addr \in Address /\ w.next \in {"idle", "record", "tls"}
  BY <1>1 DEF WorkerRec
<1>3. w.snap.spec \in Version
  BY <1>2 DEF IngRec
<1> QED BY <1>1, <1>2, <1>3, ManifestIs DEF Asked

(* A step to another place, and to another position there.                 *)
LEMMA Moved ==
    ASSUME TypeInv, NEW pc \in PCs, NEW n \in Nat \ {0}
    PROVE  LET x == [w EXCEPT !.pc = pc, !.n = n] IN
           /\ x \in WorkerRec /\ x.pc = pc /\ x.n = n /\ x.snap = w.snap /\ x.lb = w.lb
           /\ x.refs = w.refs /\ x.next = w.next /\ x.addr = w.addr /\ x.fresh = w.fresh
BY WorkerFields DEF WorkerRec

LEMMA MovedPC ==
    ASSUME TypeInv, NEW pc \in PCs
    PROVE  [w EXCEPT !.pc = pc] = [w EXCEPT !.pc = pc, !.n = w.n]
BY WorkerFields DEF WorkerRec

LEMMA MovedN ==
    ASSUME TypeInv, NEW n \in Nat \ {0}
    PROVE  [w EXCEPT !.n = n] = [w EXCEPT !.pc = w.pc, !.n = n]
BY WorkerFields DEF WorkerRec

LEMMA Later ==
    ASSUME TypeInv, w.pc \in Late, NEW pc \in Late \ {"tls", "pools", "listener"},
           NEW n \in Nat \ {0}
    PROVE  [w EXCEPT !.pc = pc, !.n = n] \in WorkerSet
<1> DEFINE x == [w EXCEPT !.pc = pc, !.n = n]
<1>1. pc \in PCs
  BY DEF PCs
<1>2. /\ x \in WorkerRec /\ x.pc = pc /\ x.snap = w.snap /\ x.lb = w.lb
  BY <1>1, Moved
<1>3. Wanted(w.snap) /\ w.lb \in LB
  BY DEF TypeInv, WorkerSet, Holding
<1>4. pc \notin Early /\ pc # "wait" /\ pc # "tls" /\ pc \notin {"pools", "listener"}
  BY DEF Early, Late
<1> HIDE DEF x
<1>5. x \in WorkerSet
  BY <1>2, <1>3, <1>4 DEF WorkerSet
<1> QED BY <1>5 DEF x

LEMMA LaterIs ==
    ASSUME TypeInv, w.pc \in Late, NEW pc \in Late \ {"tls", "pools", "listener"},
           NEW n \in Nat \ {0}
    PROVE  LET x == [w EXCEPT !.pc = pc, !.n = n] IN
           /\ x \in WorkerSet /\ x.pc = pc /\ x.n = n /\ x.lb = w.lb /\ x.snap = w.snap
           /\ x.fresh = w.fresh /\ x.refs = w.refs
<1>1. pc \in PCs
  BY DEF PCs
<1> QED BY <1>1, Moved, Later

LEMMA LaterPC ==
    ASSUME TypeInv, w.pc \in Late, NEW pc \in Late \ {"tls", "pools", "listener"}
    PROVE  [w EXCEPT !.pc = pc] \in WorkerSet
BY MovedPC, Later, WorkerFields DEF PCs

LEMMA LaterN ==
    ASSUME TypeInv, w.pc \in Late \ {"tls", "pools", "listener"}, NEW n \in Nat \ {0}
    PROVE  [w EXCEPT !.n = n] \in WorkerSet
BY MovedN, Later

LEMMA Framed ==
    ASSUME TypeInv, WorkerFrame, ing' \in IngRec, fresh' \in BOOLEAN, CloudOK', ProcOK',
           w' \in WorkerSet
    PROVE  TypeInv'
BY DEF TypeInv, WorkerFrame, K8sOK, SweepOK

LEMMA FramedQuiet ==
    ASSUME TypeInv, WorkerFrame, ApiFrame, CloudOK', NEW x \in WorkerSet, Outcome(x)
    PROVE  TypeInv' /\ (w' = x \/ w' = Idle)
<1>1. ing' \in IngRec /\ fresh' \in BOOLEAN
  BY DEF TypeInv, K8sOK, ApiFrame
<1>2. ProcOK' /\ w' \in WorkerSet /\ (w' = x \/ w' = Idle)
  BY Outcomes DEF TypeInv, WorkerFrame
<1> QED BY <1>1, <1>2, Framed

LEMMA CloudSame ==
    ASSUME TypeInv, UNCHANGED cloud
    PROVE  CloudOK'
BY DEF TypeInv, CloudOK, cloud

LEMMA LBFields ==
    ASSUME TypeInv, NEW i \in LB
    PROVE  /\ lbs[i] \in LBRec /\ lbs[i].st \in LBState
           /\ lbs[i].provider \in STRING \cup {""}
           /\ lbs[i].listener \in ListenerSet /\ lbs[i].listener \in ListenerRec
           /\ lbs[i].pools \in [Backend -> PoolRec]
           /\ lbs[i].listener.policies \in Seq(L7Policy)
<1>1. lbs[i] \in LBRec
  BY DEF TypeInv, CloudOK
<1>2. /\ lbs[i].st \in LBState /\ lbs[i].listener \in ListenerSet
      /\ lbs[i].provider \in STRING \cup {""}
      /\ lbs[i].pools \in [Backend -> PoolRec]
  BY <1>1 DEF LBRec
<1>3. lbs[i].listener \in ListenerRec
  BY <1>2 DEF ListenerSet
<1> QED BY <1>1, <1>2, <1>3 DEF ListenerRec

LEMMA LBWith ==
    ASSUME NEW x \in LBRec
    PROVE  /\ \A st \in LBState : [x EXCEPT !.st = st] \in LBRec
           /\ \A l \in ListenerSet : [x EXCEPT !.listener = l] \in LBRec
           /\ \A p \in [Backend -> PoolRec] : [x EXCEPT !.pools = p] \in LBRec
BY DEF LBRec

(* What Change does: the load balancer is as asked, if the worker goes on. *)
LEMMA Changes ==
    ASSUME TypeInv, w.lb \in LB, NEW new \in LBRec, NEW then, Change(new, then),
           UNCHANGED <<bundles, fips>>, new.st = lbs[w.lb].st
    PROVE  /\ CloudOK' /\ Outcome(then)
           /\ \A i \in LB : i # w.lb => lbs'[i] = lbs[i]
           /\ \/ lbs' = lbs /\ w' = Idle
              \/ lbs[w.lb].st = "active" /\ lbs'[w.lb] = new /\ w' = then
              \/ /\ lbs[w.lb].st = "active" /\ w' = Idle
                 /\ lbs'[w.lb].st = "pending" /\ lbs'[w.lb].listener = new.listener
                 /\ lbs'[w.lb].pools = new.pools
<1> DEFINE held == [new EXCEPT !.st = "pending"]
<1>1. held \in LBRec /\ held.st = "pending" /\ held.listener = new.listener /\ held.pools = new.pools
  BY DEF LBRec, LBState
<1>2. lbs \in [LB -> LBRec] /\ bundles \in [Ref -> BundleSet] /\ fips \in [FIP -> FIPRec]
  BY DEF TypeInv, CloudOK
<1> HIDE DEF held
<1>3. CASE lbs[w.lb].st # "active" /\ Fail /\ UNCHANGED lbs
  BY <1>2, <1>3 DEF CloudOK, Outcome, Fail
<1>4. CASE lbs[w.lb].st = "active" /\ lbs' = [lbs EXCEPT ![w.lb] = new] /\ Goto(then)
  BY <1>2, <1>4 DEF CloudOK, Outcome, Goto
<1>5. CASE lbs[w.lb].st = "active" /\ lbs' = [lbs EXCEPT ![w.lb] = held] /\ Fault /\ Failed
  BY <1>1, <1>2, <1>5 DEF CloudOK, Outcome, Failed
<1> QED BY <1>3, <1>4, <1>5 DEF Change, held

LEMMA TakeTypes == ASSUME TypeInv, Take PROVE TypeInv'
<1> DEFINE new == [Idle EXCEPT !.snap = cache, !.fresh = fresh]
           x(pc) == [new EXCEPT !.pc = pc]
<1>1. cache \in IngRec /\ fresh \in BOOLEAN /\ served \in {"unknown", "yes", "no"}
  BY DEF TypeInv, K8sOK, ProcOK
<1>2. Idle \in WorkerRec /\ Idle.refs = <<>> /\ Idle.n = 1
  BY Blanks DEF WorkerSet
<1>3. \A pc \in PCs : /\ x(pc) \in WorkerRec /\ x(pc).pc = pc /\ x(pc).snap = cache
                      /\ x(pc).refs = <<>> /\ x(pc).n = 1
  BY <1>1, <1>2 DEF WorkerRec
<1> HIDE DEF x
<1>4. x("lookup") \in WorkerSet
  <2>1. "lookup" \in PCs /\ "lookup" \notin Early \cup Late /\ "lookup" \notin Holding
    BY DEF PCs, Early, Late, Holding, Teardown
  <2> QED BY <1>3, <2>1 DEF WorkerSet
<1>5. Wanted(cache) => x("ensure") \in WorkerSet
  <2>1. "ensure" \in PCs /\ "ensure" \notin Holding
    BY DEF PCs, Early, Late, Holding, Teardown
  <2> QED BY <1>3, <2>1 DEF WorkerSet
<1>6. w' \in WorkerSet /\ queued' \in BOOLEAN
  BY <1>4, <1>5, Blanks DEF Take, x, TypeInv, ProcOK
<1>7. ProcOK'
  BY <1>6 DEF Take, TypeInv, ProcOK, WorkerFrame
<1>8. CloudOK'
  BY CloudSame DEF Take
<1>9. WorkerFrame /\ ing' \in IngRec /\ fresh' \in BOOLEAN
  BY DEF Take, ApiFrame, TypeInv, K8sOK
<1> QED BY <1>6, <1>7, <1>8, <1>9, Framed

LEMMA CallFailsTypes == ASSUME TypeInv, CallFails PROVE TypeInv'
<1>1. Outcome(Idle) /\ WorkerFrame /\ ApiFrame
  BY DEF CallFails, Outcome
<1>2. CloudOK'
  BY CloudSame DEF CallFails
<1> QED BY <1>1, <1>2, Blanks, FramedQuiet

(* A load balancer found or made is waited for.                            *)
LEMMA Waits ==
    ASSUME TypeInv, w.pc \in {"ensure", "byName"}, NEW i \in LB, NEW next \in {"record", "tls"}
    PROVE  LET x == [w EXCEPT !.pc = "wait", !.lb = i, !.next = next] IN
           /\ x \in WorkerSet /\ x.pc = "wait" /\ x.lb = i /\ x.next = next
           /\ x.snap = w.snap /\ x.fresh = w.fresh
<1> DEFINE x == [w EXCEPT !.pc = "wait", !.lb = i, !.next = next]
<1>1. /\ x \in WorkerRec /\ x.pc = "wait" /\ x.lb = i /\ x.next = next
      /\ x.snap = w.snap /\ x.fresh = w.fresh /\ x.refs = w.refs /\ x.n = w.n
  BY WorkerFields DEF WorkerRec, PCs, Early
<1>2. Wanted(w.snap) /\ w.refs = <<>> /\ w.n = 1
  BY DEF TypeInv, WorkerSet, Early
<1> HIDE DEF x
<1>3. x \in WorkerSet
  BY <1>1, <1>2 DEF WorkerSet
<1> QED BY <1>1, <1>3 DEF x

LEMMA FoundOutcome ==
    ASSUME TypeInv, w.pc \in {"ensure", "byName"}, NEW i \in LB, NEW next \in {"record", "tls"},
           Found(i, next)
    PROVE  \E x \in WorkerSet : Outcome(x) /\ (w' = x \/ w' = Idle)
<1> DEFINE x == [w EXCEPT !.pc = "wait", !.lb = i, !.next = next]
<1>1. x \in WorkerSet
  BY Waits
<1>2. Outcome(x) /\ (w' = x \/ w' = Idle)
  BY DEF Found, Outcome, Goto, Fail
<1> HIDE DEF x
<1> QED BY <1>1, <1>2

LEMMA EnsureByIDTypes == ASSUME TypeInv, EnsureByID PROVE TypeInv'
<1> DEFINE id == w.snap.lbId
<1>1. WorkerFrame /\ ApiFrame /\ CloudOK' /\ w.pc = "ensure"
  BY CloudSame DEF EnsureByID
<1>2. CASE id # 0 /\ Alive(id)
  <2>1. id \in LB
    BY <1>2, WorkerFields DEF IngRec
  <2>2. Found(id, "tls")
    BY <1>2 DEF EnsureByID
  <2>3. PICK x \in WorkerSet : Outcome(x)
    BY <1>1, <2>1, <2>2, FoundOutcome
  <2> QED BY <1>1, <2>3, FramedQuiet
<1>3. CASE ~ (id # 0 /\ Alive(id))
  <2> DEFINE x == [w EXCEPT !.pc = "byName"]
  <2>1. /\ x \in WorkerRec /\ x.pc = "byName" /\ x.snap = w.snap /\ x.refs = w.refs /\ x.n = w.n
    BY WorkerFields DEF WorkerRec, PCs, Early
  <2>2. Wanted(w.snap) /\ w.refs = <<>> /\ w.n = 1
    BY <1>1 DEF TypeInv, WorkerSet, Early
  <2>3. Outcome(x)
    BY <1>3 DEF EnsureByID, Outcome
  <2> HIDE DEF x
  <2>4. "byName" \notin Holding
    BY DEF Holding, Late, Teardown
  <2>5. x \in WorkerSet
    BY <2>1, <2>2, <2>4 DEF WorkerSet
  <2> QED BY <1>1, <2>3, <2>5, FramedQuiet
<1> QED BY <1>2, <1>3

LEMMA NewLBChosen ==
    ASSUME NewLB # {}
    PROVE  LET i == CHOOSE i \in NewLB : \A j \in NewLB : i <= j IN
           /\ i \in LB /\ ~ Alive(i) /\ g.id # i
           /\ \A x \in {ing, cache, w.snap} : x.lbId # i
<1>1. NewLB \in SUBSET Nat
  BY Numbers DEF NewLB
<1>2. \E i \in NewLB : \A j \in NewLB : i <= j
  BY <1>1, LeastOf, Zenon
<1>3. (CHOOSE i \in NewLB : \A j \in NewLB : i <= j) \in NewLB
  BY <1>2
<1> QED BY <1>3 DEF NewLB

LEMMA EnsureByNameTypes == ASSUME TypeInv, EnsureByName PROVE TypeInv'
<1> DEFINE found == {i \in LB : Alive(i)}
           i == CHOOSE i \in NewLB : \A j \in NewLB : i <= j
           made == [NoLB EXCEPT !.st = "pending", !.provider = Asked.provider]
           x == [w EXCEPT !.pc = "wait", !.lb = i, !.next = "record"]
<1>1. WorkerFrame /\ ApiFrame /\ w.pc = "byName" /\ UNCHANGED <<bundles, fips>>
  BY DEF EnsureByName
<1>2. UNCHANGED lbs => CloudOK'
  BY <1>1, CloudSame DEF cloud
<1>3. CASE \E j \in found : Found(j, "record") /\ UNCHANGED lbs
  <2>1. PICK j \in LB : Found(j, "record") /\ UNCHANGED lbs
    BY <1>3
  <2>2. PICK y \in WorkerSet : Outcome(y)
    BY <1>1, <2>1, FoundOutcome
  <2> QED BY <1>1, <1>2, <2>1, <2>2, FramedQuiet
<1>4. CASE Fail /\ UNCHANGED lbs
  <2>1. Outcome(Idle)
    BY <1>4 DEF Outcome
  <2> QED BY <1>1, <1>2, <1>4, <2>1, Blanks, FramedQuiet
<1>5. CASE NewLB # {} /\ lbs' = [lbs EXCEPT ![i] = made] /\ Answered(x)
  <2>1. i \in LB
    BY <1>5, NewLBChosen
  <2>2. Asked.provider \in STRING
    BY WorkerFields, ManifestIs DEF Asked
  <2>3. made \in LBRec
    BY <2>2, Blanks DEF LBRec, LBState
  <2>4. x \in WorkerSet
    BY <1>1, <2>1, Waits
  <2>5. Outcome(x)
    BY <1>5 DEF Answered, Outcome
  <2> HIDE DEF x, made, i
  <2>6. CloudOK'
    BY <1>1, <1>5, <2>1, <2>3 DEF TypeInv, CloudOK
  <2> QED BY <1>1, <2>4, <2>5, <2>6, FramedQuiet
<1> QED BY <1>3, <1>4, <1>5 DEF EnsureByName

(* The reconcile begins with the certificates once its load balancer is    *)
(* recorded.                                                               *)
LEMMA Begins ==
    ASSUME TypeInv, w.pc \in {"wait", "record"}, NEW fr \in BOOLEAN
    PROVE  LET x == [w EXCEPT !.pc = "tls", !.fresh = fr] IN
           /\ x \in WorkerSet /\ x.pc = "tls" /\ x.lb = w.lb /\ x.snap = w.snap /\ x.fresh = fr
           /\ x.refs = <<>>
<1> DEFINE x == [w EXCEPT !.pc = "tls", !.fresh = fr]
<1>1. /\ x \in WorkerRec /\ x.pc = "tls" /\ x.lb = w.lb /\ x.snap = w.snap /\ x.fresh = fr
      /\ x.refs = w.refs /\ x.n = w.n
  BY WorkerFields DEF WorkerRec, PCs, Late
<1>2. Wanted(w.snap) /\ w.refs = <<>> /\ w.n = 1 /\ w.lb \in LB
  BY DEF TypeInv, WorkerSet, Early, Holding
<1>3. Len(<<>>) = 1 - 1 /\ 1 <= Len(Asked.tls) + 1
  <2>1. Asked.tls \in Seq(Secret)
    BY WorkerFields, ManifestIs DEF Asked
  <2>2. Len(Asked.tls) \in Nat
    BY <2>1
  <2> QED BY <2>2
<1> HIDE DEF x
<1>4. "tls" \notin Early
  BY DEF Early
<1>5. x \in WorkerSet
  BY <1>1, <1>2, <1>3, <1>4 DEF WorkerSet, Asked
<1> QED BY <1>1, <1>2, <1>5 DEF x

LEMMA BeginsAsIs ==
    ASSUME TypeInv, w.pc \in {"wait", "record"}
    PROVE  LET x == [w EXCEPT !.pc = "tls"] IN
           /\ x \in WorkerSet /\ x.pc = "tls" /\ x.lb = w.lb /\ x.snap = w.snap
           /\ x.fresh = w.fresh /\ x.refs = <<>>
<1>1. [w EXCEPT !.pc = "tls"] = [w EXCEPT !.pc = "tls", !.fresh = w.fresh]
  BY WorkerFields DEF WorkerRec
<1>2. w.fresh \in BOOLEAN
  BY WorkerFields
<1> QED BY <1>1, <1>2, Begins

LEMMA WaitActiveTypes == ASSUME TypeInv, WaitActive PROVE TypeInv'
<1> DEFINE x == [w EXCEPT !.pc = w.next]
<1>1. WorkerFrame /\ ApiFrame /\ CloudOK' /\ w.pc = "wait"
  BY CloudSame DEF WaitActive
<1>2. w.next \in {"record", "tls"}
  BY <1>1 DEF TypeInv, WorkerSet
<1>3. x \in WorkerSet
  <2>1. CASE w.next = "tls"
    BY <1>1, <2>1, BeginsAsIs
  <2>2. CASE w.next = "record"
    <3>1. /\ x \in WorkerRec /\ x.pc = "record" /\ x.lb = w.lb /\ x.snap = w.snap
          /\ x.refs = w.refs /\ x.n = w.n
      BY <2>2, WorkerFields DEF WorkerRec, PCs, Early
    <3>2. Wanted(w.snap) /\ w.refs = <<>> /\ w.n = 1 /\ w.lb \in LB
      BY <1>1 DEF TypeInv, WorkerSet, Early, Holding
    <3> HIDE DEF x
    <3> QED BY <3>1, <3>2 DEF WorkerSet
  <2> QED BY <1>2, <2>1, <2>2
<1>4. Outcome(x) \/ Outcome(Idle)
  BY DEF WaitActive, Outcome
<1> HIDE DEF x
<1> QED BY <1>1, <1>3, <1>4, Blanks, FramedQuiet

LEMMA RecordIDTypes == ASSUME TypeInv, RecordID PROVE TypeInv'
<1> DEFINE x == [w EXCEPT !.pc = "tls"]
           y == [w EXCEPT !.pc = "tls", !.fresh = FALSE]
<1>1. WorkerFrame /\ CloudOK' /\ w.pc = "record"
  BY CloudSame DEF RecordID
<1>2. x \in WorkerSet /\ y \in WorkerSet
  BY <1>1, Begins, BeginsAsIs
<1>3. CASE ApiFrame /\ (Goto(x) \/ Fail)
  <2>1. Outcome(x)
    BY <1>3 DEF Outcome
  <2> QED BY <1>1, <1>2, <1>3, <2>1, FramedQuiet
<1>4. CASE ing' = [w.snap EXCEPT !.lbId = w.lb] /\ fresh' = FALSE /\ Answered(y)
  <2>1. ing' \in IngRec
    BY <1>4, WorkerFields DEF IngRec
  <2>2. Outcome(y)
    BY <1>4 DEF Answered, Outcome
  <2>3. ProcOK' /\ w' \in WorkerSet
    BY <1>1, <1>2, <2>2, Outcomes DEF TypeInv, WorkerFrame
  <2> QED BY <1>1, <1>4, <2>1, <2>3, Framed
<1> QED BY <1>3, <1>4, Steps DEF RecordID

LEMMA NewRefChosen ==
    ASSUME NewRef # {}
    PROVE  LET r == CHOOSE r \in NewRef : \A q \in NewRef : r <= q IN
           /\ r \in Ref /\ r \notin Stored
<1>1. NewRef \in SUBSET Nat
  BY Numbers DEF NewRef
<1>2. \E r \in NewRef : \A q \in NewRef : r <= q
  BY <1>1, LeastOf, Zenon
<1>3. (CHOOSE r \in NewRef : \A q \in NewRef : r <= q) \in NewRef
  BY <1>2
<1> QED BY <1>3 DEF NewRef

LEMMA Appended ==
    ASSUME TypeInv, NEW n \in Nat \ {0}, NEW refs \in Seq(Ref)
    PROVE  LET x == [w EXCEPT !.n = n, !.refs = refs] IN
           /\ x \in WorkerRec /\ x.pc = w.pc /\ x.n = n /\ x.snap = w.snap /\ x.lb = w.lb
           /\ x.refs = refs /\ x.fresh = w.fresh
BY WorkerFields DEF WorkerRec

LEMMA EnsureTLSTypes == ASSUME TypeInv, EnsureTLS PROVE TypeInv'
<1> DEFINE tls == Asked.tls
           has(r) == [w EXCEPT !.n = @ + 1, !.refs = Append(@, r)]
           new == CHOOSE r \in NewRef : \A q \in NewRef : r <= q
           made == [secret |-> tls[w.n], ver |-> cert[tls[w.n]]]
<1>1. /\ WorkerFrame /\ ApiFrame /\ w.pc = "tls" /\ UNCHANGED <<lbs, fips>>
  BY DEF EnsureTLS
<1>2. /\ Wanted(w.snap) /\ w.lb \in LB /\ w.n \in Nat \ {0} /\ w.refs \in Seq(Ref)
      /\ Len(w.refs) = w.n - 1 /\ w.n <= Len(tls) + 1
      /\ tls \in Seq(Secret) /\ Len(tls) \in Nat
  <2>1. tls \in Seq(Secret)
    BY WorkerFields, ManifestIs DEF Asked
  <2>2. Wanted(w.snap) /\ w.lb \in LB /\ Len(w.refs) = w.n - 1 /\ w.n <= Len(tls) + 1
    BY <1>1 DEF TypeInv, WorkerSet, Late, Holding, Asked
  <2> QED BY <2>1, <2>2, WorkerFields
<1>3. UNCHANGED bundles => CloudOK'
  BY <1>1, CloudSame DEF cloud
<1>4. CASE w.n > Len(tls)
  <2> DEFINE x == [w EXCEPT !.pc = "pools", !.n = 1]
  <2>1. Goto(x) /\ UNCHANGED bundles
    BY <1>4, Steps DEF EnsureTLS
  <2>2. "pools" \in PCs /\ "pools" \notin Early
    BY DEF PCs, Late, Early
  <2>3. /\ x \in WorkerRec /\ x.pc = "pools" /\ x.lb = w.lb /\ x.snap = w.snap /\ x.refs = w.refs
    <3>1. 1 \in Nat \ {0}
      OBVIOUS
    <3> QED BY <2>2, <3>1, Moved
  <2> HIDE DEF x
  <2>4. Len(w.refs) = Len(tls)
    BY <1>2, <1>4
  <2>5. x \in WorkerSet
    BY <1>2, <2>2, <2>3, <2>4 DEF WorkerSet, Asked
  <2>6. Outcome(x)
    BY <2>1 DEF Outcome
  <2> QED BY <1>1, <1>3, <2>1, <2>5, <2>6, FramedQuiet
<1>5. CASE ~ (w.n > Len(tls))
  <2>1. ASSUME NEW r \in Ref PROVE has(r) \in WorkerSet
    <3> DEFINE x == has(r)
    <3>1. Append(w.refs, r) \in Seq(Ref) /\ Len(Append(w.refs, r)) = w.n
      BY <1>2
    <3>2. /\ x \in WorkerRec /\ x.pc = "tls" /\ x.lb = w.lb /\ x.snap = w.snap
          /\ x.refs = Append(w.refs, r) /\ x.n = w.n + 1
      <4>1. w.n + 1 \in Nat \ {0}
        BY <1>2
      <4> QED BY <1>1, <3>1, <4>1, Appended
    <3>3. "tls" \notin Early
      BY DEF Early
    <3> HIDE DEF x
    <3>4. Len(x.refs) = x.n - 1 /\ x.n <= Len(tls) + 1
      BY <1>2, <1>5, <3>1, <3>2
    <3>5. x \in WorkerSet
      BY <1>2, <3>2, <3>3, <3>4 DEF WorkerSet, Asked
    <3> QED BY <3>5 DEF x
  <2>2. CASE \E r \in Stored : Goto(has(r)) /\ UNCHANGED bundles
    <3>1. PICK r \in Ref : Goto(has(r)) /\ UNCHANGED bundles
      BY <2>2 DEF Stored
    <3>2. Outcome(has(r)) /\ has(r) \in WorkerSet
      BY <2>1, <3>1 DEF Outcome
    <3> HIDE DEF has
    <3> QED BY <1>1, <1>3, <3>1, <3>2, FramedQuiet
  <2>3. CASE NewRef # {} /\ bundles' = [bundles EXCEPT ![new] = made] /\ Answered(has(new))
    <3>1. new \in Ref
      BY <2>3, NewRefChosen
    <3>2. tls[w.n] \in Secret
      BY <1>2, <1>5
    <3>3. made \in BundleSet
      BY <3>2 DEF TypeInv, K8sOK, BundleSet
    <3>4. Outcome(has(new)) /\ has(new) \in WorkerSet
      BY <2>1, <2>3, <3>1 DEF Answered, Outcome
    <3> HIDE DEF has, new, made
    <3>5. CloudOK'
      BY <1>1, <2>3, <3>1, <3>3 DEF TypeInv, CloudOK
    <3> QED BY <1>1, <3>4, <3>5, FramedQuiet
  <2> QED BY <1>5, <2>2, <2>3 DEF EnsureTLS
<1> QED BY <1>4, <1>5

(* What the worker looks up is what its Ingress asks for.                  *)
LEMMA AskedIs ==
    ASSUME TypeInv
    PROVE  AskedBackends = collectBackends(Asked) /\ AskedPolicies = buildDesiredPolicies(Asked)
<1>1. w.snap.spec \in Version
  BY WorkerFields
<1> QED BY <1>1 DEF AskedBackends, AskedPolicies, BackendsBy, PoliciesBy, Asked

LEMMA BackendsAsked ==
    ASSUME TypeInv
    PROVE  /\ AskedBackends \in Seq(Backend) /\ Len(AskedBackends) \in Nat
           /\ \A n \in Nat \ {0} : ~ (n > Len(AskedBackends)) =>
                                       AskedBackends[n] \in Backend
<1> DEFINE all == AskedBackends
<1>1. all \in Seq(Backend)
  BY WorkerFields, AskedIs, BackendsListed
<1> HIDE DEF all
<1>2. Len(all) \in Nat /\ \A n \in Nat \ {0} : ~ (n > Len(all)) => all[n] \in Backend
  BY <1>1
<1> QED BY <1>1, <1>2 DEF all

LEMMA PoolWith ==
    ASSUME NEW x \in LBRec, NEW b \in Backend
    PROVE  /\ \A m \in 0..2 : [x EXCEPT !.pools[b].made = m]
                              = [x EXCEPT !.pools = [x.pools EXCEPT ![b] = [x.pools[b] EXCEPT !.made = m]]]
           /\ \A m \in 0..1 : [x EXCEPT !.pools[b].members = m]
                              = [x EXCEPT !.pools = [x.pools EXCEPT ![b] = [x.pools[b] EXCEPT !.members = m]]]
           /\ [x EXCEPT !.pools[b] = NoPool] = [x EXCEPT !.pools = [x.pools EXCEPT ![b] = NoPool]]
BY DEF LBRec

LEMMA PoolsWith ==
    ASSUME NEW x \in LBRec, NEW b \in Backend, NEW q \in PoolRec
    PROVE  LET y == [x EXCEPT !.pools = [x.pools EXCEPT ![b] = q]] IN
           /\ y \in LBRec /\ y.st = x.st /\ y.listener = x.listener
           /\ y.pools = [x.pools EXCEPT ![b] = q]
<1>1. x.pools \in [Backend -> PoolRec]
  BY DEF LBRec
<1>2. [x.pools EXCEPT ![b] = q] \in [Backend -> PoolRec]
  BY <1>1
<1> QED BY <1>2 DEF LBRec

(* A change leaves every other load balancer alone, and is made to one     *)
(* that is ACTIVE, or not at all.                                          *)
ChangesHeld ==
    /\ \A i \in LB : i # w.lb => lbs'[i] = lbs[i]
    /\ \/ lbs'[w.lb] = lbs[w.lb]
       \/ lbs[w.lb].st = "active" /\ lbs'[w.lb].st \in {"active", "pending"}

(* The reconcile goes on with the Ingress and the load balancer it has, or *)
(* is over.                                                                *)
GoesOn ==
    \/ w' = Idle
    \/ /\ w'.pc \in Late /\ w'.lb = w.lb /\ w'.snap = w.snap /\ w'.fresh = w.fresh
       /\ w'.refs = w.refs

LEMMA Unchanging ==
    ASSUME TypeInv, w.lb \in LB, WorkerFrame, ApiFrame, UNCHANGED <<bundles, fips>>, UNCHANGED lbs,
           NEW then \in WorkerSet, Goto(then) \/ Fail
    PROVE  TypeInv' /\ ChangesHeld /\ (w' = Idle \/ w' = then)
<1>1. CloudOK'
  BY CloudSame DEF cloud
<1>2. Outcome(then)
  BY DEF Outcome
<1> QED BY <1>1, <1>2, FramedQuiet DEF ChangesHeld

LEMMA Changing ==
    ASSUME TypeInv, w.lb \in LB, WorkerFrame, ApiFrame, UNCHANGED <<bundles, fips>>,
           NEW new \in LBRec, new.st = lbs[w.lb].st, NEW then \in WorkerSet, Change(new, then)
    PROVE  /\ TypeInv' /\ ChangesHeld /\ (w' = Idle \/ w' = then)
           /\ \/ lbs' = lbs /\ w' = Idle
              \/ /\ lbs[w.lb].st = "active" /\ lbs'[w.lb].st \in {"active", "pending"}
                 /\ lbs'[w.lb].listener = new.listener /\ lbs'[w.lb].pools = new.pools
<1>1. /\ CloudOK' /\ Outcome(then)
      /\ \A i \in LB : i # w.lb => lbs'[i] = lbs[i]
      /\ \/ lbs' = lbs /\ w' = Idle
         \/ lbs[w.lb].st = "active" /\ lbs'[w.lb] = new /\ w' = then
         \/ /\ lbs[w.lb].st = "active" /\ w' = Idle
            /\ lbs'[w.lb].st = "pending" /\ lbs'[w.lb].listener = new.listener
            /\ lbs'[w.lb].pools = new.pools
  BY Changes
<1>2. TypeInv' /\ (w' = Idle \/ w' = then)
  BY <1>1, FramedQuiet
<1> QED BY <1>1, <1>2 DEF ChangesHeld

LEMMA LateHolds ==
    ASSUME TypeInv, w.pc \in Late
    PROVE  w.lb \in LB /\ Wanted(w.snap) /\ w \in WorkerSet
BY DEF TypeInv, WorkerSet, Holding

LEMMA OneIs == 1 \in Nat \ {0}
OBVIOUS

(* ensureBackendPool makes pools and deletes none.                         *)
LEMMA PoolStep ==
    ASSUME TypeInv, EnsureBackendPool
    PROVE  /\ TypeInv' /\ ChangesHeld /\ GoesOn /\ bundles' = bundles
           /\ \A i \in LB : /\ lbs'[i].listener = lbs[i].listener
                            /\ \A b \in Backend : lbs[i].pools[b].made > 0 => lbs'[i].pools[b].made > 0
           /\ w' # Idle => w'.pc \in {"pools", "listener"}
<1> DEFINE all == AskedBackends
           on == [w EXCEPT !.n = @ + 1]
           done == [w EXCEPT !.pc = "listener", !.n = 1]
<1>1. /\ WorkerFrame /\ ApiFrame /\ w.pc = "pools" /\ UNCHANGED <<bundles, fips>> /\ w.pc \in Late
  BY DEF EnsureBackendPool, Late
<1>2. w.lb \in LB /\ Wanted(w.snap) /\ Len(w.refs) = Len(Asked.tls)
  BY <1>1 DEF TypeInv, WorkerSet, Holding, Asked
<1>3. w \in WorkerSet /\ w.n \in Nat \ {0}
  BY WorkerFields DEF TypeInv
<1>4. on \in WorkerSet /\ on.pc = "pools" /\ on.lb = w.lb /\ on.snap = w.snap /\ on.fresh = w.fresh
      /\ on.refs = w.refs
  <2> DEFINE x == [w EXCEPT !.pc = w.pc, !.n = w.n + 1]
  <2>1. on = x
    <3>1. w.n + 1 \in Nat \ {0}
      BY <1>3
    <3>2. on = [w EXCEPT !.n = w.n + 1]
      OBVIOUS
    <3> HIDE DEF on
    <3> QED BY <3>1, <3>2, MovedN
  <2>2. /\ x \in WorkerRec /\ x.pc = "pools" /\ x.snap = w.snap /\ x.lb = w.lb /\ x.refs = w.refs
        /\ x.fresh = w.fresh
    <3>1. w.n + 1 \in Nat \ {0} /\ w.pc \in PCs
      BY <1>3, WorkerFields
    <3> QED BY <1>1, <3>1, Moved
  <2> HIDE DEF x, on
  <2>3. "pools" \notin Early
    BY DEF Early
  <2>4. x \in WorkerSet
    BY <1>2, <2>2, <2>3 DEF WorkerSet, Asked
  <2> QED BY <2>1, <2>2, <2>4
<1>5. done \in WorkerSet /\ done.pc = "listener" /\ done.lb = w.lb /\ done.snap = w.snap
      /\ done.fresh = w.fresh /\ done.refs = w.refs
  <2>1. "listener" \in PCs /\ "listener" \notin Early
    BY DEF PCs, Late, Early
  <2>2. /\ done \in WorkerRec /\ done.pc = "listener" /\ done.snap = w.snap /\ done.lb = w.lb
        /\ done.refs = w.refs /\ done.fresh = w.fresh
    BY <2>1, OneIs, Moved
  <2> HIDE DEF done
  <2> QED BY <1>2, <2>1, <2>2 DEF WorkerSet, Asked
<1>6. After("pools") = done
  BY Steps
<1> HIDE DEF on, done
<1>7. "pools" \in Late /\ "listener" \in Late
  BY DEF Late
<1>8. CASE UNCHANGED lbs /\ (Goto(done) \/ Goto(on))
  <2>1. TypeInv' /\ ChangesHeld /\ (w' = Idle \/ w' = done \/ w' = on)
    BY <1>1, <1>2, <1>4, <1>5, <1>8, Unchanging
  <2> QED BY <1>1, <1>4, <1>5, <1>7, <1>8, <2>1 DEF GoesOn
<1>9. CASE /\ ~ (w.n > Len(all)) /\ lbs[w.lb].pools[all[w.n]].made < 2
           /\ Change([lbs[w.lb] EXCEPT !.pools[all[w.n]].made = @ + 1], w)
  <2> DEFINE b == all[w.n]
             x == lbs[w.lb]
             q == [x.pools[b] EXCEPT !.made = @ + 1]
             new == [x EXCEPT !.pools = [x.pools EXCEPT ![b] = q]]
  <2>1. b \in Backend
    BY <1>3, <1>9, BackendsAsked
  <2>2. x \in LBRec /\ x.pools[b] \in PoolRec
    BY <1>2, <2>1, LBFields
  <2>3. x.pools[b].made \in 0..2 /\ x.pools[b].made < 2
    BY <1>9, <2>2 DEF PoolRec
  <2>4. x.pools[b].made + 1 \in 0..2 /\ x.pools[b].made + 1 > 0
    BY <2>3
  <2>5. q \in PoolRec /\ q.made = x.pools[b].made + 1
    BY <2>2, <2>4 DEF PoolRec
  <2>6. [x EXCEPT !.pools[b].made = @ + 1] = new
    BY <2>1, <2>2, <2>4, PoolWith
  <2>7. Change(new, w)
    BY <1>9, <2>6
  <2> HIDE DEF q, b
  <2>8. new \in LBRec /\ new.st = x.st /\ new.listener = x.listener /\ new.pools = [x.pools EXCEPT ![b] = q]
    BY <2>1, <2>2, <2>5, PoolsWith
  <2> HIDE DEF new
  <2>9. /\ TypeInv' /\ ChangesHeld /\ (w' = Idle \/ w' = w)
        /\ \/ lbs' = lbs /\ w' = Idle
           \/ lbs'[w.lb].listener = new.listener /\ lbs'[w.lb].pools = new.pools
    BY <1>1, <1>2, <1>3, <2>7, <2>8, Changing
  <2>10. \A c \in Backend : x.pools[c].made > 0 => new.pools[c].made > 0
    <3>1. x.pools \in [Backend -> PoolRec]
      BY <1>2, LBFields
    <3> HIDE DEF x
    <3> QED BY <2>4, <2>5, <2>8, <3>1
  <2>11. \A i \in LB : /\ lbs'[i].listener = lbs[i].listener
                       /\ \A c \in Backend : lbs[i].pools[c].made > 0 => lbs'[i].pools[c].made > 0
    BY <2>8, <2>9, <2>10 DEF ChangesHeld
  <2> QED BY <1>1, <1>7, <2>9, <2>11 DEF GoesOn
<1> QED BY <1>6, <1>8, <1>9 DEF EnsureBackendPool, on

LEMMA ListenerIs ==
    ASSUME NEW l
    PROVE  l \in ListenerSet <=>
             l \in ListenerRec /\ (l.proto = "https" <=> l.ref # 0)
BY DEF ListenerSet

LEMMA ListenerLB ==
    ASSUME NEW x \in LBRec, NEW l \in ListenerSet
    PROVE  LET y == [x EXCEPT !.listener = l] IN
           y \in LBRec /\ y.st = x.st /\ y.listener = l /\ y.pools = x.pools
BY DEF LBRec

(* The listener ensureListener asks for leads to the Ingress's default and *)
(* has its first certificate.                                              *)
InLine(l) == l.default = Asked.default /\ (w.refs # <<>> => l.ref = w.refs[1])

LEMMA TunedIs ==
    ASSUME TypeInv, w.pc = "listener", Tunable(Asked), NEW l \in ListenerRec,
           l.proto = Proto(Asked), w.refs = <<>> => l.ref = 0
    PROVE  Tuned(l) \in ListenerSet /\ InLine(Tuned(l)) /\ Tuned(l).policies = l.policies
<1> DEFINE s == Asked
           ref == IF w.refs = <<>> THEN l.ref ELSE w.refs[1]
           timeout == IF s.timeout = 0 THEN l.timeout ELSE s.timeout
           y == [l EXCEPT !.ref = ref, !.default = s.default, !.cidrs = s.cidrs, !.timeout = timeout]
<1>1. /\ s.tls \in Seq(Secret) /\ s.default \in Backend \cup {NoBackend} /\ s.timeout \in Nat
      /\ s.cidrs \in {"any", "some"}
  BY WorkerFields, ManifestIs DEF Asked, Tunable
<1>2. w.refs \in Seq(Ref) /\ Len(w.refs) = Len(s.tls)
  BY WorkerFields DEF TypeInv, WorkerSet, Asked
<1>3. w.refs # <<>> => w.refs[1] \in Ref /\ s.tls # <<>>
  BY <1>1, <1>2
<1>4. w.refs = <<>> => s.tls = <<>>
  BY <1>1, <1>2
<1>5. ref \in Ref \cup {0} /\ timeout \in Nat
  BY <1>1, <1>3 DEF ListenerRec
<1>6. l.proto = "https" <=> ref # 0
  BY <1>3, <1>4, Numbers DEF Proto
<1>7. Tuned(l) = y
  BY DEF Tuned
<1> HIDE DEF ref, timeout, s
<1>8. /\ y \in ListenerRec /\ y.proto = l.proto /\ y.ref = ref /\ y.default = s.default
      /\ y.policies = l.policies
  BY <1>1, <1>5 DEF ListenerRec
<1> HIDE DEF y
<1>9. y \in ListenerSet
  BY <1>6, <1>8, ListenerIs
<1> QED BY <1>7, <1>8, <1>9 DEF InLine, ref, s

LEMMA CreatedIs ==
    ASSUME TypeInv, w.pc = "listener", Tunable(Asked)
    PROVE  Created \in ListenerSet /\ InLine(Created)
<1> DEFINE l == [NoListener EXCEPT !.proto = Proto(Asked)]
           sni == IF w.refs = <<>> THEN <<>> ELSE Tail(w.refs)
           y == Tuned(l)
<1>1. NoListener \in ListenerRec /\ NoListener.ref = 0
  BY Blanks, ListenerIs
<1>2. l \in ListenerRec /\ l.proto = Proto(Asked) /\ l.ref = 0
  BY <1>1 DEF ListenerRec, Proto
<1> HIDE DEF l
<1>3. y \in ListenerSet /\ InLine(y)
  BY <1>2, TunedIs
<1> HIDE DEF y
<1>4. sni \in Seq(Ref)
  BY WorkerFields
<1>5. Created = [y EXCEPT !.sni = sni]
  BY DEF Created, y, l
<1> HIDE DEF sni
<1>6. y \in ListenerRec /\ (y.proto = "https" <=> y.ref # 0)
  BY <1>3, ListenerIs
<1> DEFINE z == [y EXCEPT !.sni = sni]
<1>7. z \in ListenerRec /\ z.proto = y.proto /\ z.ref = y.ref /\ z.default = y.default
  BY <1>4, <1>6 DEF ListenerRec
<1> HIDE DEF z
<1>8. z \in ListenerSet
  BY <1>6, <1>7, ListenerIs
<1> QED BY <1>3, <1>5, <1>7, <1>8 DEF InLine, z

(* ensureListener leaves the pools alone, and the worker goes on when the  *)
(* listener is in line.                                                    *)
LEMMA ListenerStep ==
    ASSUME TypeInv, EnsureListener
    PROVE  /\ TypeInv' /\ ChangesHeld /\ GoesOn /\ bundles' = bundles
           /\ \A i \in LB : lbs'[i].pools = lbs[i].pools
           /\ w' # Idle => \/ w'.pc = "listener"
                           \/ w'.pc = "clean" /\ InLine(lbs'[w.lb].listener)
<1> DEFINE lb == lbs[w.lb]
           l  == lb.listener
           on == [w EXCEPT !.pc = "clean", !.n = 1]
<1>1. /\ WorkerFrame /\ ApiFrame /\ w.pc = "listener" /\ UNCHANGED <<bundles, fips>> /\ w.pc \in Late
  BY DEF EnsureListener, Late
<1>2. w.lb \in LB /\ w \in WorkerSet
  BY <1>1, LateHolds
<1>3. "clean" \in PCs /\ "clean" \in Late \ {"tls", "pools", "listener"} /\ "listener" \in Late
  BY DEF PCs, Late
<1>4. /\ on \in WorkerSet /\ on.pc = "clean" /\ on.lb = w.lb /\ on.snap = w.snap
      /\ on.fresh = w.fresh /\ on.refs = w.refs
  BY <1>1, <1>3, OneIs, LaterIs
<1>5. After("listener") = on
  BY Steps
<1>6. lb \in LBRec /\ l \in ListenerSet /\ l \in ListenerRec /\ (l.proto = "https" <=> l.ref # 0)
  BY <1>2, LBFields, ListenerIs
<1> HIDE DEF on
<1>7. CASE Fail /\ UNCHANGED lbs
  <2>1. TypeInv' /\ ChangesHeld /\ w' = Idle
    BY <1>1, <1>2, <1>7, Blanks, Unchanging DEF Fail
  <2> QED BY <1>1, <1>7, <2>1 DEF GoesOn
<1>8. ASSUME NEW new \in ListenerSet, NEW then \in WorkerSet,
             Change([lb EXCEPT !.listener = new], then),
             \/ then = w
             \/ then = on /\ InLine(new)
      PROVE  /\ TypeInv' /\ ChangesHeld /\ GoesOn
             /\ \A i \in LB : lbs'[i].pools = lbs[i].pools
             /\ w' # Idle => \/ w'.pc = "listener"
                             \/ w'.pc = "clean" /\ InLine(lbs'[w.lb].listener)
  <2> DEFINE y == [lb EXCEPT !.listener = new]
  <2>1. y \in LBRec /\ y.st = lb.st /\ y.listener = new /\ y.pools = lb.pools
    BY <1>6, ListenerLB
  <2>2. Change(y, then)
    BY <1>8
  <2> HIDE DEF y
  <2>3. /\ TypeInv' /\ ChangesHeld /\ (w' = Idle \/ w' = then)
        /\ \/ lbs' = lbs /\ w' = Idle
           \/ lbs'[w.lb].listener = y.listener /\ lbs'[w.lb].pools = y.pools
    BY <1>1, <1>2, <2>1, <2>2, Changing
  <2>4. \A i \in LB : lbs'[i].pools = lbs[i].pools
    BY <2>1, <2>3 DEF ChangesHeld
  <2>5. w' # Idle => \/ w'.pc = "listener"
                     \/ w'.pc = "clean" /\ InLine(lbs'[w.lb].listener)
    BY <1>1, <1>4, <1>8, <2>1, <2>3
  <2>6. GoesOn
    BY <1>1, <1>3, <1>4, <1>8, <2>3 DEF GoesOn
  <2> QED BY <2>3, <2>4, <2>5, <2>6
<1>9. CASE Tunable(Asked) /\ Change([lb EXCEPT !.listener = NoListener], w)
  BY <1>1, <1>2, <1>8, <1>9, Blanks
<1>10. CASE Tunable(Asked) /\ Change([lb EXCEPT !.listener = Created], on)
  <2>1. Created \in ListenerSet /\ InLine(Created)
    BY <1>1, <1>10, CreatedIs
  <2> QED BY <1>1, <1>4, <1>8, <1>10, <2>1
<1>11. ASSUME Tunable(Asked), l.proto = Proto(Asked)
       PROVE  Tuned(l) \in ListenerSet /\ InLine(Tuned(l))
  <2>1. w.refs = <<>> => l.ref = 0
    <3> SUFFICES ASSUME w.refs = <<>> PROVE l.ref = 0
      OBVIOUS
    <3>1. Asked.tls \in Seq(Secret) /\ Len(w.refs) = Len(Asked.tls)
      BY <1>1, WorkerFields, ManifestIs DEF TypeInv, WorkerSet, Asked
    <3>2. Asked.tls = <<>>
      BY <3>1
    <3> QED BY <1>6, <1>11, <3>2 DEF Proto
  <2> QED BY <1>1, <1>6, <1>11, <2>1, TunedIs
<1>12. CASE Tunable(Asked) /\ l.proto = Proto(Asked) /\ Change([lb EXCEPT !.listener = Tuned(l)], on)
  BY <1>1, <1>4, <1>8, <1>11, <1>12
<1>13. CASE Tunable(Asked) /\ l.proto = Proto(Asked) /\ Tuned(l) = l /\ Goto(on) /\ UNCHANGED lbs
  <2>1. TypeInv' /\ ChangesHeld /\ w' = on
    BY <1>1, <1>2, <1>4, <1>13, Unchanging DEF Goto
  <2>2. InLine(lbs'[w.lb].listener)
    BY <1>11, <1>13
  <2>3. GoesOn
    BY <1>3, <1>4, <2>1 DEF GoesOn
  <2> QED BY <1>1, <1>4, <1>13, <2>1, <2>2, <2>3
<1> QED BY <1>1, <1>5, <1>7, <1>9, <1>10, <1>12, <1>13 DEF EnsureListener

LEMMA Deleted ==
    ASSUME TypeInv, NEW r \in Ref, Delete(r), UNCHANGED <<lbs, fips>>
    PROVE  CloudOK' /\ \A q \in Ref : q # r => bundles'[q] = bundles[q]
BY DEF TypeInv, CloudOK, Delete, BundleSet

(* cleanupBarbicanSecrets deletes no bundle of this reconcile's.           *)
LEMMA CleanStep ==
    ASSUME TypeInv, CleanStale
    PROVE  /\ TypeInv' /\ GoesOn /\ lbs' = lbs
           /\ w' # Idle => w'.pc \in {"clean", "members"}
           /\ \A r \in Ref : bundles'[r] # bundles[r] => w.refs # <<>> /\ r \notin Keep
<1> DEFINE on == [w EXCEPT !.pc = "members", !.n = 1]
<1>1. /\ WorkerFrame /\ ApiFrame /\ w.pc = "clean" /\ UNCHANGED <<lbs, fips>> /\ w.pc \in Late
  BY DEF CleanStale, Late
<1>2. "members" \in PCs /\ "members" \in Late \ {"tls", "pools", "listener"} /\ "clean" \in Late
  BY DEF PCs, Late
<1>3. /\ on \in WorkerSet /\ on.pc = "members" /\ on.lb = w.lb /\ on.snap = w.snap
      /\ on.fresh = w.fresh /\ on.refs = w.refs
  BY <1>1, <1>2, OneIs, LaterIs
<1>4. After("clean") = on /\ w \in WorkerSet
  BY <1>1, Steps, LateHolds
<1> HIDE DEF on
<1>5. CASE Goto(on) /\ UNCHANGED bundles
  <2>1. CloudOK'
    BY <1>1, <1>5, CloudSame DEF cloud
  <2>2. Outcome(on)
    BY <1>5 DEF Outcome
  <2>3. TypeInv' /\ (w' = on \/ w' = Idle)
    BY <1>1, <1>3, <2>1, <2>2, FramedQuiet
  <2> QED BY <1>1, <1>2, <1>3, <1>5, <2>3 DEF GoesOn
<1>6. CASE w.refs # <<>> /\ \E r \in Stored \ Keep : Delete(r) /\ Answered(w)
  <2>1. PICK r \in Stored \ Keep : Delete(r) /\ Answered(w)
    BY <1>6
  <2>2. r \in Ref
    BY DEF Stored
  <2>3. CloudOK' /\ \A q \in Ref : q # r => bundles'[q] = bundles[q]
    BY <1>1, <2>1, <2>2, Deleted
  <2>4. Outcome(w)
    BY <2>1 DEF Answered, Outcome
  <2>5. TypeInv' /\ (w' = w \/ w' = Idle)
    BY <1>1, <1>4, <2>3, <2>4, FramedQuiet
  <2>6. GoesOn /\ (w' # Idle => w'.pc \in {"clean", "members"})
    BY <1>1, <1>2, <2>5 DEF GoesOn
  <2> QED BY <1>1, <1>6, <2>1, <2>3, <2>5, <2>6
<1> QED BY <1>4, <1>5, <1>6 DEF CleanStale

(* syncPoolMembers changes members alone.                                  *)
LEMMA MemberStep ==
    ASSUME TypeInv, SyncPoolMembers
    PROVE  /\ TypeInv' /\ ChangesHeld /\ GoesOn /\ bundles' = bundles
           /\ \A i \in LB : /\ lbs'[i].listener = lbs[i].listener
                            /\ \A b \in Backend : lbs'[i].pools[b].made = lbs[i].pools[b].made
           /\ w' # Idle => w'.pc \in {"members", "policies"}
<1> DEFINE all == AskedBackends
           b == all[w.n]
           on == [w EXCEPT !.n = @ + 1]
           done == [w EXCEPT !.pc = "policies", !.n = 1]
<1>1. /\ WorkerFrame /\ ApiFrame /\ w.pc = "members" /\ UNCHANGED <<bundles, fips>>
      /\ w.pc \in Late \ {"tls", "pools", "listener"} /\ w.pc \in Late
  BY DEF SyncPoolMembers, Late
<1>2. w.lb \in LB /\ w \in WorkerSet /\ w.n \in Nat \ {0}
  BY <1>1, LateHolds, WorkerFields
<1>3. "policies" \in PCs /\ "policies" \in Late \ {"tls", "pools", "listener"} /\ "members" \in Late
  BY DEF PCs, Late
<1>4. /\ done \in WorkerSet /\ done.pc = "policies" /\ done.lb = w.lb /\ done.snap = w.snap
      /\ done.fresh = w.fresh /\ done.refs = w.refs
  <2>1. w.pc \in Late
    BY <1>1
  <2>2. "policies" \in Late \ {"tls", "pools", "listener"}
    BY <1>3
  <2> QED BY <2>1, <2>2, OneIs, LaterIs
<1>5. /\ on \in WorkerSet /\ on.pc = "members" /\ on.lb = w.lb /\ on.snap = w.snap
      /\ on.fresh = w.fresh /\ on.refs = w.refs
  <2>1. w.n + 1 \in Nat \ {0} /\ w.pc \in PCs
    BY <1>2, WorkerFields
  <2>2. on = [w EXCEPT !.n = w.n + 1]
    OBVIOUS
  <2> DEFINE x == [w EXCEPT !.pc = "members", !.n = w.n + 1]
  <2> HIDE DEF on
  <2>3. on = x
    BY <1>1, <2>1, <2>2, MovedN
  <2>4. /\ x \in WorkerSet /\ x.pc = "members" /\ x.lb = w.lb /\ x.snap = w.snap
        /\ x.fresh = w.fresh /\ x.refs = w.refs
    <3>1. w.pc \in Late
      BY <1>1
    <3>2. "members" \in Late \ {"tls", "pools", "listener"}
      BY <1>1
    <3>3. w.n + 1 \in Nat \ {0}
      BY <2>1
    <3> QED BY <3>1, <3>2, <3>3, LaterIs
  <2> QED BY <2>3, <2>4
<1>6. After("members") = done
  BY Steps
<1> HIDE DEF on, done
<1>7. CASE UNCHANGED lbs /\ (Goto(done) \/ Goto(on) \/ Fail)
  <2>1. TypeInv' /\ ChangesHeld /\ (w' = Idle \/ w' = done \/ w' = on)
    BY <1>1, <1>2, <1>4, <1>5, <1>7, Unchanging
  <2> QED BY <1>1, <1>3, <1>4, <1>5, <1>7, <2>1 DEF GoesOn
<1>8. CASE ~ (w.n > Len(all)) /\ Change([lbs[w.lb] EXCEPT !.pools[b].members = eps[b]], on)
  <2> DEFINE x == lbs[w.lb]
             q == [x.pools[b] EXCEPT !.members = eps[b]]
             new == [x EXCEPT !.pools = [x.pools EXCEPT ![b] = q]]
  <2>1. b \in Backend
    BY <1>2, <1>8, BackendsAsked
  <2>2. x \in LBRec /\ x.pools \in [Backend -> PoolRec] /\ x.pools[b] \in PoolRec
    BY <1>2, <2>1, LBFields
  <2>3. eps[b] \in 0..1
    BY <2>1 DEF TypeInv, K8sOK
  <2> HIDE DEF b
  <2>4. q \in PoolRec /\ q.made = x.pools[b].made
    BY <2>2, <2>3 DEF PoolRec
  <2>5. [x EXCEPT !.pools[b].members = eps[b]] = new
    BY <2>1, <2>2, <2>3, PoolWith
  <2>6. Change(new, on)
    BY <1>8, <2>5
  <2> HIDE DEF q
  <2>7. new \in LBRec /\ new.st = x.st /\ new.listener = x.listener /\ new.pools = [x.pools EXCEPT ![b] = q]
    BY <2>1, <2>2, <2>4, PoolsWith
  <2> HIDE DEF new
  <2>8. /\ TypeInv' /\ ChangesHeld /\ (w' = Idle \/ w' = on)
        /\ \/ lbs' = lbs /\ w' = Idle
           \/ lbs'[w.lb].listener = new.listener /\ lbs'[w.lb].pools = new.pools
    BY <1>1, <1>2, <1>5, <2>6, <2>7, Changing
  <2>9. \A c \in Backend : new.pools[c].made = x.pools[c].made
    <3> HIDE DEF x
    <3> QED BY <2>2, <2>4, <2>7
  <2>10. \A i \in LB : /\ lbs'[i].listener = lbs[i].listener
                       /\ \A c \in Backend : lbs'[i].pools[c].made = lbs[i].pools[c].made
    BY <2>7, <2>8, <2>9 DEF ChangesHeld
  <2> QED BY <1>1, <1>3, <1>5, <2>8, <2>10 DEF GoesOn
<1> QED BY <1>6, <1>7, <1>8 DEF SyncPoolMembers, on

LEMMA CompareStep ==
    ASSUME TypeInv, ComparePolicies
    PROVE  /\ TypeInv' /\ GoesOn /\ lbs' = lbs /\ bundles' = bundles
           /\ w' # Idle => w'.pc = "drop" \/ (w'.pc = "gc" /\ Matches(AskedPolicies, Policies))
<1> DEFINE on == [w EXCEPT !.pc = "gc", !.n = 1]
           drop == [w EXCEPT !.pc = "drop", !.n = w.n]
<1>1. /\ WorkerFrame /\ ApiFrame /\ w.pc = "policies" /\ w.pc \in Late /\ CloudOK'
      /\ lbs' = lbs /\ bundles' = bundles
  BY CloudSame DEF ComparePolicies, Late, cloud
<1>2. /\ "gc" \in PCs /\ "gc" \in Late \ {"tls", "pools", "listener"}
      /\ "drop" \in PCs /\ "drop" \in Late \ {"tls", "pools", "listener"} /\ w.n \in Nat \ {0}
  BY WorkerFields DEF PCs, Late
<1>3. /\ on \in WorkerSet /\ on.pc = "gc" /\ on.lb = w.lb /\ on.snap = w.snap
      /\ on.fresh = w.fresh /\ on.refs = w.refs
  <2>1. w.pc \in Late
    BY <1>1
  <2>2. "gc" \in Late \ {"tls", "pools", "listener"}
    BY <1>2
  <2> QED BY <2>1, <2>2, OneIs, LaterIs
<1>4. /\ drop \in WorkerSet /\ drop.pc = "drop" /\ drop.lb = w.lb /\ drop.snap = w.snap
      /\ drop.fresh = w.fresh /\ drop.refs = w.refs
  <2>1. w.pc \in Late
    BY <1>1
  <2>2. "drop" \in Late \ {"tls", "pools", "listener"}
    BY <1>2
  <2>3. w.n \in Nat \ {0}
    BY <1>2
  <2> QED BY <2>1, <2>2, <2>3, LaterIs
<1>5. [w EXCEPT !.pc = "drop"] = drop /\ After("policies") = on
  BY <1>2, MovedPC, Steps
<1> HIDE DEF on, drop
<1>6. (Goto(on) /\ Matches(AskedPolicies, Policies)) \/ Goto(drop)
  BY <1>5 DEF ComparePolicies
<1>7. CASE Goto(on) /\ Matches(AskedPolicies, Policies)
  <2>1. TypeInv' /\ w' = on
    BY <1>1, <1>3, <1>7, FramedQuiet DEF Outcome, Goto
  <2> QED BY <1>1, <1>2, <1>3, <1>7, <2>1 DEF GoesOn
<1>8. CASE Goto(drop)
  <2>1. TypeInv' /\ w' = drop
    BY <1>1, <1>4, <1>8, FramedQuiet DEF Outcome, Goto
  <2> QED BY <1>1, <1>2, <1>4, <2>1 DEF GoesOn
<1> QED BY <1>6, <1>7, <1>8

LEMMA PolicyLB ==
    ASSUME NEW x \in LBRec, NEW p \in Seq(L7Policy)
    PROVE  LET y == [x EXCEPT !.listener.policies = p] IN
           /\ y \in LBRec /\ y.st = x.st /\ y.pools = x.pools
           /\ y.listener.policies = p /\ y.listener.default = x.listener.default
           /\ y.listener.ref = x.listener.ref
<1> DEFINE l == [x.listener EXCEPT !.policies = p]
<1>1. x.listener \in ListenerRec /\ (x.listener.proto = "https" <=> x.listener.ref # 0)
  BY ListenerIs DEF LBRec
<1>2. /\ l \in ListenerRec /\ l.proto = x.listener.proto /\ l.ref = x.listener.ref
      /\ l.policies = p /\ l.default = x.listener.default
  BY <1>1 DEF ListenerRec
<1>3. [x EXCEPT !.listener.policies = p] = [x EXCEPT !.listener = l]
  BY DEF LBRec
<1> HIDE DEF l
<1>4. l \in ListenerSet
  BY <1>1, <1>2, ListenerIs
<1> QED BY <1>2, <1>3, <1>4, ListenerLB

(* The pools, the default and the certificate stay; policies may change.   *)
PoliciesAlone ==
    \A i \in LB : /\ lbs'[i].pools = lbs[i].pools
                  /\ lbs'[i].listener.default = lbs[i].listener.default
                  /\ lbs'[i].listener.ref = lbs[i].listener.ref

LEMMA PolicyChange ==
    ASSUME TypeInv, w.lb \in LB, WorkerFrame, ApiFrame, UNCHANGED <<bundles, fips>>,
           NEW p \in Seq(L7Policy), NEW then \in WorkerSet, Change(WithPolicies(p), then)
    PROVE  /\ TypeInv' /\ ChangesHeld /\ PoliciesAlone /\ (w' = Idle \/ w' = then)
           /\ w' = Idle \/ lbs'[w.lb].listener.policies = p
<1> DEFINE x == lbs[w.lb]
           y == [x EXCEPT !.listener.policies = p]
<1>1. x \in LBRec
  BY LBFields
<1>2. Change(y, then)
  BY DEF WithPolicies
<1>3. /\ y \in LBRec /\ y.st = x.st /\ y.pools = x.pools
      /\ y.listener.policies = p /\ y.listener.default = x.listener.default
      /\ y.listener.ref = x.listener.ref
  BY <1>1, PolicyLB
<1> HIDE DEF y
<1>4. /\ TypeInv' /\ ChangesHeld /\ (w' = Idle \/ w' = then)
      /\ \/ lbs' = lbs /\ w' = Idle
         \/ lbs'[w.lb].listener = y.listener /\ lbs'[w.lb].pools = y.pools
  BY <1>2, <1>3, Changing
<1>5. PoliciesAlone
  BY <1>3, <1>4 DEF PoliciesAlone, ChangesHeld
<1> QED BY <1>3, <1>4, <1>5

LEMMA DropStep ==
    ASSUME TypeInv, DropPolicies
    PROVE  /\ TypeInv' /\ ChangesHeld /\ GoesOn /\ bundles' = bundles /\ PoliciesAlone
           /\ w' # Idle => \/ w'.pc = "drop"
                           \/ w'.pc = "make" /\ lbs'[w.lb].listener.policies = <<>>
<1> DEFINE on == [w EXCEPT !.pc = "make", !.n = 1]
<1>1. /\ WorkerFrame /\ ApiFrame /\ w.pc = "drop" /\ UNCHANGED <<bundles, fips>>
  BY DEF DropPolicies
<1>2. w.pc \in Late /\ "drop" \in Late /\ "make" \in Late
  BY <1>1 DEF Late
<1>3. w.lb \in LB /\ w \in WorkerSet
  BY <1>2, LateHolds
<1>4. /\ on \in WorkerSet /\ on.pc = "make" /\ on.lb = w.lb /\ on.snap = w.snap
      /\ on.fresh = w.fresh /\ on.refs = w.refs
  <2>1. "make" \in Late \ {"tls", "pools", "listener"}
    BY DEF Late
  <2> QED BY <1>2, <2>1, OneIs, LaterIs
<1> HIDE DEF on
<1>5. CASE Policies = <<>> /\ Goto(on) /\ UNCHANGED lbs
  <2>1. TypeInv' /\ ChangesHeld /\ w' = on
    BY <1>1, <1>3, <1>4, <1>5, Unchanging DEF Goto
  <2>2. PoliciesAlone /\ lbs'[w.lb].listener.policies = <<>>
    BY <1>5 DEF PoliciesAlone, Policies
  <2> QED BY <1>1, <1>2, <1>4, <2>1, <2>2 DEF GoesOn
<1>6. CASE Policies # <<>> /\ Change(WithPolicies(Tail(Policies)), w)
  <2>1. Tail(Policies) \in Seq(L7Policy)
    <3>1. Policies \in Seq(L7Policy)
      BY <1>3, LBFields DEF Policies
    <3> QED BY <1>6, <3>1
  <2>2. TypeInv' /\ ChangesHeld /\ PoliciesAlone /\ (w' = Idle \/ w' = w)
    BY <1>1, <1>3, <1>6, <2>1, PolicyChange
  <2> QED BY <1>1, <1>2, <2>2 DEF GoesOn
<1> QED BY <1>5, <1>6 DEF DropPolicies, on

LEMMA RulesTyped ==
    ASSUME NEW d \in Rule
    PROVE  rulesFor(d) \in Seq(L7Rule)
<1> DEFINE onHost == [on |-> "host", value |-> d.host, how |-> "equal"]
           onPath == [on |-> "path", value |-> d.path,
                      how |-> IF d.type = "exact" THEN "equal" ELSE "starts"]
           front == IF d.host = AnyHost THEN <<>> ELSE <<onHost>>
           back  == IF d.path = NoPath THEN <<>> ELSE <<onPath>>
<1>1. d.host # AnyHost => onHost \in L7Rule
  BY DEF Rule, L7Rule
<1>2. d.path # NoPath => onPath \in L7Rule
  BY DEF Rule, L7Rule
<1> HIDE DEF onHost, onPath
<1>3. front \in Seq(L7Rule) /\ back \in Seq(L7Rule)
  BY <1>1, <1>2
<1>4. rulesFor(d) = front \o back
  BY DEF rulesFor, onHost, onPath
<1> HIDE DEF front, back
<1> QED BY <1>3, <1>4

(* Every policy of the listener leads where a rule of the Ingress does.    *)
Led(l) == \A k \in DOMAIN l.policies :
             \E j \in DOMAIN Asked.rules : l.policies[k].to = Asked.rules[j].to

LEMMA PolicyMade ==
    ASSUME NEW q \in Seq(L7Policy), NEW n \in Nat \ {0}, ~ (Len(q) < n), NEW r \in Seq(L7Rule)
    PROVE  LET p == [q EXCEPT ![n].rules = r] IN
           /\ p \in Seq(L7Policy) /\ DOMAIN p = DOMAIN q
           /\ \A k \in DOMAIN q : p[k].to = q[k].to
<1> DEFINE x == [q[n] EXCEPT !.rules = r]
           p == [q EXCEPT ![n] = x]
<1>1. n \in DOMAIN q /\ q[n] \in L7Policy /\ DOMAIN q = 1..Len(q)
  OBVIOUS
<1>2. x \in L7Policy /\ x.to = q[n].to
  BY <1>1 DEF L7Policy
<1>3. [q EXCEPT ![n].rules = r] = p
  BY <1>1
<1> HIDE DEF x
<1>4. p \in Seq(L7Policy) /\ DOMAIN p = DOMAIN q
  BY <1>1, <1>2
<1>5. \A k \in DOMAIN q : p[k].to = q[k].to
  BY <1>1, <1>2
<1> HIDE DEF p
<1> QED BY <1>3, <1>4, <1>5

LEMMA MakeStep ==
    ASSUME TypeInv, MakePolicies
    PROVE  /\ TypeInv' /\ ChangesHeld /\ GoesOn /\ bundles' = bundles /\ PoliciesAlone
           /\ w' # Idle => /\ w'.pc \in {"make", "gc"}
                           /\ Led(lbs[w.lb].listener) => Led(lbs'[w.lb].listener)
<1> DEFINE desired == AskedPolicies
           rules   == rulesFor(desired[w.n])
           made    == Policies[w.n].rules
           on      == [w EXCEPT !.n = @ + 1]
           done    == [w EXCEPT !.pc = "gc", !.n = 1]
<1>1. /\ WorkerFrame /\ ApiFrame /\ w.pc = "make" /\ UNCHANGED <<bundles, fips>>
  BY DEF MakePolicies
<1>2. w.pc \in Late /\ "make" \in Late /\ "gc" \in Late
  BY <1>1 DEF Late
<1>3. w.lb \in LB /\ w \in WorkerSet
  BY <1>2, LateHolds
<1>4. w.n \in Nat \ {0} /\ IsManifest(Asked)
  BY WorkerFields
<1>5. /\ done \in WorkerSet /\ done.pc = "gc" /\ done.lb = w.lb /\ done.snap = w.snap
      /\ done.fresh = w.fresh /\ done.refs = w.refs
  <2>1. "gc" \in Late \ {"tls", "pools", "listener"}
    BY DEF Late
  <2> QED BY <1>2, <2>1, OneIs, LaterIs
<1>6. /\ on \in WorkerSet /\ on.pc = "make" /\ on.lb = w.lb /\ on.snap = w.snap
      /\ on.fresh = w.fresh /\ on.refs = w.refs
  <2>1. w.n + 1 \in Nat \ {0}
    BY <1>4
  <2>2. on = [w EXCEPT !.n = w.n + 1]
    OBVIOUS
  <2> DEFINE x == [w EXCEPT !.pc = "make", !.n = w.n + 1]
  <2> HIDE DEF on
  <2>3. on = x
    BY <1>1, <2>1, <2>2, MovedN
  <2>4. "make" \in Late \ {"tls", "pools", "listener"}
    BY DEF Late
  <2>5. /\ x \in WorkerSet /\ x.pc = "make" /\ x.lb = w.lb /\ x.snap = w.snap
        /\ x.fresh = w.fresh /\ x.refs = w.refs
    BY <1>2, <2>1, <2>4, LaterIs
  <2> QED BY <2>3, <2>5
<1>7. After("policies") = done
  BY Steps
<1>8. Policies \in Seq(L7Policy)
  BY <1>3, LBFields DEF Policies
<1> HIDE DEF on, done
<1>9. CASE UNCHANGED lbs /\ (Goto(done) \/ Goto(on))
  <2>1. TypeInv' /\ ChangesHeld /\ (w' = Idle \/ w' = done \/ w' = on)
    BY <1>1, <1>3, <1>5, <1>6, <1>9, Unchanging
  <2>2. PoliciesAlone /\ lbs'[w.lb].listener = lbs[w.lb].listener
    BY <1>9 DEF PoliciesAlone
  <2> QED BY <1>1, <1>2, <1>5, <1>6, <2>1, <2>2 DEF GoesOn
<1>10. ASSUME NEW p \in Seq(L7Policy), Change(WithPolicies(p), w),
              \A k \in DOMAIN p : \/ k \in DOMAIN Policies /\ p[k].to = Policies[k].to
                                  \/ \E j \in DOMAIN Asked.rules : p[k].to = Asked.rules[j].to
       PROVE  /\ TypeInv' /\ ChangesHeld /\ GoesOn /\ PoliciesAlone
              /\ w' # Idle => /\ w'.pc \in {"make", "gc"}
                              /\ Led(lbs[w.lb].listener) => Led(lbs'[w.lb].listener)
  <2>1. /\ TypeInv' /\ ChangesHeld /\ PoliciesAlone /\ (w' = Idle \/ w' = w)
        /\ w' = Idle \/ lbs'[w.lb].listener.policies = p
    BY <1>1, <1>3, <1>10, PolicyChange
  <2>2. w' # Idle => (Led(lbs[w.lb].listener) => Led(lbs'[w.lb].listener))
    BY <1>10, <2>1 DEF Led, Policies
  <2>3. GoesOn
    BY <1>1, <1>2, <2>1 DEF GoesOn
  <2> QED BY <1>1, <2>1, <2>2, <2>3
<1>11. ASSUME ~ (w.n > Len(desired))
       PROVE  /\ desired[w.n] \in Rule
              /\ \E j \in DOMAIN Asked.rules : desired[w.n] = Asked.rules[j]
  <2>1. desired \in Seq(Rule) /\ Len(desired) = Len(Asked.rules)
    BY <1>4, AskedIs, PoliciesTyped
  <2>2. \A k \in 1..Len(Asked.rules) : \E j \in DOMAIN Asked.rules : desired[k] = Asked.rules[j]
    BY <1>4, AskedIs, PoliciesTyped
  <2> HIDE DEF desired
  <2>3. w.n \in 1..Len(Asked.rules) /\ desired[w.n] \in Rule
    BY <1>4, <1>11, <2>1
  <2> QED BY <2>2, <2>3
<1> HIDE DEF desired
<1>12. CASE /\ ~ (w.n > Len(desired))
            /\ Change(WithPolicies(Append(Policies, [to |-> desired[w.n].to, rules |-> <<>>])), w)
  <2> DEFINE x == [to |-> desired[w.n].to, rules |-> <<>>]
             q == Policies
             p == Append(q, x)
  <2>1. PICK j \in DOMAIN Asked.rules : desired[w.n] = Asked.rules[j]
    BY <1>11, <1>12
  <2>2. x \in L7Policy /\ x.to = Asked.rules[j].to
    BY <1>11, <1>12, <2>1 DEF L7Policy, Rule
  <2> HIDE DEF x, q
  <2>3. q \in Seq(L7Policy)
    BY <1>8 DEF q
  <2>4. p \in Seq(L7Policy) /\ \A k \in DOMAIN p : (k \in DOMAIN q /\ p[k] = q[k]) \/ p[k] = x
    BY <2>2, <2>3
  <2>5. Change(WithPolicies(p), w)
    BY <1>12 DEF x, q
  <2> HIDE DEF p
  <2>6. \A k \in DOMAIN p : \/ k \in DOMAIN Policies /\ p[k].to = Policies[k].to
                            \/ \E i \in DOMAIN Asked.rules : p[k].to = Asked.rules[i].to
    BY <2>2, <2>4 DEF q
  <2> QED BY <1>1, <1>10, <2>4, <2>5, <2>6
<1>13. CASE /\ ~ (w.n > Len(desired)) /\ ~ (Len(Policies) < w.n) /\ Len(made) < Len(rules)
            /\ Change(WithPolicies([Policies EXCEPT ![w.n].rules = Append(@, rules[Len(made) + 1])]), w)
  <2> DEFINE r == Append(made, rules[Len(made) + 1])
             p == [Policies EXCEPT ![w.n].rules = r]
  <2>1. rules \in Seq(L7Rule)
    BY <1>11, <1>13, RulesTyped
  <2>2. Policies[w.n] \in L7Policy
    BY <1>4, <1>8, <1>13
  <2>3. made \in Seq(L7Rule)
    BY <2>2 DEF L7Policy
  <2>4. r \in Seq(L7Rule)
    <3> HIDE DEF rules, made
    <3> QED BY <1>13, <2>1, <2>3
  <2>5. Change(WithPolicies(p), w)
    BY <1>13
  <2> HIDE DEF r
  <2>6. p \in Seq(L7Policy) /\ DOMAIN p = DOMAIN Policies /\ \A k \in DOMAIN Policies : p[k].to = Policies[k].to
    BY <1>4, <1>8, <1>13, <2>4, PolicyMade
  <2> HIDE DEF p
  <2> QED BY <1>1, <1>10, <2>5, <2>6
<1> QED BY <1>7, <1>9, <1>12, <1>13 DEF MakePolicies, desired, on

(* gcStalePools deletes no pool of a backend the Ingress names.            *)
LEMMA GcStep ==
    ASSUME TypeInv, GcStalePools
    PROVE  /\ TypeInv' /\ ChangesHeld /\ GoesOn /\ bundles' = bundles
           /\ \A i \in LB : lbs'[i].listener = lbs[i].listener
           /\ w' # Idle => w'.pc \in {"gc", "address"}
           /\ \A i \in LB, b \in Backend :
                 lbs[i].pools[b].made > 0 /\ ~ (lbs'[i].pools[b].made > 0)
                 => i = w.lb /\ lbs[i].st = "active" /\ b \notin BackendsOf(Asked)
<1> DEFINE stale == {b \in Backend : /\ lbs[w.lb].pools[b].made > 0
                                     /\ ~ Contains(AskedBackends, b)}
           done == [w EXCEPT !.pc = "address", !.n = 1]
<1>1. /\ WorkerFrame /\ ApiFrame /\ w.pc = "gc" /\ UNCHANGED <<bundles, fips>>
  BY DEF GcStalePools
<1>2. w.pc \in Late /\ "gc" \in Late /\ "address" \in Late
  BY <1>1 DEF Late
<1>3. w.lb \in LB /\ w \in WorkerSet
  BY <1>2, LateHolds
<1>4. /\ done \in WorkerSet /\ done.pc = "address" /\ done.lb = w.lb /\ done.snap = w.snap
      /\ done.fresh = w.fresh /\ done.refs = w.refs
  <2>1. "address" \in Late \ {"tls", "pools", "listener"}
    BY DEF Late
  <2> QED BY <1>2, <2>1, OneIs, LaterIs
<1>5. After("gc") = done
  BY Steps
<1> HIDE DEF done
<1>6. CASE Goto(done) /\ UNCHANGED lbs
  <2>1. TypeInv' /\ ChangesHeld /\ w' = done
    BY <1>1, <1>3, <1>4, <1>6, Unchanging DEF Goto
  <2> QED BY <1>1, <1>2, <1>4, <1>6, <2>1 DEF GoesOn
<1>7. CASE \E b \in stale : Change([lbs[w.lb] EXCEPT !.pools[b] = NoPool], w)
  <2>1. PICK b \in stale : Change([lbs[w.lb] EXCEPT !.pools[b] = NoPool], w)
    BY <1>7
  <2> DEFINE x == lbs[w.lb]
             new == [x EXCEPT !.pools = [x.pools EXCEPT ![b] = NoPool]]
  <2>2. b \in Backend /\ ~ Contains(AskedBackends, b)
    OBVIOUS
  <2>3. b \notin BackendsOf(Asked)
    <3>1. ToSet(AskedBackends) = BackendsOf(Asked)
      BY WorkerFields, AskedIs, BackendsListed
    <3>2. AskedBackends \in Seq(Backend)
      BY BackendsAsked
    <3> QED BY <2>2, <3>1, <3>2 DEF ToSet, Contains
  <2>4. x \in LBRec /\ x.pools \in [Backend -> PoolRec] /\ NoPool \in PoolRec
    BY <1>3, LBFields, Blanks
  <2>5. Change(new, w)
    <3>1. [x EXCEPT !.pools[b] = NoPool] = new
      BY <2>2, <2>4, PoolWith
    <3> QED BY <2>1, <3>1
  <2>6. /\ new \in LBRec /\ new.st = x.st /\ new.listener = x.listener
        /\ new.pools = [x.pools EXCEPT ![b] = NoPool]
    BY <2>2, <2>4, PoolsWith
  <2> HIDE DEF new
  <2>7. /\ TypeInv' /\ ChangesHeld /\ (w' = Idle \/ w' = w)
        /\ \/ lbs' = lbs /\ w' = Idle
           \/ /\ lbs[w.lb].st = "active"
              /\ lbs'[w.lb].listener = new.listener /\ lbs'[w.lb].pools = new.pools
    BY <1>1, <1>3, <2>5, <2>6, Changing
  <2>8. \A i \in LB : lbs'[i].listener = lbs[i].listener
    BY <2>6, <2>7 DEF ChangesHeld
  <2>9. ASSUME NEW i \in LB, NEW c \in Backend,
               lbs[i].pools[c].made > 0, ~ (lbs'[i].pools[c].made > 0)
        PROVE  i = w.lb /\ lbs[i].st = "active" /\ c \notin BackendsOf(Asked)
    <3>1. i = w.lb /\ lbs[w.lb].st = "active" /\ lbs'[w.lb].pools = new.pools
      BY <2>7, <2>9 DEF ChangesHeld
    <3>2. c = b
      <4> HIDE DEF x
      <4>1. c # b => new.pools[c] = x.pools[c]
        BY <2>4, <2>6
      <4> QED BY <2>9, <3>1, <4>1 DEF x
    <3> QED BY <2>3, <3>1, <3>2
  <2> QED BY <1>1, <1>2, <2>7, <2>8, <2>9 DEF GoesOn
<1> QED BY <1>5, <1>6, <1>7 DEF GcStalePools

-----------------------------------------------------------------------------
(* The address, the status and the teardown.                               *)

LEMMA Released ==
    ASSUME TypeInv, NEW i \in LB, ReleaseFIP(i)
    PROVE  fips' \in [FIP -> FIPRec]
<1>1. fips \in [FIP -> FIPRec]
  BY DEF TypeInv, CloudOK
<1>2. \A f \in FIP : [fips[f] EXCEPT !.port = 0] \in FIPRec
  BY <1>1 DEF FIPRec
<1> QED BY <1>1, <1>2, Blanks DEF ReleaseFIP

LEMMA NewFIPChosen ==
    ASSUME NewFIP # {}
    PROVE  (CHOOSE h \in NewFIP : \A k \in NewFIP : h <= k) \in FIP
<1>1. NewFIP \in SUBSET Nat
  BY Numbers DEF NewFIP, FIP
<1>2. \E r \in NewFIP : \A q \in NewFIP : r <= q
  BY <1>1, LeastOf, Zenon
<1>3. (CHOOSE r \in NewFIP : \A q \in NewFIP : r <= q) \in NewFIP
  BY <1>2
<1> QED BY <1>3 DEF NewFIP

LEMMA Addressed ==
    ASSUME TypeInv, w.pc = "address", NEW a \in Address
    PROVE  LET x == [After("address") EXCEPT !.addr = a] IN
           /\ x \in WorkerSet /\ x.pc = "status" /\ x.lb = w.lb /\ x.snap = w.snap
           /\ x.fresh = w.fresh /\ x.refs = w.refs
<1> DEFINE y == [w EXCEPT !.pc = "status", !.n = 1]
           x == [y EXCEPT !.addr = a]
<1>1. w.pc \in Late /\ "status" \in Late \ {"tls", "pools", "listener"}
  BY DEF Late
<1>2. /\ y \in WorkerSet /\ y.pc = "status" /\ y.lb = w.lb /\ y.snap = w.snap
      /\ y.fresh = w.fresh /\ y.refs = w.refs
  BY <1>1, OneIs, LaterIs
<1>3. w.lb \in LB /\ Wanted(w.snap)
  BY <1>1, LateHolds
<1>4. After("address") = y
  BY Steps
<1> HIDE DEF y
<1>5. y \in WorkerRec
  BY <1>2 DEF WorkerSet
<1>6. /\ x \in WorkerRec /\ x.pc = "status" /\ x.lb = y.lb /\ x.snap = y.snap
      /\ x.fresh = y.fresh /\ x.refs = y.refs
  BY <1>2, <1>5 DEF WorkerRec
<1> HIDE DEF x
<1>7. x \in WorkerSet
  BY <1>2, <1>3, <1>6 DEF WorkerSet, Early
<1> QED BY <1>2, <1>4, <1>6, <1>7 DEF x

LEMMA FIPStep ==
    ASSUME TypeInv, EnsureFIP
    PROVE  /\ TypeInv' /\ GoesOn /\ lbs' = lbs /\ bundles' = bundles
           /\ w' # Idle => w'.pc = "status"
<1> DEFINE expose  == Asked.expose
           bound   == OnPort(w.lb)
           with(a) == [After("address") EXCEPT !.addr = a]
           f       == CHOOSE h \in bound : TRUE
           new     == CHOOSE h \in NewFIP : \A k \in NewFIP : h <= k
<1>1. /\ WorkerFrame /\ ApiFrame /\ w.pc = "address" /\ lbs' = lbs /\ bundles' = bundles
  BY DEF EnsureFIP
<1>2. w.lb \in LB /\ "status" \in Late
  BY <1>1, LateHolds DEF Late
<1>3. fips \in [FIP -> FIPRec]
  BY DEF TypeInv, CloudOK
<1>4. ASSUME NEW a \in Address, fips' \in [FIP -> FIPRec], Outcome(with(a))
      PROVE  TypeInv' /\ GoesOn /\ (w' # Idle => w'.pc = "status")
  <2> DEFINE x == with(a)
  <2>1. CloudOK'
    BY <1>1, <1>4 DEF TypeInv, CloudOK
  <2>2. /\ x \in WorkerSet /\ x.pc = "status" /\ x.lb = w.lb /\ x.snap = w.snap
        /\ x.fresh = w.fresh /\ x.refs = w.refs
    BY <1>1, Addressed
  <2>3. Outcome(x)
    BY <1>4
  <2> HIDE DEF x
  <2>4. TypeInv' /\ (w' = x \/ w' = Idle)
    BY <1>1, <2>1, <2>2, <2>3, FramedQuiet
  <2> QED BY <1>2, <2>2, <2>4 DEF GoesOn
<1>5. /\ <<"vip", w.lb>> \in Address
      /\ \A h \in FIP : <<"fip", h>> \in Address
  BY <1>2 DEF Address
<1>6. TenantFIP \in FIP /\ (bound # {} => f \in FIP)
  BY Numbers DEF OnPort
<1>7. "own" \in {"none", "own", "keep", "tenant"} /\ "keep" \in {"none", "own", "keep", "tenant"}
  OBVIOUS
<1>8. \A a : Answered(with(a)) \/ Goto(with(a)) \/ Fail => Outcome(with(a))
  BY DEF Answered, Outcome
<1> HIDE DEF with
<1>9. CASE ReleaseFIP(w.lb) /\ Answered(with(<<"vip", w.lb>>))
  BY <1>1, <1>2, <1>4, <1>5, <1>8, <1>9, Released
<1>10. CASE Goto(with(<<"fip", TenantFIP>>)) /\ UNCHANGED fips
  BY <1>1, <1>3, <1>4, <1>5, <1>6, <1>8, <1>10
<1>11. CASE Fail /\ UNCHANGED fips
  BY <1>1, <1>3, <1>4, <1>5, <1>6, <1>8, <1>11
<1>12. CASE fips' = [fips EXCEPT ![TenantFIP].port = w.lb] /\ Answered(with(<<"fip", TenantFIP>>))
  <2>1. fips' \in [FIP -> FIPRec]
    BY <1>2, <1>3, <1>6, <1>12 DEF FIPRec
  <2> QED BY <1>1, <1>4, <1>5, <1>6, <1>8, <1>12, <2>1
<1>13. CASE /\ bound # {} /\ expose \in {"own", "keep"}
            /\ fips' = [fips EXCEPT ![f].mark = Marker(@)]
            /\ Goto(with(<<"fip", f>>)) \/ Answered(with(<<"fip", f>>))
  <2>1. f \in FIP
    BY <1>6, <1>13
  <2> HIDE DEF f
  <2> DEFINE m == Marker(fips[f].mark)
  <2>2. m \in {"none", "own", "keep", "tenant"}
    BY <1>3, <1>13, <2>1 DEF Marker, FIPRec
  <2>3. fips' = [fips EXCEPT ![f].mark = m]
    BY <1>13
  <2> HIDE DEF m
  <2>4. fips' \in [FIP -> FIPRec]
    BY <1>3, <2>1, <2>2, <2>3 DEF FIPRec
  <2> QED BY <1>1, <1>4, <1>5, <1>8, <1>13, <2>1, <2>4
<1>14. CASE /\ NewFIP # {} /\ expose \in {"own", "keep"}
            /\ fips' = [fips EXCEPT ![new] = [mark |-> expose, port |-> w.lb]]
            /\ Answered(with(<<"fip", new>>))
  <2>1. new \in FIP
    BY <1>14, NewFIPChosen
  <2> HIDE DEF new
  <2>2. fips' \in [FIP -> FIPRec]
    BY <1>2, <1>3, <1>7, <1>14, <2>1 DEF FIPRec
  <2> QED BY <1>1, <1>4, <1>5, <1>8, <1>14, <2>1, <2>2
<1> QED BY <1>9, <1>10, <1>11, <1>12, <1>13, <1>14 DEF EnsureFIP, with

LEMMA PublishTypes ==
    ASSUME TypeInv, PublishStatus
    PROVE  TypeInv' /\ w' = Idle
<1>1. WorkerFrame /\ CloudOK'
  BY CloudSame DEF PublishStatus
<1>2. Outcome(Idle)
  BY DEF PublishStatus, Outcome, Succeed, Answered
<1>3. ProcOK' /\ w' = Idle
  BY <1>1, <1>2, Blanks, Outcomes DEF TypeInv, WorkerFrame
<1>4. ing' \in IngRec /\ fresh' \in BOOLEAN
  <2>1. CASE ApiFrame
    BY <2>1 DEF ApiFrame, TypeInv, K8sOK
  <2>2. CASE ing' = [ing EXCEPT !.status = w.addr] /\ fresh' = FALSE
    <3>1. ing \in IngRec /\ w.addr \in Address
      BY WorkerFields DEF TypeInv, K8sOK
    <3> QED BY <2>2, <3>1 DEF IngRec
  <2> QED BY <2>1, <2>2 DEF PublishStatus
<1> QED BY <1>1, <1>3, <1>4, Blanks, Framed

(* A step of the teardown to another place of it.                          *)
LEMMA Onward ==
    ASSUME TypeInv, NEW pc \in {"bundles"} \cup Teardown, NEW i \in LB \cup {0},
           pc \in Teardown => i \in LB
    PROVE  LET x == [w EXCEPT !.pc = pc, !.lb = i] IN
           /\ x \in WorkerSet /\ x.pc = pc /\ x.lb = i /\ x.snap = w.snap /\ x.fresh = w.fresh
<1> DEFINE x == [w EXCEPT !.pc = pc, !.lb = i]
<1>1. pc \in PCs
  BY DEF PCs
<1>2. x \in WorkerRec /\ x.pc = pc /\ x.lb = i /\ x.snap = w.snap /\ x.fresh = w.fresh
  BY <1>1, WorkerFields DEF WorkerRec
<1>3. /\ pc \notin Early \cup Late /\ pc # "wait" /\ pc # "tls" /\ pc \notin {"pools", "listener"}
      /\ pc \in Holding => pc \in Teardown
  BY DEF Early, Late, Holding, Teardown
<1> HIDE DEF x
<1>4. x \in WorkerSet
  BY <1>2, <1>3 DEF WorkerSet
<1> QED BY <1>2, <1>4 DEF x

LEMMA OnwardHere ==
    ASSUME TypeInv, NEW pc \in {"bundles"} \cup Teardown, pc \in Teardown => w.lb \in LB
    PROVE  LET x == [w EXCEPT !.pc = pc] IN
           /\ x \in WorkerSet /\ x.pc = pc /\ x.lb = w.lb /\ x.snap = w.snap /\ x.fresh = w.fresh
<1> DEFINE y == [w EXCEPT !.pc = pc, !.lb = w.lb]
<1>1. [w EXCEPT !.pc = pc] = y
  BY WorkerFields DEF WorkerRec
<1>2. w.lb \in LB \cup {0}
  BY WorkerFields
<1>3. y \in WorkerSet /\ y.pc = pc /\ y.lb = w.lb /\ y.snap = w.snap /\ y.fresh = w.fresh
  BY <1>2, Onward
<1> HIDE DEF y
<1> QED BY <1>1, <1>3

LEMMA LookupStep ==
    ASSUME TypeInv, LookupForTearDown
    PROVE  /\ TypeInv' /\ lbs' = lbs /\ bundles' = bundles /\ ApiFrame
           /\ \/ w' = Idle
              \/ /\ w'.pc = "bundles" /\ w'.snap = w.snap /\ w'.fresh = w.fresh
                 /\ \A i \in LB : ~ Alive(i)
              \/ /\ w'.pc = "release" /\ w'.snap = w.snap /\ w'.fresh = w.fresh
                 /\ w'.lb \in LB /\ Alive(w'.lb)
<1> DEFINE x == [w EXCEPT !.pc = "bundles"]
           y(i) == [w EXCEPT !.pc = "release", !.lb = i]
<1>1. WorkerFrame /\ ApiFrame /\ CloudOK' /\ lbs' = lbs /\ bundles' = bundles
  BY CloudSame DEF LookupForTearDown, cloud
<1>2. "bundles" \in {"bundles"} \cup Teardown /\ "bundles" \notin Teardown
  BY DEF Teardown
<1>3. x \in WorkerSet /\ x.pc = "bundles" /\ x.snap = w.snap /\ x.fresh = w.fresh
  BY <1>2, OnwardHere
<1>4. ASSUME NEW i \in LB
      PROVE  /\ y(i) \in WorkerSet /\ y(i).pc = "release" /\ y(i).lb = i /\ y(i).snap = w.snap
             /\ y(i).fresh = w.fresh
  <2>1. "release" \in {"bundles"} \cup Teardown
    BY DEF Teardown
  <2> QED BY <2>1, Onward
<1> HIDE DEF x, y
<1>5. CASE Goto(x) /\ {i \in LB : Alive(i)} = {}
  <2>1. TypeInv' /\ w' = x
    BY <1>1, <1>3, <1>5, FramedQuiet DEF Outcome, Goto
  <2> QED BY <1>1, <1>3, <1>5, <2>1
<1>6. CASE Fail
  BY <1>1, <1>3, <1>6, FramedQuiet DEF Outcome, Fail
<1>7. CASE \E i \in LB : Alive(i) /\ Goto(y(i))
  <2>1. PICK i \in LB : Alive(i) /\ Goto(y(i))
    BY <1>7
  <2>2. TypeInv' /\ w' = y(i)
    BY <1>1, <1>4, <2>1, FramedQuiet DEF Outcome, Goto
  <2> QED BY <1>1, <1>4, <2>1, <2>2
<1> QED BY <1>5, <1>6, <1>7 DEF LookupForTearDown, x, y

LEMMA ReleaseStep ==
    ASSUME TypeInv, TearDownReleases
    PROVE  /\ TypeInv' /\ lbs' = lbs /\ bundles' = bundles /\ ApiFrame /\ w.pc = "release"
           /\ \/ w' = Idle
              \/ w'.pc = "delete" /\ w'.snap = w.snap /\ w'.fresh = w.fresh /\ w'.lb = w.lb
<1> DEFINE x == [w EXCEPT !.pc = "delete"]
<1>1. /\ WorkerFrame /\ ApiFrame /\ w.pc = "release" /\ lbs' = lbs /\ bundles' = bundles
      /\ ReleaseFIP(w.lb) /\ Answered(x)
  BY DEF TearDownReleases
<1>2. w.lb \in LB
  BY <1>1 DEF TypeInv, WorkerSet, Holding, Teardown
<1>3. x \in WorkerSet /\ x.pc = "delete" /\ x.lb = w.lb /\ x.snap = w.snap /\ x.fresh = w.fresh
  <2>1. "delete" \in {"bundles"} \cup Teardown
    BY DEF Teardown
  <2> QED BY <1>2, <2>1, OnwardHere
<1>4. CloudOK'
  BY <1>1, <1>2, Released DEF TypeInv, CloudOK
<1> HIDE DEF x
<1>5. TypeInv' /\ (w' = x \/ w' = Idle)
  BY <1>1, <1>3, <1>4, FramedQuiet DEF Outcome, Answered
<1> QED BY <1>1, <1>3, <1>5

(* Put to deletion a load balancer is what it was, but for its state.      *)
Doomed(i) ==
    /\ \A j \in LB : j # i => lbs'[j] = lbs[j]
    /\ \/ lbs' = lbs
       \/ /\ lbs[i].st = "active" /\ lbs'[i].st = "deleting"
          /\ lbs'[i].listener = lbs[i].listener /\ lbs'[i].pools = lbs[i].pools

LEMMA DoomedIs ==
    ASSUME TypeInv, NEW i \in LB, DeleteLoadBalancer(i)
    PROVE  /\ lbs' \in [LB -> LBRec] /\ Doomed(i)
           /\ Deletable(i) \/ ~ Alive(i) => ~ InService(i)'
<1> DEFINE x == [lbs[i] EXCEPT !.st = "deleting"]
<1>1. lbs \in [LB -> LBRec] /\ lbs[i] \in LBRec
  BY LBFields DEF TypeInv, CloudOK
<1>2. /\ x \in LBRec /\ x.st = "deleting" /\ x.listener = lbs[i].listener /\ x.pools = lbs[i].pools
  BY <1>1 DEF LBRec, LBState
<1>3. \/ lbs' = lbs /\ ~ Deletable(i)
      \/ lbs' = [lbs EXCEPT ![i] = x] /\ Deletable(i)
  <2> DEFINE y == [lbs EXCEPT ![i].st = "deleting"]
  <2>1. y = [lbs EXCEPT ![i] = x]
    BY <1>1
  <2>2. lbs' = IF Deletable(i) THEN y ELSE lbs
    BY DEF DeleteLoadBalancer
  <2> HIDE DEF x, y
  <2> QED BY <2>1, <2>2
<1> HIDE DEF x
<1> QED BY <1>1, <1>2, <1>3 DEF Doomed, Deletable, Alive, InService

LEMMA DeleteStep ==
    ASSUME TypeInv, TearDownDeletes
    PROVE  /\ TypeInv' /\ Doomed(w.lb) /\ bundles' = bundles /\ ApiFrame
           /\ w.pc = "delete" /\ w.lb \in LB
           /\ \/ w' = Idle
              \/ /\ w'.pc = "bundles" /\ w'.snap = w.snap /\ w'.fresh = w.fresh
                 /\ lbs'[w.lb].st \notin {"active", "pending"}
<1> DEFINE x == [w EXCEPT !.pc = "bundles"]
<1>1. /\ WorkerFrame /\ ApiFrame /\ w.pc = "delete" /\ bundles' = bundles /\ fips' = fips
      /\ DeleteLoadBalancer(w.lb)
      /\ IF Deletable(w.lb) \/ ~ Alive(w.lb) THEN Answered(x) ELSE Fail
  BY DEF TearDownDeletes
<1>2. w.lb \in LB
  BY <1>1 DEF TypeInv, WorkerSet, Holding, Teardown
<1>3. x \in WorkerSet /\ x.pc = "bundles" /\ x.snap = w.snap /\ x.fresh = w.fresh
  <2>1. "bundles" \in {"bundles"} \cup Teardown /\ "bundles" \notin Teardown
    BY DEF Teardown
  <2> QED BY <2>1, OnwardHere
<1> HIDE DEF x
<1>4. /\ lbs' \in [LB -> LBRec] /\ Doomed(w.lb)
      /\ Deletable(w.lb) \/ ~ Alive(w.lb) => ~ (lbs'[w.lb].st \in {"active", "pending"})
  BY <1>1, <1>2, DoomedIs DEF InService
<1>5. CloudOK'
  BY <1>1, <1>4 DEF TypeInv, CloudOK
<1>6. Outcome(x)
  BY <1>1 DEF Outcome, Answered
<1>7. TypeInv' /\ (w' = x \/ w' = Idle)
  BY <1>1, <1>3, <1>5, <1>6, FramedQuiet
<1>8. w' = Idle \/ (w' = x /\ ~ (lbs'[w.lb].st \in {"active", "pending"}))
  BY <1>1, <1>4, <1>7 DEF Fail
<1> QED BY <1>1, <1>2, <1>3, <1>4, <1>7, <1>8

LEMMA CleansStep ==
    ASSUME TypeInv, TearDownCleans
    PROVE  /\ TypeInv' /\ lbs' = lbs /\ ApiFrame /\ w.pc = "bundles" /\ (w' = Idle \/ w' = w)
<1>1. /\ WorkerFrame /\ ApiFrame /\ w.pc = "bundles" /\ UNCHANGED <<lbs, fips>>
  BY DEF TearDownCleans
<1>2. w \in WorkerSet
  BY DEF TypeInv
<1>3. CASE Succeed /\ UNCHANGED bundles
  <2>1. CloudOK' /\ Outcome(Idle)
    BY <1>1, <1>3, CloudSame DEF cloud, Succeed, Outcome
  <2> QED BY <1>1, <2>1, Blanks, FramedQuiet
<1>4. CASE \E r \in Stored : Delete(r) /\ Answered(w)
  <2>1. PICK r \in Ref : Delete(r) /\ Answered(w)
    BY <1>4 DEF Stored
  <2>2. CloudOK'
    BY <1>1, <2>1, Deleted
  <2>3. Outcome(w)
    BY <2>1 DEF Outcome, Answered
  <2> QED BY <1>1, <1>2, <2>2, <2>3, FramedQuiet
<1> QED BY <1>3, <1>4 DEF TearDownCleans

-----------------------------------------------------------------------------
(* The tenant, the watches, the sweep, Octavia and the process.            *)

LEMMA Spent ==
    ASSUME TypeInv, Spend
    PROVE  events' \in 0..MaxEvents
<1>1. events \in 0..MaxEvents /\ MaxEvents \in Nat
  BY Numbers DEF TypeInv, ProcOK
<1> QED BY <1>1 DEF Spend

(* What a write does to the copies of the Ingress.                         *)
LEMMA Written ==
    ASSUME TypeInv
    PROVE  LET x == [w EXCEPT !.fresh = FALSE] IN
           /\ x \in WorkerSet /\ x.pc = w.pc /\ x.lb = w.lb /\ x.snap = w.snap /\ x.refs = w.refs
           /\ x.next = w.next /\ x.fresh = FALSE
<1> DEFINE x == [w EXCEPT !.fresh = FALSE]
<1>1. /\ x \in WorkerRec /\ x.pc = w.pc /\ x.lb = w.lb /\ x.snap = w.snap /\ x.refs = w.refs
      /\ x.next = w.next /\ x.fresh = FALSE /\ x.n = w.n
  BY WorkerFields DEF WorkerRec
<1> HIDE DEF x
<1>2. x \in WorkerSet
  BY <1>1 DEF TypeInv, WorkerSet
<1> QED BY <1>1, <1>2 DEF x

Tenant == CreateIngress \/ EditIngress \/ DeleteIngress

LEMMA TenantStep ==
    ASSUME TypeInv, Tenant
    PROVE  /\ TypeInv' /\ UNCHANGED <<cache, proc, cloud, g>>
           /\ fresh' = FALSE /\ w' = [w EXCEPT !.fresh = FALSE]
           /\ ing'.lbId \in {0, ing.lbId}
<1>1. /\ UNCHANGED <<cache, cert, eps, proc, cloud, g>> /\ Spend
      /\ fresh' = FALSE /\ w' = [w EXCEPT !.fresh = FALSE]
  BY DEF Tenant, CreateIngress, EditIngress, DeleteIngress, Write
<1>2. ing \in IngRec
  BY DEF TypeInv, K8sOK
<1>3. ing' \in IngRec /\ ing'.lbId \in {0, ing.lbId}
  <2>1. CASE CreateIngress
    <3>1. PICK v \in Version : ing' = [Absent EXCEPT !.st = "here", !.spec = v]
      BY <2>1 DEF CreateIngress, Write
    <3> QED BY <3>1, Blanks DEF IngRec
  <2>2. CASE EditIngress
    <3>1. PICK v \in Version : ing' = [ing EXCEPT !.spec = v]
      BY <2>2 DEF EditIngress, Write
    <3> QED BY <1>2, <3>1 DEF IngRec
  <2>3. CASE DeleteIngress
    <3>1. ing' = Absent \/ ing' = [ing EXCEPT !.st = "deleting"]
      BY <2>3 DEF DeleteIngress, Write
    <3> QED BY <1>2, <3>1, Blanks DEF IngRec
  <2> QED BY <2>1, <2>2, <2>3 DEF Tenant
<1>4. K8sOK'
  BY <1>1, <1>3 DEF TypeInv, K8sOK
<1>5. ProcOK'
  BY <1>1, Spent DEF TypeInv, ProcOK, proc
<1>6. CloudOK'
  BY <1>1, CloudSame
<1>7. w' \in WorkerSet
  BY <1>1, Written
<1> QED BY <1>1, <1>3, <1>4, <1>5, <1>6, <1>7 DEF TypeInv, SweepOK

Around == \/ \E s \in Secret : Rotate(s)
          \/ \E b \in Backend : MoveEndpoints(b)
          \/ WatchIngress \/ Resync \/ SyncNamespaces \/ Unlabel

LEMMA AroundStep ==
    ASSUME TypeInv, Around
    PROVE  /\ TypeInv' /\ UNCHANGED <<ing, cloud, w>>
           /\ served' # "no" => served # "no"
           /\ \/ UNCHANGED <<cache, fresh, g>>
              \/ /\ cache' = ing /\ fresh' = TRUE /\ served' = served
                 /\ g' = [g EXCEPT !.overtaken = g.pc # "idle" /\ (@ \/ Wanted(ing))]
<1>1. UNCHANGED <<ing, cloud, w>>
  BY DEF Around, Rotate, MoveEndpoints, WatchIngress, Resync, SyncNamespaces, Unlabel, k8s
<1>2. CloudOK' /\ w' \in WorkerSet
  BY <1>1, CloudSame DEF TypeInv
<1>3. \/ UNCHANGED <<cache, fresh, g>>
      \/ /\ cache' = ing /\ fresh' = TRUE /\ served' = served
         /\ g' = [g EXCEPT !.overtaken = g.pc # "idle" /\ (@ \/ Wanted(ing))]
  BY DEF Around, Rotate, MoveEndpoints, WatchIngress, Resync, SyncNamespaces, Unlabel, k8s
<1>4. served' # "no" => served # "no"
  BY DEF Around, Rotate, MoveEndpoints, WatchIngress, Resync, SyncNamespaces, Unlabel, proc
<1>5. served' \in {"unknown", "yes", "no"}
  BY DEF Around, Rotate, MoveEndpoints, WatchIngress, Resync, SyncNamespaces, Unlabel, proc,
         TypeInv, ProcOK
<1>6. queued' \in BOOLEAN
  BY DEF Around, Rotate, MoveEndpoints, WatchIngress, Resync, SyncNamespaces, Unlabel, proc,
         TypeInv, ProcOK
<1>7. events' \in 0..MaxEvents
  <2>1. events' = events \/ Spend
    BY DEF Around, Rotate, MoveEndpoints, WatchIngress, Resync, SyncNamespaces, Unlabel
  <2> QED BY <2>1, Spent DEF TypeInv, ProcOK
<1>8. cert' \in [Secret -> 1..MaxCerts]
  <2>1. cert \in [Secret -> 1..MaxCerts]
    BY DEF TypeInv, K8sOK
  <2>2. ASSUME NEW s \in Secret, Rotate(s) PROVE cert' \in [Secret -> 1..MaxCerts]
    <3>1. cert[s] + 1 \in 1..MaxCerts
      BY <2>1, <2>2, Numbers DEF Rotate
    <3> QED BY <2>1, <2>2, <3>1 DEF Rotate
  <2>3. cert' = cert \/ \E s \in Secret : Rotate(s)
    BY DEF Around, MoveEndpoints, WatchIngress, Resync, SyncNamespaces, Unlabel, k8s
  <2> QED BY <2>1, <2>2, <2>3
<1>9. eps' \in [Backend -> 0..1]
  <2>1. eps \in [Backend -> 0..1]
    BY DEF TypeInv, K8sOK
  <2>2. ASSUME NEW b \in Backend, MoveEndpoints(b) PROVE eps' \in [Backend -> 0..1]
    <3>1. 1 - eps[b] \in 0..1
      BY <2>1
    <3> QED BY <2>1, <2>2, <3>1 DEF MoveEndpoints
  <2>3. eps' = eps \/ \E b \in Backend : MoveEndpoints(b)
    BY DEF Around, Rotate, WatchIngress, Resync, SyncNamespaces, Unlabel, k8s
  <2> QED BY <2>1, <2>2, <2>3
<1>10. K8sOK'
  BY <1>1, <1>3, <1>8, <1>9 DEF TypeInv, K8sOK
<1>11. SweepOK'
  <2>1. g \in SweepRec /\ (g.pc # "idle" => g.id \in LB)
    BY DEF TypeInv, SweepOK
  <2>2. ASSUME g' = [g EXCEPT !.overtaken = g.pc # "idle" /\ (@ \/ Wanted(ing))]
        PROVE  g' \in SweepRec /\ g'.pc = g.pc /\ g'.id = g.id
    BY <2>1, <2>2 DEF SweepRec
  <2> QED BY <1>3, <2>1, <2>2 DEF SweepOK
<1> QED BY <1>1, <1>2, <1>3, <1>4, <1>5, <1>6, <1>7, <1>10, <1>11 DEF TypeInv, ProcOK

(* A load balancer that nobody reconciles is left as it is, or is gone, or *)
(* changes its state alone.                                                *)
Untouched ==
    \A i \in LB :
       \/ lbs'[i] = lbs[i]
       \/ lbs'[i] = NoLB
       \/ /\ InService(i) /\ lbs'[i].st # "none"
          /\ lbs'[i].listener = lbs[i].listener /\ lbs'[i].pools = lbs[i].pools

LEMMA DoomedUntouched ==
    ASSUME NEW i \in LB, Doomed(i)
    PROVE  Untouched
BY DEF Doomed, Untouched, InService

(* Where a step of the sweep leaves the sweep.                             *)
SweepGoesOn ==
    \/ g'.pc = "idle"
    \/ /\ g.pc = "idle" /\ g'.pc = "release" /\ g'.id \in LB /\ Alive(g'.id) /\ Condemned
       /\ lbs' = lbs
    \/ /\ g.pc # "idle" /\ g'.id = g.id /\ g'.overtaken = g.overtaken
       /\ g'.pc \in {"list", "clean"} => \/ g.pc \in {"list", "clean"}
                                         \/ lbs'[g.id].st \notin {"active", "pending"}

LEMMA SweepShape ==
    ASSUME TypeInv, SweepStep \/ SweepFails
    PROVE  /\ TypeInv' /\ UNCHANGED <<k8s, proc, w>> /\ Untouched /\ SweepGoesOn
           /\ \A r \in Ref : bundles'[r] # bundles[r] => g.pc = "clean" /\ r \in g.doomed
<1>1. UNCHANGED <<k8s, proc, w>>
  BY DEF SweepStep, SweepFails, Sweep, SweepReleases, SweepDeletes, SweepLists, SweepCleans, SweepFrame
<1>2. K8sOK' /\ w' \in WorkerSet
  BY <1>1 DEF TypeInv, K8sOK, k8s
<1>3. ProcOK'
  <2>1. events' = events \/ Spend
    BY DEF SweepStep, SweepFails, Sweep, SweepReleases, SweepDeletes, SweepLists, SweepCleans, Fault
  <2> QED BY <1>1, <2>1, Spent DEF TypeInv, ProcOK, proc
<1>4. g \in SweepRec /\ (g.pc # "idle" => g.id \in LB)
  BY DEF TypeInv, SweepOK
<1>5. lbs' = lbs => Untouched
  BY DEF Untouched
<1>6. ASSUME CloudOK', g' \in SweepRec, g'.pc # "idle" => g'.id \in LB
      PROVE  TypeInv'
  BY <1>2, <1>3, <1>6 DEF TypeInv, SweepOK
<1>7. ASSUME NEW i \in LB, Sweep(i)
      PROVE  /\ TypeInv' /\ Untouched /\ SweepGoesOn
             /\ \A r \in Ref : bundles'[r] # bundles[r] => g.pc = "clean" /\ r \in g.doomed
  <2>1. /\ g' \in SweepRec /\ g'.pc = "release" /\ g'.id = i
    BY <1>7, Blanks DEF Sweep, SweepRec
  <2>2. CloudOK' /\ lbs' = lbs /\ bundles' = bundles
    BY <1>7, CloudSame DEF Sweep, cloud
  <2>3. SweepGoesOn
    BY <1>7, <2>1, <2>2 DEF Sweep, SweepGoesOn
  <2> QED BY <1>5, <1>6, <2>1, <2>2, <2>3
<1>8. CASE SweepReleases
  <2>1. /\ g.pc = "release" /\ g' = [g EXCEPT !.pc = "delete"] /\ lbs' = lbs /\ bundles' = bundles
        /\ ReleaseFIP(g.id)
    BY <1>8 DEF SweepReleases
  <2>2. g' \in SweepRec /\ g'.pc = "delete" /\ g'.id = g.id /\ g'.overtaken = g.overtaken
    BY <1>4, <2>1 DEF SweepRec
  <2>3. CloudOK'
    BY <1>4, <2>1, Released DEF TypeInv, CloudOK
  <2>4. SweepGoesOn
    BY <2>1, <2>2 DEF SweepGoesOn
  <2> QED BY <1>1, <1>4, <1>5, <1>6, <2>1, <2>2, <2>3, <2>4
<1>9. CASE SweepDeletes
  <2>1. /\ g.pc = "delete" /\ DeleteLoadBalancer(g.id) /\ bundles' = bundles /\ fips' = fips
        /\ g' = IF Deletable(g.id) \/ ~ Alive(g.id) THEN [g EXCEPT !.pc = "list"] ELSE Resting
    BY <1>9 DEF SweepDeletes
  <2> DEFINE i == g.id
  <2>2. i \in LB
    BY <1>4, <2>1
  <2>3. /\ lbs' \in [LB -> LBRec] /\ Doomed(i)
        /\ Deletable(i) \/ ~ Alive(i) => ~ (lbs'[i].st \in {"active", "pending"})
    BY <2>1, <2>2, DoomedIs DEF InService
  <2>4. CloudOK' /\ Untouched
    BY <2>1, <2>2, <2>3, DoomedUntouched DEF TypeInv, CloudOK
  <2> DEFINE x == [g EXCEPT !.pc = "list"]
  <2>5. x \in SweepRec /\ x.pc = "list" /\ x.id = g.id /\ x.overtaken = g.overtaken
    BY <1>4 DEF SweepRec
  <2> HIDE DEF x
  <2>6. g' = Resting \/ (g' = x /\ ~ (lbs'[i].st \in {"active", "pending"}))
    BY <2>1, <2>3 DEF x
  <2>7. SweepGoesOn
    BY <2>1, <2>5, <2>6, Blanks DEF SweepGoesOn
  <2>8. TypeInv'
    BY <1>6, <2>2, <2>4, <2>5, <2>6, Blanks
  <2> QED BY <1>1, <2>1, <2>4, <2>7, <2>8
<1>10. CASE SweepLists
  <2> DEFINE x == [g EXCEPT !.pc = "clean", !.doomed = Stored]
  <2>1. g.pc = "list" /\ (g' = Resting \/ g' = x) /\ UNCHANGED cloud
    BY <1>10 DEF SweepLists
  <2>2. x \in SweepRec /\ x.pc = "clean" /\ x.id = g.id /\ x.overtaken = g.overtaken
    BY <1>4 DEF SweepRec, Stored
  <2> HIDE DEF x
  <2>3. CloudOK' /\ lbs' = lbs /\ bundles' = bundles
    BY <2>1, CloudSame DEF cloud
  <2>4. SweepGoesOn
    BY <2>1, <2>2, Blanks DEF SweepGoesOn
  <2>5. TypeInv'
    BY <1>4, <1>6, <2>1, <2>2, <2>3, Blanks
  <2> QED BY <1>1, <1>5, <2>3, <2>4, <2>5
<1>11. CASE SweepCleans
  <2>1. PICK r \in g.doomed : /\ Delete(r)
                              /\ g' = IF g.doomed = {r} THEN Resting
                                      ELSE [g EXCEPT !.doomed = @ \ {r}]
    BY <1>11 DEF SweepCleans
  <2>2. g.pc = "clean" /\ UNCHANGED <<lbs, fips>>
    BY <1>11 DEF SweepCleans
  <2> DEFINE x == [g EXCEPT !.doomed = @ \ {r}]
  <2>3. x \in SweepRec /\ x.pc = "clean" /\ x.id = g.id /\ x.overtaken = g.overtaken
    BY <1>4, <2>2 DEF SweepRec
  <2>4. g' = Resting \/ g' = x
    BY <2>1
  <2> HIDE DEF x
  <2>5. r \in Ref
    BY <1>4 DEF SweepRec
  <2>6. CloudOK' /\ \A q \in Ref : q # r => bundles'[q] = bundles[q]
    BY <2>1, <2>2, <2>5, Deleted
  <2>7. SweepGoesOn
    BY <2>2, <2>3, <2>4, Blanks DEF SweepGoesOn
  <2>8. TypeInv'
    BY <1>4, <1>6, <2>2, <2>3, <2>4, <2>6, Blanks
  <2> QED BY <1>1, <1>5, <2>1, <2>2, <2>6, <2>7, <2>8
<1>12. CASE SweepFails
  <2>1. CloudOK' /\ lbs' = lbs /\ bundles' = bundles /\ g' = Resting
    BY <1>12, CloudSame DEF SweepFails, cloud
  <2>2. SweepGoesOn
    BY <2>1, Blanks DEF SweepGoesOn
  <2> QED BY <1>1, <1>5, <1>6, <2>1, <2>2, Blanks
<1> QED BY <1>1, <1>7, <1>8, <1>9, <1>10, <1>11, <1>12 DEF SweepStep

LEMMA OctaviaShape ==
    ASSUME TypeInv, NEW i \in LB, Settle(i) \/ Removed(i) \/ Vanish(i)
    PROVE  TypeInv' /\ UNCHANGED <<k8s, proc, bundles, w, g>> /\ Untouched
<1>1. UNCHANGED <<k8s, proc, bundles, w, g>>
  BY DEF Settle, Removed, Vanish
<1>2. K8sOK' /\ w' \in WorkerSet /\ SweepOK'
  BY <1>1 DEF TypeInv, K8sOK, k8s, SweepOK
<1>3. ProcOK'
  <2>1. events' = events \/ Spend
    BY DEF Settle, Removed, Vanish, Fault
  <2> QED BY <1>1, <2>1, Spent DEF TypeInv, ProcOK, proc
<1>4. lbs \in [LB -> LBRec] /\ lbs[i] \in LBRec /\ fips \in [FIP -> FIPRec]
  BY LBFields DEF TypeInv, CloudOK
<1>5. lbs' \in [LB -> LBRec] /\ fips' \in [FIP -> FIPRec] /\ Untouched
  <2>1. CASE Settle(i)
    <3> DEFINE x == [lbs[i] EXCEPT !.st = "active"]
    <3>1. x \in LBRec /\ x.st = "active" /\ x.listener = lbs[i].listener /\ x.pools = lbs[i].pools
      BY <1>4 DEF LBRec, LBState
    <3>2. lbs' = [lbs EXCEPT ![i] = x] /\ fips' = fips /\ lbs[i].st = "pending"
      BY <1>4, <2>1 DEF Settle
    <3> HIDE DEF x
    <3> QED BY <1>4, <3>1, <3>2 DEF Untouched, InService
  <2>2. CASE Gone(i)
    <3>1. \A f \in FIP : [fips[f] EXCEPT !.port = 0] \in FIPRec
      BY <1>4 DEF FIPRec
    <3> QED BY <1>4, <2>2, <3>1, Blanks DEF Gone, Untouched
  <2> QED BY <2>1, <2>2 DEF Removed, Vanish
<1> QED BY <1>1, <1>2, <1>3, <1>5 DEF TypeInv, CloudOK

LEMMA RestartShape ==
    ASSUME TypeInv, Restart
    PROVE  /\ TypeInv' /\ UNCHANGED <<ing, cloud>> /\ cache' = ing /\ w' = Idle /\ g' = Resting
<1>1. /\ UNCHANGED <<ing, cert, eps, cloud>> /\ cache' = ing /\ fresh' = TRUE /\ w' = Idle
      /\ g' = Resting /\ queued' = (ing.st # "absent") /\ Spend
      /\ served' = IF served = "no" THEN "no" ELSE "unknown"
  BY DEF Restart, Fault
<1>2. K8sOK'
  BY <1>1 DEF TypeInv, K8sOK
<1>3. ProcOK'
  BY <1>1, Spent DEF ProcOK
<1> QED BY <1>1, <1>2, <1>3, Blanks, CloudSame DEF TypeInv, SweepOK

-----------------------------------------------------------------------------
LEMMA Stuttering ==
    ASSUME TypeInv, UNCHANGED vars
    PROVE  TypeInv'
BY DEF TypeInv, vars, k8s, proc, cloud, K8sOK, ProcOK, CloudOK, SweepOK

LEMMA WorkerTypes == ASSUME TypeInv, WorkerStep PROVE TypeInv'
<1>1. CASE EnsureByID \/ EnsureByName \/ WaitActive \/ RecordID \/ EnsureTLS
  BY <1>1, EnsureByIDTypes, EnsureByNameTypes, WaitActiveTypes, RecordIDTypes, EnsureTLSTypes
<1>2. CASE EnsureBackendPool \/ EnsureListener \/ CleanStale \/ SyncPoolMembers
  BY <1>2, PoolStep, ListenerStep, CleanStep, MemberStep
<1>3. CASE ComparePolicies \/ DropPolicies \/ MakePolicies \/ GcStalePools
  BY <1>3, CompareStep, DropStep, MakeStep, GcStep
<1>4. CASE EnsureFIP \/ PublishStatus \/ LookupForTearDown
  BY <1>4, FIPStep, PublishTypes, LookupStep
<1>5. CASE TearDownReleases \/ TearDownDeletes \/ TearDownCleans
  BY <1>5, ReleaseStep, DeleteStep, CleansStep
<1> QED BY <1>1, <1>2, <1>3, <1>4, <1>5 DEF WorkerStep

LEMMA NextTypes == TypeInv /\ [Next]_vars => TypeInv'
<1> SUFFICES ASSUME TypeInv, [Next]_vars PROVE TypeInv'
  OBVIOUS
<1>1. CASE Tenant \/ Around
  BY <1>1, TenantStep, AroundStep
<1>2. CASE Take \/ WorkerStep \/ CallFails
  BY <1>2, TakeTypes, WorkerTypes, CallFailsTypes
<1>3. CASE SweepStep \/ SweepFails
  BY <1>3, SweepShape
<1>4. CASE \E i \in LB : Settle(i) \/ Removed(i) \/ Vanish(i)
  BY <1>4, OctaviaShape
<1>5. CASE Restart
  BY <1>5, RestartShape
<1>6. CASE UNCHANGED vars
  BY <1>6, Stuttering
<1> QED BY <1>1, <1>2, <1>3, <1>4, <1>5, <1>6 DEF Next, Tenant, Around

LEMMA Typed == Spec => []TypeInv
BY InitTypes, NextTypes, PTL DEF Spec

(* Whatever happens, what is stored, built and under way is well formed:   *)
(* in particular a listener serves HTTPS exactly when it has a certificate *)
(* (ensureListener), because the worker comes to it with a bundle for each *)
(* Secret of the Ingress.                                                  *)
THEOREM TypeCorrect == Spec => []TypeOK
BY Typed, TypesFollow, PTL

-----------------------------------------------------------------------------
(* Where the steps that come before and around the reconcile leave the     *)
(* worker.  A worker presses on when it is to work on a load balancer      *)
(* without comparing copies of the Ingress first.                          *)

Pressing(x) == x.pc \in Late \/ (x.pc = "wait" /\ x.next = "tls")
SameCopy    == w' = Idle \/ (w'.snap = w.snap /\ w'.fresh = w.fresh)

LEMMA Quiet ==
    /\ Idle.pc \notin Holding /\ Idle.pc # "bundles" /\ ~ Pressing(Idle)
    /\ Idle.fresh = FALSE /\ Idle.snap.lbId = 0
BY Blanks DEF Holding, Late, Teardown, Pressing

LEMMA TakeShape ==
    ASSUME TypeInv, Take
    PROVE  /\ UNCHANGED cloud /\ ApiFrame /\ WorkerFrame
           /\ \/ w' = Idle \/ w' = w
              \/ w'.pc \in {"lookup", "ensure"} /\ w'.snap = cache /\ w'.fresh = fresh
<1> DEFINE new == [Idle EXCEPT !.snap = cache, !.fresh = fresh]
           x(pc) == [new EXCEPT !.pc = pc]
<1>1. \A pc : x(pc).pc = pc /\ x(pc).snap = cache /\ x(pc).fresh = fresh
  BY DEF Idle
<1>2. w' = Idle \/ w' = w \/ w' = x("lookup") \/ w' = x("ensure")
  BY DEF Take
<1> HIDE DEF x
<1> QED BY <1>1, <1>2 DEF Take

LEMMA CallFailsShape ==
    ASSUME TypeInv, CallFails
    PROVE  UNCHANGED cloud /\ ApiFrame /\ WorkerFrame /\ w' = Idle
BY DEF CallFails, Failed

LEMMA FoundShape ==
    ASSUME TypeInv, w.pc \in {"ensure", "byName"}, NEW i \in LB, NEW next \in {"record", "tls"},
           Found(i, next)
    PROVE  SameCopy /\ (w' = Idle \/ (w'.pc = "wait" /\ w'.lb = i /\ w'.next = next))
<1> DEFINE x == [w EXCEPT !.pc = "wait", !.lb = i, !.next = next]
<1>1. x.pc = "wait" /\ x.lb = i /\ x.next = next /\ x.snap = w.snap /\ x.fresh = w.fresh
  BY WorkerFields DEF WorkerRec
<1>2. w' = x \/ w' = Idle
  BY DEF Found, Goto, Fail
<1> HIDE DEF x
<1> QED BY <1>1, <1>2 DEF SameCopy

LEMMA ByIDShape ==
    ASSUME TypeInv, EnsureByID
    PROVE  /\ UNCHANGED cloud /\ ApiFrame /\ WorkerFrame /\ SameCopy
           /\ \/ w' = Idle \/ w'.pc = "byName"
              \/ w'.pc = "wait" /\ w'.lb \in LB /\ Alive(w'.lb) /\ w'.lb = w.snap.lbId
<1> DEFINE id == w.snap.lbId
<1>1. WorkerFrame /\ ApiFrame /\ UNCHANGED cloud /\ w.pc = "ensure"
  BY DEF EnsureByID
<1>2. CASE id # 0 /\ Alive(id)
  <2>1. id \in LB
    BY <1>2, WorkerFields DEF IngRec
  <2>2. Found(id, "tls")
    BY <1>2 DEF EnsureByID
  <2>3. SameCopy /\ (w' = Idle \/ (w'.pc = "wait" /\ w'.lb = id))
    BY <1>1, <2>1, <2>2, FoundShape
  <2> QED BY <1>1, <1>2, <2>1, <2>3
<1>3. CASE ~ (id # 0 /\ Alive(id))
  <2>1. w' = [w EXCEPT !.pc = "byName"]
    BY <1>3 DEF EnsureByID, Goto
  <2>2. w'.pc = "byName" /\ w'.snap = w.snap /\ w'.fresh = w.fresh
    BY <2>1, WorkerFields DEF WorkerRec
  <2> QED BY <1>1, <2>2 DEF SameCopy
<1> QED BY <1>2, <1>3

(* A load balancer is made where none is, on an id nothing names.          *)
Makes(i) ==
    /\ \A j \in LB : ~ Alive(j)
    /\ \A x \in {ing, cache, w.snap} : x.lbId # i
    /\ i \in LB /\ g.id # i
    /\ lbs'[i].st = "pending" /\ lbs'[i].listener = NoListener
    /\ lbs'[i].pools = [b \in Backend |-> NoPool]
    /\ \A j \in LB : j # i => lbs'[j] = lbs[j]
    /\ w' = Idle \/ (w'.pc = "wait" /\ w'.next = "record" /\ w'.lb = i)

LEMMA ByNameShape ==
    ASSUME TypeInv, EnsureByName
    PROVE  /\ UNCHANGED <<bundles, fips>> /\ ApiFrame /\ WorkerFrame /\ SameCopy
           /\ \/ \E i \in LB : Makes(i)
              \/ lbs' = lbs /\ w' = Idle
              \/ /\ lbs' = lbs /\ w'.pc = "wait" /\ w'.next = "record"
                 /\ w'.lb \in LB /\ Alive(w'.lb)
<1> DEFINE found == {i \in LB : Alive(i)}
           i == CHOOSE i \in NewLB : \A j \in NewLB : i <= j
           made == [NoLB EXCEPT !.st = "pending", !.provider = Asked.provider]
           x == [w EXCEPT !.pc = "wait", !.lb = i, !.next = "record"]
<1>1. WorkerFrame /\ ApiFrame /\ w.pc = "byName" /\ UNCHANGED <<bundles, fips>>
  BY DEF EnsureByName
<1>2. CASE \E j \in found : Found(j, "record") /\ UNCHANGED lbs
  <2>1. PICK j \in LB : Alive(j) /\ Found(j, "record") /\ UNCHANGED lbs
    BY <1>2
  <2>2. SameCopy /\ (w' = Idle \/ (w'.pc = "wait" /\ w'.lb = j /\ w'.next = "record"))
    BY <1>1, <2>1, FoundShape
  <2> QED BY <1>1, <2>1, <2>2
<1>3. CASE Fail /\ UNCHANGED lbs
  BY <1>1, <1>3 DEF Fail, SameCopy
<1>4. CASE found = {} /\ NewLB # {} /\ lbs' = [lbs EXCEPT ![i] = made] /\ Answered(x)
  <2>1. /\ i \in LB /\ g.id # i
        /\ \A y \in {ing, cache, w.snap} : y.lbId # i
    BY <1>4, NewLBChosen
  <2>2. /\ made.st = "pending" /\ made.listener = NoListener
        /\ made.pools = [b \in Backend |-> NoPool]
    BY DEF NoLB
  <2>3. x.pc = "wait" /\ x.lb = i /\ x.next = "record" /\ x.snap = w.snap /\ x.fresh = w.fresh
    BY <1>1, <2>1, Waits
  <2>4. w' = Idle \/ w' = x
    BY <1>4 DEF Answered, Goto, Failed
  <2>5. lbs \in [LB -> LBRec]
    BY DEF TypeInv, CloudOK
  <2> HIDE DEF i, made, x
  <2>6. Makes(i)
    BY <1>4, <2>1, <2>2, <2>3, <2>4, <2>5 DEF Makes
  <2> QED BY <1>1, <2>1, <2>3, <2>4, <2>6 DEF SameCopy
<1> QED BY <1>2, <1>3, <1>4 DEF EnsureByName

LEMMA WaitShape ==
    ASSUME TypeInv, WaitActive
    PROVE  /\ UNCHANGED cloud /\ ApiFrame /\ WorkerFrame /\ SameCopy /\ w.pc = "wait"
           /\ \/ w' = Idle
              \/ w'.pc = w.next /\ w'.lb = w.lb /\ w.next \in {"record", "tls"}
<1>1. UNCHANGED cloud /\ ApiFrame /\ WorkerFrame /\ w.pc = "wait"
  BY DEF WaitActive
<1>2. w.next \in {"record", "tls"}
  BY <1>1 DEF TypeInv, WorkerSet
<1> DEFINE x == [w EXCEPT !.pc = w.next]
<1>3. x.pc = w.next /\ x.lb = w.lb /\ x.snap = w.snap /\ x.fresh = w.fresh
  BY WorkerFields DEF WorkerRec
<1>4. w' = x \/ w' = Idle
  BY DEF WaitActive, Goto, Fail
<1> HIDE DEF x
<1> QED BY <1>1, <1>2, <1>3, <1>4 DEF SameCopy

LEMMA RecordShape ==
    ASSUME TypeInv, RecordID
    PROVE  /\ UNCHANGED cloud /\ WorkerFrame /\ w.pc = "record"
           /\ w' = Idle \/ (w'.pc = "tls" /\ w'.lb = w.lb /\ w'.snap = w.snap)
           /\ \/ ApiFrame /\ SameCopy /\ (w' = Idle \/ w.snap.lbId = w.lb)
              \/ w.fresh /\ fresh' = FALSE /\ w'.fresh = FALSE /\ ing'.lbId = w.lb
<1> DEFINE x == [w EXCEPT !.pc = "tls"]
           y == [w EXCEPT !.pc = "tls", !.fresh = FALSE]
<1>1. UNCHANGED cloud /\ WorkerFrame /\ w.pc = "record"
  BY DEF RecordID
<1>2. x.pc = "tls" /\ x.lb = w.lb /\ x.snap = w.snap /\ x.fresh = w.fresh
  BY WorkerFields DEF WorkerRec
<1>3. y.pc = "tls" /\ y.lb = w.lb /\ y.snap = w.snap /\ y.fresh = FALSE
  BY WorkerFields DEF WorkerRec
<1>4. CASE ApiFrame /\ (Fail \/ (w.snap.lbId = w.lb /\ Goto(x)))
  <2>1. w' = Idle \/ (w' = x /\ w.snap.lbId = w.lb)
    BY <1>4 DEF Fail, Goto
  <2> HIDE DEF x
  <2> QED BY <1>1, <1>2, <1>4, <2>1 DEF SameCopy
<1>5. CASE w.fresh /\ ing' = [w.snap EXCEPT !.lbId = w.lb] /\ fresh' = FALSE /\ Answered(y)
  <2>1. ing'.lbId = w.lb
    BY <1>5, WorkerFields DEF IngRec
  <2>2. w' = Idle \/ w' = y
    BY <1>5 DEF Answered, Goto, Failed
  <2> HIDE DEF y
  <2> QED BY <1>1, <1>3, <1>5, <2>1, <2>2, Quiet
<1> QED BY <1>4, <1>5, Steps DEF RecordID

LEMMA TLSShape ==
    ASSUME TypeInv, EnsureTLS
    PROVE  /\ UNCHANGED <<lbs, fips>> /\ ApiFrame /\ WorkerFrame /\ SameCopy /\ w.pc = "tls"
           /\ w' = Idle \/ (w'.pc \in {"tls", "pools"} /\ w'.lb = w.lb)
           /\ \A r \in Ref : bundles'[r] # bundles[r] => r \notin Stored
<1> DEFINE has(r) == [w EXCEPT !.n = @ + 1, !.refs = Append(@, r)]
           new == CHOOSE r \in NewRef : \A q \in NewRef : r <= q
           x == [w EXCEPT !.pc = "pools", !.n = 1]
<1>1. UNCHANGED <<lbs, fips>> /\ ApiFrame /\ WorkerFrame /\ w.pc = "tls"
  BY DEF EnsureTLS
<1>2. x.pc = "pools" /\ x.lb = w.lb /\ x.snap = w.snap /\ x.fresh = w.fresh
  BY WorkerFields DEF WorkerRec
<1>3. \A r : /\ has(r).pc = "tls" /\ has(r).lb = w.lb /\ has(r).snap = w.snap
             /\ has(r).fresh = w.fresh
  BY <1>1, WorkerFields DEF WorkerRec
<1>4. w' = Idle \/ w' = x \/ \E r : w' = has(r)
  BY Steps DEF EnsureTLS, Goto, Answered, Failed
<1>5. \/ bundles' = bundles
      \/ NewRef # {} /\ \E b : bundles' = [bundles EXCEPT ![new] = b]
  BY DEF EnsureTLS
<1>6. \A r \in Ref : bundles'[r] # bundles[r] => r \notin Stored
  <2>1. NewRef # {} => new \in Ref /\ new \notin Stored
    BY NewRefChosen
  <2>2. bundles \in [Ref -> BundleSet]
    BY DEF TypeInv, CloudOK
  <2> HIDE DEF new
  <2> QED BY <1>5, <2>1, <2>2
<1> HIDE DEF x, has
<1> QED BY <1>1, <1>2, <1>3, <1>4, <1>6 DEF SameCopy

LEMMA PublishShape ==
    ASSUME TypeInv, PublishStatus
    PROVE  /\ UNCHANGED cloud /\ WorkerFrame /\ w' = Idle /\ ing'.lbId = ing.lbId
           /\ ApiFrame \/ fresh' = FALSE
<1>1. UNCHANGED cloud /\ WorkerFrame /\ (ApiFrame \/ fresh' = FALSE)
  BY DEF PublishStatus
<1>2. ing'.lbId = ing.lbId
  <2>1. ing' = ing \/ ing' = [ing EXCEPT !.status = w.addr]
    BY DEF PublishStatus, ApiFrame
  <2>2. ing \in IngRec
    BY DEF TypeInv, K8sOK
  <2> QED BY <2>1, <2>2 DEF IngRec
<1> QED BY <1>1, <1>2, PublishTypes

-----------------------------------------------------------------------------
(* The steps of the reconcile, from the pools to the address, and what the *)
(* others have in common.                                                  *)

LateStep ==
    \/ EnsureBackendPool \/ EnsureListener \/ CleanStale \/ SyncPoolMembers
    \/ ComparePolicies \/ DropPolicies \/ MakePolicies \/ GcStalePools \/ EnsureFIP

LEMMA LateShape ==
    ASSUME TypeInv, LateStep
    PROVE  /\ w.pc \in Late /\ w.lb \in LB /\ ApiFrame /\ WorkerFrame /\ GoesOn /\ ChangesHeld
<1>1. w.pc \in Late /\ ApiFrame /\ WorkerFrame
  BY DEF LateStep, EnsureBackendPool, EnsureListener, CleanStale, SyncPoolMembers,
         ComparePolicies, DropPolicies, MakePolicies, GcStalePools, EnsureFIP, Late
<1>2. w.lb \in LB
  BY <1>1, LateHolds
<1>3. lbs' = lbs => ChangesHeld
  BY DEF ChangesHeld
<1>4. CASE EnsureBackendPool \/ EnsureListener \/ SyncPoolMembers
  BY <1>1, <1>2, <1>4, PoolStep, ListenerStep, MemberStep
<1>5. CASE DropPolicies \/ MakePolicies \/ GcStalePools
  BY <1>1, <1>2, <1>5, DropStep, MakeStep, GcStep
<1>6. CASE CleanStale \/ ComparePolicies \/ EnsureFIP
  BY <1>1, <1>2, <1>3, <1>6, CleanStep, CompareStep, FIPStep
<1> QED BY <1>4, <1>5, <1>6 DEF LateStep

(* A load balancer alive was so before, one in service was in service.     *)
Fewer ==
    \A i \in LB :
       /\ lbs'[i].st # "none" => lbs[i].st # "none"
       /\ lbs'[i].st \in {"active", "pending"} => lbs[i].st \in {"active", "pending"}
       /\ lbs'[i].st = "none" => lbs'[i] = NoLB \/ lbs'[i] = lbs[i]

LEMMA UntouchedFewer == ASSUME Untouched PROVE Fewer
BY Blanks DEF Untouched, Fewer, InService

LEMMA HeldFewer == ASSUME w.lb \in LB, ChangesHeld PROVE Fewer
BY DEF ChangesHeld, Fewer

LEMMA SameUntouched == ASSUME lbs' = lbs PROVE Untouched
BY DEF Untouched

(* There is one load balancer, it is the worker's once the worker has      *)
(* found one, and none is in service when a teardown deletes bundles.      *)
Single ==
    /\ \A i \in LB : lbs[i].st = "none" => lbs[i] = NoLB
    /\ \A i, j \in LB : lbs[i].st # "none" /\ lbs[j].st # "none" => i = j
    /\ w.pc \in Holding => \A i \in LB : lbs[i].st # "none" => i = w.lb
    /\ w.pc = "bundles" => \A i \in LB : lbs[i].st \notin {"active", "pending"}

LEMMA SingleKept ==
    ASSUME Single, Fewer,
           w'.pc \in Holding => \A i \in LB : lbs'[i].st # "none" => i = w'.lb,
           w'.pc = "bundles" => \A i \in LB : lbs'[i].st \notin {"active", "pending"}
    PROVE  Single'
BY DEF Single, Fewer

LEMMA SingleAside ==
    ASSUME Single, Fewer,
           w'.pc \in Holding => w.pc \in Holding /\ w'.lb = w.lb,
           w'.pc = "bundles" => w.pc = "bundles"
    PROVE  Single'
BY DEF Single, Fewer

LEMMA NextSingle == ASSUME TypeInv, Single, [Next]_vars PROVE Single'
<1>1. lbs' = lbs => Fewer
  BY SameUntouched, UntouchedFewer
<1>2. ASSUME Fewer, w' = Idle \/ w' = w PROVE Single'
  BY <1>2, Quiet, SingleAside
<1>3. CASE Tenant
  <2>1. w'.pc = w.pc /\ w'.lb = w.lb /\ lbs' = lbs
    BY <1>3, TenantStep, Written DEF cloud
  <2> QED BY <1>1, <2>1, SingleAside
<1>4. CASE Around \/ SweepStep \/ SweepFails \/ \E i \in LB : Settle(i) \/ Removed(i) \/ Vanish(i)
  <2>1. w' = w /\ Fewer
    BY <1>1, <1>4, AroundStep, SweepShape, OctaviaShape, UntouchedFewer DEF cloud
  <2> QED BY <1>2, <2>1
<1>5. CASE CallFails \/ PublishStatus \/ Restart
  <2>1. w' = Idle /\ lbs' = lbs
    BY <1>5, CallFailsShape, PublishShape, RestartShape DEF cloud
  <2> QED BY <1>1, <1>2, <2>1
<1>6. CASE Take
  <2>1. lbs' = lbs /\ (w' = Idle \/ w' = w \/ w'.pc \in {"lookup", "ensure"})
    BY <1>6, TakeShape DEF cloud
  <2>2. w'.pc \in {"lookup", "ensure"} => w'.pc \notin Holding /\ w'.pc # "bundles"
    BY DEF Holding, Late, Teardown
  <2> QED BY <1>1, <1>2, <2>1, <2>2, SingleAside
<1>7. CASE EnsureByID \/ (EnsureByName /\ lbs' = lbs)
  <2>1. /\ lbs' = lbs
        /\ \/ w' = Idle \/ w'.pc = "byName"
           \/ w'.pc = "wait" /\ w'.lb \in LB /\ lbs[w'.lb].st # "none"
    <3>1. ASSUME NEW i \in LB, Makes(i), lbs' = lbs PROVE FALSE
      BY <3>1 DEF Makes, Alive
    <3> QED BY <1>7, <3>1, ByIDShape, ByNameShape DEF cloud, Alive
  <2>2. "byName" \notin Holding /\ "wait" # "bundles"
    BY DEF Holding, Late, Teardown
  <2>3. w'.pc = "wait" => \A i \in LB : lbs'[i].st # "none" => i = w'.lb
    BY <2>1, <2>2, Blanks DEF Single
  <2> QED BY <1>1, <2>1, <2>2, <2>3, Quiet, SingleKept
<1>8. CASE EnsureByName /\ ~ (lbs' = lbs)
  <2>1. PICK i \in LB : Makes(i)
    BY <1>8, ByNameShape
  <2>2. /\ \A j \in LB : lbs[j].st = "none"
        /\ \A j \in LB : j # i => lbs'[j] = lbs[j]
        /\ w' = Idle \/ (w'.pc = "wait" /\ w'.lb = i)
        /\ lbs'[i].st = "pending"
    BY <2>1 DEF Makes, Alive
  <2> QED BY <2>2, Quiet DEF Single
<1>9. CASE WaitActive \/ RecordID \/ EnsureTLS
  <2>1. /\ lbs' = lbs /\ w.pc \in {"wait", "record", "tls"}
        /\ w' = Idle \/ (w'.pc \in {"record", "tls", "pools"} /\ w'.lb = w.lb)
    BY <1>9, WaitShape, RecordShape, TLSShape DEF cloud
  <2>2. w.pc \in Holding
    BY <2>1 DEF Holding, Late
  <2> QED BY <1>1, <2>1, <2>2, Quiet, SingleAside
<1>10. CASE LateStep
  <2>1. w.pc \in Late /\ w.lb \in LB /\ GoesOn /\ ChangesHeld
    BY <1>10, LateShape
  <2>2. w.pc \in Holding /\ "bundles" \notin Late
    BY <2>1 DEF Holding, Late
  <2>3. w' = Idle \/ (w'.pc \in Late /\ w'.lb = w.lb)
    BY <2>1 DEF GoesOn
  <2> QED BY <2>1, <2>2, <2>3, Quiet, HeldFewer, SingleAside
<1>11. CASE LookupForTearDown
  <2>1. /\ lbs' = lbs
        /\ \/ w' = Idle
           \/ w'.pc = "bundles" /\ \A i \in LB : lbs[i].st = "none"
           \/ w'.pc = "release" /\ w'.lb \in LB /\ lbs[w'.lb].st # "none"
    BY <1>11, LookupStep DEF Alive
  <2>2. "bundles" \notin Holding
    BY DEF Holding, Late, Teardown
  <2>3. w'.pc = "release" => \A i \in LB : lbs'[i].st # "none" => i = w'.lb
    BY <2>1, Quiet, Blanks DEF Single
  <2> QED BY <1>1, <2>1, <2>2, <2>3, Quiet, SingleKept
<1>12. CASE TearDownReleases
  <2>1. lbs' = lbs /\ w.pc = "release" /\ (w' = Idle \/ (w'.pc = "delete" /\ w'.lb = w.lb))
    BY <1>12, ReleaseStep
  <2>2. w.pc \in Holding
    BY <2>1 DEF Holding, Teardown
  <2> QED BY <1>1, <2>1, <2>2, Quiet, SingleAside
<1>13. CASE TearDownDeletes
  <2>1. /\ Doomed(w.lb) /\ w.pc = "delete" /\ w.lb \in LB
        /\ w' = Idle \/ (w'.pc = "bundles" /\ lbs'[w.lb].st \notin {"active", "pending"})
    BY <1>13, DeleteStep
  <2>2. Fewer
    BY <2>1, DoomedUntouched, UntouchedFewer
  <2>3. w.pc \in Holding /\ "bundles" \notin Holding
    BY <2>1 DEF Holding, Teardown, Late
  <2>4. \A i \in LB : i = w.lb \/ lbs[i].st = "none"
    BY <2>3 DEF Single
  <2>5. w'.pc = "bundles" => \A i \in LB : lbs'[i].st \notin {"active", "pending"}
    BY <2>1, <2>2, <2>4, Quiet DEF Fewer
  <2> QED BY <2>1, <2>2, <2>3, <2>5, Quiet, SingleKept
<1>14. CASE TearDownCleans
  BY <1>1, <1>2, <1>14, CleansStep
<1>15. CASE UNCHANGED vars
  BY <1>1, <1>2, <1>15 DEF vars, cloud
<1> QED BY <1>3, <1>4, <1>5, <1>6, <1>7, <1>8, <1>9, <1>10, <1>11, <1>12, <1>13, <1>14, <1>15
        DEF Next, Tenant, Around, WorkerStep, LateStep

-----------------------------------------------------------------------------
(* From the listener on, the listener leads where the Ingress says: to its *)
(* default; with its first certificate, while the others are deleted; and  *)
(* by policies of its own, while pools are.                                *)

Tending == {"clean", "members", "policies", "drop", "make", "gc"}

Listening ==
    /\ w.pc \in Tending /\ lbs[w.lb].st # "none" => lbs[w.lb].listener.default = Asked.default
    /\ w.pc = "clean" /\ lbs[w.lb].st # "none" /\ w.refs # <<>>
          => lbs[w.lb].listener.ref = w.refs[1]
    /\ w.pc \in {"make", "gc"} => Led(lbs[w.lb].listener)

LEMMA LedSame ==
    ASSUME w'.snap = w.snap, w'.lb = w.lb
    PROVE  Asked' = Asked /\ (Led(lbs[w.lb].listener)' <=> Led(lbs'[w.lb].listener))
BY DEF Led, Asked

LEMMA ListeningAside ==
    ASSUME TypeInv, Listening, Untouched,
           w'.pc \in Tending => /\ w'.pc = w.pc /\ w'.lb = w.lb /\ w'.snap = w.snap
                                /\ w'.refs = w.refs
    PROVE  Listening'
<1>1. CASE w'.pc \notin Tending
  <2>1. w'.pc # "clean" /\ w'.pc \notin {"make", "gc"}
    BY <1>1 DEF Tending
  <2> QED BY <1>1, <2>1 DEF Listening
<1>2. CASE w'.pc \in Tending
  <2>1. w'.pc = w.pc /\ w'.lb = w.lb /\ w'.snap = w.snap /\ w'.refs = w.refs
    BY <1>2
  <2>2. w.lb \in LB
    <3>1. w.pc \in Late
      BY <1>2, <2>1 DEF Tending, Late
    <3> QED BY <3>1, LateHolds
  <2>3. Asked' = Asked /\ (Led(lbs[w.lb].listener)' <=> Led(lbs'[w.lb].listener))
    BY <2>1, LedSame
  <2>4. lbs'[w.lb].listener = lbs[w.lb].listener \/ lbs'[w.lb] = NoLB
    BY <2>2 DEF Untouched
  <2>5. lbs'[w.lb].st # "none" => /\ lbs[w.lb].st # "none"
                                  /\ lbs'[w.lb].listener = lbs[w.lb].listener
    BY <2>2, <2>4, Blanks, UntouchedFewer DEF Fewer
  <2>6. lbs'[w.lb] = NoLB => Led(lbs'[w.lb].listener)
    BY Blanks DEF Led
  <2>7. w'.pc \in {"make", "gc"} => Led(lbs'[w.lb].listener)
    BY <2>1, <2>4, <2>6 DEF Listening
  <2> QED BY <2>1, <2>3, <2>5, <2>7 DEF Listening
<1> QED BY <1>1, <1>2

(* Policies that are as desired lead where the rules do.                   *)
LEMMA MatchesLed ==
    ASSUME TypeInv, w.lb \in LB, Matches(AskedPolicies, Policies)
    PROVE  Led(lbs[w.lb].listener)
<1> DEFINE desired == AskedPolicies
           q == lbs[w.lb].listener.policies
<1>1. q \in Seq(L7Policy)
  BY LBFields
<1>2. Len(q) = Len(desired) /\ \A k \in DOMAIN q : existingSignature(q[k]) = desired[k]
  BY DEF Matches, Policies
<1>3. IsManifest(Asked)
  BY WorkerFields
<1>4. /\ Len(desired) = Len(Asked.rules)
      /\ \A k \in 1..Len(Asked.rules) : \E j \in DOMAIN Asked.rules : desired[k] = Asked.rules[j]
  BY <1>3, AskedIs, PoliciesTyped
<1>5. \A k \in DOMAIN q : existingSignature(q[k]).to = q[k].to
  BY DEF existingSignature
<1> HIDE DEF desired, q
<1>6. DOMAIN q = 1..Len(q)
  BY <1>1
<1>7. \A k \in DOMAIN q : \E j \in DOMAIN Asked.rules : q[k].to = Asked.rules[j].to
  BY <1>2, <1>4, <1>5, <1>6
<1> QED BY <1>7 DEF Led, q

LEMMA LateListening == ASSUME TypeInv, Listening, LateStep PROVE Listening'
<1>1. w.pc \in Late /\ w.lb \in LB /\ GoesOn /\ ChangesHeld
  BY LateShape
<1>2. CASE w'.pc \notin Tending
  <2>1. w'.pc # "clean" /\ w'.pc \notin {"make", "gc"}
    BY <1>2 DEF Tending
  <2> QED BY <1>2, <2>1 DEF Listening
<1>3. CASE w'.pc \in Tending
  <2>1. w' # Idle
    BY <1>3, Blanks DEF Tending
  <2>2. w'.lb = w.lb /\ w'.snap = w.snap /\ w'.refs = w.refs
    BY <1>1, <2>1 DEF GoesOn
  <2>3. Asked' = Asked /\ (Led(lbs[w.lb].listener)' <=> Led(lbs'[w.lb].listener))
    BY <2>2, LedSame
  <2>4. lbs'[w.lb].st # "none" => lbs[w.lb].st # "none"
    BY <1>1, HeldFewer DEF Fewer
  <2> DEFINE l == lbs[w.lb].listener
             m == lbs'[w.lb].listener
  <2>5. /\ w'.pc # "clean" \/ w.refs = <<>> \/ lbs'[w.lb].st = "none" \/ m.ref = w.refs[1]
        /\ lbs'[w.lb].st = "none" \/ m.default = Asked.default
        /\ w'.pc \in {"make", "gc"} => Led(m)
    <3>1. CASE EnsureBackendPool
      BY <1>3, <2>1, <3>1, PoolStep DEF Tending
    <3>2. CASE EnsureListener
      <4>1. w'.pc = "clean" /\ InLine(m)
        BY <1>3, <2>1, <3>2, ListenerStep DEF Tending
      <4> QED BY <4>1 DEF InLine
    <3>3. CASE CleanStale
      <4>1. w.pc = "clean" /\ lbs' = lbs /\ w'.pc \in {"clean", "members"}
        BY <2>1, <3>3, CleanStep DEF CleanStale
      <4> QED BY <4>1 DEF Listening, Tending
    <3>4. CASE SyncPoolMembers
      <4>1. w.pc = "members" /\ m = l /\ w'.pc \in {"members", "policies"}
        BY <1>1, <2>1, <3>4, MemberStep DEF SyncPoolMembers
      <4> QED BY <2>4, <4>1 DEF Listening, Tending
    <3>5. CASE ComparePolicies
      <4>1. /\ w.pc = "policies" /\ lbs' = lbs
            /\ w'.pc = "drop" \/ (w'.pc = "gc" /\ Matches(AskedPolicies, Policies))
        BY <2>1, <3>5, CompareStep DEF ComparePolicies
      <4>2. w'.pc = "gc" => Led(m)
        BY <1>1, <4>1, MatchesLed
      <4> QED BY <4>1, <4>2 DEF Listening, Tending
    <3>6. CASE DropPolicies
      <4>1. /\ w.pc = "drop" /\ PoliciesAlone
            /\ w'.pc = "drop" \/ (w'.pc = "make" /\ m.policies = <<>>)
        BY <2>1, <3>6, DropStep DEF DropPolicies
      <4>2. m.policies = <<>> => Led(m)
        BY DEF Led
      <4>3. m.default = l.default
        BY <1>1, <4>1 DEF PoliciesAlone
      <4> QED BY <2>4, <4>1, <4>2, <4>3 DEF Listening, Tending
    <3>7. CASE MakePolicies
      <4>1. /\ w.pc = "make" /\ PoliciesAlone /\ w'.pc \in {"make", "gc"} /\ (Led(l) => Led(m))
        BY <2>1, <3>7, MakeStep DEF MakePolicies
      <4>2. m.default = l.default
        BY <1>1, <4>1 DEF PoliciesAlone
      <4> QED BY <2>4, <4>1, <4>2 DEF Listening, Tending
    <3>8. CASE GcStalePools
      <4>1. w.pc = "gc" /\ m = l /\ w'.pc \in {"gc", "address"}
        BY <1>1, <2>1, <3>8, GcStep DEF GcStalePools
      <4> QED BY <2>4, <4>1 DEF Listening, Tending
    <3>9. CASE EnsureFIP
      BY <1>3, <2>1, <3>9, FIPStep DEF Tending
    <3> QED BY <3>1, <3>2, <3>3, <3>4, <3>5, <3>6, <3>7, <3>8, <3>9 DEF LateStep
  <2> QED BY <2>2, <2>3, <2>5 DEF Listening
<1> QED BY <1>2, <1>3

LEMMA NextListening == ASSUME TypeInv, Listening, [Next]_vars PROVE Listening'
<1>1. ASSUME Untouched, w' = Idle \/ w' = w PROVE Listening'
  BY <1>1, Blanks, ListeningAside DEF Tending
<1>2. ASSUME w'.pc \notin Tending PROVE Listening'
  BY <1>2 DEF Listening, Tending
<1>3. CASE Tenant
  <2>1. w'.pc = w.pc /\ w'.lb = w.lb /\ w'.snap = w.snap /\ w'.refs = w.refs /\ lbs' = lbs
    BY <1>3, TenantStep, Written DEF cloud
  <2> QED BY <2>1, SameUntouched, ListeningAside
<1>4. CASE Around \/ SweepStep \/ SweepFails \/ \E i \in LB : Settle(i) \/ Removed(i) \/ Vanish(i)
  <2>1. w' = w /\ Untouched
    BY <1>4, AroundStep, SweepShape, OctaviaShape, SameUntouched DEF cloud
  <2> QED BY <1>1, <2>1
<1>5. CASE CallFails \/ PublishStatus \/ Restart
  <2>1. w' = Idle
    BY <1>5, CallFailsShape, PublishShape, RestartShape
  <2> QED BY <1>2, <2>1, Blanks DEF Tending
<1>6. CASE Take
  <2>1. lbs' = lbs /\ (w' = Idle \/ w' = w \/ w'.pc \in {"lookup", "ensure"})
    BY <1>6, TakeShape DEF cloud
  <2>2. w'.pc \in {"lookup", "ensure"} => w'.pc \notin Tending
    BY DEF Tending
  <2> QED BY <1>1, <1>2, <2>1, <2>2, SameUntouched
<1>7. CASE EnsureByID \/ EnsureByName
  <2>1. w' = Idle \/ w'.pc = "byName" \/ w'.pc = "wait"
    BY <1>7, ByIDShape, ByNameShape DEF Makes
  <2> QED BY <1>2, <2>1, Blanks DEF Tending
<1>8. CASE WaitActive \/ RecordID \/ EnsureTLS
  <2>1. w' = Idle \/ w'.pc \in {"record", "tls", "pools"}
    BY <1>8, WaitShape, RecordShape, TLSShape
  <2> QED BY <1>2, <2>1, Blanks DEF Tending
<1>9. CASE LateStep
  BY <1>9, LateListening
<1>10. CASE LookupForTearDown \/ TearDownReleases \/ TearDownDeletes
  <2>1. w' = Idle \/ w'.pc \in {"bundles", "release", "delete"}
    BY <1>10, LookupStep, ReleaseStep, DeleteStep
  <2> QED BY <1>2, <2>1, Blanks DEF Tending
<1>11. CASE TearDownCleans
  BY <1>1, <1>11, CleansStep, SameUntouched
<1>12. CASE UNCHANGED vars
  BY <1>1, <1>12, SameUntouched DEF vars, cloud
<1> QED BY <1>3, <1>4, <1>5, <1>6, <1>7, <1>8, <1>9, <1>10, <1>11, <1>12
        DEF Next, Tenant, Around, WorkerStep, LateStep

-----------------------------------------------------------------------------
(* No pool in use is deleted.                                              *)

PoolsStay ==
    \A i \in LB, b \in Backend :
       lbs[i].pools[b].made > 0 /\ lbs'[i].st # "none" => lbs'[i].pools[b].made > 0

LEMMA UntouchedPools == ASSUME Untouched PROVE PoolsStay
BY Blanks DEF Untouched, PoolsStay

(* Everything but gcStalePools leaves the pools there.                     *)
LEMMA NextPools == ASSUME TypeInv, Single, [Next]_vars PROVE GcStalePools \/ PoolsStay
<1>1. lbs' = lbs => PoolsStay
  BY DEF PoolsStay
<1>2. CASE Tenant \/ Around \/ CallFails \/ PublishStatus \/ Restart \/ Take
  <2>1. lbs' = lbs
    BY <1>2, TenantStep, AroundStep, CallFailsShape, PublishShape, RestartShape, TakeShape DEF cloud
  <2> QED BY <1>1, <2>1
<1>3. CASE SweepStep \/ SweepFails \/ \E i \in LB : Settle(i) \/ Removed(i) \/ Vanish(i)
  BY <1>3, SweepShape, OctaviaShape, UntouchedPools
<1>4. CASE EnsureByID \/ WaitActive \/ RecordID \/ EnsureTLS
  <2>1. lbs' = lbs
    BY <1>4, ByIDShape, WaitShape, RecordShape, TLSShape DEF cloud
  <2> QED BY <1>1, <2>1
<1>5. CASE EnsureByName
  <2>1. CASE lbs' = lbs
    BY <1>1, <2>1
  <2>2. ASSUME NEW i \in LB, Makes(i) PROVE PoolsStay
    <3>1. lbs[i] = NoLB /\ \A j \in LB : j # i => lbs'[j] = lbs[j]
      BY <2>2 DEF Makes, Single, Alive
    <3>2. \A b \in Backend : ~ (lbs[i].pools[b].made > 0)
      BY <3>1, Blanks
    <3> QED BY <3>1, <3>2 DEF PoolsStay
  <2> QED BY <1>5, <2>1, <2>2, ByNameShape
<1>6. CASE EnsureBackendPool
  BY <1>6, PoolStep DEF PoolsStay
<1>7. CASE EnsureListener \/ DropPolicies \/ MakePolicies
  <2>1. \A i \in LB : lbs'[i].pools = lbs[i].pools
    BY <1>7, ListenerStep, DropStep, MakeStep DEF PoliciesAlone
  <2> QED BY <2>1 DEF PoolsStay
<1>8. CASE CleanStale \/ ComparePolicies \/ EnsureFIP
  BY <1>1, <1>8, CleanStep, CompareStep, FIPStep
<1>9. CASE SyncPoolMembers
  <2>1. \A i \in LB, b \in Backend : lbs'[i].pools[b].made = lbs[i].pools[b].made
    BY <1>9, MemberStep
  <2> QED BY <2>1 DEF PoolsStay
<1>10. CASE LookupForTearDown \/ TearDownReleases \/ TearDownCleans
  BY <1>1, <1>10, LookupStep, ReleaseStep, CleansStep
<1>11. CASE TearDownDeletes
  BY <1>11, DeleteStep, DoomedUntouched, UntouchedPools
<1>12. CASE UNCHANGED vars
  BY <1>1, <1>12 DEF vars, cloud
<1> QED BY <1>2, <1>3, <1>4, <1>5, <1>6, <1>7, <1>8, <1>9, <1>10, <1>11, <1>12
        DEF Next, Tenant, Around, WorkerStep

LEMMA InitStands == Init => Single /\ Listening
<1> SUFFICES ASSUME Init PROVE Single /\ Listening
  OBVIOUS
<1>1. w = Idle /\ \A i \in LB : lbs[i] = NoLB
  BY DEF Init
<1> QED BY <1>1, Quiet, Blanks DEF Single, Listening, Tending

LEMMA Standing == Spec => [](TypeInv /\ Single /\ Listening)
<1>1. TypeInv /\ Single /\ Listening /\ [Next]_vars => (TypeInv /\ Single /\ Listening)'
  BY NextTypes, NextSingle, NextListening
<1> QED BY <1>1, InitTypes, InitStands, PTL DEF Spec

(* gcStalePools takes no pool away from a listener in use: when it runs,   *)
(* the default is the Ingress's and every policy leads to a backend of a   *)
(* rule, whatever the listener had before, and those backends' pools are   *)
(* the ones it keeps.  No other step deletes a pool.                       *)
THEOREM PoolsAreKept == Spec => PoolsInUseKept
<1> DEFINE Step ==
      \A i \in LB, b \in Backend :
         /\ lbs[i].pools[b].made > 0 /\ lbs'[i].st # "none" /\ lbs'[i].pools[b].made = 0
         => /\ lbs[i].listener.default # b
            /\ \A p \in ToSet(lbs[i].listener.policies) : p.to # b
<1>1. ASSUME TypeInv, Single, Listening, [Next]_vars PROVE Step
  <2> SUFFICES ASSUME NEW i \in LB, NEW b \in Backend, lbs[i].pools[b].made > 0,
                      lbs'[i].st # "none", lbs'[i].pools[b].made = 0
               PROVE  /\ lbs[i].listener.default # b
                      /\ \A p \in ToSet(lbs[i].listener.policies) : p.to # b
    OBVIOUS
  <2>1. ~ (lbs'[i].pools[b].made > 0)
    OBVIOUS
  <2>2. GcStalePools
    BY <1>1, <2>1, NextPools DEF PoolsStay
  <2>3. w.pc = "gc"
    BY <2>2 DEF GcStalePools
  <2>4. i = w.lb /\ lbs[i].st = "active" /\ b \notin BackendsOf(Asked)
    BY <1>1, <2>1, <2>2, GcStep
  <2>5. lbs[i].listener.default = Asked.default /\ Led(lbs[i].listener)
    BY <1>1, <2>3, <2>4 DEF Listening, Tending
  <2>6. lbs[i].listener.default # b
    <3>1. NoBackend \notin Backend
      BY IngressConstants, Zenon
    <3> QED BY <2>4, <2>5, <3>1 DEF BackendsOf
  <2>7. ASSUME NEW p \in ToSet(lbs[i].listener.policies) PROVE p.to # b
    <3>1. PICK k \in DOMAIN lbs[i].listener.policies : p = lbs[i].listener.policies[k]
      BY <2>7 DEF ToSet
    <3>2. PICK j \in DOMAIN Asked.rules : p.to = Asked.rules[j].to
      BY <2>5, <3>1 DEF Led
    <3> QED BY <2>4, <3>2 DEF BackendsOf
  <2> QED BY <2>6, <2>7
<1>2. TypeInv /\ Single /\ Listening /\ [Next]_vars => [Step]_vars
  BY <1>1
<1> QED BY <1>2, Standing, PTL DEF Spec, PoolsInUseKept

-----------------------------------------------------------------------------
(* A copy of the Ingress that is taken for the last version is the last    *)
(* version.                                                                *)

Copies == (fresh => cache = ing) /\ (w.fresh => w.snap = ing /\ cache = ing)

TearDownStep == LookupForTearDown \/ TearDownReleases \/ TearDownDeletes \/ TearDownCleans

LEMMA TearDownShape ==
    ASSUME TypeInv, TearDownStep
    PROVE  ApiFrame /\ WorkerFrame /\ SameCopy /\ Untouched /\ ~ Pressing(w')
<1>1. ApiFrame /\ WorkerFrame
  BY DEF TearDownStep, LookupForTearDown, TearDownReleases, TearDownDeletes, TearDownCleans
<1>2. SameCopy
  BY LookupStep, ReleaseStep, DeleteStep, CleansStep DEF TearDownStep, SameCopy
<1>3. Untouched
  BY LookupStep, ReleaseStep, DeleteStep, CleansStep, SameUntouched, DoomedUntouched
     DEF TearDownStep
<1>4. w' = Idle \/ w'.pc \in {"bundles", "release", "delete"}
  BY LookupStep, ReleaseStep, DeleteStep, CleansStep DEF TearDownStep
<1>5. ~ Pressing(w')
  BY <1>4, Quiet DEF Pressing, Late
<1> QED BY <1>1, <1>2, <1>3, <1>5

LEMMA CopiesAside ==
    ASSUME Copies, ApiFrame, WorkerFrame, SameCopy
    PROVE  Copies'
BY Quiet DEF Copies, ApiFrame, WorkerFrame, SameCopy

LEMMA NextCopies == ASSUME TypeInv, Copies, [Next]_vars PROVE Copies'
<1>1. CASE Tenant
  <2>1. fresh' = FALSE /\ w'.fresh = FALSE
    BY <1>1, TenantStep, Written
  <2> QED BY <2>1 DEF Copies
<1>2. CASE Around
  <2>1. ing' = ing /\ w' = w /\ ((cache' = cache /\ fresh' = fresh) \/ cache' = ing)
    BY <1>2, AroundStep
  <2>2. CASE cache' = cache /\ fresh' = fresh
    BY <2>1, <2>2 DEF Copies
  <2>3. CASE cache' = ing
    BY <2>1, <2>3 DEF Copies
  <2> QED BY <2>1, <2>2, <2>3
<1>3. CASE SweepStep \/ SweepFails \/ \E i \in LB : Settle(i) \/ Removed(i) \/ Vanish(i)
  <2>1. UNCHANGED <<k8s, w>>
    BY <1>3, SweepShape, OctaviaShape
  <2> QED BY <2>1 DEF Copies, k8s
<1>4. CASE Restart
  BY <1>4, RestartShape, Quiet DEF Copies
<1>5. CASE Take
  <2>1. /\ ing' = ing /\ fresh' = fresh /\ cache' = cache
        /\ w' = Idle \/ w' = w \/ (w'.snap = cache /\ w'.fresh = fresh)
    BY <1>5, TakeShape DEF ApiFrame, WorkerFrame
  <2> QED BY <2>1, Quiet DEF Copies
<1>6. CASE CallFails \/ EnsureByID \/ EnsureByName \/ WaitActive \/ EnsureTLS \/ TearDownStep
  <2>1. ApiFrame /\ WorkerFrame /\ SameCopy
    BY <1>6, CallFailsShape, ByIDShape, ByNameShape, WaitShape, TLSShape, TearDownShape
       DEF SameCopy
  <2> QED BY <2>1, CopiesAside
<1>7. CASE LateStep
  <2>1. ApiFrame /\ WorkerFrame /\ SameCopy
    BY <1>7, LateShape DEF GoesOn, SameCopy
  <2> QED BY <2>1, CopiesAside
<1>8. CASE RecordID
  <2>1. CASE ApiFrame /\ SameCopy
    BY <1>8, <2>1, RecordShape, CopiesAside
  <2>2. CASE fresh' = FALSE /\ w'.fresh = FALSE
    BY <2>2 DEF Copies
  <2> QED BY <1>8, <2>1, <2>2, RecordShape
<1>9. CASE PublishStatus
  <2>1. WorkerFrame /\ w' = Idle /\ (ApiFrame \/ fresh' = FALSE)
    BY <1>9, PublishShape
  <2> QED BY <2>1, Quiet DEF Copies, ApiFrame, WorkerFrame
<1>10. CASE UNCHANGED vars
  BY <1>10 DEF vars, k8s, Copies
<1> QED BY <1>1, <1>2, <1>3, <1>4, <1>5, <1>6, <1>7, <1>8, <1>9, <1>10
        DEF Next, Tenant, Around, WorkerStep, LateStep, TearDownStep

-----------------------------------------------------------------------------
(* While a sweep takes down a load balancer it judged to be no Ingress's,  *)
(* and no Ingress of the name has come to the lister since, a load         *)
(* balancer other than that one has no listener: only a worker that holds  *)
(* an old copy can have made one, and the conflict stops it when it is to  *)
(* record the id.                                                          *)

Judging == g.pc # "idle" /\ served # "no" /\ ~ g.overtaken

Stray(j) ==
    /\ lbs[j].listener = NoListener
    /\ ing.lbId # j /\ cache.lbId # j /\ w.snap.lbId # j
    /\ ~ (Pressing(w) /\ w.lb = j)

Judged ==
    /\ g.pc \in {"list", "clean"} => lbs[g.id].st \notin {"active", "pending"}
    /\ Judging => ~ Wanted(cache)
    /\ Judging => \A j \in LB : lbs[j].st # "none" /\ j # g.id => Stray(j)

LEMMA JudgedAside ==
    ASSUME TypeInv, Judged, Untouched, UNCHANGED <<cache, g>>, served' # "no" => served # "no",
           ing'.lbId \in {0, ing.lbId}, w'.snap.lbId \in {0, cache.lbId, w.snap.lbId},
           Judging /\ Pressing(w') /\ w'.lb \in LB /\ lbs[w'.lb].st # "none" => w'.lb = g.id
    PROVE  Judged'
<1>1. Fewer
  BY UntouchedFewer
<1>2. g.pc # "idle" => g.id \in LB
  BY DEF TypeInv, SweepOK
<1>3. Judging' => Judging
  BY DEF Judging
<1>4. g'.pc \in {"list", "clean"} => lbs'[g'.id].st \notin {"active", "pending"}
  BY <1>1, <1>2 DEF Judged, Fewer
<1>5. ASSUME Judging', NEW j \in LB, lbs'[j].st # "none", j # g'.id PROVE Stray(j)'
  <2>1. Judging /\ lbs[j].st # "none" /\ j # g.id
    BY <1>1, <1>3, <1>5 DEF Fewer
  <2>2. Stray(j)
    BY <2>1 DEF Judged
  <2>3. lbs'[j].listener = NoListener
    BY <1>5, <2>2, Blanks DEF Untouched, Stray
  <2>4. j # 0
    BY Numbers
  <2>5. ing'.lbId # j /\ cache'.lbId # j /\ w'.snap.lbId # j
    BY <2>2, <2>4 DEF Stray
  <2>6. ~ (Pressing(w') /\ w'.lb = j)
    BY <2>1
  <2> QED BY <2>3, <2>5, <2>6 DEF Stray, Pressing
<1>6. Judging' => ~ Wanted(cache')
  BY <1>3 DEF Judged
<1> QED BY <1>4, <1>5, <1>6 DEF Judged, Wanted

LEMMA PressedOn ==
    ASSUME Judged, Judging, Pressing(w), w.lb \in LB, lbs[w.lb].st # "none"
    PROVE  w.lb = g.id
BY DEF Judged, Stray

LEMMA RecordedOn ==
    ASSUME Judged, Judging, w.snap.lbId \in LB, lbs[w.snap.lbId].st # "none"
    PROVE  w.snap.lbId = g.id
BY DEF Judged, Stray

LEMMA LateJudged ==
    ASSUME TypeInv, Single, Judged, w.pc \in Late, Fewer, UNCHANGED <<cache, served, g>>
    PROVE  Judged'
<1>1. Pressing(w) /\ w.pc \in Holding /\ w.lb \in LB
  BY LateHolds DEF Pressing, Holding
<1>2. g.pc # "idle" => g.id \in LB
  BY DEF TypeInv, SweepOK
<1>3. Judging' <=> Judging
  BY DEF Judging
<1>4. g'.pc \in {"list", "clean"} => lbs'[g'.id].st \notin {"active", "pending"}
  BY <1>2 DEF Judged, Fewer
<1>5. Judging => \A j \in LB : lbs[j].st # "none" => j = g.id
  BY <1>1, PressedOn DEF Single
<1>6. Judging' => \A j \in LB : lbs'[j].st # "none" => j = g'.id
  BY <1>3, <1>5 DEF Fewer
<1>7. Judging' => ~ Wanted(cache')
  BY <1>3 DEF Judged
<1> QED BY <1>4, <1>6, <1>7 DEF Judged, Wanted

(* The sweep and the watch, which alone change what is judged.             *)
LEMMA SweepJudged ==
    ASSUME TypeInv, Single, Judged, SweepStep \/ SweepFails
    PROVE  Judged'
<1>1. UNCHANGED <<k8s, proc, w>> /\ Untouched /\ SweepGoesOn /\ TypeInv'
  BY SweepShape
<1>2. ing' = ing /\ cache' = cache /\ served' = served /\ w' = w /\ Fewer
  BY <1>1, UntouchedFewer DEF k8s, proc
<1>3. CASE g'.pc = "idle"
  BY <1>3 DEF Judged, Judging
<1>4. CASE /\ g.pc = "idle" /\ g'.pc = "release" /\ g'.id \in LB /\ Alive(g'.id) /\ Condemned
           /\ lbs' = lbs
  <2>1. served # "no" => ~ Wanted(cache)
    BY <1>4 DEF Condemned
  <2>2. \A j \in LB : lbs[j].st # "none" => j = g'.id
    BY <1>4 DEF Single, Alive
  <2> QED BY <1>2, <1>4, <2>1, <2>2 DEF Judged, Judging, Wanted
<1>5. CASE /\ g.pc # "idle" /\ g'.id = g.id /\ g'.overtaken = g.overtaken
           /\ g'.pc \in {"list", "clean"} => \/ g.pc \in {"list", "clean"}
                                             \/ lbs'[g.id].st \notin {"active", "pending"}
  <2>1. g.id \in LB
    BY <1>5 DEF TypeInv, SweepOK
  <2>2. g'.pc \in {"list", "clean"} => lbs'[g'.id].st \notin {"active", "pending"}
    BY <1>2, <1>5, <2>1 DEF Judged, Fewer
  <2>3. Judging' => Judging
    BY <1>2, <1>5 DEF Judging
  <2>4. ASSUME Judging', NEW j \in LB, lbs'[j].st # "none", j # g'.id PROVE Stray(j)'
    <3>1. Stray(j)
      BY <1>2, <1>5, <2>3, <2>4 DEF Judged, Fewer
    <3>2. lbs'[j].listener = NoListener
      BY <1>1, <2>4, <3>1, Blanks DEF Untouched, Stray
    <3> QED BY <1>2, <3>1, <3>2 DEF Stray, Pressing
  <2> QED BY <1>2, <2>2, <2>3, <2>4 DEF Judged, Wanted
<1> QED BY <1>1, <1>3, <1>4, <1>5 DEF SweepGoesOn

LEMMA AroundJudged ==
    ASSUME TypeInv, Judged, Around
    PROVE  Judged'
<1>1. /\ ing' = ing /\ lbs' = lbs /\ w' = w /\ (served' # "no" => served # "no")
  BY AroundStep DEF cloud
<1>2. CASE UNCHANGED <<cache, g>>
  <2>1. Judging /\ Pressing(w') /\ w'.lb \in LB /\ lbs[w'.lb].st # "none" => w'.lb = g.id
    BY <1>1, PressedOn
  <2> QED BY <1>1, <1>2, <2>1, SameUntouched, JudgedAside
<1>3. CASE /\ cache' = ing
           /\ g' = [g EXCEPT !.overtaken = g.pc # "idle" /\ (@ \/ Wanted(ing))]
  <2>1. g \in SweepRec
    BY DEF TypeInv, SweepOK
  <2>2. /\ g'.pc = g.pc /\ g'.id = g.id
        /\ g'.overtaken = (g.pc # "idle" /\ (g.overtaken \/ Wanted(ing)))
    BY <1>3, <2>1 DEF SweepRec
  <2>3. Judging' => Judging /\ ~ Wanted(ing)
    BY <1>1, <2>2 DEF Judging
  <2>4. g'.pc \in {"list", "clean"} => lbs'[g'.id].st \notin {"active", "pending"}
    BY <1>1, <2>2 DEF Judged
  <2>5. ASSUME Judging', NEW j \in LB, lbs'[j].st # "none", j # g'.id PROVE Stray(j)'
    <3>1. Stray(j)
      BY <1>1, <2>2, <2>3, <2>5 DEF Judged
    <3> QED BY <1>1, <1>3, <3>1 DEF Stray, Pressing
  <2> QED BY <1>3, <2>3, <2>4, <2>5 DEF Judged, Wanted
<1> QED BY <1>2, <1>3, AroundStep

LEMMA NextJudged == ASSUME TypeInv, Single, Copies, Judged, [Next]_vars PROVE Judged'
<1>1. ASSUME ApiFrame, WorkerFrame, SameCopy, Untouched, ~ Pressing(w') PROVE Judged'
  <2>1. w'.snap.lbId \in {0, cache.lbId, w.snap.lbId}
    BY <1>1, Quiet DEF SameCopy
  <2> QED BY <1>1, <2>1, JudgedAside DEF ApiFrame, WorkerFrame
<1>2. CASE Tenant
  <2>1. /\ w'.pc = w.pc /\ w'.lb = w.lb /\ w'.snap = w.snap /\ w'.next = w.next /\ lbs' = lbs
        /\ UNCHANGED <<cache, g, served>> /\ ing'.lbId \in {0, ing.lbId}
    BY <1>2, TenantStep, Written DEF cloud, proc
  <2>2. Judging /\ Pressing(w') /\ w'.lb \in LB /\ lbs[w'.lb].st # "none" => w'.lb = g.id
    BY <2>1, PressedOn DEF Pressing
  <2> QED BY <2>1, <2>2, SameUntouched, JudgedAside
<1>3. CASE Around \/ SweepStep \/ SweepFails
  BY <1>3, AroundJudged, SweepJudged
<1>4. CASE \E i \in LB : Settle(i) \/ Removed(i) \/ Vanish(i)
  <2>1. UNCHANGED <<k8s, proc, w, g>> /\ Untouched
    BY <1>4, OctaviaShape
  <2>2. ing' = ing /\ cache' = cache /\ served' = served /\ w' = w /\ g' = g
    BY <2>1 DEF k8s, proc
  <2>3. Judging /\ Pressing(w') /\ w'.lb \in LB /\ lbs[w'.lb].st # "none" => w'.lb = g.id
    BY <2>2, PressedOn
  <2> QED BY <2>1, <2>2, <2>3, JudgedAside
<1>5. CASE Restart
  <2>1. g'.pc = "idle"
    BY <1>5, RestartShape, Blanks
  <2> QED BY <2>1 DEF Judged, Judging
<1>6. CASE Take
  <2>1. /\ lbs' = lbs /\ ApiFrame /\ WorkerFrame
        /\ w' = Idle \/ w' = w \/ (w'.pc \in {"lookup", "ensure"} /\ w'.snap = cache)
    BY <1>6, TakeShape DEF cloud
  <2>2. w'.snap.lbId \in {0, cache.lbId, w.snap.lbId}
    BY <2>1, Quiet
  <2>3. ~ Pressing(w')
    BY <1>6, <2>1, Quiet DEF Pressing, Late, Take
  <2> QED BY <2>1, <2>2, <2>3, SameUntouched, JudgedAside DEF ApiFrame, WorkerFrame
<1>7. CASE CallFails \/ PublishStatus
  <2>1. w' = Idle /\ lbs' = lbs /\ WorkerFrame /\ ing'.lbId = ing.lbId
    BY <1>7, CallFailsShape, PublishShape DEF cloud, ApiFrame
  <2> QED BY <2>1, Quiet, SameUntouched, JudgedAside DEF WorkerFrame
<1>8. CASE EnsureByID
  <2>1. /\ lbs' = lbs /\ ApiFrame /\ WorkerFrame /\ SameCopy
        /\ \/ w' = Idle \/ w'.pc = "byName"
           \/ w'.lb = w.snap.lbId
    BY <1>8, ByIDShape DEF cloud
  <2>2. w'.snap.lbId \in {0, cache.lbId, w.snap.lbId}
    BY <2>1, Quiet DEF SameCopy
  <2>3. w'.pc = "byName" => ~ Pressing(w')
    BY DEF Pressing, Late
  <2>4. Judging /\ Pressing(w') /\ w'.lb \in LB /\ lbs[w'.lb].st # "none" => w'.lb = g.id
    BY <2>1, <2>3, Quiet, RecordedOn
  <2> QED BY <2>1, <2>2, <2>4, SameUntouched, JudgedAside DEF ApiFrame, WorkerFrame
<1>9. CASE EnsureByName
  <2>1. ApiFrame /\ WorkerFrame /\ SameCopy
    BY <1>9, ByNameShape
  <2>2. CASE lbs' = lbs /\ (w' = Idle \/ (w'.pc = "wait" /\ w'.next = "record"))
    <3>1. ~ Pressing(w')
      BY <2>2, Quiet DEF Pressing, Late
    <3> QED BY <1>1, <2>1, <2>2, <3>1, SameUntouched
  <2>3. ASSUME NEW i \in LB, Makes(i) PROVE Judged'
    <3>1. /\ ing' = ing /\ cache' = cache /\ served' = served /\ g' = g
      BY <2>1 DEF ApiFrame, WorkerFrame
    <3>2. /\ lbs'[i].listener = NoListener /\ g.id # i
          /\ ing.lbId # i /\ cache.lbId # i /\ w.snap.lbId # i
          /\ \A j \in LB : j # i => lbs'[j] = lbs[j] /\ lbs[j].st = "none"
          /\ w' = Idle \/ (w'.pc = "wait" /\ w'.next = "record")
      BY <2>3 DEF Makes, Alive
    <3>3. ~ Pressing(w') /\ w'.snap.lbId # i
      <4>1. i # 0
        BY Numbers
      <4> QED BY <2>1, <3>2, <4>1, Quiet DEF Pressing, Late, SameCopy
    <3>4. Stray(i)'
      BY <3>1, <3>2, <3>3 DEF Stray, Pressing
    <3>5. g'.pc \in {"list", "clean"} => lbs'[g'.id].st \notin {"active", "pending"}
      BY <3>1, <3>2 DEF Judged, TypeInv, SweepOK
    <3>6. Judging' => ~ Wanted(cache')
      BY <3>1 DEF Judged, Judging
    <3>7. ASSUME NEW j \in LB, lbs'[j].st # "none" PROVE Stray(j)'
      <4>1. j = i
        BY <3>2, <3>7
      <4> QED BY <3>4, <4>1
    <3> QED BY <3>5, <3>6, <3>7 DEF Judged, Wanted
  <2> QED BY <1>9, <2>2, <2>3, ByNameShape
<1>10. CASE WaitActive
  <2>1. /\ lbs' = lbs /\ ApiFrame /\ WorkerFrame /\ SameCopy /\ w.pc = "wait"
        /\ w' = Idle \/ (w'.pc = w.next /\ w'.lb = w.lb /\ w.next \in {"record", "tls"})
    BY <1>10, WaitShape DEF cloud
  <2>2. w'.snap.lbId \in {0, cache.lbId, w.snap.lbId}
    BY <2>1, Quiet DEF SameCopy
  <2>3. Pressing(w') => Pressing(w) /\ w'.lb = w.lb
    BY <2>1, Quiet DEF Pressing, Late
  <2>4. Judging /\ Pressing(w') /\ w'.lb \in LB /\ lbs[w'.lb].st # "none" => w'.lb = g.id
    BY <2>3, PressedOn
  <2> QED BY <2>1, <2>2, <2>4, SameUntouched, JudgedAside DEF ApiFrame, WorkerFrame
<1>11. CASE RecordID
  <2>1. /\ lbs' = lbs /\ WorkerFrame /\ w.pc = "record"
        /\ w' = Idle \/ (w'.pc = "tls" /\ w'.lb = w.lb /\ w'.snap = w.snap)
    BY <1>11, RecordShape DEF cloud
  <2>2. w'.snap.lbId \in {0, cache.lbId, w.snap.lbId}
    BY <2>1, Quiet
  <2>3. CASE ApiFrame /\ (w' = Idle \/ w.snap.lbId = w.lb)
    <3>1. Judging /\ Pressing(w') /\ w'.lb \in LB /\ lbs[w'.lb].st # "none" => w'.lb = g.id
      BY <2>1, <2>3, Quiet, RecordedOn
    <3> QED BY <2>1, <2>2, <2>3, <3>1, SameUntouched, JudgedAside DEF ApiFrame, WorkerFrame
  <2>4. CASE w.fresh
    <3>1. Wanted(w.snap)
      BY <2>1 DEF TypeInv, WorkerSet, Early
    <3>2. Wanted(cache)
      BY <2>4, <3>1 DEF Copies
    <3>3. ~ Judging
      BY <3>2 DEF Judged
    <3>4. ~ Judging' /\ g' = g
      BY <2>1, <3>3 DEF Judging, WorkerFrame
    <3> QED BY <2>1, <3>4 DEF Judged
  <2> QED BY <1>11, <2>3, <2>4, RecordShape
<1>12. CASE EnsureTLS \/ LateStep
  <2>1. w.pc \in Late /\ WorkerFrame /\ Fewer
    <3>1. CASE EnsureTLS
      BY <3>1, TLSShape, SameUntouched, UntouchedFewer DEF Late
    <3>2. CASE LateStep
      BY <3>2, LateShape, HeldFewer
    <3> QED BY <1>12, <3>1, <3>2
  <2> QED BY <2>1, LateJudged DEF WorkerFrame
<1>13. CASE TearDownStep
  BY <1>1, <1>13, TearDownShape
<1>14. CASE UNCHANGED vars
  <2>1. /\ ing' = ing /\ cache' = cache /\ served' = served /\ w' = w /\ g' = g /\ lbs' = lbs
    BY <1>14 DEF vars, k8s, proc, cloud
  <2>2. Judging /\ Pressing(w') /\ w'.lb \in LB /\ lbs[w'.lb].st # "none" => w'.lb = g.id
    BY <2>1, PressedOn
  <2> QED BY <2>1, <2>2, SameUntouched, JudgedAside
<1> QED BY <1>2, <1>3, <1>4, <1>5, <1>6, <1>7, <1>8, <1>9, <1>10, <1>11, <1>12, <1>13, <1>14
        DEF Next, Tenant, Around, WorkerStep, LateStep, TearDownStep

-----------------------------------------------------------------------------
(* No certificate in use is deleted.                                       *)

Kept == TypeInv /\ Single /\ Listening /\ Copies /\ Judged

LEMMA InitKept == Init => Kept
<1> SUFFICES ASSUME Init PROVE Kept
  OBVIOUS
<1>1. cache = ing /\ w = Idle /\ g = Resting
  BY DEF Init
<1>2. Copies /\ Judged
  BY <1>1, Quiet, Blanks DEF Copies, Judged, Judging
<1> QED BY <1>2, InitTypes, InitStands DEF Kept

LEMMA NextKept == Kept /\ [Next]_vars => Kept'
BY NextTypes, NextSingle, NextListening, NextCopies, NextJudged DEF Kept

LEMMA AlwaysKept == Spec => []Kept
BY InitKept, NextKept, PTL DEF Spec

(* Who deletes bundles: the reconcile, a teardown and the sweep.           *)
LEMMA BundleSteps ==
    ASSUME TypeInv, [Next]_vars, NEW r \in Ref, r \in Stored, bundles'[r] = NoBundle
    PROVE  \/ w.pc = "clean" /\ w.refs # <<>> /\ r \notin Keep
           \/ w.pc = "bundles"
           \/ g.pc = "clean" /\ r \in g.doomed
<1>1. bundles'[r] # bundles[r]
  BY DEF Stored
<1>2. CASE Tenant \/ Around \/ Restart \/ Take \/ CallFails \/ PublishStatus \/ EnsureByID
           \/ EnsureByName \/ WaitActive \/ RecordID
  <2>1. bundles' = bundles
    BY <1>2, TenantStep, AroundStep, RestartShape, TakeShape, CallFailsShape, PublishShape,
       ByIDShape, ByNameShape, WaitShape, RecordShape DEF cloud
  <2> QED BY <1>1, <2>1
<1>3. CASE SweepStep \/ SweepFails
  BY <1>1, <1>3, SweepShape
<1>4. CASE \E i \in LB : Settle(i) \/ Removed(i) \/ Vanish(i)
  BY <1>1, <1>4, OctaviaShape
<1>5. CASE EnsureTLS
  BY <1>1, <1>5, TLSShape
<1>6. CASE CleanStale
  <2>1. w.pc = "clean"
    BY <1>6 DEF CleanStale
  <2> QED BY <1>1, <1>6, <2>1, CleanStep
<1>7. CASE TearDownCleans
  BY <1>7 DEF TearDownCleans
<1>8. CASE EnsureBackendPool \/ EnsureListener \/ SyncPoolMembers \/ ComparePolicies
           \/ DropPolicies \/ MakePolicies \/ GcStalePools \/ EnsureFIP
  BY <1>1, <1>8, PoolStep, ListenerStep, MemberStep, CompareStep, DropStep, MakeStep, GcStep,
     FIPStep
<1>9. CASE LookupForTearDown \/ TearDownReleases \/ TearDownDeletes
  BY <1>1, <1>9, LookupStep, ReleaseStep, DeleteStep
<1>10. CASE UNCHANGED vars
  BY <1>1, <1>10 DEF vars, cloud
<1> QED BY <1>2, <1>3, <1>4, <1>5, <1>6, <1>7, <1>8, <1>9, <1>10
        DEF Next, Tenant, Around, WorkerStep

(* A listener in service keeps its certificate, in every order of the      *)
(* worker's and the sweep's steps.  The reconcile deletes only bundles     *)
(* other than the one the listener has been given; a teardown has put the  *)
(* one load balancer to deletion first; and of a sweep no Ingress has      *)
(* overtaken, any other load balancer has no listener yet.                 *)
THEOREM CertificateIsKept == Spec => CertificateKept
<1> DEFINE Step ==
      \A r \in Ref : DeletedUnder(r) => \A i \in LB : InService(i) => lbs[i].listener.ref # r
<1>1. ASSUME Kept, [Next]_vars PROVE Step
  <2> SUFFICES ASSUME NEW r \in Ref, DeletedUnder(r), NEW i \in LB, InService(i)
               PROVE  lbs[i].listener.ref # r
    OBVIOUS
  <2>1. TypeInv /\ Single /\ Listening /\ Judged
    BY <1>1 DEF Kept
  <2>2. lbs[i].st \in {"active", "pending"} /\ lbs[i].st # "none"
    BY DEF InService
  <2>3. r \in Stored /\ bundles'[r] = NoBundle /\ served # "no" /\ ~ (r \in g.doomed /\ g.overtaken)
    BY DEF DeletedUnder
  <2>4. CASE w.pc = "clean" /\ w.refs # <<>> /\ r \notin Keep
    <3>1. w.pc \in Holding /\ w.pc \in Tending
      BY <2>4 DEF Holding, Late, Tending
    <3>2. i = w.lb
      BY <2>1, <2>2, <3>1 DEF Single
    <3>3. lbs[i].listener.ref = w.refs[1]
      BY <2>1, <2>2, <2>4, <3>2 DEF Listening
    <3>4. w.refs \in Seq(Ref)
      BY <2>1, WorkerFields
    <3>5. w.refs[1] \in Keep
      BY <2>4, <3>4 DEF Keep, ToSet
    <3> QED BY <2>4, <3>3, <3>5
  <2>5. CASE w.pc = "bundles"
    BY <2>1, <2>2, <2>5 DEF Single
  <2>6. CASE g.pc = "clean" /\ r \in g.doomed
    <3>1. Judging
      BY <2>3, <2>6 DEF Judging
    <3>2. i # g.id
      BY <2>1, <2>2, <2>6 DEF Judged
    <3>3. lbs[i].listener.ref = 0
      BY <2>1, <2>2, <3>1, <3>2, Blanks DEF Judged, Stray
    <3> QED BY <3>3, Numbers
  <2> QED BY <1>1, <2>1, <2>3, <2>4, <2>5, <2>6, BundleSteps
<1>2. Kept /\ [Next]_vars => [Step]_vars
  BY <1>1
<1> QED BY <1>2, AlwaysKept, PTL DEF Spec, CertificateKept
=============================================================================
