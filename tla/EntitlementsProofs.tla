-------------------------- MODULE EntitlementsProofs --------------------------
(***************************************************************************)
(* Proofs about who may have how much: connections on a node, signing in,  *)
(* resellers and their customers.  They hold for any subjects, limits,     *)
(* trackers, administrators, clients, resellers and files, and for any     *)
(* number of requests, sessions and policies.                              *)
(***************************************************************************)
EXTENDS MCEntitlements, FiniteSetTheorems, SequenceTheorems, WellFoundedInduction, TLAPS

-----------------------------------------------------------------------------
(* Least counterexamples: induction on the natural numbers, without an     *)
(* operator as a parameter.                                                *)

\* A set of naturals that is not empty has a least element.
LEMMA LeastNumber ==
    ASSUME NEW S \in SUBSET Nat, S # {}
    PROVE  \E n \in S : \A m \in S : n <= m
<1>1. IsWellFoundedOn(OpToRel(<,Nat), Nat)
  BY NatLessThanWellFounded
<1>2. PICK n \in S : \A m \in S : <<m, n>> \notin OpToRel(<,Nat)
  BY ONLY <1>1, S \subseteq Nat, S # {}, WFMin
<1>3. \A m \in S : ~(m < n)
  BY <1>2 DEF OpToRel
<1> QED
  BY <1>3

-----------------------------------------------------------------------------
(* What Without returns. *)

\* keep is the function that Without evaluates, and f is the part of it up to n.
Keeps(seq, gone, keep) ==
    keep = [i \in 0 .. Len(seq) |->
              IF i = 0 THEN <<>>
              ELSE IF seq[i] \in gone THEN keep[i - 1]
              ELSE Append(keep[i - 1], seq[i])]

Extends(seq, gone, n, f) ==
  /\ f = [i \in 0 .. n |-> f[i]]
  /\ f[0] = <<>>
  /\ \A i \in 1 .. n : f[i] = IF seq[i] \in gone THEN f[i - 1] ELSE Append(f[i - 1], seq[i])

\* There is a function such as the recursive definition of Without describes: were
\* there none at some length, there would be none at a least one.
LEMMA FilterExists ==
  ASSUME NEW seq, NEW gone, Len(seq) \in Nat
  PROVE  \E f : Keeps(seq, gone, f)
<1> DEFINE L == Len(seq)
           Bad == {n \in 0 .. L : ~ \E f : Extends(seq, gone, n, f)}
<1>1. Bad = {}
  <2> SUFFICES ASSUME Bad # {} PROVE FALSE
    OBVIOUS
  <2>0. Bad \in SUBSET Nat
    OBVIOUS
  <2> HIDE DEF Bad
  <2>1. PICK n \in Bad : \A m \in Bad : n <= m
    BY <2>0, LeastNumber
  <2> USE DEF Bad
  <2>2. n # 0
    <3>1. Extends(seq, gone, 0, [i \in 0 .. 0 |-> <<>>])
      BY DEF Extends
    <3> QED
      BY <2>1, <3>1
  <2>3. n - 1 \in 0 .. L /\ n - 1 \notin Bad
    BY <2>1, <2>2
  <2>4. PICK f : Extends(seq, gone, n - 1, f)
    BY <2>3
  <2> DEFINE g == [i \in 0 .. n |-> IF i # n THEN f[i]
                                   ELSE IF seq[n] \in gone THEN f[n - 1]
                                   ELSE Append(f[n - 1], seq[n])]
  <2>5. Extends(seq, gone, n, g)
    <3>1. g = [i \in 0 .. n |-> g[i]]
      OBVIOUS
    <3>2. g[0] = <<>>
      BY <2>2, <2>4 DEF Extends
    <3>3. ASSUME NEW i \in 1 .. n
          PROVE g[i] = IF seq[i] \in gone THEN g[i - 1] ELSE Append(g[i - 1], seq[i])
      <4>1. n \in Nat /\ i \in Nat /\ i - 1 \in 0 .. n /\ i - 1 # n /\ i \in 0 .. n
        BY <2>1, <2>2
      <4>2. g[i - 1] = f[i - 1]
        BY <4>1
      <4>3. CASE i = n
        BY <4>1, <4>2, <4>3
      <4>4. CASE i # n
        <5>1. i \in 1 .. n - 1
          BY <4>1, <4>4
        <5> QED
          BY <4>1, <4>2, <4>4, <5>1, <2>4 DEF Extends
      <4> QED
        BY <4>3, <4>4
    <3> HIDE DEF g
    <3> QED
      BY <3>1, <3>2, <3>3 DEF Extends
  <2> QED
    BY <2>1, <2>5
<1>2. L \notin Bad /\ L \in 0 .. L
  BY <1>1
<1>3. PICK f : Extends(seq, gone, L, f)
  BY <1>2
<1>4. Keeps(seq, gone, f)
  <2>1. ASSUME NEW i \in 0 .. L
        PROVE f[i] = IF i = 0 THEN <<>>
              ELSE IF seq[i] \in gone THEN f[i - 1]
              ELSE Append(f[i - 1], seq[i])
    <3>1. i = 0 \/ (i # 0 /\ i \in 1 .. L)
      OBVIOUS
    <3> QED
      BY <1>3, <3>1 DEF Extends
  <2> QED
    BY <1>3, <2>1 DEF Extends, Keeps
<1> QED
  BY <1>4

\* An order of what remains: position j of the rest is position at[j] of seq.
Remains(seq, gone, i, rest, at) ==
  /\ at \in [1 .. Len(rest) -> 1 .. i]
  /\ \A j, k \in 1 .. Len(rest) : at[j] = at[k] => j = k
  /\ \A j \in 1 .. Len(rest) : rest[j] = seq[at[j]] /\ rest[j] \notin gone
  /\ \A k \in 1 .. i : seq[k] \notin gone => \E j \in 1 .. Len(rest) : at[j] = k

\* Without returns elements of the sequence, each once and in their order.
LEMMA FilterKeeps ==
  ASSUME NEW T, NEW seq \in Seq(T), NEW gone
  PROVE  /\ Without(seq, gone) \in Seq(T)
         /\ \E at : Remains(seq, gone, Len(seq), Without(seq, gone), at)
<1> DEFINE keep == CHOOSE f : Keeps(seq, gone, f)
           L == Len(seq)
<1>0. L \in Nat
  OBVIOUS
<1>1. Keeps(seq, gone, keep)
  BY <1>0, FilterExists
<1>2. Without(seq, gone) = keep[L]
  BY DEF Without, Keeps
<1> HIDE DEF keep
<1>3. \A i \in 0 .. L : keep[i] = IF i = 0 THEN <<>>
              ELSE IF seq[i] \in gone THEN keep[i - 1]
              ELSE Append(keep[i - 1], seq[i])
  BY <1>1 DEF Keeps
<1> DEFINE Good(i) == keep[i] \in Seq(T) /\ \E at : Remains(seq, gone, i, keep[i], at)
           Bad == {i \in 0 .. L : ~ Good(i)}
<1>4. Bad = {}
  <2> SUFFICES ASSUME Bad # {} PROVE FALSE
    OBVIOUS
  <2>0. Bad \in SUBSET Nat
    BY <1>0
  <2> HIDE DEF Bad
  <2>1. PICK n \in Bad : \A m \in Bad : n <= m
    BY <2>0, LeastNumber
  <2> USE DEF Bad
  <2>2. n # 0
    <3>1. keep[0] = <<>> /\ <<>> \in Seq(T) /\ Len(<<>>) = 0
      BY <1>0, <1>3
    <3>2. Remains(seq, gone, 0, <<>>, [j \in 1 .. 0 |-> 0])
      BY DEF Remains
    <3> QED
      BY <2>1, <3>1, <3>2
  <2>3. n - 1 \in 0 .. L /\ n - 1 \notin Bad /\ n \in 1 .. L
    BY <1>0, <2>1, <2>2
  <2>4. PICK at : keep[n - 1] \in Seq(T) /\ Remains(seq, gone, n - 1, keep[n - 1], at)
    BY <2>3
  <2>5. CASE seq[n] \in gone
    <3>1. keep[n] = keep[n - 1]
      BY <1>3, <2>3, <2>5
    <3>2. Remains(seq, gone, n, keep[n - 1], at)
      <4>1. at \in [1 .. Len(keep[n - 1]) -> 1 .. n]
        BY <2>3, <2>4 DEF Remains
      <4>2. \A k \in 1 .. n : k = n \/ k \in 1 .. n - 1
        BY <2>3
      <4> QED
        BY <2>4, <2>5, <4>1, <4>2 DEF Remains
    <3> QED
      BY <2>1, <2>4, <3>1, <3>2
  <2>6. CASE seq[n] \notin gone
    <3> DEFINE old == keep[n - 1]
               m == Len(old) + 1
               new == [j \in 1 .. m |-> IF j = m THEN n ELSE at[j]]
    <3>1. keep[n] = Append(old, seq[n])
      <4>1. n \in 0 .. L /\ n # 0
        BY <2>3
      <4> QED
        BY <1>3, <2>6, <4>1
    <3>2. seq[n] \in T /\ old \in Seq(T)
      BY <2>3, <2>4, ElementOfSeq
    <3>3. /\ keep[n] \in Seq(T) /\ Len(keep[n]) = m /\ keep[n][m] = seq[n]
          /\ m \in Nat
          /\ \A j \in 1 .. Len(old) : keep[n][j] = old[j]
      BY <3>1, <3>2, AppendProperties, LenProperties
    <3>4. \A j \in 1 .. m : j = m \/ j \in 1 .. Len(old)
      BY <3>3
    <3>5. \A j \in 1 .. Len(old) : j # m /\ at[j] \in 1 .. n - 1 /\ at[j] # n /\ at[j] \in 1 .. n /\ j \in 1 .. m
      <4> SUFFICES ASSUME NEW j \in 1 .. Len(old)
                   PROVE j # m /\ at[j] \in 1 .. n - 1 /\ at[j] # n /\ at[j] \in 1 .. n /\ j \in 1 .. m
        OBVIOUS
      <4>1. at[j] \in 1 .. n - 1
        BY <2>4 DEF Remains
      <4>2. Len(old) \in Nat
        BY <2>4
      <4> QED
        BY <2>3, <4>1, <4>2
    <3>6. Remains(seq, gone, n, keep[n], new)
      <4>1. new \in [1 .. m -> 1 .. n]
        BY <2>3, <3>4, <3>5
      <4>2. \A j, k \in 1 .. m : new[j] = new[k] => j = k
        BY <2>4, <3>4, <3>5 DEF Remains
      <4>3. \A j \in 1 .. m : keep[n][j] = seq[new[j]] /\ keep[n][j] \notin gone
        BY <2>4, <2>6, <3>3, <3>4, <3>5 DEF Remains
      <4>4. ASSUME NEW k \in 1 .. n, seq[k] \notin gone
            PROVE \E j \in 1 .. m : new[j] = k
        <5>1. CASE k = n
          <6>1. m \in 1 .. m /\ new[m] = n
            BY <3>3
          <6> QED
            BY <5>1, <6>1
        <5>2. CASE k # n
          <6>1. k \in 1 .. n - 1
            BY <2>3, <5>2
          <6>2. PICK j \in 1 .. Len(old) : at[j] = k
            BY <2>4, <4>4, <6>1 DEF Remains
          <6> QED
            BY <3>5, <6>2
        <5> QED
          BY <5>1, <5>2
      <4> HIDE DEF new
      <4> QED
        BY <3>3, <4>1, <4>2, <4>3, <4>4 DEF Remains
    <3> QED
      BY <2>1, <3>3, <3>6
  <2> QED
    BY <2>5, <2>6
<1>5. L \in 0 .. L /\ L \notin Bad
  BY <1>0, <1>4
<1> QED
  BY <1>2, <1>5

\* The elements of a sequence, by position.
LEMMA ElementsOf ==
    ASSUME NEW T, NEW seq \in Seq(T)
    PROVE  /\ ToSet(seq) = {seq[i] : i \in 1 .. Len(seq)}
           /\ ToSet(seq) \subseteq T
BY DEF ToSet

\* What Without keeps and drops, and that it repeats nothing (the append loops of
\* removeSubjectConnLocked and of the limiter's reset).
LEMMA WithoutProperties ==
    ASSUME NEW T, NEW seq \in Seq(T), NEW gone
    PROVE  /\ Without(seq, gone) \in Seq(T)
           /\ ToSet(Without(seq, gone)) = ToSet(seq) \ gone
           /\ Len(Without(seq, gone)) <= Len(seq)
           /\ (\A i, j \in 1 .. Len(seq) : seq[i] = seq[j] => i = j)
                => \A i, j \in 1 .. Len(Without(seq, gone)) :
                       Without(seq, gone)[i] = Without(seq, gone)[j] => i = j
<1> DEFINE rest == Without(seq, gone)
<1>1. rest \in Seq(T)
  BY FilterKeeps
<1>2. PICK at : Remains(seq, gone, Len(seq), rest, at)
  BY FilterKeeps
<1> HIDE DEF rest
<1>3. ToSet(rest) = ToSet(seq) \ gone
  <2>1. ToSet(rest) = {rest[i] : i \in 1 .. Len(rest)} /\ ToSet(seq) = {seq[i] : i \in 1 .. Len(seq)}
    BY <1>1, ElementsOf
  <2>2. ASSUME NEW j \in 1 .. Len(rest) PROVE rest[j] \in ToSet(seq) \ gone
    BY <1>2, <2>1 DEF Remains
  <2>3. ASSUME NEW k \in 1 .. Len(seq), seq[k] \notin gone PROVE seq[k] \in ToSet(rest)
    <3>1. PICK j \in 1 .. Len(rest) : at[j] = k
      BY <1>2, <2>3 DEF Remains
    <3> QED
      BY <1>2, <2>1, <3>1 DEF Remains
  <2> QED
    BY <2>1, <2>2, <2>3
<1>4. Len(rest) <= Len(seq)
  <2>1. /\ IsFiniteSet(1 .. Len(seq)) /\ Cardinality(1 .. Len(seq)) = Len(seq)
        /\ Cardinality(1 .. Len(rest)) = Len(rest)
    <3>1. \A n \in Nat : IsFiniteSet(1 .. n) /\ Cardinality(1 .. n) = n
      BY FS_Interval
    <3> QED
      BY <1>1, <3>1
  <2>2. at \in Injection(1 .. Len(rest), 1 .. Len(seq))
    BY <1>2 DEF Remains, Injection, IsInjective
  <2>3. Cardinality(1 .. Len(rest)) <= Cardinality(1 .. Len(seq))
    BY <2>1, <2>2, FS_Injection
  <2> QED
    BY <2>1, <2>3
<1>5. ASSUME \A i, j \in 1 .. Len(seq) : seq[i] = seq[j] => i = j,
             NEW i \in 1 .. Len(rest), NEW j \in 1 .. Len(rest), rest[i] = rest[j]
      PROVE  i = j
  <2>1. at[i] \in 1 .. Len(seq) /\ at[j] \in 1 .. Len(seq) /\ seq[at[i]] = seq[at[j]]
    BY <1>2, <1>5 DEF Remains
  <2>2. at[i] = at[j]
    BY <1>5, <2>1
  <2> QED
    BY <1>2, <2>2 DEF Remains
<1> QED
  BY <1>1, <1>3, <1>4, <1>5 DEF rest

-----------------------------------------------------------------------------
(* Limits on a node: the inductive invariant. *)

\* The trackers' rows.
TrackerRows == [at : {"none", "waiting", "sync", "last sync", "ended"},
                last : SUBSET Users, current : SUBSET Users,
                new : SUBSET Users, gone : SUBSET Users]

\* The index of a subject names its connections, each once, and is within the
\* limit of its policy.
IndexFollows(s) ==
    /\ \A i, j \in 1 .. Len(efIndex[s]) : efIndex[s][i] = efIndex[s][j] => i = j
    /\ ToSet(efIndex[s]) = ConnectionsOf(s)
    /\ efPolicy[s].set => Len(efIndex[s]) <= efPolicy[s].conns \/ efIndex[s] = <<>>

EfTypes ==
    /\ efPolicy \in [LimitedSubjects -> Policies]
    /\ efConn \in [Users -> {"none", "recent", "old"}]
    /\ efIndex \in [LimitedSubjects -> Seq(Users)]
    /\ efKnown \in [LimitedSubjects -> BOOLEAN]
    /\ efTracker \in [1 .. MaxTrackers -> TrackerRows]
    /\ efOnline \subseteq Users
    /\ efUpdates \in 0 .. MaxPolicyUpdates

EfInv == EfTypes /\ \A s \in LimitedSubjects : IndexFollows(s)

\* A node has finitely many possible connections.
LEMMA UsersFinite == IsFiniteSet(Users) /\ Unlimited \in Nat
<1>1. IsFiniteSet({1, 2})
  <2>1. IsFiniteSet({1}) /\ IsFiniteSet({2})
    BY FS_Singleton
  <2>2. IsFiniteSet({1} \cup {2})
    BY <2>1, FS_Union
  <2>3. {1} \cup {2} = {1, 2}
    OBVIOUS
  <2> QED
    BY <2>2, <2>3, Zenon
<1>2. IsFiniteSet(Users)
  BY <1>1, EnforcementAssumption, FS_Product DEF Users
<1> QED
  BY <1>2, FS_CardinalityType DEF Unlimited

\* The fields of a policy.
LEMMA PolicyRows ==
    ASSUME NEW p \in Policies
    PROVE  p.set \in BOOLEAN /\ p.conns \in Int /\ p.devices \in Int
<1>1. Unlimited \in Int /\ Limits \cup {Unlimited} \subseteq Int
  BY UsersFinite, EnforcementAssumption
<1>2. CASE p = NoPolicy
  BY <1>1, <1>2 DEF NoPolicy
<1>3. CASE p \in [set : {TRUE}, conns : Limits \cup {Unlimited}, devices : Limits \cup {Unlimited}]
  BY <1>1, <1>3
<1> QED
  BY <1>2, <1>3 DEF Policies

\* What an update keeps of a subject's connections: part of them, in their order,
\* and no more than the new policy allows.
LEMMA KeptWithinLimit ==
    ASSUME NEW s \in LimitedSubjects, NEW p \in Policies, efIndex[s] \in Seq(Users),
           \A i, j \in 1 .. Len(efIndex[s]) : efIndex[s][i] = efIndex[s][j] => i = j
    PROVE  /\ Kept(s, p) \in Seq(Users)
           /\ ToSet(Kept(s, p)) \subseteq ToSet(efIndex[s])
           /\ \A i, j \in 1 .. Len(Kept(s, p)) : Kept(s, p)[i] = Kept(s, p)[j] => i = j
           /\ p.set => Len(Kept(s, p)) <= p.conns \/ Kept(s, p) = <<>>
<1> DEFINE idx == efIndex[s]
           L == Len(idx)
           rest == SubSeq(idx, L - p.conns + 1, L)
<1>1. p.conns \in Int /\ L \in Nat
  BY PolicyRows
<1>2. CASE Kept(s, p) = <<>>
  BY <1>2 DEF ToSet
<1>3. CASE Kept(s, p) = idx /\ L <= p.conns
  BY <1>3
<1>4. CASE Kept(s, p) = rest /\ ~ (p.conns < 0) /\ ~ (L <= p.conns)
  <2>1. /\ p.conns \in Nat /\ L - p.conns + 1 \in 1 .. L + 1 /\ L \in L - p.conns .. L
        /\ L - p.conns \in Nat
    BY <1>1, <1>4
  <2>2. /\ rest \in Seq(Users) /\ Len(rest) = p.conns
        /\ \A i \in 1 .. p.conns : rest[i] = idx[L - p.conns + i] /\ L - p.conns + i \in 1 .. L
    <3> DEFINE from == L - p.conns + 1
    <3>1. from \in Int /\ L \in Int /\ from <= L + 1 /\ L - from + 1 = p.conns
      BY <1>1, <1>4
    <3>2. \A i \in from .. L : idx[i] \in Users
      BY <1>1, <1>4, ElementOfSeq
    <3> HIDE DEF from
    <3>3. /\ SubSeq(idx, from, L) \in Seq(Users)
          /\ Len(SubSeq(idx, from, L)) = IF from <= L THEN L - from + 1 ELSE 0
          /\ \A i \in 1 .. L - from + 1 : SubSeq(idx, from, L)[i] = idx[from + i - 1]
      BY <3>1, <3>2, SubSeqProperties
    <3> USE DEF from
    <3>4. \A i \in 1 .. p.conns : from + i - 1 = L - p.conns + i /\ L - p.conns + i \in 1 .. L
      BY <1>1, <1>4
    <3>5. Len(rest) = p.conns
      <4>1. from <= L \/ p.conns = 0
        BY <1>1, <1>4
      <4>2. from <= L => Len(rest) = p.conns
        BY <3>1, <3>3
      <4>3. ~(from <= L) => Len(rest) = 0
        BY <3>3
      <4> HIDE DEF from, rest
      <4> QED
        BY <4>1, <4>2, <4>3
    <3> QED
      BY <3>1, <3>3, <3>4, <3>5
  <2>3. ToSet(rest) \subseteq ToSet(idx)
    <3> HIDE DEF rest
    <3>1. ToSet(rest) = {rest[i] : i \in 1 .. Len(rest)} /\ ToSet(idx) = {idx[i] : i \in 1 .. L}
      BY <2>2, ElementsOf
    <3> QED
      BY <2>2, <3>1
  <2>4. ASSUME NEW i \in 1 .. p.conns, NEW j \in 1 .. p.conns, rest[i] = rest[j]
        PROVE i = j
    <3>1. L - p.conns + i = L - p.conns + j
      BY <2>2, <2>4
    <3> QED
      BY <1>1, <2>1, <3>1
  <2> HIDE DEF rest
  <2> QED
    BY <1>1, <1>4, <2>2, <2>3, <2>4
<1> QED
  BY <1>2, <1>3, <1>4 DEF Kept, Terminated

-----------------------------------------------------------------------------
(* Steps of the node's enforcer. *)

\* A node starts without connections.
LEMMA EfInitially == EfInit => EfInv
<1> SUFFICES ASSUME EfInit PROVE EfInv
  OBVIOUS
<1> USE DEF EfInit
<1>1. NoPolicy \in Policies /\ NoTracker \in TrackerRows /\ <<>> \in Seq(Users)
  BY DEF Policies, NoTracker, TrackerRows
<1>2. EfTypes
  BY <1>1, EnforcementAssumption DEF EfTypes
<1>3. ASSUME NEW s \in LimitedSubjects PROVE IndexFollows(s)
  BY DEF IndexFollows, ConnectionsOf, ToSet, NoPolicy
<1> QED
  BY <1>2, <1>3 DEF EfInv

\* Steps that leave policies and connections alone.
LEMMA QuietEnforcer ==
    ASSUME EfInv, EfTypes', UNCHANGED <<efPolicy, efIndex>>,
           \A u \in Users : efConn'[u] = "none" <=> efConn[u] = "none"
    PROVE  EfInv'
<1>1. ASSUME NEW s \in LimitedSubjects PROVE IndexFollows(s)'
  <2>1. ConnectionsOf(s)' = ConnectionsOf(s)
    BY DEF ConnectionsOf
  <2> QED
    BY <2>1 DEF EfInv, IndexFollows, ToSet
<1> QED
  BY <1>1 DEF EfInv

\* Connections of a subject leave the index and the table together.
LEMMA IndexShrinks ==
    ASSUME EfInv, NEW s \in LimitedSubjects, NEW gone, efPolicy' = efPolicy,
           efIndex'[s] = Without(efIndex[s], gone),
           ConnectionsOf(s)' = ConnectionsOf(s) \ gone
    PROVE  IndexFollows(s)'
<1>1. efIndex[s] \in Seq(Users) /\ IndexFollows(s)
  BY DEF EfInv, EfTypes
<1>2. /\ efIndex'[s] \in Seq(Users)
      /\ ToSet(efIndex'[s]) = ToSet(efIndex[s]) \ gone
      /\ Len(efIndex'[s]) <= Len(efIndex[s])
      /\ \A i, j \in 1 .. Len(efIndex'[s]) : efIndex'[s][i] = efIndex'[s][j] => i = j
  BY <1>1, WithoutProperties DEF IndexFollows
<1>3. efPolicy[s].conns \in Int
  BY PolicyRows DEF EfInv, EfTypes
<1>4. efIndex[s] = <<>> => efIndex'[s] = <<>>
  BY <1>1, <1>2
<1>5. ToSet(efIndex[s])' = ToSet(efIndex'[s])
  BY DEF ToSet
<1> QED
  BY <1>1, <1>2, <1>3, <1>4, <1>5 DEF IndexFollows

\* A policy update cuts what is over the new limit, index and connections alike.
LEMMA UpdateStep == EfInv /\ UpdatePolicies => EfInv'
<1> SUFFICES ASSUME EfInv, UpdatePolicies PROVE EfInv'
  OBVIOUS
<1>1. PICK new \in [LimitedSubjects -> Policies] :
        /\ efPolicy' = new
        /\ efIndex' = [s \in LimitedSubjects |-> Kept(s, new[s])]
        /\ efConn' = [u \in Users |-> IF u \in ToSet(Kept(u[1], new[u[1]])) THEN efConn[u]
                                      ELSE "none"]
        /\ efKnown' = [s \in LimitedSubjects |->
                          CASE Terminated(s, new[s]) -> FALSE
                            [] Kept(s, new[s]) = efIndex[s] -> efKnown[s]
                            [] OTHER -> Kept(s, new[s]) # <<>>]
  BY DEF UpdatePolicies
<1>2. ASSUME NEW s \in LimitedSubjects
      PROVE  /\ Kept(s, new[s]) \in Seq(Users)
             /\ ToSet(Kept(s, new[s])) \subseteq ToSet(efIndex[s])
             /\ \A i, j \in 1 .. Len(Kept(s, new[s])) :
                    Kept(s, new[s])[i] = Kept(s, new[s])[j] => i = j
             /\ new[s].set => Len(Kept(s, new[s])) <= new[s].conns \/ Kept(s, new[s]) = <<>>
  <2>1. efIndex[s] \in Seq(Users) /\ new[s] \in Policies /\ IndexFollows(s)
    BY DEF EfInv, EfTypes
  <2> QED
    BY <2>1, KeptWithinLimit DEF IndexFollows
<1>3. EfTypes'
  <2>1. efConn' \in [Users -> {"none", "recent", "old"}]
    BY <1>1 DEF EfInv, EfTypes
  <2>2. efIndex' \in [LimitedSubjects -> Seq(Users)]
    BY <1>1, <1>2
  <2>3. efKnown' \in [LimitedSubjects -> BOOLEAN]
    <3>1. \A s \in LimitedSubjects : efKnown'[s] \in BOOLEAN
      BY <1>1 DEF EfInv, EfTypes
    <3> QED
      BY <1>1, <3>1
  <2>4. efUpdates' \in 0 .. MaxPolicyUpdates /\ UNCHANGED <<efTracker, efOnline>>
    BY EnforcementAssumption DEF UpdatePolicies, EfInv, EfTypes
  <2> QED
    BY <1>1, <2>1, <2>2, <2>3, <2>4 DEF EfInv, EfTypes
<1>4. ASSUME NEW s \in LimitedSubjects PROVE IndexFollows(s)'
  <2>1. IndexFollows(s) /\ efIndex'[s] = Kept(s, new[s]) /\ efPolicy'[s] = new[s]
    BY <1>1 DEF EfInv
  <2>2. ASSUME NEW u \in Users, u[1] = s
        PROVE efConn'[u] = IF u \in ToSet(Kept(s, new[s])) THEN efConn[u] ELSE "none"
    BY <1>1, <2>2
  <2>3. ConnectionsOf(s)' = ToSet(Kept(s, new[s]))
    BY <1>2, <2>1, <2>2 DEF ConnectionsOf, IndexFollows
  <2>4. ToSet(efIndex[s])' = ToSet(efIndex'[s])
    BY DEF ToSet
  <2> QED
    BY <1>2, <2>1, <2>3, <2>4 DEF IndexFollows
<1> QED
  BY <1>3, <1>4 DEF EfInv

\* A connection is registered in the index when there is room for it.
LEMMA RegisterStep ==
    ASSUME EfInv, EfTypes', NEW u \in Users, CheckAndRegisterConnection(u), efPolicy' = efPolicy
    PROVE  EfInv'
<1>1. u[1] \in LimitedSubjects
  BY DEF Users
<1>2. CASE efConn[u] # "none"
  <2>1. efConn' = [efConn EXCEPT ![u] = "recent"] /\ efIndex' = efIndex
    BY <1>2 DEF CheckAndRegisterConnection
  <2>2. \A w \in Users : efConn'[w] = "none" <=> efConn[w] = "none"
    BY <1>2, <2>1 DEF EfInv, EfTypes
  <2> QED
    BY <2>1, <2>2, QuietEnforcer
<1>3. CASE efConn[u] = "none" /\ ~ Admitted(u[1])
  BY <1>3, QuietEnforcer DEF CheckAndRegisterConnection
<1>4. CASE efConn[u] = "none" /\ Admitted(u[1])
  <2> DEFINE idx == efIndex[u[1]]
  <2>1. /\ efConn' = [efConn EXCEPT ![u] = "recent"]
        /\ efIndex' = [efIndex EXCEPT ![u[1]] = Append(@, u)]
    BY <1>4 DEF CheckAndRegisterConnection
  <2>2. idx \in Seq(Users) /\ IndexFollows(u[1]) /\ efPolicy[u[1]].conns \in Int
    BY <1>1, PolicyRows DEF EfInv, EfTypes
  <2>3. efIndex'[u[1]] = Append(idx, u)
    BY <1>1, <2>1 DEF EfInv, EfTypes
  <2>4. /\ Len(Append(idx, u)) = Len(idx) + 1
        /\ \A i \in 1 .. Len(idx) : Append(idx, u)[i] = idx[i]
        /\ Append(idx, u)[Len(idx) + 1] = u
        /\ Append(idx, u) \in Seq(Users)
    BY <2>2, AppendProperties
  <2>5. \A i \in 1 .. Len(idx) + 1 : i = Len(idx) + 1 \/ i \in 1 .. Len(idx)
    BY <2>2
  <2>6. \A i \in 1 .. Len(idx) : idx[i] # u
    <3>1. u \notin ToSet(idx)
      BY <1>4, <2>2 DEF IndexFollows, ConnectionsOf
    <3> QED
      BY <2>2, <3>1, ElementsOf
  <2>7. ToSet(Append(idx, u)) = ToSet(idx) \cup {u}
    <3> HIDE DEF idx
    <3>1. /\ ToSet(Append(idx, u)) = {Append(idx, u)[i] : i \in 1 .. Len(Append(idx, u))}
          /\ ToSet(idx) = {idx[i] : i \in 1 .. Len(idx)}
      BY <2>2, <2>4, ElementsOf
    <3>2. 1 .. Len(idx) + 1 = 1 .. Len(idx) \cup {Len(idx) + 1}
      BY <2>2
    <3> QED
      BY <2>4, <3>1, <3>2
  <2>8. IndexFollows(u[1])'
    <3>1. ConnectionsOf(u[1])' = ConnectionsOf(u[1]) \cup {u}
      BY <2>1 DEF ConnectionsOf, EfInv, EfTypes
    <3>2. ToSet(efIndex'[u[1]]) = ConnectionsOf(u[1]) \cup {u}
      BY <2>2, <2>3, <2>7 DEF IndexFollows
    <3>3. Len(idx) + 1 <= efPolicy[u[1]].conns
      BY <1>4, <2>2 DEF Admitted
    <3>4. \A i, j \in 1 .. Len(idx) + 1 : Append(idx, u)[i] = Append(idx, u)[j] => i = j
      BY <2>2, <2>4, <2>5, <2>6 DEF IndexFollows
    <3>5. ToSet(efIndex[u[1]])' = ToSet(efIndex'[u[1]])
      BY DEF ToSet
    <3> QED
      BY <2>3, <2>4, <3>1, <3>2, <3>3, <3>4, <3>5 DEF IndexFollows
  <2>9. ASSUME NEW s \in LimitedSubjects, s # u[1] PROVE IndexFollows(s)'
    <3>1. efIndex'[s] = efIndex[s]
      BY <2>1, <2>9 DEF EfInv, EfTypes
    <3>2. ConnectionsOf(s)' = ConnectionsOf(s)
      BY <2>1, <2>9 DEF ConnectionsOf, EfInv, EfTypes
    <3> QED
      BY <3>1, <3>2 DEF EfInv, IndexFollows, ToSet
  <2> QED
    BY <2>8, <2>9 DEF EfInv
<1> QED
  BY <1>2, <1>3, <1>4

\* A connection that ends leaves the index.
LEMMA UnregisterStep ==
    ASSUME EfInv, EfTypes', NEW u \in Users, UnregisterConnection(u), efPolicy' = efPolicy
    PROVE  EfInv'
<1>1. u[1] \in LimitedSubjects
  BY DEF Users
<1>2. CASE efConn[u] = "none"
  BY <1>2, QuietEnforcer DEF UnregisterConnection
<1>3. CASE efConn[u] # "none"
  <2>1. /\ efConn' = [efConn EXCEPT ![u] = "none"]
        /\ efIndex' = [efIndex EXCEPT ![u[1]] = Without(@, {u})]
    BY <1>3 DEF UnregisterConnection
  <2>2. IndexFollows(u[1])'
    <3>1. efIndex'[u[1]] = Without(efIndex[u[1]], {u})
      BY <1>1, <2>1 DEF EfInv, EfTypes
    <3>2. ConnectionsOf(u[1])' = ConnectionsOf(u[1]) \ {u}
      BY <2>1 DEF ConnectionsOf, EfInv, EfTypes
    <3> QED
      BY <1>1, <3>1, <3>2, IndexShrinks
  <2>3. ASSUME NEW s \in LimitedSubjects, s # u[1] PROVE IndexFollows(s)'
    <3>1. efIndex'[s] = efIndex[s]
      BY <2>1, <2>3 DEF EfInv, EfTypes
    <3>2. ConnectionsOf(s)' = ConnectionsOf(s)
      BY <2>1, <2>3 DEF ConnectionsOf, EfInv, EfTypes
    <3> QED
      BY <3>1, <3>2 DEF EfInv, IndexFollows, ToSet
  <2> QED
    BY <2>2, <2>3 DEF EfInv
<1> QED
  BY <1>2, <1>3

\* The sweep of stale connections drops them from index and connections.
LEMMA CleanupStep == EfInv /\ CleanupStale => EfInv'
<1> SUFFICES ASSUME EfInv, CleanupStale PROVE EfInv'
  OBVIOUS
<1> DEFINE old == {u \in Users : efConn[u] = "old"}
<1>1. /\ efConn' = [u \in Users |-> IF efConn[u] = "old" THEN "none" ELSE efConn[u]]
      /\ efIndex' = [s \in LimitedSubjects |-> Without(efIndex[s], old)]
      /\ UNCHANGED <<efPolicy, efKnown, efTracker, efOnline, efUpdates>>
  BY DEF CleanupStale
<1>2. EfTypes'
  <2>1. \A s \in LimitedSubjects : Without(efIndex[s], old) \in Seq(Users)
    BY WithoutProperties DEF EfInv, EfTypes
  <2> HIDE DEF old
  <2> QED
    BY <1>1, <2>1 DEF EfInv, EfTypes
<1>3. ASSUME NEW s \in LimitedSubjects PROVE IndexFollows(s)'
  <2>1. ConnectionsOf(s)' = ConnectionsOf(s) \ old
    BY <1>1 DEF ConnectionsOf, EfInv, EfTypes
  <2>2. efIndex'[s] = Without(efIndex[s], old)
    BY <1>1
  <2> QED
    BY <1>1, <2>1, <2>2, IndexShrinks
<1> QED
  BY <1>2, <1>3 DEF EfInv

\* The rows of a tracker.
LEMMA TrackerUpdates ==
    ASSUME NEW t \in 1 .. MaxTrackers, EfTypes
    PROVE  /\ efTracker[t] \in TrackerRows
           /\ efTracker[t].last \subseteq Users /\ efTracker[t].current \subseteq Users
           /\ efTracker[t].new \subseteq Users /\ efTracker[t].gone \subseteq Users
BY DEF EfTypes, TrackerRows

\* The start of a tracker and the ends of its sync touch no connection.
LEMMA TrackerSteps ==
    ASSUME EfInv, NEW t \in 1 .. MaxTrackers
    PROVE  /\ StartEnforcement(t) => EfInv'
           /\ SyncBegins(t) => EfInv'
           /\ SyncEnds(t) => EfInv'
<1> USE DEF EfInv
<1>1. ASSUME StartEnforcement(t) PROVE EfInv'
  <2>1. \A k \in 1 .. MaxTrackers :
          [efTracker[k] EXCEPT !.at = IF k = t THEN "waiting" ELSE SessionOver(@)] \in TrackerRows
    BY DEF EfTypes, TrackerRows, SessionOver
  <2>2. EfTypes'
    BY <1>1, <2>1 DEF StartEnforcement, EfTypes
  <2> QED
    BY <1>1, <2>2, QuietEnforcer DEF StartEnforcement
<1>2. ASSUME SyncBegins(t) PROVE EfInv'
  <2>1. EfTypes'
    <3>1. [efTracker[t] EXCEPT !.at = "sync", !.current = efOnline,
                               !.new = efOnline \ efTracker[t].last,
                               !.gone = efTracker[t].last \ efOnline] \in TrackerRows
      BY TrackerUpdates DEF EfTypes, TrackerRows
    <3>2. efTracker' \in [1 .. MaxTrackers -> TrackerRows]
      BY <1>2, <3>1 DEF SyncBegins, EfTypes
    <3> QED
      BY <1>2, <3>2 DEF SyncBegins, EfTypes
  <2> QED
    BY <1>2, <2>1, QuietEnforcer DEF SyncBegins
<1>3. ASSUME SyncEnds(t) PROVE EfInv'
  <2>1. EfTypes'
    <3>1. [efTracker[t] EXCEPT !.at = IF @ = "sync" THEN "waiting" ELSE "ended",
                               !.last = efTracker[t].current, !.current = {}] \in TrackerRows
      BY TrackerUpdates DEF EfTypes, TrackerRows
    <3>2. efTracker' \in [1 .. MaxTrackers -> TrackerRows]
      BY <1>3, <3>1 DEF SyncEnds, EfTypes
    <3> QED
      BY <1>3, <3>2 DEF SyncEnds, EfTypes
  <2> QED
    BY <1>3, <2>1, QuietEnforcer DEF SyncEnds
<1> QED
  BY <1>1, <1>2, <1>3

\* What a sync finds new is registered and what it finds gone is unregistered.
LEMMA SyncSteps ==
    ASSUME EfInv, NEW t \in 1 .. MaxTrackers, NEW u \in Users
    PROVE  /\ handleNewConnection(t, u) => EfInv'
           /\ handleDisconnection(t, u) => EfInv'
<1>0. EfTypes /\ u[1] \in LimitedSubjects
  BY DEF EfInv, Users
<1>1. ASSUME handleNewConnection(t, u) PROVE EfInv'
  <2>1. EfTypes'
    <3>1. [efTracker EXCEPT ![t].new = @ \ {u}] \in [1 .. MaxTrackers -> TrackerRows]
      BY <1>0, TrackerUpdates DEF EfTypes, TrackerRows
    <3>2. efIndex' \in [LimitedSubjects -> Seq(Users)]
      <4>1. Append(efIndex[u[1]], u) \in Seq(Users)
        BY <1>0 DEF EfTypes
      <4> QED
        BY <1>0, <1>1, <4>1 DEF EfTypes, handleNewConnection, CheckAndRegisterConnection
    <3>3. /\ efConn' \in [Users -> {"none", "recent", "old"}]
          /\ efKnown' \in [LimitedSubjects -> BOOLEAN]
      BY <1>0, <1>1 DEF EfTypes, handleNewConnection, CheckAndRegisterConnection
    <3> QED
      BY <1>0, <1>1, <3>1, <3>2, <3>3 DEF EfTypes, handleNewConnection
  <2> QED
    BY <1>1, <2>1, RegisterStep DEF handleNewConnection
<1>2. ASSUME handleDisconnection(t, u) PROVE EfInv'
  <2>1. EfTypes'
    <3>1. [efTracker EXCEPT ![t].gone = @ \ {u}] \in [1 .. MaxTrackers -> TrackerRows]
      BY <1>0, TrackerUpdates DEF EfTypes, TrackerRows
    <3>2. efIndex' \in [LimitedSubjects -> Seq(Users)]
      <4>1. Without(efIndex[u[1]], {u}) \in Seq(Users)
        BY <1>0, WithoutProperties DEF EfTypes
      <4> QED
        BY <1>0, <1>2, <4>1 DEF EfTypes, handleDisconnection, UnregisterConnection
    <3>3. /\ efConn' \in [Users -> {"none", "recent", "old"}]
          /\ efKnown' \in [LimitedSubjects -> BOOLEAN]
      BY <1>0, <1>2 DEF EfTypes, handleDisconnection, UnregisterConnection
    <3> QED
      BY <1>0, <1>2, <3>1, <3>2, <3>3 DEF EfTypes, handleDisconnection
  <2> QED
    BY <1>2, <2>1, UnregisterStep DEF handleDisconnection
<1> QED
  BY <1>1, <1>2

\* Traffic and time change what the trackers will see.
LEMMA WorldSteps ==
    ASSUME EfInv, NEW u \in Users
    PROVE  /\ TrafficChanges(u) => EfInv'
           /\ ConnectionAges(u) => EfInv'
<1>1. ASSUME TrafficChanges(u) PROVE EfInv'
  <2>1. EfTypes'
    BY <1>1 DEF TrafficChanges, EfInv, EfTypes
  <2> QED
    BY <1>1, <2>1, QuietEnforcer DEF TrafficChanges
<1>2. ASSUME ConnectionAges(u) PROVE EfInv'
  <2>1. EfTypes'
    BY <1>2 DEF ConnectionAges, EfInv, EfTypes
  <2>2. \A w \in Users : efConn'[w] = "none" <=> efConn[w] = "none"
    BY <1>2 DEF ConnectionAges, EfInv, EfTypes
  <2> QED
    BY <1>2, <2>1, <2>2, QuietEnforcer DEF ConnectionAges
<1> QED
  BY <1>1, <1>2

\* Every step of the enforcer keeps its invariant.
LEMMA EfStep == EfInv /\ [EfNext]_efVars => EfInv'
<1> SUFFICES ASSUME EfInv, [EfNext]_efVars PROVE EfInv'
  OBVIOUS
<1>1. CASE UNCHANGED efVars
  BY <1>1 DEF efVars, EfInv, EfTypes, IndexFollows, ConnectionsOf, ToSet
<1> QED
  BY <1>1, UpdateStep, CleanupStep, TrackerSteps, SyncSteps, WorldSteps DEF EfNext

\* A subject's connections are the elements of its index.
LEMMA IndexBoundsConnections ==
    EfInv => EfTypeOK /\ ConnectionLimitHolds
<1> SUFFICES ASSUME EfInv PROVE EfTypeOK /\ ConnectionLimitHolds
  OBVIOUS
<1>1. EfTypeOK
  <2>1. \A s \in LimitedSubjects : ToSet(efIndex[s]) \subseteq Users
    BY ElementsOf DEF EfInv, EfTypes
  <2> QED
    BY <2>1 DEF EfInv, EfTypes, EfTypeOK, TrackerRows
<1>2. ASSUME NEW s \in LimitedSubjects, efPolicy[s].set
      PROVE  Cardinality(ConnectionsOf(s)) <= efPolicy[s].conns \/ ConnectionsOf(s) = {}
  <2> DEFINE idx == efIndex[s]
  <2>1. idx \in Seq(Users) /\ IndexFollows(s) /\ efPolicy[s].conns \in Int
    BY PolicyRows DEF EfInv, EfTypes
  <2>2. CASE idx = <<>>
    BY <2>1, <2>2 DEF IndexFollows, ToSet
  <2>3. CASE Len(idx) <= efPolicy[s].conns
    <3>1. ConnectionsOf(s) = {idx[i] : i \in 1 .. Len(idx)}
      BY <2>1, ElementsOf DEF IndexFollows
    <3>2. IsFiniteSet(1 .. Len(idx)) /\ Cardinality(1 .. Len(idx)) = Len(idx)
      <4>1. \A n \in Nat : IsFiniteSet(1 .. n) /\ Cardinality(1 .. n) = n
        BY FS_Interval
      <4> QED
        BY <2>1, <4>1
    <3>3. [i \in 1 .. Len(idx) |-> idx[i]] \in Surjection(1 .. Len(idx), ConnectionsOf(s))
      BY <3>1 DEF Surjection
    <3>4. /\ IsFiniteSet(ConnectionsOf(s))
          /\ Cardinality(ConnectionsOf(s)) <= Cardinality(1 .. Len(idx))
      BY <3>2, <3>3, FS_Surjection
    <3>5. Cardinality(ConnectionsOf(s)) \in Nat
      BY <3>4, FS_CardinalityType
    <3> QED
      BY <2>1, <2>3, <3>2, <3>4, <3>5
  <2> QED
    BY <1>2, <2>1, <2>2, <2>3 DEF IndexFollows
<1> QED
  BY <1>1, <1>2 DEF ConnectionLimitHolds

\* The invariant holds throughout.
LEMMA EfInvariant == EfSpec => []EfInv
BY EfInitially, EfStep, PTL DEF EfSpec

\* Policies, connections, index and trackers of a node (enforcement.go, policy.go)
\* keep their types.
THEOREM EfTypeCorrect == EfSpec => []EfTypeOK
BY EfInvariant, IndexBoundsConnections, PTL

\* RegisterConnection, the policy sync and the sweeps (enforcement.go) never leave
\* a limited subject with more connections than its policy allows, unless the
\* policy cut them all: the index the limit is checked against lists exactly the
\* connections the tracker counts.
THEOREM ConnectionLimitsHold == EfSpec => []ConnectionLimitHolds
BY EfInvariant, IndexBoundsConnections, PTL

-----------------------------------------------------------------------------
(* Signing in: the inductive invariant. *)

Stages == {"login", "denied", "granted", "login.spend", "session", "enrol.write",
           "confirm.write", "confirm.reset", "disable.write", "disable.spend", "change.write"}
Places == {"idle"} \cup Stages \cup Own \cup Managing
CallRows == [at : Places, as : Admins \cup {"-"}, to : Admins \cup {"-"},
             session : 0 .. MaxSessions, code : 0 .. MaxSecrets,
             password : 0 .. MaxPasswords, asked : BOOLEAN, super : BOOLEAN]
SessionRows == [of : Admins, valid : BOOLEAN, password : 1 .. MaxPasswords] \cup {NoSession}

\* Who a handler acts for and upon, and the password a login has verified.
CallInv ==
    /\ auCall \in [Clients -> CallRows]
    /\ \A c \in Clients : auCall[c].at # "idle" => auCall[c].as \in Admins
    /\ \A c \in Clients : auCall[c].at \in {"login.spend", "granted", "session"} =>
           auCall[c].password \in 1 .. MaxPasswords
    /\ \A c \in Clients : auCall[c].at \in Managing => auCall[c].to \in Admins

\* A code that is still held was never accepted and is one account's, and codes
\* to come are fresh.
CodesInv ==
    /\ \A a \in Admins : \A k \in auAdmin[a].codes : k <= auMade /\ auSpent[k] = 0
    /\ \A k \in Secrets : k > auMade => auSpent[k] = 0
    /\ \A a, b \in Admins : a # b => auAdmin[a].codes \cap auAdmin[b].codes = {}
    /\ RecoveryCodeUsedOnce

AuInv == AuTypeOK /\ CallInv /\ CodesInv

-----------------------------------------------------------------------------
(* Updates of rows. *)

\* A handler moves on.
LEMMA CallUpdates ==
    ASSUME NEW r \in CallRows, NEW where \in Places
    PROVE  /\ [r EXCEPT !.at = where] \in CallRows
           /\ \A b \in BOOLEAN : [r EXCEPT !.at = where, !.asked = b] \in CallRows
           /\ \A k \in 0 .. MaxSecrets, p \in 0 .. MaxPasswords :
                  [r EXCEPT !.at = where, !.code = k, !.password = p] \in CallRows
           /\ \A k \in 0 .. MaxSecrets, b \in BOOLEAN :
                  [r EXCEPT !.at = where, !.code = k, !.asked = b] \in CallRows
BY DEF CallRows

\* An idle client.
LEMMA NoCall == NoAuthCall \in CallRows /\ NoAuthCall.at = "idle"
<1> DEFINE zero == 0
<1>1. zero \in 0 .. MaxSessions /\ zero \in 0 .. MaxSecrets /\ zero \in 0 .. MaxPasswords
  BY AuthAssumption
<1>2. "idle" \in Places /\ FALSE \in BOOLEAN
  BY DEF Places
<1>3. NoAuthCall = [at |-> "idle", as |-> "-", to |-> "-", session |-> zero, code |-> zero,
                    password |-> zero, asked |-> FALSE, super |-> FALSE]
  BY DEF NoAuthCall
<1> HIDE DEF zero
<1>4. NoAuthCall \in CallRows
  BY <1>1, <1>2, <1>3 DEF CallRows
<1>5. QED
  BY <1>4 DEF NoAuthCall

\* A handler that has just been called.
LEMMA NewCalls ==
    ASSUME NEW where \in Places, NEW a \in Admins, NEW b \in BOOLEAN
    PROVE  /\ \A to \in Admins \cup {"-"}, s \in 0 .. MaxSessions :
                  [NoAuthCall EXCEPT !.at = where, !.as = a, !.to = to, !.session = s,
                                     !.super = b] \in CallRows
           /\ [NoAuthCall EXCEPT !.at = where, !.as = a, !.asked = b] \in CallRows
BY NoCall DEF CallRows

\* What handlers write in an account.
LEMMA AccountUpdates ==
    ASSUME NEW r \in Account, NEW b \in BOOLEAN, NEW p \in 1 .. MaxPasswords,
           NEW x \in 0 .. MaxSecrets, NEW y \in 0 .. MaxSecrets, NEW ks \in SUBSET Secrets
    PROVE  /\ [r EXCEPT !.codes = ks] \in Account
           /\ [r EXCEPT !.pending = x] \in Account
           /\ [r EXCEPT !.secret = x, !.codes = ks] \in Account
           /\ [r EXCEPT !.secret = x, !.pending = y, !.codes = ks] \in Account
           /\ [r EXCEPT !.super = b] \in Account
           /\ [r EXCEPT !.active = b] \in Account
           /\ [r EXCEPT !.live = b] \in Account
           /\ [r EXCEPT !.password = p] \in Account
BY DEF Account

\* A new account holds no recovery codes.
LEMMA NewAccountType == NewAccount \in Account /\ NewAccount.codes = {}
<1> DEFINE zero == 0
<1> DEFINE one == 1
<1>1. zero \in 0 .. MaxSecrets /\ one \in 1 .. MaxPasswords /\ {} \in SUBSET Secrets
  BY AuthAssumption
<1>2. NewAccount = [live |-> TRUE, active |-> TRUE, super |-> TRUE, password |-> one,
                    secret |-> zero, pending |-> zero, codes |-> {}]
  BY DEF NewAccount
<1>3. NewAccount.codes = {}
  BY DEF NewAccount
<1> HIDE DEF zero, one
<1>4. NewAccount \in Account
  BY <1>1, <1>2, Zenon DEF Account
<1>5. QED
  BY <1>3, <1>4

\* A revoked session.
LEMMA SessionUpdates ==
    ASSUME NEW r \in SessionRows
    PROVE  [r EXCEPT !.valid = FALSE] \in SessionRows
<1> DEFINE no == FALSE
<1> DEFINE zero == 0
<1>1. NoSession = [of |-> "-", valid |-> no, password |-> zero]
  BY DEF NoSession
<1>2. no \in BOOLEAN
  OBVIOUS
<1> HIDE DEF no, zero
<1>3. CASE r = NoSession
  <2>1. [r EXCEPT !.valid = no] = NoSession
    BY <1>1, <1>3
  <2>2. QED
    BY <2>1 DEF SessionRows, no
<1>4. CASE r \in [of : Admins, valid : BOOLEAN, password : 1 .. MaxPasswords]
  <2>1. [r EXCEPT !.valid = no] \in [of : Admins, valid : BOOLEAN, password : 1 .. MaxPasswords]
    BY <1>2, <1>4
  <2>2. QED
    BY <2>1 DEF SessionRows, no
<1>5. QED
  BY <1>3, <1>4 DEF SessionRows

\* A session that is valid is somebody's.
LEMMA ValidIsOfAnAdmin ==
    ASSUME NEW r \in SessionRows, r.valid
    PROVE  r.of \in Admins
BY DEF SessionRows, NoSession

-----------------------------------------------------------------------------
(* What the parts of a step preserve. *)

\* One client's call is replaced.
LEMMA CallIsSet ==
    ASSUME CallInv, NEW c \in Clients, NEW r \in CallRows,
           r.at # "idle" => r.as \in Admins,
           r.at \in {"login.spend", "granted", "session"} => r.password \in 1 .. MaxPasswords,
           r.at \in Managing => r.to \in Admins,
           auCall' = [auCall EXCEPT ![c] = r]
    PROVE  CallInv'
BY DEF CallInv

\* One client's call ends.
LEMMA OverKeeps ==
    ASSUME CallInv, NEW c \in Clients, Over(c)
    PROVE  CallInv'
BY NoCall, CallIsSet DEF Over, Managing

\* One client's call moves on.
LEMMA StepKeeps ==
    ASSUME CallInv, NEW c \in Clients, auCall[c].at # "idle", NEW where \in Stages,
           where \in {"login.spend", "granted", "session"} =>
               auCall[c].password \in 1 .. MaxPasswords,
           Step(c, where)
    PROVE  CallInv'
<1> DEFINE r == [auCall[c] EXCEPT !.at = where]
<1>1. auCall[c] \in CallRows
  BY DEF CallInv
<1>2. r \in CallRows
  BY <1>1, CallUpdates DEF Places
<1>3. r.at = where /\ r.as = auCall[c].as /\ r.password = auCall[c].password
  BY <1>1 DEF CallRows
<1>4. auCall' = [auCall EXCEPT ![c] = r]
  BY DEF Step
<1> HIDE DEF r
<1>5. auCall[c].as \in Admins
  BY DEF CallInv
<1>6. r.at \notin Managing
  BY <1>3 DEF Stages, Managing
<1>7. QED
  BY <1>2, <1>3, <1>4, <1>5, <1>6, CallIsSet

\* One client's call moves on with the limiter's answer.
LEMMA AskedKeeps ==
    ASSUME CallInv, NEW c \in Clients, auCall[c].at # "idle",
           NEW where \in {"confirm.write", "disable.write", "denied"}, Asked(c, where)
    PROVE  CallInv'
<1> DEFINE yes == TRUE
           r == [auCall[c] EXCEPT !.at = where, !.asked = yes]
<1>1. auCall[c] \in CallRows /\ where \in Places /\ yes \in BOOLEAN
  BY DEF CallInv, Places, Stages
<1>2. auCall' = [auCall EXCEPT ![c] = r]
  BY DEF Asked
<1> HIDE DEF yes
<1>3. r \in CallRows
  BY <1>1, CallUpdates
<1>4. r.at = where /\ r.as = auCall[c].as
  BY <1>1 DEF CallRows
<1> HIDE DEF r
<1>5. auCall[c].as \in Admins
  BY DEF CallInv
<1>6. r.at \notin Managing
  BY <1>4 DEF Managing
<1>7. QED
  BY <1>2, <1>3, <1>4, <1>5, <1>6, CallIsSet

\* Sessions are revoked, one or an account's, or created.
LEMMA SessionsKeep ==
    ASSUME auSession \in [SessionIds -> SessionRows], NEW s, NEW a \in Admins,
           NEW p \in 1 .. MaxPasswords
    PROVE  /\ Revoke(s) => auSession' \in [SessionIds -> SessionRows]
           /\ auSession' = WithoutSessions(a) => auSession' \in [SessionIds -> SessionRows]
           /\ CreateSession(a, p) => auSession' \in [SessionIds -> SessionRows]
<1>1. \A t \in SessionIds : [auSession[t] EXCEPT !.valid = FALSE] \in SessionRows
  BY SessionUpdates
<1>2. Revoke(s) => auSession' \in [SessionIds -> SessionRows]
  <2>1. CASE s \in SessionIds
    BY <1>1, <2>1, Zenon DEF Revoke
  <2>2. CASE s \notin SessionIds
    BY <2>2 DEF Revoke
  <2>3. QED
    BY <2>1, <2>2
<1>3. auSession' = WithoutSessions(a) => auSession' \in [SessionIds -> SessionRows]
  BY <1>1, Zenon DEF WithoutSessions
<1>4. CreateSession(a, p) => auSession' \in [SessionIds -> SessionRows]
  <2> DEFINE yes == TRUE
  <2>1. ASSUME NEW t \in SessionIds,
               auSession' = [auSession EXCEPT ![t] = [of |-> a, valid |-> yes, password |-> p]]
        PROVE  auSession' \in [SessionIds -> SessionRows]
    <3>1. yes \in BOOLEAN
      OBVIOUS
    <3> HIDE DEF yes
    <3>2. [of |-> a, valid |-> yes, password |-> p] \in SessionRows
      BY <3>1 DEF SessionRows
    <3>3. QED
      BY <2>1, <3>2
  <2>2. QED
    BY <2>1 DEF CreateSession
<1>5. QED
  BY <1>2, <1>3, <1>4

\* Where no code is spent or issued.
LEMMA CodesKeep ==
    ASSUME CodesInv, auAdmin \in [Admins -> Account], auAdmin' \in [Admins -> Account],
           \A a \in Admins : auAdmin'[a].codes \subseteq auAdmin[a].codes,
           auSpent' = auSpent, auMade \in Secrets, auMade' \in Secrets, auMade' >= auMade
    PROVE  CodesInv'
<1>1. \A a \in Admins : \A k \in auAdmin'[a].codes : k <= auMade' /\ auSpent'[k] = 0
  BY DEF CodesInv, Account, Secrets
<1>2. \A k \in Secrets : k > auMade' => auSpent'[k] = 0
  BY DEF CodesInv, Secrets
<1>3. \A a, b \in Admins : a # b => auAdmin'[a].codes \cap auAdmin'[b].codes = {}
  BY DEF CodesInv
<1>4. RecoveryCodeUsedOnce'
  BY DEF CodesInv, RecoveryCodeUsedOnce
<1>5. QED
  BY <1>1, <1>2, <1>3, <1>4 DEF CodesInv

-----------------------------------------------------------------------------
(* The steps, by what they change. *)

\* The invariant, part by part.
LEMMA TypesSplit ==
    ASSUME AuInv
    PROVE  /\ auAdmin \in [Admins -> Account] /\ auSession \in [SessionIds -> SessionRows]
           /\ auMade \in Secrets /\ auCalls \in 0 .. MaxAuthCalls
           /\ auSpent \in [Secrets -> Nat] /\ CallInv /\ CodesInv
BY DEF AuInv, AuTypeOK, SessionRows

\* Steps that spend no code and issue none.
LEMMA QuietStep ==
    ASSUME AuInv, CallInv', auAdmin' \in [Admins -> Account],
           \A a \in Admins : auAdmin'[a].codes \subseteq auAdmin[a].codes,
           auSession' \in [SessionIds -> SessionRows],
           auSpent' = auSpent, auMade' \in Secrets, auMade' >= auMade,
           auCalls' \in 0 .. MaxAuthCalls
    PROVE  AuInv'
<1>1. AuTypeOK'
  BY TypesSplit DEF AuTypeOK, SessionRows
<1>2. CodesInv'
  BY TypesSplit, CodesKeep
<1>3. QED
  BY <1>1, <1>2 DEF AuInv

\* One account is replaced, with no code it did not hold.
LEMMA AccountIsSet ==
    ASSUME AuInv, NEW a \in Admins, NEW r \in Account, r.codes \subseteq auAdmin[a].codes,
           auAdmin' = [auAdmin EXCEPT ![a] = r]
    PROVE  /\ auAdmin' \in [Admins -> Account]
           /\ \A b \in Admins : auAdmin'[b].codes \subseteq auAdmin[b].codes
BY TypesSplit

\* A handler acts for an administrator.
LEMMA MeIsAnAdmin ==
    ASSUME AuInv, NEW c \in Clients, auCall[c].at # "idle"
    PROVE  Me(c) \in Admins
BY TypesSplit DEF CallInv, Me

\* The UPDATE takes the code away from the one account that holds it.
LEMMA ConsumeKeeps ==
    ASSUME AuInv, NEW c \in Clients, auCall[c].at # "idle", NEW won, NEW lost,
           consumeRecoveryCode(c, won, lost), UNCHANGED <<auSession, auMade, auCalls>>
    PROVE  AuTypeOK' /\ CodesInv'
<1> DEFINE k == auCall[c].code
           a == Me(c)
<1>0. a \in Admins
  BY MeIsAnAdmin
<1>1. CASE k \in auAdmin[a].codes
  <2> DEFINE r == [auAdmin[a] EXCEPT !.codes = @ \ {k}]
  <2>1. auAdmin' = [auAdmin EXCEPT ![a] = r] /\ auSpent' = [auSpent EXCEPT ![k] = @ + 1]
    BY <1>1 DEF consumeRecoveryCode
  <2>2. auAdmin[a] \in Account /\ k \in Secrets /\ auAdmin[a].codes \ {k} \in SUBSET Secrets
    BY <1>0, <1>1, TypesSplit DEF Account
  <2>3. r \in Account /\ r.codes = auAdmin[a].codes \ {k}
    BY <2>2 DEF Account
  <2> HIDE DEF r, k, a
  <2>4. auAdmin' \in [Admins -> Account]
    BY <1>0, <2>1, <2>3, TypesSplit
  <2>5. auSpent[k] = 0 /\ auSpent \in [Secrets -> Nat]
    BY <1>0, <1>1, TypesSplit DEF CodesInv
  <2>6. auSpent' \in [Secrets -> Nat] /\ auSpent'[k] = 1
            /\ \A j \in Secrets : j # k => auSpent'[j] = auSpent[j]
    BY <2>1, <2>2, <2>5
  <2>7. \A b \in Admins : auAdmin'[b].codes \subseteq auAdmin[b].codes \ {k}
    <3> SUFFICES ASSUME NEW b \in Admins
                 PROVE  auAdmin'[b].codes \subseteq auAdmin[b].codes \ {k}
      OBVIOUS
    <3>1. CASE b = a
      BY <1>0, <2>1, <2>3, <3>1, TypesSplit
    <3>2. CASE b # a
      BY <1>0, <1>1, <2>1, <3>2, TypesSplit DEF CodesInv
    <3>3. QED
      BY <3>1, <3>2
  <2>8. AuTypeOK'
    BY <2>4, <2>6, TypesSplit DEF AuTypeOK, SessionRows
  <2>9. CodesInv'
    <3>1. \A b \in Admins : \A j \in auAdmin'[b].codes : j <= auMade' /\ auSpent'[j] = 0
      BY <2>4, <2>6, <2>7, TypesSplit DEF CodesInv, Account
    <3>2. \A j \in Secrets : j > auMade' => auSpent'[j] = 0
      <4>1. k <= auMade
        BY <1>0, <1>1, TypesSplit DEF CodesInv
      <4>2. QED
        BY <2>2, <2>6, <4>1, TypesSplit DEF CodesInv, Secrets
    <3>3. \A b, d \in Admins : b # d => auAdmin'[b].codes \cap auAdmin'[d].codes = {}
      BY <2>7, TypesSplit DEF CodesInv
    <3>4. RecoveryCodeUsedOnce'
      BY <2>2, <2>6, TypesSplit DEF CodesInv, RecoveryCodeUsedOnce
    <3>5. QED
      BY <3>1, <3>2, <3>3, <3>4 DEF CodesInv
  <2>10. QED
    BY <2>8, <2>9
<1>2. CASE k \notin auAdmin[a].codes
  <2>1. UNCHANGED <<auAdmin, auSpent>>
    BY <1>2 DEF consumeRecoveryCode
  <2>2. AuTypeOK'
    BY <2>1, TypesSplit DEF AuTypeOK, SessionRows
  <2>3. QED
    BY <2>1, <2>2, TypesSplit, CodesKeep DEF Secrets
<1>3. QED
  BY <1>1, <1>2

\* A confirmation issues a code nobody has seen.
LEMMA ConfirmKeeps ==
    ASSUME AuInv, NEW c \in Clients, handleTOTPConfirm(c)
    PROVE  AuInv'
<1> DEFINE a == Me(c)
           fresh == {auMade + 1}
           none == 0
           r == [auAdmin[a] EXCEPT !.secret = auAdmin[a].pending, !.pending = none,
                                   !.codes = fresh]
<1>0. a \in Admins
  BY MeIsAnAdmin DEF handleTOTPConfirm, At
<1>1. auMade' = auMade + 1 /\ auMade' \in Secrets /\ auSpent' = auSpent
  BY TypesSplit, AuthAssumption DEF handleTOTPConfirm, Secrets
<1>2. auAdmin' = [auAdmin EXCEPT ![a] = r]
  BY <1>0, TypesSplit DEF handleTOTPConfirm, Account
<1>3. r \in Account /\ r.codes = fresh
  <2>1. auAdmin[a] \in Account /\ none \in 0 .. MaxSecrets /\ fresh \in SUBSET Secrets
    BY <1>0, <1>1, TypesSplit, AuthAssumption
  <2> HIDE DEF none, fresh, a
  <2>2. QED
    BY <2>1 DEF Account
<1> HIDE DEF r, none, a
<1>4. auAdmin' \in [Admins -> Account]
  BY <1>0, <1>2, <1>3, TypesSplit
<1>5. AuTypeOK'
  BY <1>1, <1>4, TypesSplit DEF AuTypeOK, SessionRows, handleTOTPConfirm
<1>6. auAdmin'[a].codes = fresh /\ \A b \in Admins : b # a => auAdmin'[b].codes = auAdmin[b].codes
  BY <1>0, <1>2, <1>3, TypesSplit
<1>7. \A b \in Admins : \A j \in auAdmin[b].codes : j \in Int /\ j < auMade + 1 /\ auSpent[j] = 0
  BY TypesSplit DEF CodesInv, Account, Secrets
<1>8. auSpent[auMade + 1] = 0
  BY <1>1, TypesSplit DEF CodesInv, Secrets
<1>9. CodesInv'
  <2>1. \A b \in Admins : \A j \in auAdmin'[b].codes : j <= auMade' /\ auSpent'[j] = 0
    BY <1>1, <1>6, <1>7, <1>8, TypesSplit DEF Secrets
  <2>2. \A j \in Secrets : j > auMade' => auSpent'[j] = 0
    BY <1>1, TypesSplit DEF CodesInv, Secrets
  <2>3. \A b, d \in Admins : b # d => auAdmin'[b].codes \cap auAdmin'[d].codes = {}
    BY <1>0, <1>6, <1>7, TypesSplit DEF CodesInv, Secrets
  <2>4. RecoveryCodeUsedOnce'
    BY <1>1, TypesSplit DEF CodesInv, RecoveryCodeUsedOnce
  <2>5. QED
    BY <2>1, <2>2, <2>3, <2>4 DEF CodesInv
<1>10. CallInv'
  <2>1. "confirm.reset" \in Stages \ {"login.spend", "granted", "session"}
    BY DEF Stages
  <2> QED
    BY <1>0, <2>1, StepKeeps, TypesSplit DEF handleTOTPConfirm, At
<1>11. QED
  BY <1>5, <1>9, <1>10 DEF AuInv

\* Steps of a handler that leave the accounts alone.
LEMMA HandlerStep ==
    ASSUME AuInv, CallInv', UNCHANGED <<auAdmin, auSpent, auCalls>>,
           auSession' \in [SessionIds -> SessionRows], auMade' \in Secrets, auMade' >= auMade
    PROVE  AuInv'
BY TypesSplit, QuietStep

\* Steps of a handler that write one account's row, and take no code along.
LEMMA AccountStep ==
    ASSUME AuInv, CallInv', NEW a \in Admins, NEW r \in Account,
           r.codes \subseteq auAdmin[a].codes, auAdmin' = [auAdmin EXCEPT ![a] = r],
           auSession' \in [SessionIds -> SessionRows], UNCHANGED <<auMade, auSpent, auCalls>>
    PROVE  AuInv'
<1>1. auAdmin' \in [Admins -> Account]
         /\ \A b \in Admins : auAdmin'[b].codes \subseteq auAdmin[b].codes
  BY AccountIsSet
<1>2. auMade' \in Secrets /\ auMade' >= auMade
  BY TypesSplit DEF Secrets
<1>3. QED
  BY <1>1, <1>2, TypesSplit, QuietStep

\* The limiter, the passing of time, and calls given up.
LEMMA LimiterSteps ==
    ASSUME AuInv
    PROVE  /\ FailureAges => AuInv'
           /\ \A s \in SessionIds : SessionExpires(s) => AuInv'
           /\ \A c \in Clients : deny(c) => AuInv'
           /\ \A c \in Clients : GiveUp(c) => AuInv'
<1>0. auMade \in Secrets /\ auMade >= auMade /\ auCall' = auCall => CallInv'
  BY TypesSplit DEF CallInv, Secrets
<1>0a. auMade >= auMade
  BY TypesSplit DEF Secrets
<1>1. FailureAges => AuInv'
  BY <1>0, <1>0a, TypesSplit, HandlerStep DEF FailureAges
<1>2. ASSUME NEW s \in SessionIds, SessionExpires(s) PROVE AuInv'
  <2>1. auSession' \in [SessionIds -> SessionRows]
    <3>1. auSession[s].of \in Admins
      BY <1>2, TypesSplit, ValidIsOfAnAdmin DEF SessionExpires
    <3>2. 1 \in 1 .. MaxPasswords
      BY AuthAssumption
    <3>3. QED
      BY <1>2, <3>1, <3>2, TypesSplit, SessionsKeep DEF SessionExpires
  <2>2. QED
    BY <1>0, <1>0a, <1>2, <2>1, TypesSplit, HandlerStep DEF SessionExpires
<1>3. ASSUME NEW c \in Clients, deny(c) PROVE AuInv'
  BY <1>0a, <1>3, TypesSplit, OverKeeps, HandlerStep DEF deny
<1>4. ASSUME NEW c \in Clients, GiveUp(c) PROVE AuInv'
  BY <1>0a, <1>4, TypesSplit, OverKeeps, HandlerStep DEF GiveUp
<1>5. QED
  BY <1>1, <1>2, <1>3, <1>4

\* A login or a request arrives.
LEMMA Arrivals ==
    ASSUME AuInv, NEW c \in Clients
    PROVE  /\ \A a \in Admins : handleLogin(c, a) => AuInv'
           /\ \A s \in SessionIds, handler \in Own : authMiddleware(c, s, handler, "-") => AuInv'
           /\ \A s \in SessionIds, handler \in Managing, to \in Admins :
                  authMiddleware(c, s, handler, to) => AuInv'
<1>0. auMade \in Secrets /\ auMade >= auMade
  BY TypesSplit DEF Secrets
<1>1. ASSUME NEW call \in CallRows, call.as \in Admins,
             call.at \notin {"login.spend", "granted", "session"},
             call.at \in Managing => call.to \in Admins, Begin(c, call),
             UNCHANGED <<auAdmin, auSession, auMade, auSpent>>
      PROVE  AuInv'
  <2>1. CallInv'
    BY <1>1, TypesSplit, CallIsSet DEF Begin
  <2>2. auCalls' \in 0 .. MaxAuthCalls
    BY <1>1, TypesSplit, AuthAssumption DEF Begin
  <2>3. QED
    BY <1>0, <1>1, <2>1, <2>2, TypesSplit, QuietStep
<1>2. ASSUME NEW a \in Admins, handleLogin(c, a) PROVE AuInv'
  <2> DEFINE yes == TRUE
             call == [NoAuthCall EXCEPT !.at = "login", !.as = a, !.asked = yes]
  <2>1. Begin(c, call) /\ UNCHANGED <<auAdmin, auSession, auMade, auSpent>>
    BY <1>2 DEF handleLogin
  <2>2. "login" \in Places /\ "login" \notin Managing /\ yes \in BOOLEAN
    BY DEF Places, Stages, Managing
  <2> HIDE DEF yes
  <2>3. call \in CallRows
    BY <2>2, NewCalls
  <2>4. call.at = "login" /\ call.as = a
    BY NoCall DEF CallRows
  <2> HIDE DEF call
  <2>5. QED
    BY <1>1, <2>1, <2>2, <2>3, <2>4
<1>3. ASSUME NEW s \in SessionIds, NEW handler \in Own \cup Managing,
             NEW to \in Admins \cup {"-"}, handler \in Managing => to \in Admins,
             authMiddleware(c, s, handler, to)
      PROVE  AuInv'
  <2> DEFINE who == auSession[s].of
             b == auAdmin[who].super
             call == [NoAuthCall EXCEPT !.at = handler, !.as = who, !.to = to, !.session = s,
                                        !.super = b]
  <2>1. Begin(c, call) /\ UNCHANGED <<auAdmin, auSession, auMade, auSpent>>
    BY <1>3 DEF authMiddleware
  <2>2. who \in Admins
    BY <1>3, TypesSplit, ValidIsOfAnAdmin DEF authMiddleware
  <2>3. b \in BOOLEAN
    BY <2>2, TypesSplit DEF Account
  <2>4. s \in 0 .. MaxSessions /\ handler \in Places
    BY AuthAssumption DEF SessionIds, Places
  <2> HIDE DEF who, b
  <2>5. call \in CallRows
    BY <2>2, <2>3, <2>4, NewCalls
  <2>6. call.at = handler /\ call.as = who /\ call.to = to
    BY NoCall DEF CallRows
  <2>7. handler \notin {"login.spend", "granted", "session"}
    BY DEF Own, Managing
  <2> HIDE DEF call
  <2>8. QED
    BY <1>1, <1>3, <2>1, <2>2, <2>5, <2>6, <2>7
<1>4. \A handler \in Own : handler \notin Managing
  BY DEF Own, Managing
<1>5. QED
  BY <1>2, <1>3, <1>4

\* The limiter's reset after a confirmation leaves the accounts alone.
LEMMA ConfirmResetKeeps ==
    ASSUME AuInv, NEW c \in Clients, ConfirmReset(c)
    PROVE  AuInv'
<1>1. auMade \in Secrets /\ auMade >= auMade
  BY TypesSplit DEF Secrets
<1>2. CallInv'
  BY OverKeeps, TypesSplit DEF ConfirmReset
<1> QED
  BY <1>1, <1>2, TypesSplit, HandlerStep DEF ConfirmReset

\* The steps of a login.
LEMMA LoginSteps ==
    ASSUME AuInv, NEW c \in Clients
    PROVE  /\ LoginVerify(c) => AuInv'
           /\ LoginSpend(c) => AuInv'
           /\ LoginReset(c) => AuInv'
           /\ LoginSession(c) => AuInv'
<1>0. auMade \in Secrets /\ auMade >= auMade /\ auCall[c] \in CallRows
  BY TypesSplit DEF CallInv, Secrets
<1>1. ASSUME LoginVerify(c) PROVE AuInv'
  <2> DEFINE a == Me(c)
             p == auAdmin[a].password
  <2>1. a \in Admins
    BY <1>1, MeIsAnAdmin DEF LoginVerify, At
  <2>2. auAdmin[a] \in Account /\ p \in 1 .. MaxPasswords
    BY <2>1, TypesSplit DEF Account
  <2>3. ASSUME NEW where \in {"denied", "granted", "login.spend"}, NEW k \in 0 .. MaxSecrets,
               auCall' = [auCall EXCEPT ![c].at = where, ![c].code = k, ![c].password = p]
        PROVE  CallInv'
    <3> DEFINE r == [auCall[c] EXCEPT !.at = where, !.code = k, !.password = p]
    <3> HIDE DEF p
    <3>1. where \in Places /\ where \notin Managing /\ p \in 0 .. MaxPasswords
      BY <2>2, AuthAssumption DEF Places, Stages, Managing
    <3>2. r \in CallRows
      BY <1>0, <3>1, CallUpdates
    <3>3. r.at = where /\ r.as = a /\ r.password = p
      BY <1>0 DEF CallRows, Me
    <3>4. auCall' = [auCall EXCEPT ![c] = r]
      BY <2>3, TypesSplit DEF CallInv
    <3> HIDE DEF r
    <3>5. QED
      BY <2>1, <2>2, <3>1, <3>2, <3>3, <3>4, TypesSplit, CallIsSet
  <2>4. \A k \in auAdmin[a].codes : k \in 0 .. MaxSecrets
    BY <2>2, AuthAssumption DEF Account, Secrets
  <2>5. 0 \in 0 .. MaxSecrets
    BY AuthAssumption
  <2>6. CallInv'
    BY <1>1, <2>3, <2>4, <2>5 DEF LoginVerify
  <2>7. QED
    BY <1>0, <1>1, <2>6, TypesSplit, HandlerStep DEF LoginVerify
<1>2. ASSUME LoginSpend(c) PROVE AuInv'
  <2>1. AuTypeOK' /\ CodesInv'
    BY <1>2, ConsumeKeeps DEF LoginSpend, At
  <2>2. auCall[c].password \in 1 .. MaxPasswords
    BY <1>2, TypesSplit DEF LoginSpend, At, CallInv
  <2>3. Step(c, "granted") \/ Step(c, "denied")
    BY <1>2 DEF LoginSpend, consumeRecoveryCode
  <2>4. "granted" \in Stages /\ "denied" \in Stages
    BY DEF Stages
  <2>5. CallInv'
    BY <1>2, <2>2, <2>3, <2>4, TypesSplit, StepKeeps DEF LoginSpend, At
  <2>6. QED
    BY <2>1, <2>5 DEF AuInv
<1>3. ASSUME LoginReset(c) PROVE AuInv'
  <2>1. auCall[c].password \in 1 .. MaxPasswords /\ "session" \in Stages
    BY <1>3, TypesSplit DEF LoginReset, At, CallInv, Stages
  <2>2. CallInv'
    BY <1>3, <2>1, TypesSplit, StepKeeps DEF LoginReset, At
  <2>3. QED
    BY <1>0, <1>3, <2>2, TypesSplit, HandlerStep DEF LoginReset
<1>4. ASSUME LoginSession(c) PROVE AuInv'
  <2>1. Me(c) \in Admins /\ auCall[c].password \in 1 .. MaxPasswords
    BY <1>4, MeIsAnAdmin, TypesSplit DEF LoginSession, At, CallInv
  <2>2. auSession' \in [SessionIds -> SessionRows]
    BY <1>4, <2>1, TypesSplit, SessionsKeep DEF LoginSession
  <2>3. CallInv'
    BY <1>4, TypesSplit, OverKeeps DEF LoginSession
  <2>4. QED
    BY <1>0, <1>4, <2>2, <2>3, TypesSplit, HandlerStep DEF LoginSession
<1>5. QED
  BY <1>1, <1>2, <1>3, <1>4

\* The steps of the second factor's handlers.
LEMMA FactorSteps ==
    ASSUME AuInv, NEW c \in Clients
    PROVE  /\ EnrolRead(c) => AuInv'
           /\ handleTOTPEnrol(c) => AuInv'
           /\ ConfirmRead(c) => AuInv'
           /\ DisableRead(c) => AuInv'
           /\ DisableSpend(c) => AuInv'
           /\ handleTOTPDisable(c) => AuInv'
<1>0. auMade \in Secrets /\ auMade >= auMade /\ auCall[c] \in CallRows
  BY TypesSplit DEF CallInv, Secrets
<1> DEFINE zero == 0
           none == {}
<1>0a. zero \in 0 .. MaxSecrets /\ none \in SUBSET Secrets /\ \A ks : none \subseteq ks
  BY AuthAssumption
<1>1. ASSUME EnrolRead(c) PROVE AuInv'
  <2>1. CallInv'
    <3>1. "enrol.write" \in Stages
      BY DEF Stages
    <3>2. QED
      BY <1>1, <3>1, TypesSplit, StepKeeps DEF EnrolRead, At
  <2>2. auMade' \in Secrets /\ auMade' >= auMade
    BY <1>0, <1>1, AuthAssumption DEF EnrolRead, Secrets
  <2>3. QED
    BY <1>1, <2>1, <2>2, TypesSplit, HandlerStep DEF EnrolRead
<1>2. ASSUME handleTOTPEnrol(c) PROVE AuInv'
  <2> DEFINE r == [auAdmin[Me(c)] EXCEPT !.pending = auMade]
  <2>1. Me(c) \in Admins
    BY <1>2, MeIsAnAdmin DEF handleTOTPEnrol, At
  <2>2. auAdmin[Me(c)] \in Account /\ auMade \in 0 .. MaxSecrets
    BY <1>0, <2>1, TypesSplit DEF Secrets
  <2>3. r \in Account /\ r.codes = auAdmin[Me(c)].codes
    BY <2>2 DEF Account
  <2>4. auAdmin' = [auAdmin EXCEPT ![Me(c)] = r]
    BY <1>2 DEF handleTOTPEnrol
  <2>5. CallInv'
    BY <1>2, TypesSplit, OverKeeps DEF handleTOTPEnrol
  <2> HIDE DEF r
  <2>6. QED
    BY <1>2, <2>1, <2>3, <2>4, <2>5, TypesSplit, AccountStep DEF handleTOTPEnrol
<1>3. ASSUME ConfirmRead(c) PROVE AuInv'
  <2>1. CallInv'
    BY <1>3, TypesSplit, AskedKeeps DEF ConfirmRead, At
  <2>2. QED
    BY <1>0, <1>3, <2>1, TypesSplit, HandlerStep DEF ConfirmRead
<1>4. ASSUME DisableRead(c) PROVE AuInv'
  <2>1. Me(c) \in Admins
    BY <1>4, MeIsAnAdmin DEF DisableRead, At
  <2>2. ASSUME NEW k \in auAdmin[Me(c)].codes,
               auCall' = [auCall EXCEPT ![c].at = "disable.spend", ![c].code = k,
                                        ![c].asked = TRUE]
        PROVE  CallInv'
    <3> DEFINE yes == TRUE
               r == [auCall[c] EXCEPT !.at = "disable.spend", !.code = k, !.asked = yes]
    <3>1. k \in 0 .. MaxSecrets /\ "disable.spend" \in Places /\ yes \in BOOLEAN
            /\ "disable.spend" \notin Managing
      BY <2>1, TypesSplit, AuthAssumption DEF Account, Secrets, Places, Stages, Managing
    <3>2. auCall' = [auCall EXCEPT ![c] = r]
      BY <2>2
    <3> HIDE DEF yes
    <3>3. r \in CallRows
      BY <1>0, <3>1, CallUpdates
    <3>4. r.at = "disable.spend" /\ r.as = Me(c)
      BY <1>0 DEF CallRows, Me
    <3> HIDE DEF r
    <3>5. QED
      BY <2>1, <3>1, <3>2, <3>3, <3>4, TypesSplit, CallIsSet
  <2>3. CallInv'
    BY <1>4, <2>2, TypesSplit, AskedKeeps DEF DisableRead, At
  <2>4. QED
    BY <1>0, <1>4, <2>3, TypesSplit, HandlerStep DEF DisableRead
<1>5. ASSUME DisableSpend(c) PROVE AuInv'
  <2>1. AuTypeOK' /\ CodesInv'
    BY <1>5, ConsumeKeeps DEF DisableSpend, At
  <2>2. Step(c, "disable.write") \/ Step(c, "denied")
    BY <1>5 DEF DisableSpend, consumeRecoveryCode
  <2>3. "disable.write" \in Stages /\ "denied" \in Stages
    BY DEF Stages
  <2>4. CallInv'
    BY <1>5, <2>2, <2>3, TypesSplit, StepKeeps DEF DisableSpend, At
  <2>5. QED
    BY <2>1, <2>4 DEF AuInv
<1>6. ASSUME handleTOTPDisable(c) PROVE AuInv'
  <2> DEFINE r == [auAdmin[Me(c)] EXCEPT !.secret = zero, !.pending = zero, !.codes = none]
  <2>1. Me(c) \in Admins
    BY <1>6, MeIsAnAdmin DEF handleTOTPDisable, At
  <2>2. auAdmin' = [auAdmin EXCEPT ![Me(c)] = r]
    BY <1>6 DEF handleTOTPDisable
  <2>3. auAdmin[Me(c)] \in Account
    BY <2>1, TypesSplit
  <2>4. CallInv'
    BY <1>6, TypesSplit, OverKeeps DEF handleTOTPDisable
  <2> HIDE DEF zero, none
  <2>5. r \in Account /\ r.codes = none
    BY <1>0a, <2>3 DEF Account
  <2>6. r.codes \subseteq auAdmin[Me(c)].codes
    BY <1>0a, <2>5
  <2> HIDE DEF r
  <2>7. QED
    BY <1>6, <2>1, <2>2, <2>4, <2>5, <2>6, TypesSplit, AccountStep DEF handleTOTPDisable
<1>7. QED
  BY <1>1, <1>2, <1>3, <1>4, <1>5, <1>6

\* The steps of the handlers that write accounts.
LEMMA AccountSteps ==
    ASSUME AuInv, NEW c \in Clients
    PROVE  /\ handleUpdateAdmin(c) => AuInv'
           /\ handleResetAdminPassword(c) => AuInv'
           /\ handleDeleteAdmin(c) => AuInv'
           /\ handleCreateAdmin(c) => AuInv'
           /\ ChangeRead(c) => AuInv'
           /\ handleChangeMyPassword(c) => AuInv'
<1>0. auMade \in Secrets /\ auMade >= auMade
  BY TypesSplit DEF Secrets
<1> DEFINE a == auCall[c].to
           me == Me(c)
           yes == TRUE
           no == FALSE
<1>0a. yes \in BOOLEAN /\ no \in BOOLEAN
  OBVIOUS
<1>0b. ASSUME auCall[c].at \in Managing PROVE a \in Admins
  BY <1>0b, TypesSplit DEF CallInv
<1>0c. 1 \in 1 .. MaxPasswords
  BY AuthAssumption
<1>1. ASSUME handleUpdateAdmin(c) PROVE AuInv'
  <2>1. a \in Admins /\ auAdmin[a] \in Account
    BY <1>0b, <1>1, TypesSplit DEF handleUpdateAdmin, Manages, At, Managing
  <2>2. CallInv' /\ UNCHANGED <<auMade, auSpent, auCalls>>
    BY <1>1, TypesSplit, OverKeeps DEF handleUpdateAdmin, Manages
  <2>3. auSession' \in [SessionIds -> SessionRows]
    BY <1>0c, <1>1, <2>1, TypesSplit, SessionsKeep DEF handleUpdateAdmin
  <2>4. \/ auAdmin' = [auAdmin EXCEPT ![a] = [auAdmin[a] EXCEPT !.super = ~auAdmin[a].super]]
        \/ auAdmin' = [auAdmin EXCEPT ![a] = [auAdmin[a] EXCEPT !.active = no]]
        \/ auAdmin' = [auAdmin EXCEPT ![a] = [auAdmin[a] EXCEPT !.active = yes]]
    BY <1>1, Zenon DEF handleUpdateAdmin
  <2>5. ASSUME NEW b \in BOOLEAN,
               \/ auAdmin' = [auAdmin EXCEPT ![a] = [auAdmin[a] EXCEPT !.super = b]]
               \/ auAdmin' = [auAdmin EXCEPT ![a] = [auAdmin[a] EXCEPT !.active = b]]
        PROVE  AuInv'
    <3>1. CASE auAdmin' = [auAdmin EXCEPT ![a] = [auAdmin[a] EXCEPT !.super = b]]
      <4> DEFINE r == [auAdmin[a] EXCEPT !.super = b]
      <4> HIDE DEF a
      <4>1. r \in Account /\ r.codes = auAdmin[a].codes
        BY <2>1 DEF Account
      <4> HIDE DEF r
      <4>2. QED
        BY <2>1, <2>2, <2>3, <3>1, <4>1, AccountStep DEF r
    <3>2. CASE auAdmin' = [auAdmin EXCEPT ![a] = [auAdmin[a] EXCEPT !.active = b]]
      <4> DEFINE r == [auAdmin[a] EXCEPT !.active = b]
      <4> HIDE DEF a
      <4>1. r \in Account /\ r.codes = auAdmin[a].codes
        BY <2>1 DEF Account
      <4> HIDE DEF r
      <4>2. QED
        BY <2>1, <2>2, <2>3, <3>2, <4>1, AccountStep DEF r
    <3>3. QED
      BY <2>5, <3>1, <3>2
  <2>6. (~auAdmin[a].super) \in BOOLEAN
    OBVIOUS
  <2> HIDE DEF yes, no, a
  <2>7. QED
    BY <1>0a, <2>4, <2>5, <2>6, Zenon
<1>2. ASSUME NEW who \in Admins, NEW p \in 1 .. MaxPasswords, CallInv',
             auAdmin' = [auAdmin EXCEPT ![who] = [auAdmin[who] EXCEPT !.password = p]],
             auSession' = WithoutSessions(who), UNCHANGED <<auMade, auSpent, auCalls>>
      PROVE  AuInv'
  <2> DEFINE r == [auAdmin[who] EXCEPT !.password = p]
  <2>1. auSession' \in [SessionIds -> SessionRows]
    BY <1>2, TypesSplit, SessionsKeep
  <2>2. auAdmin[who] \in Account
    BY TypesSplit
  <2>3. r \in Account /\ r.codes = auAdmin[who].codes
    BY <2>2 DEF Account
  <2>4. auAdmin' = [auAdmin EXCEPT ![who] = r]
    BY <1>2
  <2> HIDE DEF r
  <2>5. QED
    BY <1>2, <2>1, <2>3, <2>4, AccountStep
<1>3. ASSUME handleResetAdminPassword(c) PROVE AuInv'
  <2>1. a \in Admins
    BY <1>0b, <1>3 DEF handleResetAdminPassword, Manages, At, Managing
  <2>2. auAdmin[a].password + 1 \in 1 .. MaxPasswords
    BY <1>3, <2>1, TypesSplit, AuthAssumption DEF handleResetAdminPassword, Account
  <2>3. CallInv' /\ UNCHANGED <<auMade, auSpent, auCalls>>
    BY <1>3, TypesSplit, OverKeeps DEF handleResetAdminPassword, Manages
  <2>4. /\ auAdmin' = [auAdmin EXCEPT ![a] =
                         [auAdmin[a] EXCEPT !.password = auAdmin[a].password + 1]]
        /\ auSession' = WithoutSessions(a)
    BY <1>3 DEF handleResetAdminPassword
  <2> HIDE DEF a
  <2>5. QED
    BY <1>2, <2>1, <2>2, <2>3, <2>4
<1>4. ASSUME handleDeleteAdmin(c) PROVE AuInv'
  <2>1. a \in Admins
    BY <1>0b, <1>4 DEF handleDeleteAdmin, Manages, At, Managing
  <2>2. CallInv' /\ UNCHANGED <<auMade, auSpent, auCalls>>
    BY <1>4, TypesSplit, OverKeeps DEF handleDeleteAdmin, Manages
  <2>3. auSession' \in [SessionIds -> SessionRows]
    BY <1>0c, <1>4, <2>1, TypesSplit, SessionsKeep DEF handleDeleteAdmin
  <2> DEFINE r == [NewAccount EXCEPT !.live = no]
  <2>4. auAdmin' = [auAdmin EXCEPT ![a] = r]
    BY <1>4 DEF handleDeleteAdmin
  <2> HIDE DEF no, a
  <2>5. r \in Account /\ r.codes = {}
    BY <1>0a, NewAccountType DEF Account
  <2> HIDE DEF r
  <2>6. QED
    BY <2>1, <2>2, <2>3, <2>4, <2>5, AccountStep
<1>5. ASSUME handleCreateAdmin(c) PROVE AuInv'
  <2>1. a \in Admins
    BY <1>0b, <1>5 DEF handleCreateAdmin, Manages, At, Managing
  <2>2. CallInv' /\ UNCHANGED <<auMade, auSpent, auCalls>>
    BY <1>5, TypesSplit, OverKeeps DEF handleCreateAdmin, Manages
  <2>3. auSession' \in [SessionIds -> SessionRows]
    BY <1>5, TypesSplit DEF handleCreateAdmin
  <2>4. PICK super \in BOOLEAN :
            auAdmin' = [auAdmin EXCEPT ![a] = [NewAccount EXCEPT !.super = super]]
    BY <1>5 DEF handleCreateAdmin
  <2> DEFINE r == [NewAccount EXCEPT !.super = super]
  <2>5. r \in Account /\ r.codes = {}
    BY NewAccountType DEF Account
  <2>6. auAdmin' = [auAdmin EXCEPT ![a] = r]
    BY <2>4
  <2> HIDE DEF r, a
  <2>7. QED
    BY <2>1, <2>2, <2>3, <2>5, <2>6, AccountStep
<1>6. ASSUME ChangeRead(c) PROVE AuInv'
  <2>1. "change.write" \in Stages /\ "denied" \in Stages
    BY DEF Stages
  <2>2. CallInv'
    BY <1>6, <2>1, TypesSplit, StepKeeps DEF ChangeRead, At
  <2>3. QED
    BY <1>0, <1>6, <2>2, TypesSplit, HandlerStep DEF ChangeRead
<1>7. ASSUME handleChangeMyPassword(c) PROVE AuInv'
  <2>1. me \in Admins
    BY <1>7, MeIsAnAdmin DEF handleChangeMyPassword, At
  <2>2. auAdmin[me].password + 1 \in 1 .. MaxPasswords
    BY <1>7, <2>1, TypesSplit, AuthAssumption DEF handleChangeMyPassword, Account
  <2>3. CallInv' /\ UNCHANGED <<auMade, auSpent, auCalls>>
    BY <1>7, TypesSplit, OverKeeps DEF handleChangeMyPassword
  <2>4. /\ auAdmin' = [auAdmin EXCEPT ![me] =
                         [auAdmin[me] EXCEPT !.password = auAdmin[me].password + 1]]
        /\ auSession' = WithoutSessions(me)
    BY <1>7 DEF handleChangeMyPassword
  <2> HIDE DEF me
  <2>5. QED
    BY <1>2, <2>1, <2>2, <2>3, <2>4
<1>8. QED
  BY <1>1, <1>3, <1>4, <1>5, <1>6, <1>7

\* The steps of the handlers that revoke sessions.
LEMMA RevocationSteps ==
    ASSUME AuInv, NEW c \in Clients
    PROVE  /\ handleRevokeSession(c) => AuInv'
           /\ handleLogout(c) => AuInv'
<1>0. auMade \in Secrets /\ auMade >= auMade /\ 1 \in 1 .. MaxPasswords
  BY TypesSplit, AuthAssumption DEF Secrets
<1>1. ASSUME handleRevokeSession(c) PROVE AuInv'
  <2>1. Me(c) \in Admins
    BY <1>1, MeIsAnAdmin DEF handleRevokeSession, At
  <2>2. auSession' \in [SessionIds -> SessionRows]
    BY <1>0, <1>1, <2>1, TypesSplit, SessionsKeep DEF handleRevokeSession
  <2>3. QED
    BY <1>0, <1>1, <2>2, TypesSplit, OverKeeps, HandlerStep DEF handleRevokeSession
<1>2. ASSUME handleLogout(c) PROVE AuInv'
  <2>1. Me(c) \in Admins
    BY <1>2, MeIsAnAdmin DEF handleLogout, At
  <2>2. auSession' \in [SessionIds -> SessionRows]
    BY <1>0, <1>2, <2>1, TypesSplit, SessionsKeep DEF handleLogout
  <2>3. QED
    BY <1>0, <1>2, <2>2, TypesSplit, OverKeeps, HandlerStep DEF handleLogout
<1>3. QED
  BY <1>1, <1>2

-----------------------------------------------------------------------------
(* Initially at most one account holds a code. *)

\* A set of one element at most.
LEMMA AtMostOne ==
    ASSUME NEW S, IsFiniteSet(S), Cardinality(S) <= 1, NEW a \in S, NEW b \in S
    PROVE  a = b
<1>1. IsFiniteSet({a}) /\ Cardinality({a}) = 1
  BY FS_Singleton
<1>2. Cardinality(S) \in Nat /\ {a} \in SUBSET S
  BY FS_CardinalityType
<1>3. Cardinality({a}) <= Cardinality(S)
  BY <1>2, FS_Subset
<1>4. Cardinality(S) = Cardinality({a})
  BY <1>1, <1>2, <1>3
<1>5. S = {a}
  BY <1>2, <1>4, FS_Subset
<1>6. QED
  BY <1>5

\* Nobody has signed in yet.
LEMMA InitInv == AuInit => AuInv
<1> SUFFICES ASSUME AuInit PROVE AuInv
  OBVIOUS
<1> DEFINE one == 1
           first == {one}
           holder == [NewAccount EXCEPT !.secret = one, !.codes = first]
<1>1. PICK factor \in SUBSET Admins :
        /\ Cardinality(factor) <= 1
        /\ auAdmin = [a \in Admins |-> IF a \in factor THEN holder ELSE NewAccount]
  BY DEF AuInit
<1>2. one \in 0 .. MaxSecrets /\ one \in Secrets /\ first \in SUBSET Secrets
        /\ one \in 1 .. MaxPasswords
  BY AuthAssumption DEF Secrets
<1>3. holder \in Account /\ holder.codes = first
  <2> HIDE DEF one, first
  <2>1. QED
    BY <1>2, NewAccountType DEF Account
<1>4. auAdmin \in [Admins -> Account]
  <2> HIDE DEF holder
  <2>1. QED
    BY <1>1, <1>3, NewAccountType
<1>5. auMade = 1 /\ auMade \in Secrets /\ auCalls \in 0 .. MaxAuthCalls
        /\ auSpent = [k \in Secrets |-> 0]
  BY <1>2, AuthAssumption DEF AuInit
<1>6. auSession \in [SessionIds -> SessionRows]
  <2>1. PICK who \in [1 .. Cardinality(Admins) -> Admins] :
          auSession = [s \in SessionIds |->
                         IF s \in DOMAIN who THEN [of |-> who[s], valid |-> TRUE, password |-> one]
                         ELSE NoSession]
    BY DEF AuInit
  <2>2. ASSUME NEW s \in DOMAIN who
        PROVE  [of |-> who[s], valid |-> TRUE, password |-> one] \in SessionRows
    <3> DEFINE yes == TRUE
    <3>1. yes \in BOOLEAN /\ who[s] \in Admins
      OBVIOUS
    <3> HIDE DEF yes, one
    <3>2. [of |-> who[s], valid |-> yes, password |-> one] \in SessionRows
      BY <1>2, <3>1 DEF SessionRows
    <3>3. QED
      BY <3>2 DEF yes
  <2>3. NoSession \in SessionRows
    BY DEF SessionRows
  <2> HIDE DEF one
  <2>4. QED
    BY <2>1, <2>2, <2>3, Zenon
<1>7. AuTypeOK
  BY <1>4, <1>5, <1>6 DEF AuTypeOK, SessionRows
<1>8. CallInv
  <2>1. auCall = [c \in Clients |-> NoAuthCall]
    BY DEF AuInit
  <2>2. QED
    BY <2>1, NoCall DEF CallInv, Managing
<1>9. CodesInv
  <2> HIDE DEF holder
  <2>1. \A a \in Admins : \A k \in auAdmin[a].codes : k = 1 /\ a \in factor
    BY <1>1, <1>3, NewAccountType
  <2>2. IsFiniteSet(factor)
    BY AuthAssumption, FS_Subset
  <2>3. \A a, b \in Admins : a # b => auAdmin[a].codes \cap auAdmin[b].codes = {}
    BY <1>1, <2>1, <2>2, AtMostOne
  <2>4. \A a \in Admins : \A k \in auAdmin[a].codes : k <= auMade /\ auSpent[k] = 0
    BY <1>2, <1>5, <2>1
  <2>5. RecoveryCodeUsedOnce /\ \A k \in Secrets : k > auMade => auSpent[k] = 0
    BY <1>5 DEF RecoveryCodeUsedOnce
  <2>6. QED
    BY <2>3, <2>4, <2>5 DEF CodesInv
<1>10. QED
  BY <1>7, <1>8, <1>9 DEF AuInv

\* Every step of the sign-in keeps its invariant.
LEMMA StepInv == AuInv /\ [AuNext]_auVars => AuInv'
<1> SUFFICES ASSUME AuInv, [AuNext]_auVars PROVE AuInv'
  OBVIOUS
<1>1. CASE UNCHANGED auVars
  BY <1>1, TypesSplit, HandlerStep DEF auVars, CallInv, Secrets
<1>2. ASSUME NEW c \in Clients,
             \/ LoginVerify(c) \/ deny(c) \/ LoginSpend(c) \/ LoginReset(c) \/ LoginSession(c)
             \/ EnrolRead(c) \/ handleTOTPEnrol(c) \/ ConfirmRead(c) \/ handleTOTPConfirm(c)
             \/ ConfirmReset(c)
             \/ DisableRead(c) \/ DisableSpend(c) \/ handleTOTPDisable(c)
             \/ handleUpdateAdmin(c) \/ handleResetAdminPassword(c) \/ handleDeleteAdmin(c)
             \/ handleCreateAdmin(c) \/ ChangeRead(c) \/ handleChangeMyPassword(c)
             \/ handleRevokeSession(c) \/ handleLogout(c) \/ GiveUp(c)
      PROVE  AuInv'
  BY <1>2, LimiterSteps, LoginSteps, FactorSteps, ConfirmKeeps, ConfirmResetKeeps,
     AccountSteps, RevocationSteps
<1>3. QED
  BY <1>1, <1>2, LimiterSteps, Arrivals DEF AuNext

-----------------------------------------------------------------------------
(* What follows for accounts and sessions. *)

\* The invariant holds throughout.
LEMMA Invariance == AuSpec => []AuInv
BY InitInv, StepInv, PTL DEF AuSpec

\* The rows of accounts, sessions and spent codes keep their types: in particular
\* no session is ever opened for anything but an account (session.go).
THEOREM AuTypeCorrect == AuSpec => []AuTypeOK
<1>1. AuInv => AuTypeOK
  BY DEF AuInv
<1>2. QED
  BY <1>1, Invariance, PTL

\* A recovery code opens the door at most once, however many logins and requests to
\* drop the factor have read it before one of them spends it (totp.go:359-361, 417-433).
THEOREM RecoveryCodesAreSpentOnce == AuSpec => []RecoveryCodeUsedOnce
<1>1. AuInv => RecoveryCodeUsedOnce
  BY DEF AuInv, CodesInv
<1>2. QED
  BY <1>1, Invariance, PTL

-----------------------------------------------------------------------------
(* The login limiter. *)

FailRows == [of : Admins, kind : {"account", "address"}, asked : BOOLEAN]

\* The rows of login_attempts that are guesses at an account made after asking the
\* limiter, and the handlers that have asked it and not yet guessed.
Guesses(rows, a) ==
    {i \in 1 .. Len(rows) : rows[i].of = a /\ rows[i].kind = "account" /\ rows[i].asked}
InFlight(a) == {c \in Clients : auCall[c].asked /\ auCall[c].as = a}

LimiterInv ==
    /\ auFailed \in Seq(FailRows)
    /\ \A a \in Admins : Cardinality(Guesses(auFailed, a)) + Cardinality(InFlight(a))
                            < AccountFailureLimit + Cardinality(Clients)

\* There are finitely many guesses on record.
LEMMA GuessesFinite ==
    ASSUME NEW rows \in Seq(FailRows), NEW a
    PROVE  IsFiniteSet(Guesses(rows, a)) /\ Cardinality(Guesses(rows, a)) \in Nat
<1>1. \A n \in Nat : IsFiniteSet(1 .. n)
  BY FS_Interval
<1>2. IsFiniteSet(1 .. Len(rows)) /\ Guesses(rows, a) \in SUBSET (1 .. Len(rows))
  BY <1>1 DEF Guesses
<1> QED
  BY <1>2, FS_Subset, FS_CardinalityType

\* There are at most as many guesses in flight as clients.
LEMMA InFlightFinite ==
    ASSUME NEW a
    PROVE  /\ IsFiniteSet(InFlight(a)) /\ Cardinality(InFlight(a)) \in Nat
           /\ IsFiniteSet(InFlight(a)') /\ Cardinality(InFlight(a)') \in Nat
           /\ Cardinality(InFlight(a)) <= Cardinality(Clients)
           /\ Cardinality(InFlight(a)') <= Cardinality(Clients)
           /\ Cardinality(Clients) \in Nat
<1>1. InFlight(a) \in SUBSET Clients /\ InFlight(a)' \in SUBSET Clients
  BY DEF InFlight
<1> QED
  BY <1>1, AuthAssumption, FS_Subset, FS_CardinalityType

\* Rows that are rows of the table, each taken once, hold no more guesses.
LEMMA FewerGuesses ==
    ASSUME NEW rows \in Seq(FailRows), NEW rest \in Seq(FailRows), NEW a,
           NEW at \in [1 .. Len(rest) -> 1 .. Len(rows)],
           \A j, k \in 1 .. Len(rest) : at[j] = at[k] => j = k,
           \A j \in 1 .. Len(rest) : rest[j] = rows[at[j]]
    PROVE  Cardinality(Guesses(rest, a)) <= Cardinality(Guesses(rows, a))
<1> DEFINE f == [j \in Guesses(rest, a) |-> at[j]]
<1>1. \A j \in Guesses(rest, a) : j \in 1 .. Len(rest) /\ at[j] \in Guesses(rows, a)
  BY DEF Guesses
<1>2. f \in Injection(Guesses(rest, a), Guesses(rows, a))
  BY <1>1 DEF Injection, IsInjective
<1> QED
  BY <1>2, GuessesFinite, FS_Injection

\* A failure that ages out adds no guess.
LEMMA AgeingDropsGuesses ==
    ASSUME NEW rows \in Seq(FailRows), rows # <<>>, NEW a
    PROVE  /\ Tail(rows) \in Seq(FailRows)
           /\ Cardinality(Guesses(Tail(rows), a)) <= Cardinality(Guesses(rows, a))
<1> DEFINE at == [j \in 1 .. Len(rows) - 1 |-> j + 1]
<1>1. /\ Tail(rows) \in Seq(FailRows) /\ Len(Tail(rows)) = Len(rows) - 1
      /\ \A j \in 1 .. Len(rows) - 1 : Tail(rows)[j] = rows[j + 1]
      /\ Len(rows) \in Nat
  BY HeadTailProperties
<1>2. /\ at \in [1 .. Len(Tail(rows)) -> 1 .. Len(rows)]
      /\ \A j, k \in 1 .. Len(Tail(rows)) : at[j] = at[k] => j = k
      /\ \A j \in 1 .. Len(Tail(rows)) : Tail(rows)[j] = rows[at[j]]
  BY <1>1
<1> HIDE DEF at
<1> QED
  BY <1>1, <1>2, FewerGuesses

\* A reset adds no guess.
LEMMA ResetDropsGuesses ==
    ASSUME NEW rows \in Seq(FailRows), NEW gone, NEW a
    PROVE  /\ Without(rows, gone) \in Seq(FailRows)
           /\ Cardinality(Guesses(Without(rows, gone), a)) <= Cardinality(Guesses(rows, a))
<1> DEFINE rest == Without(rows, gone)
<1>1. rest \in Seq(FailRows)
  BY FilterKeeps
<1>2. PICK at : Remains(rows, gone, Len(rows), rest, at)
  BY FilterKeeps
<1> HIDE DEF rest
<1>3. /\ at \in [1 .. Len(rest) -> 1 .. Len(rows)]
      /\ \A j, k \in 1 .. Len(rest) : at[j] = at[k] => j = k
      /\ \A j \in 1 .. Len(rest) : rest[j] = rows[at[j]]
  BY <1>2 DEF Remains
<1>4. Cardinality(Guesses(rest, a)) <= Cardinality(Guesses(rows, a))
  BY <1>1, <1>3, FewerGuesses
<1> QED
  BY <1>1, <1>4 DEF rest

\* A failure adds one guess to its account's, if the limiter was asked.
LEMMA FailureAddsGuess ==
    ASSUME NEW rows \in Seq(FailRows), NEW b \in Admins, NEW asked \in BOOLEAN, NEW a,
           NEW more, more = rows \o <<[of |-> b, kind |-> "account", asked |-> asked],
                                      [of |-> b, kind |-> "address", asked |-> asked]>>
    PROVE  /\ more \in Seq(FailRows)
           /\ Cardinality(Guesses(more, a)) <= Cardinality(Guesses(rows, a)) + 1
           /\ ~(asked /\ a = b) =>
                  Cardinality(Guesses(more, a)) <= Cardinality(Guesses(rows, a))
<1> DEFINE x == [of |-> b, kind |-> "account", asked |-> asked]
           y == [of |-> b, kind |-> "address", asked |-> asked]
           L == Len(rows)
<1>1. x \in FailRows /\ y \in FailRows
  BY DEF FailRows
<1>2. /\ x.kind = "account" /\ x.of = b /\ x.asked = asked /\ y.kind = "address"
  OBVIOUS
<1> HIDE DEF x, y
<1>3. more = rows \o <<x, y>>
  BY DEF x, y
<1>4. /\ more \in Seq(FailRows) /\ Len(more) = L + 2 /\ L \in Nat
      /\ \A i \in 1 .. L : more[i] = rows[i]
      /\ more[L + 1] = x /\ more[L + 2] = y
  BY <1>1, <1>3
<1>5. \A i \in 1 .. L + 2 : i \in 1 .. L \/ i = L + 1 \/ i = L + 2
  BY <1>4
<1>6. Guesses(more, a) \subseteq Guesses(rows, a) \cup {L + 1}
  BY <1>2, <1>4, <1>5 DEF Guesses
<1>7. ~(asked /\ a = b) => Guesses(more, a) \subseteq Guesses(rows, a)
  BY <1>2, <1>4, <1>5 DEF Guesses
<1>8. /\ IsFiniteSet(Guesses(rows, a) \cup {L + 1})
      /\ Cardinality(Guesses(rows, a) \cup {L + 1}) <= Cardinality(Guesses(rows, a)) + 1
      /\ Cardinality(Guesses(rows, a)) \in Nat
  <2>1. IsFiniteSet(Guesses(rows, a)) /\ Cardinality(Guesses(rows, a)) \in Nat
    BY GuessesFinite
  <2>2. /\ IsFiniteSet(Guesses(rows, a) \cup {L + 1})
        /\ Cardinality(Guesses(rows, a) \cup {L + 1}) =
             IF L + 1 \in Guesses(rows, a) THEN Cardinality(Guesses(rows, a))
             ELSE Cardinality(Guesses(rows, a)) + 1
    BY <2>1, FS_AddElement
  <2> QED
    BY <2>1, <2>2
<1>9. Cardinality(Guesses(more, a)) <= Cardinality(Guesses(rows, a)) + 1
  <2>1. Cardinality(Guesses(more, a)) <= Cardinality(Guesses(rows, a) \cup {L + 1})
    BY <1>6, <1>8, FS_Subset
  <2>2. Cardinality(Guesses(more, a)) \in Nat
    BY <1>4, GuessesFinite
  <2>3. Cardinality(Guesses(rows, a) \cup {L + 1}) \in Nat
    BY <1>8, FS_CardinalityType
  <2> QED
    BY <1>8, <2>1, <2>2, <2>3
<1>10. ASSUME ~(asked /\ a = b)
       PROVE  Cardinality(Guesses(more, a)) <= Cardinality(Guesses(rows, a))
  BY <1>7, <1>10, GuessesFinite, FS_Subset
<1> QED
  BY <1>4, <1>9, <1>10

\* Steps that add no guess and let nobody more be asked.
LEMMA FewerAhead ==
    ASSUME LimiterInv, auFailed' \in Seq(FailRows),
           \A a \in Admins : Cardinality(Guesses(auFailed', a)) <= Cardinality(Guesses(auFailed, a)),
           \A a \in Admins : InFlight(a)' \subseteq InFlight(a)
    PROVE  LimiterInv'
<1>1. ASSUME NEW a \in Admins
      PROVE  Cardinality(Guesses(auFailed', a)) + Cardinality(InFlight(a)')
                 < AccountFailureLimit + Cardinality(Clients)
  <2>1. Cardinality(InFlight(a)') <= Cardinality(InFlight(a))
    BY InFlightFinite, FS_Subset
  <2>2. Cardinality(Guesses(auFailed, a)) \in Nat /\ Cardinality(Guesses(auFailed', a)) \in Nat
    BY GuessesFinite DEF LimiterInv
  <2>3. /\ Cardinality(InFlight(a)) \in Nat /\ Cardinality(InFlight(a)') \in Nat
        /\ Cardinality(Clients) \in Nat
    BY InFlightFinite
  <2> QED
    BY <2>1, <2>2, <2>3, AuthAssumption DEF LimiterInv
<1>2. \A a \in Admins : Guesses(auFailed, a)' = Guesses(auFailed', a)
  BY DEF Guesses
<1> QED
  BY <1>1, <1>2 DEF LimiterInv

\* A handler moves on: it acts for the same account and has asked no more than before.
LEMMA HandlerMoves ==
    ASSUME CallInv, NEW c \in Clients, NEW r,
           r.asked => auCall[c].asked /\ r.as = auCall[c].as,
           auCall' = [auCall EXCEPT ![c] = r]
    PROVE  \A a \in Admins : InFlight(a)' \subseteq InFlight(a)
BY DEF CallInv, InFlight

\* A step that puts no guess in flight and none on record.
LEMMA MovesKeepLimit ==
    ASSUME LimiterInv, CallInv, NEW c \in Clients, auFailed' \in Seq(FailRows),
           \A a \in Admins : Cardinality(Guesses(auFailed', a)) <= Cardinality(Guesses(auFailed, a)),
           \/ Over(c) \/ \E where \in Places : Step(c, where)
           \/ \E where \in Places, k \in 0 .. MaxSecrets, p \in 0 .. MaxPasswords :
                  auCall' = [auCall EXCEPT ![c].at = where, ![c].code = k, ![c].password = p]
    PROVE  LimiterInv'
<1>0. auCall[c] \in CallRows
  BY DEF CallInv
<1>1. CASE Over(c)
  <2>1. ~ NoAuthCall.asked
    BY DEF NoAuthCall
  <2> QED
    BY <1>1, <2>1, HandlerMoves, FewerAhead DEF Over
<1>2. ASSUME NEW where \in Places, Step(c, where) PROVE LimiterInv'
  <2> DEFINE r == [auCall[c] EXCEPT !.at = where]
  <2>1. r.asked = auCall[c].asked /\ r.as = auCall[c].as
    BY <1>0 DEF CallRows
  <2>2. auCall' = [auCall EXCEPT ![c] = r]
    BY <1>2 DEF Step
  <2> HIDE DEF r
  <2> QED
    BY <2>1, <2>2, HandlerMoves, FewerAhead
<1>3. ASSUME NEW where \in Places, NEW k \in 0 .. MaxSecrets, NEW p \in 0 .. MaxPasswords,
             auCall' = [auCall EXCEPT ![c].at = where, ![c].code = k, ![c].password = p]
      PROVE  LimiterInv'
  <2> DEFINE r == [auCall[c] EXCEPT !.at = where, !.code = k, !.password = p]
  <2>1. r.asked = auCall[c].asked /\ r.as = auCall[c].as
    BY <1>0 DEF CallRows
  <2>2. auCall' = [auCall EXCEPT ![c] = r]
    BY <1>3
  <2> HIDE DEF r
  <2> QED
    BY <2>1, <2>2, HandlerMoves, FewerAhead
<1> QED
  BY <1>1, <1>2, <1>3

\* Every asked guess at an account is a failure the limiter counts.
LEMMA CountsGuesses ==
    ASSUME auFailed \in Seq(FailRows), NEW b
    PROVE  countSince(b) \in Nat /\ Cardinality(Guesses(auFailed, b)) <= countSince(b)
<1> DEFINE rows == {i \in DOMAIN auFailed : auFailed[i].of = b /\ auFailed[i].kind = "account"}
<1>1. \A n \in Nat : IsFiniteSet(1 .. n)
  BY FS_Interval
<1>2. IsFiniteSet(1 .. Len(auFailed)) /\ DOMAIN auFailed = 1 .. Len(auFailed)
  BY <1>1
<1>3. rows \in SUBSET (1 .. Len(auFailed)) /\ Guesses(auFailed, b) \in SUBSET rows
  BY <1>2 DEF Guesses
<1>4. countSince(b) = Cardinality(rows)
  BY DEF countSince, Rows
<1> HIDE DEF rows
<1>5. IsFiniteSet(rows) /\ Cardinality(rows) \in Nat
  BY <1>2, <1>3, FS_Subset, FS_CardinalityType
<1> QED
  BY <1>3, <1>4, <1>5, FS_Subset

\* The limiter lets a guess through: there are fewer failures than the limit, so
\* the ones in flight with this one stay below it by less than the clients there are.
LEMMA AskKeepsLimit ==
    ASSUME LimiterInv, CallInv, NEW c \in Clients, NEW b \in Admins, Check(b), UNCHANGED auFailed,
           NEW r, r.as = b, auCall' = [auCall EXCEPT ![c] = r],
           auCall[c].asked => auCall[c].as = b
    PROVE  LimiterInv'
<1>1. auFailed \in Seq(FailRows)
  BY DEF LimiterInv
<1>2. countSince(b) \in Nat /\ Cardinality(Guesses(auFailed, b)) <= countSince(b)
  BY <1>1, CountsGuesses
<1>3. countSince(b) < AccountFailureLimit
  BY <1>2, AuthAssumption DEF Check, backoff
<1>4. ASSUME NEW a \in Admins
      PROVE  Cardinality(Guesses(auFailed', a)) + Cardinality(InFlight(a)')
                 < AccountFailureLimit + Cardinality(Clients)
  <2>1. /\ Cardinality(Guesses(auFailed, a)) \in Nat
        /\ Cardinality(InFlight(a)) \in Nat /\ Cardinality(InFlight(a)') \in Nat
        /\ Cardinality(InFlight(a)') <= Cardinality(Clients) /\ Cardinality(Clients) \in Nat
    BY <1>1, GuessesFinite, InFlightFinite
  <2>2. CASE a = b
    BY <1>2, <1>3, <2>1, <2>2, AuthAssumption
  <2>3. CASE a # b
    <3>1. InFlight(a)' \subseteq InFlight(a)
      BY <2>3 DEF InFlight, CallInv
    <3>2. Cardinality(InFlight(a)') <= Cardinality(InFlight(a))
      BY <3>1, InFlightFinite, FS_Subset
    <3> QED
      BY <2>1, <3>2, AuthAssumption DEF LimiterInv
  <2> QED
    BY <2>2, <2>3
<1>5. \A a \in Admins : Guesses(auFailed, a)' = Guesses(auFailed', a)
  BY DEF Guesses
<1> QED
  BY <1>1, <1>4, <1>5 DEF LimiterInv

\* A failure is written: what was in flight becomes a row.
LEMMA DenyKeepsLimit ==
    ASSUME LimiterInv, CallInv, NEW c \in Clients, deny(c)
    PROVE  LimiterInv'
<1>1. auCall[c] \in CallRows /\ Me(c) \in Admins /\ Over(c)
  BY DEF CallInv, Me, At, deny
<1>2. CASE UNCHANGED auFailed
  <2>1. auFailed' \in Seq(FailRows) /\ \A a \in Admins : Guesses(auFailed', a) = Guesses(auFailed, a)
    BY <1>2 DEF LimiterInv
  <2>2. \A a \in Admins : Cardinality(Guesses(auFailed', a)) <= Cardinality(Guesses(auFailed, a))
    BY <1>2, GuessesFinite DEF LimiterInv
  <2> QED
    BY <1>1, <2>1, <2>2, MovesKeepLimit
<1>3. CASE RecordFailure(Me(c), auCall[c].asked)
  <2> DEFINE b == Me(c)
             asked == auCall[c].asked
  <2>1. asked \in BOOLEAN /\ b = auCall[c].as /\ auFailed \in Seq(FailRows)
    BY <1>1 DEF CallRows, Me, LimiterInv
  <2>2. /\ auFailed' \in Seq(FailRows)
        /\ \A a \in Admins : Cardinality(Guesses(auFailed', a)) <= Cardinality(Guesses(auFailed, a)) + 1
        /\ \A a \in Admins : ~(asked /\ a = b) =>
               Cardinality(Guesses(auFailed', a)) <= Cardinality(Guesses(auFailed, a))
    <3>1. auFailed' = auFailed \o <<[of |-> b, kind |-> "account", asked |-> asked],
                                    [of |-> b, kind |-> "address", asked |-> asked]>>
      BY <1>3 DEF RecordFailure
    <3> HIDE DEF b, asked
    <3> QED
      BY <1>1, <2>1, <3>1, FailureAddsGuess DEF b
  <2>3. ASSUME NEW a \in Admins
        PROVE  /\ InFlight(a)' \subseteq InFlight(a)
               /\ asked /\ a = b => InFlight(a)' = InFlight(a) \ {c} /\ c \in InFlight(a)
    BY <1>1, <2>1 DEF Over, InFlight, CallInv, NoAuthCall
  <2> HIDE DEF b, asked
  <2>4. ASSUME NEW a \in Admins
        PROVE  Cardinality(Guesses(auFailed', a)) + Cardinality(InFlight(a)')
                   < AccountFailureLimit + Cardinality(Clients)
    <3>1. /\ Cardinality(Guesses(auFailed, a)) \in Nat /\ Cardinality(Guesses(auFailed', a)) \in Nat
          /\ Cardinality(InFlight(a)) \in Nat /\ Cardinality(InFlight(a)') \in Nat
          /\ Cardinality(Clients) \in Nat
      BY <2>1, <2>2, GuessesFinite, InFlightFinite
    <3>2. CASE asked /\ a = b
      <4>1. Cardinality(InFlight(a)') = Cardinality(InFlight(a)) - 1
        BY <2>3, <3>2, InFlightFinite, FS_RemoveElement
      <4> QED
        BY <2>2, <3>1, <4>1, AuthAssumption DEF LimiterInv
    <3>3. CASE ~(asked /\ a = b)
      <4>1. Cardinality(InFlight(a)') <= Cardinality(InFlight(a))
        BY <2>3, InFlightFinite, FS_Subset
      <4>2. Cardinality(Guesses(auFailed', a)) <= Cardinality(Guesses(auFailed, a))
        BY <2>2, <3>3
      <4> QED
        BY <3>1, <4>1, <4>2, AuthAssumption DEF LimiterInv
    <3> QED
      BY <3>2, <3>3
  <2>5. \A a \in Admins : Guesses(auFailed, a)' = Guesses(auFailed', a)
    BY DEF Guesses
  <2> QED
    BY <2>2, <2>4, <2>5 DEF LimiterInv
<1> QED
  BY <1>2, <1>3 DEF deny

\* Moves of a handler that leave the failures alone, or drop an account's.
LEMMA SameOrReset ==
    ASSUME LimiterInv, UNCHANGED auFailed \/ \E a \in Admins : Reset(a)
    PROVE  /\ auFailed' \in Seq(FailRows)
           /\ \A a \in Admins : Cardinality(Guesses(auFailed', a)) <= Cardinality(Guesses(auFailed, a))
<1>1. CASE UNCHANGED auFailed
  BY <1>1, GuessesFinite DEF LimiterInv
<1>2. CASE \E a \in Admins : Reset(a)
  <2>1. PICK b \in Admins : Reset(b)
    BY <1>2
  <2>2. PICK gone : auFailed' = Without(auFailed, gone)
    BY <2>1 DEF Reset
  <2> QED
    BY <2>2, ResetDropsGuesses DEF LimiterInv
<1> QED
  BY <1>1, <1>2

\* The steps that ask the limiter nothing and record no failure.
LEMMA HandlerKeepsLimit ==
    ASSUME AuInv, LimiterInv, NEW c \in Clients,
           \/ LoginVerify(c) \/ LoginSpend(c) \/ LoginReset(c) \/ LoginSession(c)
           \/ EnrolRead(c) \/ handleTOTPEnrol(c) \/ handleTOTPConfirm(c) \/ ConfirmReset(c)
           \/ DisableSpend(c) \/ handleTOTPDisable(c)
           \/ handleUpdateAdmin(c) \/ handleResetAdminPassword(c) \/ handleDeleteAdmin(c)
           \/ handleCreateAdmin(c) \/ ChangeRead(c) \/ handleChangeMyPassword(c)
           \/ handleRevokeSession(c) \/ handleLogout(c) \/ GiveUp(c)
    PROVE  LimiterInv'
<1>0. CallInv /\ AuTypeOK
  BY DEF AuInv
<1>1. \/ Over(c) \/ \E where \in Places : Step(c, where)
      \/ \E where \in Places, k \in 0 .. MaxSecrets, p \in 0 .. MaxPasswords :
           auCall' = [auCall EXCEPT ![c].at = where, ![c].code = k, ![c].password = p]
  <2>1. CASE LoginVerify(c)
    <3>1. /\ auAdmin[Me(c)].password \in 0 .. MaxPasswords
          /\ \A k \in auAdmin[Me(c)].codes : k \in 0 .. MaxSecrets
          /\ 0 \in 0 .. MaxSecrets
      <4>1. Me(c) \in Admins
        BY <1>0, <2>1, MeIsAnAdmin DEF LoginVerify, At
      <4>2. auAdmin[Me(c)] \in Account
        BY <1>0, <4>1 DEF AuTypeOK
      <4> QED
        BY <4>2, AuthAssumption DEF Account, Secrets
    <3>2. \E where \in Places, k \in 0 .. MaxSecrets :
            auCall' = [auCall EXCEPT ![c].at = where, ![c].code = k,
                                     ![c].password = auAdmin[Me(c)].password]
      BY <2>1, <3>1 DEF LoginVerify, Places, Stages
    <3> QED
      BY <3>1, <3>2
  <2>2. CASE \/ LoginSpend(c) \/ LoginReset(c) \/ EnrolRead(c) \/ DisableSpend(c) \/ ChangeRead(c)
             \/ handleTOTPConfirm(c)
    <3>1. \E where \in Stages : Step(c, where)
      BY <2>2 DEF LoginSpend, LoginReset, EnrolRead, DisableSpend, ChangeRead, handleTOTPConfirm,
                  consumeRecoveryCode, Stages
    <3> QED
      BY <3>1 DEF Places
  <2>3. CASE \/ LoginSession(c) \/ handleTOTPEnrol(c) \/ ConfirmReset(c)
             \/ handleTOTPDisable(c)
             \/ handleUpdateAdmin(c) \/ handleResetAdminPassword(c) \/ handleDeleteAdmin(c)
             \/ handleCreateAdmin(c) \/ handleChangeMyPassword(c)
             \/ handleRevokeSession(c) \/ handleLogout(c) \/ GiveUp(c)
    BY <2>3 DEF LoginSession, handleTOTPEnrol, ConfirmReset, handleTOTPDisable,
                handleUpdateAdmin, handleResetAdminPassword, handleDeleteAdmin,
                handleCreateAdmin, handleChangeMyPassword, handleRevokeSession,
                handleLogout, GiveUp, Manages
  <2> QED
    BY <2>1, <2>2, <2>3
<1>2. UNCHANGED auFailed \/ \E a \in Admins : Reset(a)
  <2>1. CASE LoginReset(c) \/ ConfirmReset(c)
    <3>1. Me(c) \in Admins /\ Reset(Me(c))
      BY <1>0, <2>1, MeIsAnAdmin DEF LoginReset, ConfirmReset, At
    <3> QED
      BY <3>1
  <2>2. CASE ~ (LoginReset(c) \/ ConfirmReset(c))
    BY <2>2 DEF LoginVerify, LoginSpend, LoginSession, EnrolRead, handleTOTPEnrol, DisableSpend,
                handleTOTPConfirm,
                handleTOTPDisable, handleUpdateAdmin, handleResetAdminPassword,
                handleDeleteAdmin, handleCreateAdmin, ChangeRead, handleChangeMyPassword,
                handleRevokeSession, handleLogout, GiveUp, Manages
  <2> QED
    BY <2>1, <2>2
<1> QED
  BY <1>0, <1>1, <1>2, SameOrReset, MovesKeepLimit

\* The steps that ask the limiter and may put a guess in flight.
LEMMA AskersKeepLimit ==
    ASSUME AuInv, LimiterInv, NEW c \in Clients
    PROVE  /\ \A a \in Admins : handleLogin(c, a) => LimiterInv'
           /\ ConfirmRead(c) => LimiterInv'
           /\ DisableRead(c) => LimiterInv'
<1>0. CallInv /\ auCall[c] \in CallRows
  BY DEF AuInv, CallInv
<1>1. ASSUME NEW a \in Admins, handleLogin(c, a) PROVE LimiterInv'
  <2> DEFINE r == [NoAuthCall EXCEPT !.at = "login", !.as = a, !.asked = TRUE]
  <2>1. auCall' = [auCall EXCEPT ![c] = r] /\ Check(a) /\ UNCHANGED auFailed
    BY <1>1 DEF handleLogin, Begin
  <2>2. r.as = a /\ ~ auCall[c].asked
    BY <1>1 DEF handleLogin, Begin, NoAuthCall
  <2> HIDE DEF r
  <2> QED
    BY <1>0, <2>1, <2>2, AskKeepsLimit
<1>2. ASSUME NEW where, Asked(c, where), Check(Me(c)), UNCHANGED auFailed, Me(c) \in Admins
      PROVE  LimiterInv'
  <2> DEFINE r == [auCall[c] EXCEPT !.at = where, !.asked = TRUE]
  <2>1. auCall' = [auCall EXCEPT ![c] = r]
    BY <1>2 DEF Asked
  <2>2. r.as = Me(c) /\ auCall[c].as = Me(c)
    BY <1>0 DEF CallRows, Me
  <2> HIDE DEF r
  <2> QED
    BY <1>0, <1>2, <2>1, <2>2, AskKeepsLimit
<1>3. ASSUME ConfirmRead(c) PROVE LimiterInv'
  <2>1. Me(c) \in Admins /\ Check(Me(c)) /\ UNCHANGED auFailed
    BY <1>0, <1>3, MeIsAnAdmin DEF ConfirmRead, totpThrottle, At
  <2> QED
    BY <1>2, <1>3, <2>1 DEF ConfirmRead
<1>4. ASSUME DisableRead(c) PROVE LimiterInv'
  <2>1. Me(c) \in Admins /\ Check(Me(c)) /\ UNCHANGED auFailed
    BY <1>0, <1>4, MeIsAnAdmin DEF DisableRead, totpThrottle, At
  <2>2. ASSUME NEW k, auCall' = [auCall EXCEPT ![c].at = "disable.spend", ![c].code = k,
                                               ![c].asked = TRUE]
        PROVE  LimiterInv'
    <3> DEFINE r == [auCall[c] EXCEPT !.at = "disable.spend", !.code = k, !.asked = TRUE]
    <3>1. auCall' = [auCall EXCEPT ![c] = r]
      BY <2>2
    <3>2. r.as = Me(c) /\ auCall[c].as = Me(c)
      BY <1>0 DEF CallRows, Me
    <3> HIDE DEF r
    <3> QED
      BY <1>0, <2>1, <3>1, <3>2, AskKeepsLimit
  <2> QED
    BY <1>2, <1>4, <2>1, <2>2 DEF DisableRead
<1> QED
  BY <1>1, <1>3, <1>4

\* Every step of the sign-in keeps guesses on record and in flight below the limit.
LEMMA LimiterStep == AuInv /\ LimiterInv /\ [AuNext]_auVars => LimiterInv'
<1> SUFFICES ASSUME AuInv, LimiterInv, [AuNext]_auVars PROVE LimiterInv'
  OBVIOUS
<1>0. CallInv
  BY DEF AuInv
<1>1. CASE UNCHANGED <<auFailed, auCall>>
  BY <1>1, SameOrReset, FewerAhead DEF InFlight
<1>2. CASE FailureAges
  <2>1. auFailed # <<>> /\ auFailed' = Tail(auFailed) /\ auCall' = auCall
    BY <1>2 DEF FailureAges
  <2>2. /\ auFailed' \in Seq(FailRows)
        /\ \A a \in Admins : Cardinality(Guesses(auFailed', a)) <= Cardinality(Guesses(auFailed, a))
    BY <2>1, AgeingDropsGuesses DEF LimiterInv
  <2> QED
    BY <2>1, <2>2, FewerAhead DEF InFlight
<1>3. ASSUME NEW c \in Clients, NEW s, NEW handler, NEW to, authMiddleware(c, s, handler, to)
      PROVE  LimiterInv'
  <2> DEFINE r == [NoAuthCall EXCEPT !.at = handler, !.as = auSession[s].of, !.to = to, !.session = s,
                                     !.super = auAdmin[auSession[s].of].super]
  <2>1. auCall' = [auCall EXCEPT ![c] = r] /\ UNCHANGED auFailed
    BY <1>3 DEF authMiddleware, Begin
  <2>2. ~ r.asked
    BY DEF NoAuthCall
  <2> HIDE DEF r
  <2> QED
    BY <1>0, <2>1, <2>2, HandlerMoves, SameOrReset, FewerAhead
<1>4. ASSUME NEW s \in SessionIds, SessionExpires(s) PROVE UNCHANGED <<auFailed, auCall>>
  BY <1>4 DEF SessionExpires
<1> QED
  BY <1>0, <1>1, <1>2, <1>3, <1>4, HandlerKeepsLimit, AskersKeepLimit, DenyKeepsLimit DEF AuNext, auVars

\* There are no guesses to begin with.
LEMMA LimiterInit == AuInit => LimiterInv
<1> SUFFICES ASSUME AuInit PROVE LimiterInv
  OBVIOUS
<1>1. auFailed = <<>> /\ auCall = [c \in Clients |-> NoAuthCall]
  BY DEF AuInit
<1>2. ASSUME NEW a \in Admins PROVE Guesses(auFailed, a) = {} /\ InFlight(a) = {}
  BY <1>1 DEF Guesses, InFlight, NoAuthCall
<1>3. Cardinality({}) = 0 /\ Cardinality(Clients) \in Nat
  BY FS_EmptySet, FS_CardinalityType, AuthAssumption
<1>4. ASSUME NEW a \in Admins
      PROVE  Cardinality(Guesses(auFailed, a)) + Cardinality(InFlight(a))
                 < AccountFailureLimit + Cardinality(Clients)
  BY <1>2, <1>3, AuthAssumption
<1>5. auFailed \in Seq(FailRows)
  BY <1>1
<1> QED
  BY <1>4, <1>5 DEF LimiterInv

\* The guesses on record are a part of those the limiter bounds.
LEMMA InFlightBoundsGuesses == LimiterInv => GuessesAreLimited
<1> SUFFICES ASSUME LimiterInv, NEW a \in Admins
             PROVE  Rows(LAMBDA f : f.of = a /\ f.kind = "account" /\ f.asked)
                      < AccountFailureLimit + Cardinality(Clients)
  BY DEF GuessesAreLimited
<1>1. auFailed \in Seq(FailRows)
  BY DEF LimiterInv
<1>2. Rows(LAMBDA f : f.of = a /\ f.kind = "account" /\ f.asked) = Cardinality(Guesses(auFailed, a))
  <2>1. DOMAIN auFailed = 1 .. Len(auFailed)
    BY <1>1
  <2> QED
    BY <2>1 DEF Rows, Guesses
<1>3. /\ Cardinality(Guesses(auFailed, a)) \in Nat /\ Cardinality(InFlight(a)) \in Nat
      /\ Cardinality(Clients) \in Nat
  BY <1>1, GuessesFinite, InFlightFinite
<1> QED
  BY <1>2, <1>3, AuthAssumption DEF LimiterInv

\* However many sign-ins (login.go, twofactor.go) read the failure counts before
\* any of them writes one, an account's guesses on record stay below the limit plus
\* the clients: every guess in flight has already passed the check.
THEOREM GuessesStayLimited == AuSpec => []GuessesAreLimited
<1>1. AuSpec => []LimiterInv
  BY LimiterInit, LimiterStep, Invariance, PTL DEF AuSpec
<1> QED
  BY <1>1, InFlightBoundsGuesses, PTL

-----------------------------------------------------------------------------
(* Sums of charges. *)

\* Nothing charged sums to nothing.
LEMMA EmptySum == MapThenSumSet(LAMBDA m : m.delta, {}) = 0
<1> DEFINE Sums(f) == f = [s \in SUBSET {} |->
                             IF s = {} THEN 0
                             ELSE (CHOOSE x \in s : TRUE).delta + f[s \ {CHOOSE x \in s : TRUE}]]
<1>1. Sums([s \in SUBSET {} |-> 0])
  OBVIOUS
<1>2. Sums(CHOOSE f : Sums(f))
  BY <1>1
<1>3. (CHOOSE f : Sums(f))[{}] = 0
  <2> DEFINE g == CHOOSE f : Sums(f)
  <2>1. g = [s \in SUBSET {} |->
                             IF s = {} THEN 0
                             ELSE (CHOOSE x \in s : TRUE).delta + g[s \ {CHOOSE x \in s : TRUE}]]
    BY <1>2
  <2> HIDE DEF g
  <2> QED
    BY <2>1
<1> QED
  BY <1>3 DEF MapThenSumSet, MapThenFoldSet

\* One charge sums to itself.
LEMMA SingleSum ==
    ASSUME NEW r, r.delta \in Int
    PROVE  MapThenSumSet(LAMBDA m : m.delta, {r}) = r.delta
<1> DEFINE Sums(f) == f = [s \in SUBSET {r} |->
                             IF s = {} THEN 0
                             ELSE (CHOOSE x \in s : TRUE).delta + f[s \ {CHOOSE x \in s : TRUE}]]
<1>0. ASSUME NEW s \in SUBSET {r} PROVE s = {} \/ (s = {r} /\ (CHOOSE x \in s : TRUE) = r /\ s \ {CHOOSE x \in s : TRUE} = {})
  OBVIOUS
<1>1. Sums([s \in SUBSET {r} |-> IF s = {} THEN 0 ELSE r.delta])
  <2> DEFINE g == [s \in SUBSET {r} |-> IF s = {} THEN 0 ELSE r.delta]
  <2>1. ASSUME NEW s \in SUBSET {r}
        PROVE g[s] = IF s = {} THEN 0
                     ELSE (CHOOSE x \in s : TRUE).delta + g[s \ {CHOOSE x \in s : TRUE}]
    <3>1. CASE s = {}
      BY <3>1
    <3>2. CASE s # {}
      <4>1. s = {r} /\ (CHOOSE x \in s : TRUE) = r /\ s \ {CHOOSE x \in s : TRUE} = {}
        BY <1>0, <3>2
      <4>2. g[s] = r.delta /\ g[{}] = 0
        BY <3>2
      <4> HIDE DEF g
      <4> QED
        BY <3>2, <4>1, <4>2
    <3> QED
      BY <3>1, <3>2
  <2> QED
    BY <2>1
<1>2. Sums(CHOOSE f : Sums(f))
  BY <1>1
<1>3. (CHOOSE f : Sums(f))[{r}] = r.delta
  <2> DEFINE g == CHOOSE f : Sums(f)
  <2>1. g = [s \in SUBSET {r} |->
                             IF s = {} THEN 0
                             ELSE (CHOOSE x \in s : TRUE).delta + g[s \ {CHOOSE x \in s : TRUE}]]
    BY <1>2
  <2> HIDE DEF g
  <2>2. g[{}] = 0
    BY <2>1
  <2>3. g[{r}] = (CHOOSE x \in {r} : TRUE).delta + g[{r} \ {CHOOSE x \in {r} : TRUE}]
    BY <2>1
  <2>4. (CHOOSE x \in {r} : TRUE) = r /\ {r} \ {CHOOSE x \in {r} : TRUE} = {}
    OBVIOUS
  <2>5. g[{r}] = r.delta + g[{}]
    BY <2>3, <2>4, Zenon
  <2>6. g[{r}] = r.delta
    BY <2>2, <2>5
  <2> QED
    BY <2>6 DEF g
<1> QED
  BY <1>3 DEF MapThenSumSet, MapThenFoldSet

-----------------------------------------------------------------------------
(* Resellers: the inductive invariant. *)

Movement == [of : Sellers, key : Keys, delta : {-1, 1, 2}, subject : 0 .. MaxSubjects]
TermRows == Offers \cup {Enabled(t) : t \in Offers} \cup {Absent}
Jobs == [op : {"idle", "enable", "disable", "extend", "delete", "quota", "import"},
         by : Sellers \cup {Platform}, left : SUBSET (Ids \cup Names), cost : {0, 1},
         csv : Uploads \cup {NoCsv}, id : 0 .. MaxSubjects, read : 0 .. MaxTerm,
         todo : SUBSET {"quota", "disable", "freeze"}]

\* The job being served; an import's rows are of a file that was uploaded.
JobInv == rsJob \in Jobs /\ (rsJob.op = "import" => rsJob.csv \in Uploads)

RsTypes ==
    /\ rsTerms \in [Sellers -> TermRows]
    /\ rsLedger \subseteq Movement
    /\ rsSubject \in [Ids -> Customers \cup {NoSubject}]
    /\ JobInv

\* What was charged for a subject, and that it is what the subject costs: no row,
\* or one row of its owner.
Charges(s) == {m \in rsLedger : m.subject = s}
Paid(s) ==
    \/ rsSubject[s].cost = 0 /\ Charges(s) = {}
    \/ /\ rsSubject[s].cost = 1
       /\ \E m \in rsLedger : Charges(s) = {m} /\ m.delta = -1 /\ m.of = rsSubject[s].owner

\* Every customer is paid for, and no row is for a subject that is not there.
BooksInv ==
    /\ \A s \in Ids : Exists(s) => Paid(s)
    /\ \A m \in rsLedger : m.subject = 0 \/ Exists(m.subject)

RsInv == RsTypes /\ BooksInv

-----------------------------------------------------------------------------
(* Rows of the reseller service. *)

\* What handlers write in a customer.
LEMMA CustomerRows ==
    /\ NoSubject \notin Customers
    /\ \A r \in Customers, b \in BOOLEAN, q \in {0, 1}, x \in 0 .. MaxTerm :
         /\ [r EXCEPT !.enabled = b] \in Customers
         /\ [r EXCEPT !.frozen = b] \in Customers
         /\ [r EXCEPT !.quota = q] \in Customers
         /\ [r EXCEPT !.expiry = x] \in Customers
         /\ [r EXCEPT !.enabled = b].cost = r.cost /\ [r EXCEPT !.enabled = b].owner = r.owner
         /\ [r EXCEPT !.frozen = b].cost = r.cost /\ [r EXCEPT !.frozen = b].owner = r.owner
         /\ [r EXCEPT !.quota = q].cost = r.cost /\ [r EXCEPT !.quota = q].owner = r.owner
         /\ [r EXCEPT !.expiry = x].cost = r.cost /\ [r EXCEPT !.expiry = x].owner = r.owner
<1>1. NoSubject.owner = "-" /\ "-" # Platform
  BY DEF NoSubject, Platform
<1>2. NoSubject \notin Customers
  <2>1. \A r \in Customers : r.owner \in Sellers \cup {Platform}
    BY DEF Customers
  <2> QED
    BY <1>1, <2>1, ResellersAssumption
<1> QED
  BY <1>2 DEF Customers

\* A new customer has the cost and the owner it was created with.
LEMMA NewCustomerRow ==
    ASSUME NEW name \in Names, NEW owner \in Sellers \cup {Platform}, NEW cost \in {0, 1},
           NEW quota \in {0, 1}
    PROVE  /\ NewSubject(name, owner, cost, quota) \in Customers
           /\ NewSubject(name, owner, cost, quota).cost = cost
           /\ NewSubject(name, owner, cost, quota).owner = owner
<1> DEFINE yes == TRUE
           no == FALSE
           zero == 0
<1>1. NewSubject(name, owner, cost, quota) =
        [name |-> name, owner |-> owner, cost |-> cost, quota |-> quota,
         enabled |-> yes, frozen |-> no, expiry |-> zero]
  BY DEF NewSubject
<1>2. yes \in BOOLEAN /\ no \in BOOLEAN /\ zero \in 0 .. MaxTerm
  BY DEF MaxTerm
<1> HIDE DEF yes, no, zero
<1> QED
  BY <1>1, <1>2 DEF Customers

\* The rows of an import.
LEMMA UploadRows ==
    ASSUME NEW csv \in Uploads
    PROVE  csv.rows \subseteq Names /\ csv.quota \in {0, 1}
BY ResellersAssumption

\* A job that moves on keeps its kind and its file.
SameKind(j, k) == j \in Jobs /\ j.op = k.op /\ j.csv = k.csv

\* What the steps of a job write in it leaves its kind as it is.
LEMMA JobUpdates ==
    ASSUME NEW j \in Jobs
    PROVE  /\ \A i \in 0 .. MaxSubjects : SameKind([j EXCEPT !.id = i], j)
           /\ \A rest \in SUBSET (Ids \cup Names) : SameKind([j EXCEPT !.left = rest], j)
           /\ \A ws \in SUBSET {"quota", "disable", "freeze"} : SameKind([j EXCEPT !.todo = ws], j)
           /\ \A rest \in SUBSET (Ids \cup Names), i \in 0 .. MaxSubjects, x \in 0 .. MaxTerm :
                  SameKind([j EXCEPT !.left = rest, !.id = i, !.read = x], j)
           /\ \A rest \in SUBSET (Ids \cup Names), i \in 0 .. MaxSubjects,
                 ws \in SUBSET {"quota", "disable", "freeze"} :
                  SameKind([j EXCEPT !.left = rest, !.id = i, !.todo = ws], j)
BY DEF Jobs, SameKind

\* A job that stays of its kind stays well formed.
LEMMA JobMoves == RsInv /\ SameKind(rsJob', rsJob) => JobInv'
BY DEF RsInv, RsTypes, JobInv, SameKind

\* A job that has just been started.
LEMMA IdleJob ==
    ASSUME NEW by \in Sellers \cup {Platform}, NEW rest \in SUBSET (Ids \cup Names)
    PROVE  /\ Idle \in Jobs /\ Idle.op = "idle"
           /\ \A op \in {"enable", "disable", "extend", "delete", "quota"} :
                /\ [Idle EXCEPT !.op = op, !.by = by, !.left = rest] \in Jobs
                /\ [Idle EXCEPT !.op = op, !.by = by, !.left = rest].op = op
<1> DEFINE zero == 0
           none == {}
           idle == "idle"
<1>1. Idle = [op |-> idle, by |-> Platform, left |-> none, cost |-> zero, csv |-> NoCsv,
              id |-> zero, read |-> zero, todo |-> none]
  BY DEF Idle
<1>2. /\ zero \in {0, 1} /\ zero \in 0 .. MaxSubjects /\ zero \in 0 .. MaxTerm
      /\ none \in SUBSET (Ids \cup Names) /\ none \in SUBSET {"quota", "disable", "freeze"}
      /\ idle \in {"idle", "enable", "disable", "extend", "delete", "quota", "import"}
  BY ResellersAssumption DEF MaxTerm
<1> HIDE DEF zero, none, idle
<1>3. Idle \in Jobs
  BY <1>1, <1>2 DEF Jobs
<1>4. Idle.op = "idle"
  BY DEF Idle
<1> QED
  BY <1>3, <1>4 DEF Jobs

\* The next id is free.
LEMMA GreatestId ==
    /\ NextId \in Nat \ {0}
    /\ NextId \in Ids => ~ Exists(NextId)
<1> DEFINE used == {0} \cup {s \in Ids : Exists(s)}
           gaps == {MaxSubjects - s : s \in used}
<1>1. MaxSubjects \in Nat /\ used \subseteq 0 .. MaxSubjects /\ 0 \in used
  BY ResellersAssumption DEF Ids
<1>2. gaps \in SUBSET Nat /\ gaps # {}
  BY <1>1
<1> HIDE DEF used, gaps
<1>3. PICK g \in gaps : \A h \in gaps : g <= h
  BY <1>2, LeastNumber
<1>4. PICK top \in used : g = MaxSubjects - top
  BY <1>3 DEF gaps
<1>5. \A s \in used : MaxSubjects - s \in gaps
  BY DEF gaps
<1>6. \A s \in used : top >= s
  BY <1>1, <1>3, <1>4, <1>5
<1>7. Max(used) \in used /\ \A s \in used : Max(used) >= s
  BY <1>4, <1>6 DEF Max
<1>8. NextId = Max(used) + 1
  BY DEF NextId, used
<1>9. Max(used) \in Nat
  <2>1. Max(used) \in 0 .. MaxSubjects
    BY <1>1, <1>7, Zenon
  <2> QED
    BY <1>1, <2>1
<1>10. NextId \notin used
  BY <1>7, <1>8, <1>9
<1> QED
  BY <1>8, <1>9, <1>10 DEF used

-----------------------------------------------------------------------------
(* What a step may do to the books. *)

\* Edits that neither add, drop, sell nor reprice a customer.
LEMMA SameCustomers ==
    ASSUME BooksInv, rsLedger' = rsLedger,
           \A s \in Ids : Exists(s) => Exists(s)' /\ rsSubject'[s].cost = rsSubject[s].cost
                                       /\ rsSubject'[s].owner = rsSubject[s].owner,
           \A s \in Ids : Exists(s)' => Exists(s)
    PROVE  BooksInv'
<1>1. ASSUME NEW s \in Ids, Exists(s)' PROVE Paid(s)'
  <2>1. Charges(s)' = Charges(s)
    BY DEF Charges
  <2> QED
    BY <1>1, <2>1 DEF BooksInv, Paid
<1>2. \A m \in rsLedger' : m.subject = 0 \/ Exists(m.subject)'
  BY DEF BooksInv, Exists
<1> QED
  BY <1>1, <1>2 DEF BooksInv

\* One customer's row changes.
LEMMA CustomerEdited ==
    ASSUME RsInv, NEW s \in Ids, Exists(s), NEW row \in Customers,
           row.cost = rsSubject[s].cost, row.owner = rsSubject[s].owner,
           rsSubject' = [rsSubject EXCEPT ![s] = row], rsLedger' = rsLedger,
           rsTerms' = rsTerms, JobInv'
    PROVE  RsInv'
<1>1. RsTypes'
  BY DEF RsInv, RsTypes
<1>2. BooksInv'
  <2>1. \A t \in Ids : rsSubject'[t] = IF t = s THEN row ELSE rsSubject[t]
    BY DEF RsInv, RsTypes
  <2>2. row # NoSubject
    BY CustomerRows
  <2>3. \A t \in Ids : Exists(t)' <=> Exists(t)
    BY <2>1, <2>2 DEF Exists
  <2> QED
    BY <2>1, <2>3, SameCustomers DEF RsInv
<1> QED
  BY <1>1, <1>2 DEF RsInv

\* A subject that exists is a customer.
LEMMA IsACustomer ==
    ASSUME RsTypes, NEW s, Exists(s)
    PROVE  s \in Ids /\ rsSubject[s] \in Customers
BY DEF RsTypes, Exists

\* A step that touches neither customers nor ledger.
LEMMA NoBooksTouched ==
    ASSUME RsInv, UNCHANGED <<rsLedger, rsSubject>>, rsTerms' \in [Sellers -> TermRows], JobInv'
    PROVE  RsInv'
BY DEF RsInv, RsTypes, BooksInv, Paid, Charges, Exists

\* The job stands still.
LEMMA JobKept == JobInv /\ UNCHANGED rsJob => JobInv'
BY DEF JobInv

\* A new customer is created, with its charge if it costs anything.
LEMMA CustomerAdded ==
    ASSUME RsInv, JobInv', rsTerms' = rsTerms, NextId \in Ids,
           NEW row \in Customers, rsSubject' = [rsSubject EXCEPT ![NextId] = row],
           \/ row.cost = 0 /\ rsLedger' = rsLedger
           \/ /\ row.cost = 1
              /\ \E m \in Movement : /\ rsLedger' = rsLedger \cup {m} /\ m.subject = NextId
                                     /\ m.delta = -1 /\ m.of = row.owner
    PROVE  RsInv'
<1>0. PICK n \in Ids : n = NextId
  OBVIOUS
<1>1. ~ Exists(n) /\ n # 0
  BY <1>0, GreatestId
<1>2. \A t \in Ids : rsSubject'[t] = IF t = n THEN row ELSE rsSubject[t]
  BY <1>0 DEF RsInv, RsTypes
<1>3. RsTypes'
  <2>1. rsLedger' \subseteq Movement
    BY DEF RsInv, RsTypes
  <2>2. rsSubject' \in [Ids -> Customers \cup {NoSubject}]
    BY DEF RsInv, RsTypes
  <2> QED
    BY <2>1, <2>2 DEF RsInv, RsTypes
<1>4. row # NoSubject
  BY CustomerRows
<1>5. Charges(n) = {}
  BY <1>1 DEF RsInv, BooksInv, Charges
<1>6. \A t \in Ids : Exists(t)' <=> Exists(t) \/ t = n
  BY <1>1, <1>2, <1>4 DEF Exists
<1>7. \A m \in rsLedger' : m \in rsLedger \/ m.subject = n
  BY <1>0
<1>8. \A m \in rsLedger : m \in rsLedger'
  OBVIOUS
<1>9. ASSUME NEW t \in Ids, t # n, Exists(t) PROVE Paid(t)'
  <2>1. Charges(t)' = Charges(t)
    BY <1>7, <1>8, <1>9 DEF Charges
  <2> QED
    BY <1>2, <1>8, <1>9, <2>1 DEF RsInv, BooksInv, Paid
<1>10. Paid(n)'
  <2>1. CASE row.cost = 0 /\ rsLedger' = rsLedger
    <3>1. Charges(n)' = {}
      BY <1>5, <2>1 DEF Charges
    <3> QED
      BY <1>1, <1>2, <2>1, <3>1 DEF Paid
  <2>2. ASSUME row.cost = 1, NEW m \in Movement, rsLedger' = rsLedger \cup {m}, m.subject = n,
               m.delta = -1, m.of = row.owner
        PROVE  Paid(n)'
    <3>1. Charges(n)' = {m}
      BY <1>5, <2>2 DEF Charges
    <3> QED
      BY <1>1, <1>2, <2>2, <3>1 DEF Paid
  <2> QED
    BY <1>0, <2>1, <2>2
<1>11. \A m \in rsLedger' : m.subject = 0 \/ Exists(m.subject)'
  <2>1. \A m \in rsLedger' : m.subject = n \/ m.subject = 0 \/ Exists(m.subject)
    BY <1>7 DEF RsInv, BooksInv
  <2>2. \A t : Exists(t) => t \in Ids
    BY DEF Exists
  <2> QED
    BY <1>1, <1>6, <2>1, <2>2
<1> QED
  BY <1>3, <1>6, <1>9, <1>10, <1>11 DEF RsInv, BooksInv

\* A customer goes and the ledger forgets whom the charge was for.
LEMMA CustomerDropped ==
    ASSUME RsInv, JobInv', rsTerms' = rsTerms, NEW s, DeleteSubject(s)
    PROVE  RsInv'
<1>1. /\ Exists(s) /\ s \in Ids /\ s # 0
      /\ rsSubject' = [rsSubject EXCEPT ![s] = NoSubject]
      /\ rsLedger' = {IF m.subject = s THEN [m EXCEPT !.subject = 0] ELSE m : m \in rsLedger}
  BY DEF DeleteSubject, Exists, Ids
<1>2. \A t \in Ids : rsSubject'[t] = IF t = s THEN NoSubject ELSE rsSubject[t]
  BY <1>1 DEF RsInv, RsTypes
<1>3. \A m \in Movement : [m EXCEPT !.subject = 0] \in Movement /\ [m EXCEPT !.subject = 0].subject = 0
  BY ResellersAssumption DEF Movement
<1>4. rsLedger \subseteq Movement
  BY DEF RsInv, RsTypes
<1>5. \A m \in rsLedger' : (m \in rsLedger /\ m.subject # s) \/ (m.subject = 0 /\ m \in Movement)
  BY <1>1, <1>3, <1>4
<1>6. \A m \in rsLedger : m.subject # s => m \in rsLedger'
  BY <1>1
<1>7. \A t \in Ids : Exists(t)' <=> Exists(t) /\ t # s
  BY <1>1, <1>2 DEF Exists
<1>8. RsTypes'
  <2>1. rsLedger' \subseteq Movement
    BY <1>4, <1>5
  <2>2. rsSubject' \in [Ids -> Customers \cup {NoSubject}]
    BY <1>1 DEF RsInv, RsTypes
  <2> QED
    BY <2>1, <2>2 DEF RsInv, RsTypes
<1>9. ASSUME NEW t \in Ids, t # s, Exists(t) PROVE Paid(t)'
  <2>1. t # 0
    BY DEF Ids
  <2>2. Charges(t)' = Charges(t)
    BY <1>5, <1>6, <1>9, <2>1 DEF Charges
  <2>3. \A m \in Charges(t) : m \in rsLedger'
    BY <2>2 DEF Charges
  <2> QED
    BY <1>2, <1>9, <2>2, <2>3 DEF RsInv, BooksInv, Paid
<1>10. \A m \in rsLedger' : m.subject = 0 \/ Exists(m.subject)'
  <2>1. \A t : Exists(t) => t \in Ids
    BY DEF Exists
  <2> QED
    BY <1>5, <1>7, <2>1 DEF RsInv, BooksInv
<1> QED
  BY <1>7, <1>8, <1>9, <1>10 DEF RsInv, BooksInv

-----------------------------------------------------------------------------
(* Steps of the reseller service. *)

\* A customer is created and charged for at once.
LEMMA Provisioned ==
    ASSUME RsInv, JobInv', rsTerms' = rsTerms, NEW r \in Sellers, NEW key \in Keys, NEW name \in Names,
           NEW cost \in {0, 1}, NEW quota \in {0, 1}, NEW id, ProvisionSubject(r, key, name, cost, quota, id)
    PROVE  RsInv'
<1>1. CASE UNCHANGED <<rsSubject, rsLedger>>
  BY <1>1, NoBooksTouched DEF RsInv, RsTypes
<1>2. CASE Prior(r, key) = {} /\ NewCustomer(r, key, name, cost, quota)
  <2> DEFINE row == NewSubject(name, r, cost, quota)
             m == [of |-> r, key |-> key, delta |-> -1, subject |-> NextId]
  <2>1. row \in Customers /\ row.cost = cost /\ row.owner = r
    BY NewCustomerRow
  <2>2. NextId \in Ids /\ rsSubject' = [rsSubject EXCEPT ![NextId] = row]
    BY <1>2 DEF NewCustomer
  <2>3. cost = 0 => rsLedger' = rsLedger
    BY <1>2 DEF NewCustomer
  <2>4. cost = 1 => rsLedger' = rsLedger \cup {m}
    BY <1>2 DEF NewCustomer, Credit, Prior
  <2>5. m \in Movement /\ m.subject = NextId /\ m.delta = -1 /\ m.of = r
    BY <2>2 DEF Movement, Ids
  <2> HIDE DEF row, m
  <2> QED
    BY <2>1, <2>2, <2>3, <2>4, <2>5, CustomerAdded
<1> QED
  BY <1>1, <1>2 DEF ProvisionSubject

\* A customer without an owner is created and not charged for.
LEMMA Created ==
    ASSUME RsInv, JobInv', rsTerms' = rsTerms, NEW name \in Names, CreateSubject(name)
    PROVE  RsInv'
<1> DEFINE zero == 0
           row == NewSubject(name, Platform, zero, zero)
<1>1. zero \in {0, 1} /\ Platform \in Sellers \cup {Platform}
  OBVIOUS
<1>2. NextId \in Ids /\ rsSubject' = [rsSubject EXCEPT ![NextId] = row] /\ rsLedger' = rsLedger
  BY DEF CreateSubject
<1> HIDE DEF zero
<1>3. row \in Customers /\ row.cost = zero
  BY <1>1, NewCustomerRow
<1> HIDE DEF row
<1> QED
  BY <1>2, <1>3, CustomerAdded DEF zero

\* What administrators do to resellers leaves customers and their charges alone.
LEMMA AdministratorSteps ==
    ASSUME RsInv, NEW r \in Sellers
    PROVE  /\ \A terms \in Offers : handleCreateReseller(r, terms) => RsInv'
           /\ \A terms \in Offers : handleUpdateReseller(r, terms) => RsInv'
           /\ handleDeleteReseller(r) => RsInv'
           /\ \A k \in ClientKeys, delta \in {-1, 1, 2} :
                  handleGrantCredit(r, ClientKey(k), delta) => RsInv'
<1>0. /\ rsTerms \in [Sellers -> TermRows] /\ rsLedger \subseteq Movement
      /\ rsSubject \in [Ids -> Customers \cup {NoSubject}] /\ JobInv
      /\ \A terms \in Offers : terms \in TermRows /\ Enabled(terms) \in TermRows
      /\ Absent \in TermRows
  BY DEF RsInv, RsTypes, TermRows
<1>1. ASSUME NEW terms \in Offers, handleCreateReseller(r, terms) PROVE RsInv'
  BY <1>0, <1>1, NoBooksTouched, JobKept DEF handleCreateReseller, CreateReseller, ResellerRequest
<1>2. ASSUME NEW terms \in Offers, handleUpdateReseller(r, terms) PROVE RsInv'
  BY <1>0, <1>2, NoBooksTouched, JobKept DEF handleUpdateReseller, UpdateReseller, ResellerRequest
<1>3. ASSUME handleDeleteReseller(r) PROVE RsInv'
  <2>1. /\ Owned(r) = {} /\ rsTerms' \in [Sellers -> TermRows]
        /\ rsLedger' = rsLedger \ Movements(r) /\ UNCHANGED <<rsSubject, rsJob>>
    BY <1>0, <1>3 DEF handleDeleteReseller, DeleteReseller, ResellerRequest
  <2>2. RsTypes'
    BY <1>0, <2>1, JobKept DEF RsTypes
  <2>3. ASSUME NEW s \in Ids, Exists(s) PROVE Paid(s)'
    <3>1. Paid(s) /\ rsSubject[s].owner # r
      BY <2>1, <2>3 DEF RsInv, BooksInv, Owned
    <3>2. CASE Charges(s) = {}
      <4>1. Charges(s)' = {}
        BY <2>1, <3>2 DEF Charges
      <4> QED
        BY <2>1, <3>1, <3>2, <4>1 DEF Paid
    <3>3. ASSUME NEW m \in rsLedger, Charges(s) = {m}, m.of = rsSubject[s].owner, m.delta = -1,
                 rsSubject[s].cost = 1
          PROVE  Paid(s)'
      <4>1. m \in rsLedger'
        BY <2>1, <3>1, <3>3 DEF Movements
      <4>2. Charges(s)' = {m}
        BY <2>1, <3>3, <4>1 DEF Charges
      <4> QED
        BY <2>1, <3>3, <4>1, <4>2 DEF Paid
    <3> QED
      BY <3>1, <3>2, <3>3 DEF Paid
  <2>4. BooksInv'
    BY <2>1, <2>3 DEF RsInv, BooksInv, Exists
  <2> QED
    BY <2>2, <2>4 DEF RsInv
<1>4. ASSUME NEW k \in ClientKeys, NEW delta \in {-1, 1, 2}, handleGrantCredit(r, ClientKey(k), delta)
      PROVE  RsInv'
  <2> DEFINE m == [of |-> r, key |-> ClientKey(k), delta |-> delta, subject |-> 0]
  <2>1. /\ rsLedger' = rsLedger \/ rsLedger' = rsLedger \cup {m}
        /\ UNCHANGED <<rsTerms, rsSubject, rsJob>>
    BY <1>4 DEF handleGrantCredit, GrantCredit, Credit, ResellerRequest
  <2>2. m \in Movement /\ m.subject = 0
    <3>1. ClientKey(k) \in Keys /\ 0 \in 0 .. MaxSubjects
      BY ResellersAssumption DEF Keys
    <3> QED
      BY <3>1 DEF Movement
  <2> HIDE DEF m
  <2>3. RsTypes'
    BY <1>0, <2>1, <2>2, JobKept DEF RsTypes
  <2>4. ASSUME NEW s \in Ids PROVE Charges(s)' = Charges(s)
    BY <2>1, <2>2 DEF Charges, Ids
  <2>5. ASSUME NEW s \in Ids, Exists(s) PROVE Paid(s)'
    <3>1. rsLedger \subseteq rsLedger'
      BY <2>1
    <3> QED
      BY <2>1, <2>4, <2>5, <3>1 DEF RsInv, BooksInv, Paid
  <2>6. BooksInv'
    BY <2>1, <2>2, <2>5 DEF RsInv, BooksInv, Exists
  <2> QED
    BY <2>3, <2>6 DEF RsInv
<1> QED
  BY <1>1, <1>2, <1>3, <1>4

\* Creating and deleting single customers.
LEMMA CustomerSteps ==
    ASSUME RsInv
    PROVE  /\ \A r \in Sellers, k \in ClientKeys, name \in Names, cost \in {0, 1}, quota \in {0, 1} :
                  handleProvisionSubject(r, ClientKey(k), name, cost, quota) => RsInv'
           /\ \A name \in Names : handleCreateSubject(name) => RsInv'
           /\ \A s \in Ids : handleDeleteSubject(s) => RsInv'
<1>0. JobInv /\ \A k \in ClientKeys : ClientKey(k) \in Keys
  BY DEF Keys, RsInv, RsTypes
<1>1. ASSUME NEW r \in Sellers, NEW k \in ClientKeys, NEW name \in Names, NEW cost \in {0, 1},
             NEW quota \in {0, 1}, handleProvisionSubject(r, ClientKey(k), name, cost, quota)
      PROVE  RsInv'
  BY <1>0, <1>1, Provisioned, JobKept DEF handleProvisionSubject
<1>2. ASSUME NEW name \in Names, handleCreateSubject(name) PROVE RsInv'
  BY <1>0, <1>2, Created, JobKept DEF handleCreateSubject
<1>3. ASSUME NEW s \in Ids, handleDeleteSubject(s) PROVE RsInv'
  BY <1>0, <1>3, CustomerDropped, JobKept DEF handleDeleteSubject
<1> QED
  BY <1>1, <1>2, <1>3

\* The fields of the job.
LEMMA JobIs ==
    ASSUME RsInv
    PROVE  /\ rsJob \in Jobs /\ (rsJob.op = "import" => rsJob.csv \in Uploads)
           /\ rsJob.left \subseteq Ids \cup Names /\ rsJob.by \in Sellers \cup {Platform}
           /\ rsJob.cost \in {0, 1} /\ rsJob.todo \subseteq {"quota", "disable", "freeze"}
           /\ rsJob.read \in 0 .. MaxTerm /\ rsJob.id \in 0 .. MaxSubjects
           /\ rsTerms \in [Sellers -> TermRows]
BY DEF RsInv, RsTypes, JobInv, Jobs

\* A bulk job starts, authorises, skips and ends.
LEMMA BulkSteps ==
    ASSUME RsInv
    PROVE  /\ \A op \in {"enable", "disable", "extend", "delete", "quota"},
                 by \in Sellers \cup {Platform}, ids \in (SUBSET Ids) \ {{}} : handleBulk(op, by, ids) => RsInv'
           /\ \A s \in Ids : BulkAuthorise(s) => RsInv'
           /\ \A s \in Ids : BulkSkip(s) => RsInv'
           /\ JobEnds => RsInv'
<1> USE JobIs
<1>1. ASSUME NEW op \in {"enable", "disable", "extend", "delete", "quota"},
             NEW by \in Sellers \cup {Platform}, NEW ids \in (SUBSET Ids) \ {{}}, handleBulk(op, by, ids)
      PROVE  RsInv'
  <2> DEFINE rest == IF by = Platform THEN ids ELSE scopeFilterSubjectIDs(by, ids)
  <2>1. rest \in SUBSET (Ids \cup Names)
    BY DEF scopeFilterSubjectIDs
  <2>2. rsJob' = [Idle EXCEPT !.op = op, !.by = by, !.left = rest]
    BY <1>1 DEF handleBulk
  <2> HIDE DEF rest
  <2>3. JobInv'
    BY <2>1, <2>2, IdleJob DEF JobInv
  <2> QED
    BY <1>1, <2>3, NoBooksTouched DEF handleBulk
<1>2. ASSUME NEW s \in Ids, BulkAuthorise(s) PROVE RsInv'
  <2> DEFINE rest == rsJob.left \ {s}
             x == rsSubject[s].expiry
  <2>1. rsJob' = [rsJob EXCEPT !.left = rest, !.id = s, !.read = x]
    BY <1>2 DEF BulkAuthorise
  <2>2. rest \in SUBSET (Ids \cup Names) /\ s \in 0 .. MaxSubjects
    BY DEF Ids
  <2>3. x \in 0 .. MaxTerm
    BY <1>2, IsACustomer DEF BulkAuthorise, InScope, Customers, RsInv
  <2> HIDE DEF rest, x
  <2>4. JobInv'
    BY <2>1, <2>2, <2>3, JobUpdates, JobMoves
  <2> QED
    BY <1>2, <2>4, NoBooksTouched DEF BulkAuthorise
<1>3. ASSUME NEW s \in Ids, BulkSkip(s) PROVE RsInv'
  <2> DEFINE rest == rsJob.left \ {s}
             zero == 0
  <2>1. rest \in SUBSET (Ids \cup Names) /\ zero \in 0 .. MaxSubjects
    BY ResellersAssumption
  <2>2. rsJob' = [rsJob EXCEPT !.id = zero] \/ rsJob' = [rsJob EXCEPT !.left = rest]
    BY <1>3 DEF BulkSkip
  <2> HIDE DEF rest, zero
  <2>3. SameKind([rsJob EXCEPT !.id = zero], rsJob) /\ SameKind([rsJob EXCEPT !.left = rest], rsJob)
    BY <2>1, JobUpdates
  <2>4. JobInv'
    BY <2>2, <2>3, JobMoves
  <2> QED
    BY <1>3, <2>4, NoBooksTouched DEF BulkSkip
<1>4. ASSUME JobEnds PROVE RsInv'
  <2>1. JobInv'
    BY <1>4, IdleJob DEF JobEnds, JobInv
  <2> QED
    BY <1>4, <2>1, NoBooksTouched DEF JobEnds
<1> QED
  BY <1>1, <1>2, <1>3, <1>4

\* A bulk job writes the customer it has authorised.
LEMMA BulkWrites ==
    ASSUME RsInv
    PROVE  /\ BulkWrite => RsInv'
           /\ \A quota \in {0, 1} : handleBulkSetQuota(quota) => RsInv'
<1> USE JobIs
<1>1. ASSUME BulkWrite PROVE RsInv'
  <2> DEFINE zero == 0
  <2>1. JobInv'
    <3>1. zero \in 0 .. MaxSubjects
      BY ResellersAssumption
    <3>2. rsJob' = [rsJob EXCEPT !.id = zero]
      BY <1>1 DEF BulkWrite
    <3> HIDE DEF zero
    <3> QED
      BY <3>1, <3>2, JobUpdates, JobMoves
  <2>2. rsTerms' = rsTerms
    BY <1>1 DEF BulkWrite
  <2>3. PICK s \in Ids : s = rsJob.id
    BY <1>1 DEF BulkWrite
  <2>4. ASSUME NEW b \in BOOLEAN, SetEnabledTo(s, b) PROVE RsInv'
    <3>1. Exists(s) /\ rsSubject[s] \in Customers
      BY <2>4, IsACustomer DEF SetEnabledTo, RsInv
    <3>2. rsSubject' = [rsSubject EXCEPT ![s] = [rsSubject[s] EXCEPT !.enabled = b]] /\ rsLedger' = rsLedger
      BY <2>4 DEF SetEnabledTo
    <3>3. /\ [rsSubject[s] EXCEPT !.enabled = b] \in Customers
          /\ [rsSubject[s] EXCEPT !.enabled = b].cost = rsSubject[s].cost
          /\ [rsSubject[s] EXCEPT !.enabled = b].owner = rsSubject[s].owner
      BY <3>1, CustomerRows
    <3> QED
      BY <2>1, <2>2, <3>1, <3>2, <3>3, CustomerEdited
  <2>5. ASSUME ExtendFrom(s, rsJob.read) PROVE RsInv'
    <3> DEFINE x == rsJob.read + 1
    <3>1. Exists(s) /\ rsSubject[s] \in Customers
      BY <2>5, IsACustomer DEF ExtendFrom, RsInv
    <3>2. rsSubject' = [rsSubject EXCEPT ![s] = [rsSubject[s] EXCEPT !.expiry = x]] /\ rsLedger' = rsLedger
      BY <2>5 DEF ExtendFrom
    <3>3. x \in 0 .. MaxTerm
      BY <2>5 DEF ExtendFrom, MaxTerm
    <3> HIDE DEF x
    <3>4. /\ [rsSubject[s] EXCEPT !.expiry = x] \in Customers
          /\ [rsSubject[s] EXCEPT !.expiry = x].cost = rsSubject[s].cost
          /\ [rsSubject[s] EXCEPT !.expiry = x].owner = rsSubject[s].owner
      BY <3>1, <3>3, CustomerRows
    <3> QED
      BY <2>1, <2>2, <3>1, <3>2, <3>4, CustomerEdited
  <2>6. ASSUME DeleteSubject(s) PROVE RsInv'
    BY <2>1, <2>2, <2>6, CustomerDropped
  <2>7. \/ SetEnabledTo(s, TRUE) \/ SetEnabledTo(s, FALSE)
        \/ ExtendFrom(s, rsJob.read) \/ DeleteSubject(s)
    BY <1>1, <2>3 DEF BulkWrite, handleBulkEnableSubjects, handleBulkDisableSubjects,
                      handleBulkExtendSubjects, handleBulkDeleteSubjects
  <2> QED
    BY <2>4, <2>5, <2>6, <2>7
<1>2. ASSUME NEW quota \in {0, 1}, handleBulkSetQuota(quota) PROVE RsInv'
  <2>1. JobInv' /\ rsLedger' = rsLedger /\ rsTerms' = rsTerms
    BY <1>2, IdleJob DEF handleBulkSetQuota, JobInv
  <2>2. \A s \in Ids : rsSubject'[s] = IF s \in rsJob.left /\ Exists(s)
                                       THEN [rsSubject[s] EXCEPT !.quota = quota] ELSE rsSubject[s]
    BY <1>2 DEF handleBulkSetQuota
  <2>3. ASSUME NEW s \in Ids, Exists(s)
        PROVE  /\ rsSubject'[s] \in Customers /\ rsSubject'[s].cost = rsSubject[s].cost
               /\ rsSubject'[s].owner = rsSubject[s].owner
    <3>1. rsSubject[s] \in Customers
      BY <2>3, IsACustomer DEF RsInv
    <3>2. /\ [rsSubject[s] EXCEPT !.quota = quota] \in Customers
          /\ [rsSubject[s] EXCEPT !.quota = quota].cost = rsSubject[s].cost
          /\ [rsSubject[s] EXCEPT !.quota = quota].owner = rsSubject[s].owner
      BY <3>1, CustomerRows
    <3> QED
      BY <2>2, <3>1, <3>2
  <2>4. ASSUME NEW s \in Ids PROVE rsSubject'[s] \in Customers \cup {NoSubject} /\ (Exists(s)' <=> Exists(s))
    BY <2>2, <2>3, CustomerRows DEF Exists
  <2>5. rsSubject' = [s \in Ids |-> rsSubject'[s]]
    BY <1>2 DEF handleBulkSetQuota
  <2>6. RsTypes'
    BY <2>1, <2>4, <2>5 DEF RsInv, RsTypes
  <2>7. BooksInv'
    BY <2>1, <2>3, <2>4, SameCustomers DEF RsInv
  <2> QED
    BY <2>6, <2>7 DEF RsInv
<1> QED
  BY <1>1, <1>2

\* An import starts and creates its rows.
LEMMA ImportSteps ==
    ASSUME RsInv
    PROVE  /\ \A by \in Sellers \cup {Platform}, cost \in {0, 1}, csv \in Uploads :
                 handleImportSubjects(by, cost, csv) => RsInv'
           /\ \A name \in Names : ImportRow(name) => RsInv'
           /\ \A name \in Names : ImportRowFails(name) => RsInv'
<1> USE JobIs
<1>1. ASSUME NEW by \in Sellers \cup {Platform}, NEW cost \in {0, 1}, NEW csv \in Uploads,
             handleImportSubjects(by, cost, csv)
      PROVE  RsInv'
  <2>1. csv.rows \in SUBSET (Ids \cup Names)
    BY UploadRows
  <2>2. rsJob' = [Idle EXCEPT !.op = "import", !.by = by, !.left = csv.rows, !.cost = cost, !.csv = csv]
    BY <1>1 DEF handleImportSubjects
  <2> DEFINE job == [Idle EXCEPT !.op = "import", !.by = by, !.left = csv.rows, !.cost = cost, !.csv = csv]
  <2>3. job \in Jobs /\ job.csv = csv
    <3>1. Idle \in Jobs
      BY IdleJob
    <3> QED
      BY <2>1, <3>1 DEF Jobs
  <2> HIDE DEF job
  <2>4. JobInv'
    BY <2>2, <2>3 DEF JobInv, job
  <2> QED
    BY <1>1, <2>4, NoBooksTouched DEF handleImportSubjects
<1>2. ASSUME NEW name \in Names, ImportRow(name) PROVE RsInv'
  <2> DEFINE csv == rsJob.csv
             ws == After(csv)
             rest == rsJob.left \ {name}
  <2>1. PICK id \in 0 .. MaxSubjects :
          /\ IF rsJob.by = Platform THEN CreateSubject(name) /\ id = NextId
             ELSE ProvisionSubject(rsJob.by, importKey(csv, name), name, rsJob.cost, csv.quota, id)
          /\ rsJob' = [rsJob EXCEPT !.left = rest, !.id = id, !.todo = ws]
    BY <1>2 DEF ImportRow
  <2>2. ws \in SUBSET {"quota", "disable", "freeze"} /\ rest \in SUBSET (Ids \cup Names)
    BY DEF After
  <2>3. csv \in Uploads /\ csv.quota \in {0, 1}
    BY <1>2, UploadRows DEF ImportRow
  <2>4. importKey(csv, name) \in Keys
    BY <2>3 DEF Keys
  <2> HIDE DEF ws, csv, rest
  <2>5. JobInv'
    BY <2>1, <2>2, JobUpdates, JobMoves
  <2>6. rsTerms' = rsTerms
    BY <1>2 DEF ImportRow
  <2>7. CASE rsJob.by = Platform
    BY <2>1, <2>5, <2>6, <2>7, Created
  <2>8. CASE rsJob.by # Platform
    <3>1. rsJob.by \in Sellers
      BY <2>8
    <3> QED
      BY <2>1, <2>3, <2>4, <2>5, <2>6, <2>8, <3>1, Provisioned
  <2> QED
    BY <2>7, <2>8
<1>3. ASSUME NEW name \in Names, ImportRowFails(name) PROVE RsInv'
  <2> DEFINE rest == rsJob.left \ {name}
             none == {}
  <2>0. rest \in SUBSET (Ids \cup Names) /\ none \in SUBSET {"quota", "disable", "freeze"}
    OBVIOUS
  <2>1. rsJob' = [rsJob EXCEPT !.left = rest] \/ rsJob' = [rsJob EXCEPT !.todo = none]
    BY <1>3 DEF ImportRowFails
  <2> HIDE DEF rest, none
  <2>2. JobInv'
    <3>1. SameKind([rsJob EXCEPT !.left = rest], rsJob) /\ SameKind([rsJob EXCEPT !.todo = none], rsJob)
      BY <2>0, JobUpdates
    <3> QED
      BY <2>1, <3>1, JobMoves
  <2> QED
    BY <1>3, <2>2, NoBooksTouched DEF ImportRowFails
<1> QED
  BY <1>1, <1>2, <1>3

\* An import writes what its columns ask for.
LEMMA ImportWrites ==
    RsInv /\ ImportWrite => RsInv'
<1> SUFFICES ASSUME RsInv, ImportWrite PROVE RsInv'
  OBVIOUS
<1> USE JobIs
<1>1. PICK ws \in SUBSET {"quota", "disable", "freeze"} : rsJob' = [rsJob EXCEPT !.todo = ws]
  <2>1. /\ rsJob.todo \ {"quota"} \in SUBSET {"quota", "disable", "freeze"}
        /\ rsJob.todo \ {"disable"} \in SUBSET {"quota", "disable", "freeze"}
        /\ {} \in SUBSET {"quota", "disable", "freeze"}
    OBVIOUS
  <2> QED
    BY <2>1 DEF ImportWrite
<1>2. JobInv' /\ rsTerms' = rsTerms /\ rsLedger' = rsLedger
  BY <1>1, JobUpdates, JobMoves DEF ImportWrite
<1>3. rsJob.csv.quota \in {0, 1}
  BY UploadRows DEF ImportWrite
<1>4. CASE UNCHANGED rsSubject
  BY <1>2, <1>4, NoBooksTouched
<1>5. CASE Exists(rsJob.id) /\ rsSubject' = [rsSubject EXCEPT ![rsJob.id].quota = rsJob.csv.quota]
  <2> DEFINE row == [rsSubject[rsJob.id] EXCEPT !.quota = rsJob.csv.quota]
  <2>1. rsJob.id \in Ids /\ rsSubject[rsJob.id] \in Customers
    BY <1>5, IsACustomer DEF RsInv
  <2>2. row \in Customers /\ row.cost = rsSubject[rsJob.id].cost /\ row.owner = rsSubject[rsJob.id].owner
    BY <1>3, <2>1, CustomerRows
  <2>3. rsSubject' = [rsSubject EXCEPT ![rsJob.id] = row]
    BY <1>5
  <2> HIDE DEF row
  <2> QED
    BY <1>2, <1>5, <2>1, <2>2, <2>3, CustomerEdited
<1>6. CASE Exists(rsJob.id) /\ rsSubject' = [rsSubject EXCEPT ![rsJob.id].enabled = FALSE]
  <2> DEFINE no == FALSE
             row == [rsSubject[rsJob.id] EXCEPT !.enabled = no]
  <2>0. no \in BOOLEAN
    OBVIOUS
  <2>1. rsJob.id \in Ids /\ rsSubject[rsJob.id] \in Customers
    BY <1>6, IsACustomer DEF RsInv
  <2>3. rsSubject' = [rsSubject EXCEPT ![rsJob.id] = row]
    BY <1>6
  <2> HIDE DEF no
  <2>2. row \in Customers /\ row.cost = rsSubject[rsJob.id].cost /\ row.owner = rsSubject[rsJob.id].owner
    BY <2>0, <2>1, CustomerRows
  <2> HIDE DEF row
  <2> QED
    BY <1>2, <1>6, <2>1, <2>2, <2>3, CustomerEdited
<1>7. CASE Exists(rsJob.id) /\ rsSubject' = [rsSubject EXCEPT ![rsJob.id].frozen = TRUE]
  <2> DEFINE yes == TRUE
             row == [rsSubject[rsJob.id] EXCEPT !.frozen = yes]
  <2>0. yes \in BOOLEAN
    OBVIOUS
  <2>1. rsJob.id \in Ids /\ rsSubject[rsJob.id] \in Customers
    BY <1>7, IsACustomer DEF RsInv
  <2>3. rsSubject' = [rsSubject EXCEPT ![rsJob.id] = row]
    BY <1>7
  <2> HIDE DEF yes
  <2>2. row \in Customers /\ row.cost = rsSubject[rsJob.id].cost /\ row.owner = rsSubject[rsJob.id].owner
    BY <2>0, <2>1, CustomerRows
  <2> HIDE DEF row
  <2> QED
    BY <1>2, <1>7, <2>1, <2>2, <2>3, CustomerEdited
<1> QED
  BY <1>4, <1>5, <1>6, <1>7 DEF ImportWrite

\* Every step of the reseller service keeps the books.
LEMMA RsStep == RsInv /\ [RsNext]_rsVars => RsInv'
<1> SUFFICES ASSUME RsInv, [RsNext]_rsVars PROVE RsInv'
  OBVIOUS
<1>1. CASE UNCHANGED rsVars
  BY <1>1, NoBooksTouched, JobKept DEF rsVars, RsInv, RsTypes
<1>2. CASE \/ \E r \in Sellers, terms \in Offers :
                    handleCreateReseller(r, terms) \/ handleUpdateReseller(r, terms)
           \/ \E r \in Sellers : handleDeleteReseller(r)
           \/ \E r \in Sellers, key \in ClientKeys, delta \in {-1, 1, 2} :
                    handleGrantCredit(r, ClientKey(key), delta)
  BY <1>2, AdministratorSteps
<1>3. CASE \/ \E r \in Sellers, key \in ClientKeys, name \in Names, cost \in {0, 1}, quota \in {0, 1} :
                    handleProvisionSubject(r, ClientKey(key), name, cost, quota)
           \/ \E name \in Names : handleCreateSubject(name)
           \/ \E s \in Ids : handleDeleteSubject(s)
  BY <1>3, CustomerSteps
<1>4. CASE \E op \in {"enable", "disable", "extend", "delete", "quota"},
              by \in Sellers \cup {Platform}, ids \in (SUBSET Ids) \ {{}} : handleBulk(op, by, ids)
  BY <1>4, BulkSteps
<1>5. CASE \/ \E s \in Ids : BulkAuthorise(s) \/ BulkSkip(s)
           \/ JobEnds \/ BulkWrite \/ \E quota \in {0, 1} : handleBulkSetQuota(quota)
  BY <1>5, BulkSteps, BulkWrites
<1>6. CASE \E by \in Sellers \cup {Platform}, cost \in {0, 1}, csv \in Uploads :
                handleImportSubjects(by, cost, csv)
  BY <1>6, ImportSteps
<1>7. CASE ImportWrite \/ \E name \in Names : ImportRow(name) \/ ImportRowFails(name)
  BY <1>7, ImportSteps, ImportWrites
<1> QED
  BY <1>1, <1>2, <1>3, <1>4, <1>5, <1>6, <1>7 DEF RsNext

\* There are no customers to begin with.
LEMMA RsInitially == RsInit => RsInv
<1> SUFFICES ASSUME RsInit PROVE RsInv
  OBVIOUS
<1>1. JobInv
  BY IdleJob DEF RsInit, JobInv, Platform
<1>2. RsTypes
  BY <1>1 DEF RsInit, RsTypes, TermRows
<1>3. BooksInv
  BY DEF RsInit, BooksInv, Exists
<1> QED
  BY <1>2, <1>3 DEF RsInv

\* A customer with one charge, or with none and no cost, is paid for.
LEMMA BooksBalance == RsInv => RsTypeOK /\ CustomersArePaidFor
<1> SUFFICES ASSUME RsInv PROVE RsTypeOK /\ CustomersArePaidFor
  OBVIOUS
<1>1. RsTypeOK
  BY DEF RsInv, RsTypes, RsTypeOK, TermRows, Movement
<1>2. ASSUME NEW s \in Ids, Exists(s)
      PROVE  MapThenSumSet(LAMBDA m : m.delta, Charges(s)) = -rsSubject[s].cost
  <2>1. Paid(s)
    BY <1>2 DEF RsInv, BooksInv
  <2>2. CASE rsSubject[s].cost = 0 /\ Charges(s) = {}
    BY <2>2, EmptySum
  <2>3. ASSUME rsSubject[s].cost = 1, NEW m \in rsLedger, Charges(s) = {m}, m.delta = -1
        PROVE  MapThenSumSet(LAMBDA x : x.delta, Charges(s)) = -rsSubject[s].cost
    BY <2>3, SingleSum
  <2> QED
    BY <2>1, <2>2, <2>3 DEF Paid
<1>3. ASSUME NEW m \in rsLedger, m.subject # 0 PROVE rsSubject[m.subject].owner = m.of
  <2>1. Exists(m.subject) /\ m.subject \in Ids
    BY <1>3 DEF RsInv, BooksInv, Exists
  <2>2. m \in Charges(m.subject) /\ Paid(m.subject)
    BY <2>1 DEF Charges, RsInv, BooksInv
  <2> QED
    BY <2>2 DEF Paid
<1> QED
  BY <1>1, <1>2, <1>3 DEF CustomersArePaidFor, Charges

\* The invariant holds throughout.
LEMMA RsInvariant == RsSpec => []RsInv
BY RsInitially, RsStep, PTL DEF RsSpec

\* Terms, customers, ledger and the running job of the reseller service
\* (resellers.go, bulk.go, the import handler) keep their types.
THEOREM RsTypeCorrect == RsSpec => []RsTypeOK
BY RsInvariant, BooksBalance, PTL

\* Provisioning, import, bulk jobs and deletion (resellers.go) keep the ledger and
\* the customers in step: a customer that exists was charged exactly its cost, once,
\* to the reseller that owns it, and every charge is for such a customer.
THEOREM CustomersPaidFor == RsSpec => []CustomersArePaidFor
BY RsInvariant, BooksBalance, PTL

-----------------------------------------------------------------------------
(* The three together, as the runs explore them. *)

\* What is explored of the three is what each does on its own.
LEMMA EntitlementsAreAll == EntitlementsSpec => RsSpec /\ AuSpec /\ EfSpec
<1>1. EntitlementsInit => RsInit /\ AuInit /\ EfInit
  BY DEF EntitlementsInit
<1>2. [EntitlementsNext]_entitlementVars => [RsNext]_rsVars /\ [AuNext]_auVars /\ [EfNext]_efVars
  BY DEF EntitlementsNext, entitlementVars
<1> QED
  BY <1>1, <1>2, PTL DEF EntitlementsSpec, RsSpec, AuSpec, EfSpec

\* In every state of the composed runs the rows of resellers, customers, ledger and
\* job, of accounts, sessions and sign-ins, of policies, connections and trackers
\* have their types, and each part keeps its own promise.
THEOREM EntitlementsCorrect ==
    EntitlementsSpec =>
        [](/\ EntitlementsTypeOK
           /\ CustomersArePaidFor
           /\ RecoveryCodeUsedOnce
           /\ GuessesAreLimited
           /\ ConnectionLimitHolds)
<1>1. RsTypeOK /\ AuTypeOK /\ EfTypeOK => EntitlementsTypeOK
  BY DEF EntitlementsTypeOK
<1> QED
  BY <1>1, EntitlementsAreAll, RsTypeCorrect, AuTypeCorrect, EfTypeCorrect, CustomersPaidFor,
     RecoveryCodesAreSpentOnce, GuessesStayLimited, ConnectionLimitsHold, PTL
=============================================================================
