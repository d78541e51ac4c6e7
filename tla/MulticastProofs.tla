-------------------------- MODULE MulticastProofs --------------------------
(***************************************************************************)
(* Proofs that scanMulticastGroups is right for every set of addresses,    *)
(* however many share a group.                                             *)
(*                                                                         *)
(* The inductive invariant says of the two vectors how std::unique left    *)
(* them (Tidy), of std::lower_bound what its last probes to the left and   *)
(* to the right saw (Bracketed), and of the two loops what they have       *)
(* collected so far.                                                       *)
(***************************************************************************)
EXTENDS Multicast, FiniteSetTheorems, TLAPS

\* r is what std::unique makes of some sorted vector.
Tidy(r) ==
  \E s \in [DOMAIN r -> Range(r)], k \in 0 .. Len(r) :
    NonDecreasing(s) /\ IsUnique(r, s, k)

\* The element before the range of the search is less than v, the one after
\* it is not.
Bracketed(r, v, f, n) ==
  /\ f = 0 \/ r[f] < v
  /\ f + n = Len(r) \/ ~(r[f + n + 1] < v)

Before(s, n) == {s[i] : i \in 1 .. n - 1}

IInv ==
  /\ TypeOK
  /\ Tidy(groups) /\ Tidy(newGroups)
  /\ subscribed = Range(groups)
  /\ Range(IF pc = "idle" THEN groups ELSE newGroups) = Derived(scanned)
  /\ pc = "idle" => m = 1
  /\ pc # "idle" /\ m <= Len(Walked) => Bracketed(Table, Walked[m], first, len)
  /\ pc = "adding" => /\ added = Before(newGroups, m) \ Range(groups)
                      /\ removed = {}
  /\ pc = "removing" => /\ added = Range(newGroups) \ Range(groups)
                        /\ removed = Before(groups, m) \ Range(newGroups)

-----------------------------------------------------------------------------

\* The front that std::unique makes and the vector it came from have the
\* same values as the whole vector.
LEMMA TidyFacts ==
  ASSUME NEW r \in Seq(Nat), Tidy(r)
  PROVE  \E s \in Seq(Nat), k \in 0 .. Len(r) :
           /\ Len(s) = Len(r)
           /\ \A i, j \in 1 .. Len(r) : i <= j => s[i] <= s[j]
           /\ \A i, j \in 1 .. k : i < j => r[i] < r[j]
           /\ \A i \in k + 1 .. Len(r) : r[i] = s[i]
           /\ \A v \in Range(r) : \E i \in 1 .. k : r[i] = v
           /\ \A v \in Range(r) : \E i \in 1 .. Len(r) : s[i] = v
           /\ \A i \in 1 .. Len(r) : s[i] \in Range(r)
<1>1. PICK s \in [DOMAIN r -> Range(r)], k \in 0 .. Len(r) :
        NonDecreasing(s) /\ IsUnique(r, s, k)
  BY DEF Tidy
<1>2. DOMAIN r = 1 .. Len(r) /\ Len(r) \in Nat /\ Range(r) \subseteq Nat
  BY SMTT(60) DEF Range
<1>3. s \in [1 .. Len(r) -> Nat]
  BY <1>2
<1>4. s \in Seq(Nat) /\ Len(s) = Len(r) /\ DOMAIN s = 1 .. Len(r)
  BY <1>2, <1>3, SMTT(60)
<1>5. \A v \in Range(r) : v \in Range(s)
  <2> SUFFICES ASSUME NEW i \in 1 .. Len(r) PROVE r[i] \in Range(s)
    BY <1>2 DEF Range
  <2>1. CASE i \in 1 .. k
    BY <1>1, <2>1 DEF IsUnique
  <2>2. CASE i \in k + 1 .. Len(r)
    BY <1>1, <1>4, <2>2 DEF IsUnique, Range
  <2> QED BY <1>2, <2>1, <2>2
<1>6. \A v \in Range(r) : \E i \in 1 .. k : r[i] = v
  BY <1>1, <1>5 DEF IsUnique
<1>7. \A v \in Range(r) : \E i \in 1 .. Len(r) : s[i] = v
  BY <1>4, <1>5 DEF Range
<1>8. \A i \in 1 .. Len(r) : s[i] \in Range(r)
  BY <1>2
<1>9. /\ \A i, j \in 1 .. Len(r) : i <= j => s[i] <= s[j]
      /\ \A i, j \in 1 .. k : i < j => r[i] < r[j]
      /\ \A i \in k + 1 .. Len(r) : r[i] = s[i]
  BY <1>1, <1>4 DEF NonDecreasing, IsUnique, Increasing
<1> QED BY <1>4, <1>6, <1>7, <1>8, <1>9

\* std::lower_bound ends at the value it looks for, if the vector has it,
\* although the part behind the front of std::unique may start below the
\* last element of the front.
LEMMA SearchLemma ==
  ASSUME NEW r \in Seq(Nat), Tidy(r), NEW v \in Nat, NEW f \in 0 .. Len(r),
         Bracketed(r, v, f, 0)
  PROVE  (f < Len(r) /\ ~(v < r[f + 1])) <=> v \in Range(r)
<1>1. PICK s \in Seq(Nat), k \in 0 .. Len(r) :
           /\ Len(s) = Len(r)
           /\ \A i, j \in 1 .. Len(r) : i <= j => s[i] <= s[j]
           /\ \A i, j \in 1 .. k : i < j => r[i] < r[j]
           /\ \A i \in k + 1 .. Len(r) : r[i] = s[i]
           /\ \A u \in Range(r) : \E i \in 1 .. k : r[i] = u
           /\ \A u \in Range(r) : \E i \in 1 .. Len(r) : s[i] = u
           /\ \A i \in 1 .. Len(r) : s[i] \in Range(r)
  BY TidyFacts
<1>2. /\ DOMAIN r = 1 .. Len(r) /\ Len(r) \in Nat
      /\ \A i \in 1 .. Len(r) : r[i] \in Nat /\ s[i] \in Nat /\ r[i] \in Range(r)
  BY <1>1, SMTT(60) DEF Range
<1>3. /\ f = 0 \/ r[f] < v
      /\ f = Len(r) \/ ~(r[f + 1] < v)
  BY DEF Bracketed
<1>4. ASSUME f < Len(r), ~(v < r[f + 1]) PROVE v \in Range(r)
  <2>1. f + 1 \in 1 .. Len(r)
    BY <1>2, <1>4
  <2>2. r[f + 1] \in Nat
    BY <1>2, <2>1
  <2>3. r[f + 1] = v
    BY <1>3, <1>4, <2>2
  <2> QED BY <1>2, <2>1, <2>3
<1>5. ASSUME v \in Range(r) PROVE f < Len(r) /\ ~(v < r[f + 1])
  <2>1. PICK p \in 1 .. k : r[p] = v
    BY <1>1, <1>5
  <2>2. PICK q \in 1 .. Len(r) : s[q] = v
    BY <1>1, <1>5
  <2>3. f # k
    <3>1. k \in 1 .. Len(r) /\ p <= k
      BY <1>2
    <3>2. p \in 1 .. k /\ k \in 1 .. k /\ r[p] \in Nat /\ r[k] \in Nat
      BY <1>2, <3>1, SMTT(60)
    <3>3. p < k => r[p] < r[k]
      BY <1>1, <3>2
    <3> SUFFICES ASSUME f = k, r[k] < v PROVE FALSE
      BY <1>3, <3>1
    <3> QED BY <2>1, <3>1, <3>2, <3>3, SMTT(60)
  <2>4. CASE f < k
    <3>1. f + 1 \in 1 .. k /\ f + 1 \in 1 .. Len(r) /\ p \in 1 .. Len(r)
      BY <1>2, <2>4
    <3>2. r[f + 1] \in Nat
      BY <1>2, <3>1
    <3>3. f + 1 < p => r[f + 1] < v
      BY <1>1, <2>1, <3>1
    <3>4. r[f + 1] >= v
      <4>1. f # Len(r)
        BY <2>4
      <4> QED BY <1>3, <3>2, <4>1, SMTT(60)
    <3>5. ~(p <= f)
      <4> SUFFICES ASSUME p <= f PROVE FALSE
        OBVIOUS
      <4>1. f \in 1 .. k /\ f # 0 /\ f \in 1 .. Len(r)
        BY <1>2, <2>4
      <4>2. r[f] \in Nat /\ r[f] < v
        BY <1>2, <1>3, <4>1
      <4>3. p < f => r[p] < r[f]
        BY <1>1, <4>1
      <4> QED BY <2>1, <4>1, <4>2, <4>3, SMTT(60)
    <3>6. p = f + 1
      BY <3>1, <3>2, <3>3, <3>4, <3>5, SMTT(60)
    <3> QED BY <2>1, <2>4, <3>1, <3>6, SMTT(60)
  <2>5. CASE f > k
    <3>1. f \in k + 1 .. Len(r) /\ f \in 1 .. Len(r) /\ f # 0
      BY <1>2, <2>5
    <3>2. s[f] < v
      BY <1>1, <1>3, <3>1
    <3>3. f < q
      <4>1. s[f] \in Nat /\ (q <= f => s[q] <= s[f])
        BY <1>1, <1>2, <3>1
      <4> QED BY <2>2, <3>1, <3>2, <4>1, SMTT(60)
    <3>4. f + 1 \in k + 1 .. Len(r) /\ f + 1 \in 1 .. Len(r) /\ f + 1 <= q
      BY <1>2, <3>1, <3>3
    <3>5. s[f + 1] <= v /\ r[f + 1] = s[f + 1]
      BY <1>1, <2>2, <3>4
    <3> QED BY <1>2, <3>4, <3>5, SMTT(60)
  <2> QED BY <2>3, <2>4, <2>5
<1> QED BY <1>4, <1>5

\* One turn of std::lower_bound keeps the range bracketed.
LEMMA ProbeLemma ==
  ASSUME NEW r \in Seq(Nat), NEW v \in Nat, NEW f \in Nat, NEW n \in Nat,
         f + n <= Len(r), n > 0, Bracketed(r, v, f, n),
         NEW h \in Nat, h < n
  PROVE  /\ r[f + h + 1] < v =>
              /\ f + h + 1 \in Nat /\ n - h - 1 \in Nat
              /\ (f + h + 1) + (n - h - 1) <= Len(r)
              /\ Bracketed(r, v, f + h + 1, n - h - 1)
         /\ ~(r[f + h + 1] < v) => f + h <= Len(r) /\ Bracketed(r, v, f, h)
<1>1. /\ f = 0 \/ r[f] < v
      /\ f + n = Len(r) \/ ~(r[f + n + 1] < v)
  BY DEF Bracketed
<1>2. (f + h + 1) + (n - h - 1) = f + n /\ Len(r) \in Nat
  OBVIOUS
<1>3. ASSUME r[f + h + 1] < v PROVE Bracketed(r, v, f + h + 1, n - h - 1)
  BY <1>1, <1>2, <1>3, Zenon DEF Bracketed
<1>4. ASSUME ~(r[f + h + 1] < v) PROVE Bracketed(r, v, f, h)
  BY <1>1, <1>4, Zenon DEF Bracketed
<1> QED BY <1>2, <1>3, <1>4

\* A search starts with the whole vector as its range.
LEMMA WholeBracketed ==
  ASSUME NEW r \in Seq(Nat), NEW v
  PROVE  Bracketed(r, v, 0, Len(r)) /\ 0 + Len(r) = Len(r)
BY DEF Bracketed

\* What the iterator has passed.
LEMMA BeforeFacts ==
  ASSUME NEW s \in Seq(Nat)
  PROVE  /\ Before(s, 1) = {}
         /\ Before(s, Len(s) + 1) = Range(s)
         /\ \A n \in 1 .. Len(s) : Before(s, n + 1) = Before(s, n) \union {s[n]}
<1>1. Len(s) \in Nat /\ DOMAIN s = 1 .. Len(s)
  OBVIOUS
<1>2. Before(s, 1) = {}
  BY DEF Before
<1>3. Before(s, Len(s) + 1) = Range(s)
  BY <1>1 DEF Before, Range
<1>4. ASSUME NEW n \in 1 .. Len(s)
      PROVE  Before(s, n + 1) = Before(s, n) \union {s[n]}
  <2>1. 1 .. (n + 1) - 1 = (1 .. n - 1) \union {n}
    BY <1>1
  <2> QED BY <2>1, Zenon DEF Before
<1> QED BY <1>2, <1>3, <1>4

\* Sorting and std::unique keep the groups of the addresses and no other.
LEMMA SortFacts ==
  ASSUME NEW S \in SUBSET Addr, NEW s \in Vectors(S), IsSorted(s, S),
         NEW r \in Vectors(S), NEW k \in 0 .. Len(s), IsUnique(r, s, k)
  PROVE  r \in Seq(Nat) /\ Tidy(r) /\ Range(r) = Derived(S)
<1> DEFINE n == Cardinality(S)
<1>1. IsFiniteSet(S) /\ n \in Nat
  BY MulticastAssumption, FS_Subset, FS_CardinalityType
<1>2. Derived(S) \subseteq Nat
  BY MulticastAssumption DEF Derived
<1>3. r \in [1 .. n -> Derived(S)] /\ s \in [1 .. n -> Derived(S)]
  BY DEF Vectors
<1>4. /\ r \in Seq(Nat) /\ Len(r) = n /\ DOMAIN r = 1 .. n
      /\ s \in Seq(Nat) /\ Len(s) = n /\ DOMAIN s = 1 .. n
  <2> HIDE DEF n
  <2> QED BY <1>1, <1>2, <1>3
<1>5. Range(s) = Derived(S)
  <2>1. Range(s) \subseteq Derived(S)
    BY <1>3, <1>4 DEF Range
  <2>2. ASSUME NEW g \in Derived(S) PROVE g \in Range(s)
    <3> DEFINE A == {a \in S : GroupOf[a] = g}
               I == {i \in DOMAIN s : s[i] = g}
    <3>1. A # {}
      BY Zenon DEF Derived
    <3>2. IsFiniteSet(A)
      BY <1>1, FS_Subset, A \subseteq S, Zenon
    <3>3. Cardinality(A) # 0
      BY <3>1, <3>2, FS_EmptySet, Zenon
    <3>4. Cardinality(I) = Cardinality(A)
      BY Zenon DEF IsSorted
    <3>5. I # {}
      BY <3>3, <3>4, FS_EmptySet, Zenon
    <3> QED BY <3>5, Zenon DEF Range
  <2> QED BY <2>1, <2>2
<1>6. Range(r) = Range(s)
  <2>1. \A i \in 1 .. n : r[i] \in Range(s)
    BY <1>3, <1>5
  <2>2. Range(r) \subseteq Range(s)
    BY <1>4, <2>1, Zenon DEF Range
  <2>3. 1 .. k \subseteq 1 .. n
    BY <1>1, <1>4
  <2>4. Range(s) \subseteq Range(r)
    BY <1>4, <2>3, Zenon DEF IsUnique, Range
  <2> QED BY <2>2, <2>4
<1>7. s \in [DOMAIN r -> Range(r)]
  BY <1>3, <1>4, <1>5, <1>6, Zenon
<1>8. Tidy(r)
  BY <1>4, <1>7, Zenon DEF Tidy, IsSorted
<1> QED BY <1>4, <1>5, <1>6, <1>8

-----------------------------------------------------------------------------

\* A tap without addresses has an empty vector of groups.
LEMMA EmptyFacts == Tidy(<<>>) /\ Range(<<>>) = {} /\ Derived({}) = {}
<1>1. <<>> \in [DOMAIN <<>> -> Range(<<>>)] /\ 0 \in 0 .. Len(<<>>)
  OBVIOUS
<1>2. NonDecreasing(<<>>) /\ IsUnique(<<>>, <<>>, 0)
  BY DEF NonDecreasing, IsUnique, Increasing, Range
<1>3. Tidy(<<>>)
  BY <1>1, <1>2, Zenon DEF Tidy
<1>4. Range(<<>>) = {} /\ Derived({}) = {}
  BY DEF Range, Derived
<1> QED BY <1>3, <1>4

\* The invariant holds for a new network.
LEMMA InitIInv == Init => IInv
<1> SUFFICES ASSUME Init PROVE IInv
  OBVIOUS
<1>1. TypeOK
  BY MulticastAssumption DEF Init, TypeOK, Loop, Walked, Table
<1> QED BY <1>1, EmptyFacts DEF Init, IInv

\* A new configuration leaves the groups of the last scan alone.
LEMMA ConfigIInv ==
  ASSUME IInv, NEW S \in SUBSET Addr, SyncManagedStuff(S)
  PROVE  IInv'
<1>1. TypeOK'
  BY MulticastAssumption DEF IInv, TypeOK, SyncManagedStuff, result, Walked, Table
<1>2. UNCHANGED <<groups, newGroups, subscribed, scanned, pc, m, first, len, added, removed>>
  BY DEF SyncManagedStuff, result
<1> QED BY <1>1, <1>2 DEF IInv, Walked, Table

\* Leaving the network starts afresh.
LEMMA LeaveIInv == ASSUME IInv, Leave PROVE IInv'
<1>1. TypeOK'
  BY MulticastAssumption DEF IInv, TypeOK, Leave, Walked, Table, Loop
<1> QED BY <1>1, EmptyFacts DEF Leave, IInv

\* A scan starts with the groups of the current addresses.
LEMMA StartIInv == ASSUME IInv, StartScan PROVE IInv'
<1>0. PICK s \in Vectors(ips) :
        /\ IsSorted(s, ips)
        /\ \E r \in Vectors(ips), k \in 0 .. Len(s) :
             IsUnique(r, s, k) /\ newGroups' = r
  BY DEF StartScan
<1>1. PICK r \in Vectors(ips), k \in 0 .. Len(s) :
        IsUnique(r, s, k) /\ newGroups' = r
  BY <1>0
<1>2. ips \in SUBSET Addr /\ groups \in Seq(Nat)
  BY DEF IInv, TypeOK
<1>3. newGroups' \in Seq(Nat) /\ Tidy(newGroups') /\ Range(newGroups') = Derived(ips)
  BY <1>0, <1>1, <1>2, SortFacts
<1>4. /\ pc' = "adding" /\ m' = 1 /\ first' = 0 /\ len' = Len(groups)
      /\ added' = {} /\ removed' = {} /\ scanned' = ips
      /\ UNCHANGED <<groups, subscribed>> /\ UNCHANGED network
  BY DEF StartScan
<1>5. Walked' = newGroups' /\ Table' = groups
  BY <1>4 DEF Walked, Table
<1>6. TypeOK'
  <2>1. m' \in 1 .. Len(Walked') + 1 /\ len' \in Nat /\ first' + len' <= Len(Table')
    BY <1>2, <1>3, <1>4, <1>5
  <2> QED BY <1>2, <1>3, <1>4, <2>1 DEF IInv, TypeOK, network, Loop
<1>7. Bracketed(Table', Walked'[m'], first', len')
  BY <1>2, <1>4, <1>5, WholeBracketed
<1>8. added' = Before(newGroups', m') \ Range(groups')
  BY <1>3, <1>4, BeforeFacts
<1> QED BY <1>3, <1>4, <1>6, <1>7, <1>8 DEF IInv

\* What the loops go through and search in, and its type.
LEMMA WalkFacts ==
  ASSUME TypeOK
  PROVE  /\ Walked \in Seq(Nat) /\ Table \in Seq(Nat)
         /\ Len(Walked) \in Nat /\ Len(Table) \in Nat
         /\ m <= Len(Walked) => m \in 1 .. Len(Walked) /\ Walked[m] \in Nat
<1>1. Walked \in Seq(Nat) /\ Table \in Seq(Nat)
  BY DEF TypeOK, Walked, Table
<1>2. m \in 1 .. Len(Walked) + 1
  BY DEF TypeOK
<1> QED BY <1>1, <1>2

\* A probe keeps the range of the search bracketed.
LEMMA ProbeIInv == ASSUME IInv, Probe PROVE IInv'
<1> DEFINE h == len \div 2
<1>1. TypeOK
  BY DEF IInv
<1>2. /\ Walked \in Seq(Nat) /\ Table \in Seq(Nat) /\ Walked[m] \in Nat
      /\ pc # "idle" /\ m <= Len(Walked) /\ len > 0
  BY <1>1, WalkFacts DEF Probe
<1>3. /\ first \in Nat /\ len \in Nat /\ first + len <= Len(Table)
      /\ Bracketed(Table, Walked[m], first, len)
  BY <1>1, <1>2 DEF IInv, TypeOK
<1>4. h \in Nat /\ h < len
  BY <1>2, <1>3, SMTT(60)
<1>5. \/ /\ Table[first + h + 1] < Walked[m]
         /\ first' = first + h + 1 /\ len' = len - h - 1
      \/ /\ ~(Table[first + h + 1] < Walked[m])
         /\ len' = h /\ first' = first
  BY DEF Probe
<1>6. UNCHANGED <<network, result, newGroups, pc, m, added, removed>>
  BY DEF Probe
<1>7. UNCHANGED <<Walked, Table>>
  BY <1>6 DEF result, Walked, Table
<1>8. /\ first' \in Nat /\ len' \in Nat /\ first' + len' <= Len(Table)
      /\ Bracketed(Table, Walked[m], first', len')
  <2> HIDE DEF h
  <2>1. CASE Table[first + h + 1] < Walked[m]
    <3>1. /\ first + h + 1 \in Nat /\ len - h - 1 \in Nat
          /\ (first + h + 1) + (len - h - 1) <= Len(Table)
          /\ Bracketed(Table, Walked[m], first + h + 1, len - h - 1)
      BY <1>2, <1>3, <1>4, <2>1, ProbeLemma
    <3>2. first' = first + h + 1 /\ len' = len - h - 1
      BY <1>5, <2>1, Zenon
    <3> QED BY <3>1, <3>2, Zenon
  <2>2. CASE ~(Table[first + h + 1] < Walked[m])
    BY <1>2, <1>3, <1>4, <1>5, <2>2, ProbeLemma, Zenon
  <2> QED BY <2>1, <2>2
<1>9. TypeOK'
  BY <1>1, <1>6, <1>7, <1>8 DEF TypeOK, network, result
<1> QED BY <1>6, <1>7, <1>8, <1>9 DEF IInv, result

\* The end of a search adds the element to what the loop has collected
\* exactly if the other vector does not have it.
LEMMA LookedIInv == ASSUME IInv, Looked PROVE IInv'
<1>1. TypeOK
  BY DEF IInv
<1>2. /\ Walked \in Seq(Nat) /\ Table \in Seq(Nat)
      /\ m \in 1 .. Len(Walked) /\ Walked[m] \in Nat
      /\ pc # "idle" /\ m <= Len(Walked) /\ len = 0
  BY <1>1, WalkFacts DEF Looked
<1>3. UNCHANGED <<network, result, newGroups, pc>> /\ m' = m + 1
      /\ first' = 0 /\ len' = Len(Table)
  BY DEF Looked
<1>4. UNCHANGED <<Walked, Table>>
  BY <1>3 DEF result, Walked, Table
<1>5. first \in 0 .. Len(Table) /\ Bracketed(Table, Walked[m], first, 0)
  <2>1. Bracketed(Table, Walked[m], first, 0)
    BY <1>2 DEF IInv
  <2>2. first \in 0 .. Len(Table)
    BY <1>1, <1>2 DEF TypeOK
  <2> QED BY <2>1, <2>2
<1>6. Tidy(Table)
  BY DEF IInv, Table
<1>7. Found <=> Walked[m] \in Range(Table)
  BY <1>2, <1>5, <1>6, SearchLemma DEF Found
<1> DEFINE miss == IF Found THEN {} ELSE {Walked[m]}
<1>8. miss = {Walked[m]} \ Range(Table)
  BY <1>7
<1>9. Before(Walked, m + 1) = Before(Walked, m) \union {Walked[m]}
  BY <1>2, BeforeFacts
<1>10. (Before(Walked, m) \ Range(Table)) \union miss = Before(Walked, m + 1) \ Range(Table)
  BY <1>8, <1>9
<1>11. CASE pc = "adding"
  <2>1. added' = added \union miss /\ removed' = removed
    BY <1>11 DEF Looked
  <2>2. added = Before(Walked, m) \ Range(Table) /\ removed = {}
    BY <1>11 DEF IInv, Walked, Table
  <2>3. added' = Before(Walked, m + 1) \ Range(Table) /\ removed' = {}
    BY <1>10, <2>1, <2>2
  <2>4. added' \subseteq Nat
    BY <1>1, <1>2, <2>1 DEF TypeOK
  <2>5. TypeOK'
    BY <1>1, <1>2, <1>3, <1>4, <2>1, <2>4, SMTT(60) DEF TypeOK, network, result
  <2>6. Bracketed(Table', Walked'[m'], first', len')
    BY <1>2, <1>3, <1>4, WholeBracketed
  <2> QED BY <1>3, <1>4, <1>11, <2>3, <2>5, <2>6 DEF IInv, result, Walked, Table
<1>12. CASE pc = "removing"
  <2>1. removed' = removed \union miss /\ added' = added
    BY <1>12 DEF Looked
  <2>2. removed = Before(Walked, m) \ Range(Table)
    BY <1>12 DEF IInv, Walked, Table
  <2>3. removed' = Before(Walked, m + 1) \ Range(Table)
    BY <1>10, <2>1, <2>2
  <2>4. removed' \subseteq Nat
    BY <1>1, <1>2, <2>1 DEF TypeOK
  <2>5. TypeOK'
    BY <1>1, <1>2, <1>3, <1>4, <2>1, <2>4, SMTT(60) DEF TypeOK, network, result
  <2>6. Bracketed(Table', Walked'[m'], first', len')
    BY <1>2, <1>3, <1>4, WholeBracketed
  <2> QED BY <1>3, <1>4, <1>12, <2>1, <2>3, <2>5, <2>6 DEF IInv, result, Walked, Table
<1> QED BY <1>1, <1>2, <1>11, <1>12 DEF TypeOK, Loop

\* Between the loops: everything new has been collected.
LEMMA EndAddingIInv == ASSUME IInv, EndAdding PROVE IInv'
<1>1. TypeOK /\ groups \in Seq(Nat) /\ newGroups \in Seq(Nat)
  BY DEF IInv, TypeOK
<1>2. /\ pc = "adding" /\ m > Len(newGroups)
      /\ pc' = "removing" /\ m' = 1 /\ first' = 0 /\ len' = Len(newGroups)
      /\ UNCHANGED <<network, result, newGroups, added, removed>>
  BY DEF EndAdding, Walked
<1>3. Walked' = groups /\ Table' = newGroups /\ UNCHANGED <<groups, subscribed, scanned>>
  BY <1>2 DEF Walked, Table, result
<1>4. m = Len(newGroups) + 1
  BY <1>1, <1>2, SMTT(60) DEF TypeOK, Walked
<1>5. added = Range(newGroups) \ Range(groups) /\ removed = {}
  BY <1>1, <1>2, <1>4, BeforeFacts DEF IInv
<1>6. removed' = Before(groups, m') \ Range(newGroups)
  BY <1>1, <1>2, <1>5, BeforeFacts
<1>7. TypeOK'
  <2>1. m' \in 1 .. Len(Walked') + 1 /\ len' \in Nat /\ first' + len' <= Len(Table')
    BY <1>1, <1>2, <1>3
  <2> QED BY <1>1, <1>2, <1>3, <2>1 DEF TypeOK, network, Loop
<1>8. Bracketed(Table', Walked'[m'], first', len')
  BY <1>1, <1>2, <1>3, WholeBracketed
<1> QED BY <1>2, <1>3, <1>5, <1>6, <1>7, <1>8 DEF IInv

\* The end of the scan: the subscriptions become those of the new vector.
LEMMA EndScanIInv == ASSUME IInv, EndScan PROVE IInv'
<1>1. TypeOK /\ groups \in Seq(Nat) /\ newGroups \in Seq(Nat)
  BY DEF IInv, TypeOK
<1>2. /\ pc = "removing" /\ m > Len(groups)
      /\ pc' = "idle" /\ m' = 1 /\ first' = 0 /\ len' = 0
      /\ groups' = newGroups /\ newGroups' = <<>>
      /\ subscribed' = (subscribed \union added) \ removed
      /\ added' = {} /\ removed' = {}
      /\ UNCHANGED network /\ scanned' = scanned
  BY DEF EndScan, Walked
<1>3. m = Len(groups) + 1
  BY <1>1, <1>2, SMTT(60) DEF TypeOK, Walked
<1>4. /\ added = Range(newGroups) \ Range(groups)
      /\ removed = Range(groups) \ Range(newGroups)
      /\ subscribed = Range(groups)
  BY <1>1, <1>2, <1>3, BeforeFacts DEF IInv
<1>5. subscribed' = Range(groups')
  BY <1>2, <1>4
<1>6. Range(newGroups) = Derived(scanned) /\ Tidy(newGroups)
  BY <1>2 DEF IInv
<1>7. Walked' = newGroups /\ Table' = <<>>
  BY <1>2 DEF Walked, Table
<1>8. TypeOK'
  <2>1. m' \in 1 .. Len(Walked') + 1 /\ first' + len' <= Len(Table')
    BY <1>1, <1>2, <1>7
  <2>2. subscribed' \subseteq Nat
    BY <1>1, <1>2 DEF TypeOK
  <2> QED BY <1>1, <1>2, <2>1, <2>2 DEF TypeOK, network, Loop
<1> QED BY <1>2, <1>5, <1>6, <1>8, EmptyFacts DEF IInv

\* A stuttering step changes nothing.
LEMMA StutterIInv == ASSUME IInv, UNCHANGED vars PROVE IInv'
<1>1. UNCHANGED <<changes, assigned, managedIps, ips, groups, subscribed,
                  scanned, newGroups, pc, m, first, len, added, removed>>
  BY DEF vars, network, result
<1>2. UNCHANGED <<Walked, Table>>
  BY <1>1 DEF Walked, Table
<1> QED BY <1>1, <1>2 DEF IInv, TypeOK

-----------------------------------------------------------------------------

\* The invariant holds of every behaviour of the service and the tap.
THEOREM Invariance == Spec => []IInv
<1>1. IInv /\ [Next]_vars => IInv'
  BY ConfigIInv, LeaveIInv, StartIInv, ProbeIInv, LookedIInv, EndAddingIInv,
     EndScanIInv, StutterIInv DEF Next, Scan
<1> QED BY InitIInv, <1>1, PTL DEF Spec

\* The scan's state keeps its type: the searches stay inside their vectors.
THEOREM TypeCorrect == Spec => []TypeOK
<1>1. IInv => TypeOK
  BY DEF IInv
<1> QED BY Invariance, <1>1, PTL

\* std::binary_search returns the right answer for every vector that
\* scanMulticastGroups makes, sorted or not.
THEOREM SearchCorrect == Spec => []SearchExact
<1>1. IInv => SearchExact
  <2> SUFFICES ASSUME IInv, pc # "idle", m <= Len(Walked), len = 0
               PROVE  Found <=> Walked[m] \in Range(Table)
    BY DEF SearchExact
  <2>1. TypeOK
    BY DEF IInv
  <2>2. Table \in Seq(Nat) /\ Walked[m] \in Nat /\ Len(Table) \in Nat
    BY <2>1, WalkFacts
  <2>3. Bracketed(Table, Walked[m], first, 0) /\ Tidy(Table)
    BY DEF IInv, Table
  <2>4. first \in 0 .. Len(Table)
    BY <2>1, <2>2 DEF TypeOK
  <2> QED BY <2>2, <2>3, <2>4, SearchLemma DEF Found
<1> QED BY Invariance, <1>1, PTL

\* After every scan the node is subscribed to the groups of the addresses
\* that the scan saw and to no other.
THEOREM SubscribedCorrect == Spec => []SubscribedExact
<1>1. IInv => SubscribedExact
  BY DEF IInv, SubscribedExact
<1> QED BY Invariance, <1>1, PTL

=============================================================================
