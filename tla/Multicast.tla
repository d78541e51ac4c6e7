------------------------------ MODULE Multicast ------------------------------
(***************************************************************************)
(* The addresses of a virtual network and the multicast groups that the    *)
(* node subscribes to on their account.                                    *)
(*                                                                         *)
(* The service applies each new configuration to the tap (addIp, removeIp) *)
(* and from time to time asks the tap what changed (scanMulticastGroups).  *)
(* Both happen under _nets_m, so one waits for the other.                  *)
(*                                                                         *)
(* The tap keeps the groups in a vector that it sorts and passes to        *)
(* std::unique but does not shorten: the vector ends with what was there   *)
(* before, and is in general no longer sorted.  The scan looks values up   *)
(* in it with std::binary_search.  Each step below is one probe of such a  *)
(* search or the decision at its end.                                      *)
(***************************************************************************)
EXTENDS Integers, Sequences, FiniteSets, Functions

CONSTANTS
  Addr,       \* addresses with their netmask
  GroupOf,    \* the group in which an address is resolved, as its rank in <
  MaxChanges  \* bound: configurations that arrive

ASSUME MulticastAssumption ==
  /\ IsFiniteSet(Addr)
  /\ GroupOf \in [Addr -> Nat]
  /\ MaxChanges \in Nat

VARIABLES
  changes,      \* configurations applied so far
  assigned,     \* the addresses that the controller assigned and we allow
  managedIps,   \* NetworkState.managedIps
  ips,          \* _ips of the tap: a vector without repetitions, as a set
  groups,       \* _multicastGroups of the tap
  newGroups,    \* the local vector of the scan
  pc,           \* "idle", or the loop of the scan: "adding" or "removing"
  m,            \* the iterator of that loop
  first, len,   \* the range that is left to std::lower_bound
  added, removed,
  subscribed,   \* _myMulticastGroups of the node's Network
  scanned       \* history: _ips as the last scan saw them

network == <<changes, assigned, managedIps, ips>>
result == <<groups, subscribed, scanned>>
vars == <<network, result, newGroups, pc, m, first, len, added, removed>>

Derived(S) == {GroupOf[a] : a \in S}

Init ==
  /\ changes = 0
  /\ assigned = {} /\ managedIps = {} /\ ips = {}
  /\ groups = <<>> /\ newGroups = <<>>
  /\ pc = "idle"
  /\ m = 1 /\ first = 0 /\ len = 0
  /\ added = {} /\ removed = {}
  /\ subscribed = {} /\ scanned = {}

-----------------------------------------------------------------------------
(* Configurations                                                          *)

\* syncManagedStuff: removeIp what is gone, addIp what is new.
MutantForgetOld(S) ==
  /\ pc = "idle"
  /\ changes < MaxChanges
  /\ changes' = changes + 1
  /\ assigned' = S
  /\ managedIps' = S
  /\ ips' = ips \union (S \ managedIps)
  /\ UNCHANGED <<result, newGroups, pc, m, first, len, added, removed>>
SyncManagedStuff(S) ==
  /\ pc = "idle"
  /\ changes < MaxChanges
  /\ changes' = changes + 1
  /\ assigned' = S
  /\ managedIps' = S
  /\ ips' = (ips \ (managedIps \ S)) \union (S \ managedIps)
  /\ UNCHANGED <<result, newGroups, pc, m, first, len, added, removed>>

\* Leaving the network deletes the tap and the node's Network; joining
\* again starts with new ones.
Leave ==
  /\ pc = "idle"
  /\ changes < MaxChanges
  /\ changes' = changes + 1
  /\ assigned' = {} /\ managedIps' = {} /\ ips' = {}
  /\ groups' = <<>> /\ subscribed' = {} /\ scanned' = {}
  /\ UNCHANGED <<newGroups, pc, m, first, len, added, removed>>

-----------------------------------------------------------------------------
(* The scan                                                                *)

NonDecreasing(s) == \A i, j \in DOMAIN s : i <= j => s[i] <= s[j]
Increasing(s, k) == \A i, j \in 1 .. k : i < j => s[i] < s[j]

\* std::sort: s holds the groups of S in order.
IsSorted(s, S) ==
  /\ NonDecreasing(s)
  /\ \A g \in Derived(S) :
       Cardinality({i \in DOMAIN s : s[i] = g})
         = Cardinality({a \in S : GroupOf[a] = g})

\* std::unique moves one of each value of the sorted vector s to the front
\* and leaves everything behind that front, k elements long, as it was.
IsUnique(r, s, k) ==
  /\ Increasing(r, k)
  /\ {r[i] : i \in 1 .. k} = Range(s)
  /\ \A i \in k + 1 .. Len(s) : r[i] = s[i]

Vectors(S) == [1 .. Cardinality(S) -> Derived(S)]

StartScan ==
  /\ pc = "idle"
  /\ \E s \in Vectors(ips) :
       /\ IsSorted(s, ips)
       /\ \E r \in Vectors(ips), k \in 0 .. Len(s) :
            IsUnique(r, s, k) /\ newGroups' = r
  /\ scanned' = ips
  /\ pc' = "adding"
  /\ m' = 1
  /\ first' = 0 /\ len' = Len(groups)
  /\ added' = {} /\ removed' = {}
  /\ UNCHANGED <<network, groups, subscribed>>

\* What the loop goes through, and where it looks each element up.
Walked == IF pc = "adding" THEN newGroups ELSE groups
Table == IF pc = "adding" THEN groups ELSE newGroups

\* One turn of std::lower_bound.
MutantKeepsMiddle ==
  /\ pc # "idle" /\ m <= Len(Walked)
  /\ len > 0
  /\ LET half == len \div 2
     IN  IF Table[first + half + 1] < Walked[m]
           THEN first' = first + half + 1 /\ len' = len - half
           ELSE len' = half /\ UNCHANGED first
  /\ UNCHANGED <<network, result, newGroups, pc, m, added, removed>>
Probe ==
  /\ pc # "idle" /\ m <= Len(Walked)
  /\ len > 0
  /\ LET half == len \div 2
     IN  IF Table[first + half + 1] < Walked[m]
           THEN first' = first + half + 1 /\ len' = len - half - 1
           ELSE len' = half /\ UNCHANGED first
  /\ UNCHANGED <<network, result, newGroups, pc, m, added, removed>>

\* What std::binary_search returns.
MutantFoundFirst == first < Len(Table)
Found == first < Len(Table) /\ ~(Walked[m] < Table[first + 1])

Looked ==
  /\ pc # "idle" /\ m <= Len(Walked)
  /\ len = 0
  /\ LET miss == IF Found THEN {} ELSE {Walked[m]}
     IN  IF pc = "adding"
           THEN added' = added \union miss /\ UNCHANGED removed
           ELSE removed' = removed \union miss /\ UNCHANGED added
  /\ m' = m + 1
  /\ first' = 0 /\ len' = Len(Table)
  /\ UNCHANGED <<network, result, newGroups, pc>>

EndAdding ==
  /\ pc = "adding" /\ m > Len(Walked)
  /\ pc' = "removing"
  /\ m' = 1
  /\ first' = 0 /\ len' = Len(newGroups)
  /\ UNCHANGED <<network, result, newGroups, added, removed>>

\* The swap, and then the calls of the service: multicastSubscribe for what
\* was added and multicastUnsubscribe for what was removed.
MutantNoUnsubscribe ==
  /\ pc = "removing" /\ m > Len(Walked)
  /\ groups' = newGroups
  /\ newGroups' = <<>>
  /\ subscribed' = subscribed \union added
  /\ pc' = "idle"
  /\ m' = 1 /\ first' = 0 /\ len' = 0
  /\ added' = {} /\ removed' = {}
  /\ UNCHANGED <<network, scanned>>
EndScan ==
  /\ pc = "removing" /\ m > Len(Walked)
  /\ groups' = newGroups
  /\ newGroups' = <<>>
  /\ subscribed' = (subscribed \union added) \ removed
  /\ pc' = "idle"
  /\ m' = 1 /\ first' = 0 /\ len' = 0
  /\ added' = {} /\ removed' = {}
  /\ UNCHANGED <<network, scanned>>

Scan == StartScan \/ Probe \/ Looked \/ EndAdding \/ EndScan

Next ==
  \/ \E S \in SUBSET Addr : SyncManagedStuff(S)
  \/ Leave
  \/ Scan

Spec == Init /\ [][Next]_vars

\* The main loop of the service starts a scan every
\* ZT_TAP_CHECK_MULTICAST_INTERVAL and completes it.
FairSpec == Spec /\ WF_vars(Scan)

-----------------------------------------------------------------------------
(* Properties                                                              *)

Loop == {"idle", "adding", "removing"}

\* The variables have their types; scanMulticastGroups and the searches it
\* makes stay inside their vectors.
TypeOK ==
  /\ changes \in 0 .. MaxChanges
  /\ assigned \subseteq Addr /\ managedIps \subseteq Addr /\ ips \subseteq Addr
  /\ groups \in Seq(Nat) /\ newGroups \in Seq(Nat)
  /\ pc \in Loop
  /\ m \in 1 .. Len(Walked) + 1
  /\ first \in Nat /\ len \in Nat /\ first + len <= Len(Table)
  /\ added \subseteq Nat /\ removed \subseteq Nat /\ subscribed \subseteq Nat
  /\ scanned \subseteq Addr

\* std::binary_search finds exactly the elements of the vector it is given,
\* although std::unique may have left that vector unsorted.
SearchExact ==
  pc # "idle" /\ m <= Len(Walked) /\ len = 0
    => (Found <=> Walked[m] \in Range(Table))

\* Between scans the node is subscribed to the groups of the addresses of
\* the last scan and to no other: a group stays while any address needs it.
SubscribedExact == pc = "idle" => subscribed = Derived(scanned)

\* What the controller assigns is followed: unless the assignment changes
\* first, the node comes to be subscribed to exactly its groups.
Follows ==
  \A S \in SUBSET Addr :
    assigned = S ~> (assigned # S \/ (pc = "idle" /\ subscribed = Derived(S)))

=============================================================================
