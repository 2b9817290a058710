--------------------------- MODULE ArpTableProofs ---------------------------
(***************************************************************************)
(* The ARP table is a cache of the latest claims that gives up the oldest  *)
(* ones, for any number of entries, hosts and addresses and any lifetime.  *)
(***************************************************************************)
EXTENDS ArpTable, WellFoundedInduction, TLAPS

\* What KeepsRecent needs to be inductive: a claim of a host that has an entry
\* was heard, and no claim was heard later than now.
EntriesHeard ==
    \A i \in Slot : entries[i].valid =>
        entries[i].ip \in Host /\ heard[entries[i].ip].at \in Nat

HeardInPast == \A h \in Host : heard[h].at <= now

\* The inductive invariant.  OneEntryPerHost makes the refreshed entry the only
\* one of its host, which EntriesCurrent needs; EntriesCurrent makes the oldest
\* entry that of the host heard from longest ago, which KeepsRecent needs.
Cache ==
    /\ TypeOK
    /\ OneEntryPerHost
    /\ EntriesCurrent
    /\ EntriesHeard
    /\ HeardInPast
    /\ KeepsRecent

----------------------------------------------------------------------------
(* The searches of the table find what they look for.                      *)

\* A set of numbers has a least one.
LEMMA LeastExists ==
    ASSUME NEW S \in SUBSET Nat, S # {}
    PROVE  \E m \in S : \A k \in S : m <= k
  <1>1. PICK m \in S : \A k \in S : <<k, m>> \notin OpToRel(<, Nat)
    BY WFMin, NatLessThanWellFounded, Zenon
  <1>2. \A k \in S : ~(k < m)
    BY <1>1, Zenon DEF OpToRel
  <1> QED BY <1>2

\* A scan for the first slot of a set that is not empty stops at exactly one.
LEMMA FirstExists ==
    ASSUME NEW S \in SUBSET Slot, S # {}
    PROVE  \E k \in S : \A i \in Slot : IsFirst(i, S) <=> i = k
  <1>1. S \in SUBSET Nat
    BY ArpAssumption DEF Slot
  <1>2. PICK k \in S : \A i \in S : k <= i
    BY <1>1, LeastExists
  <1> QED BY <1>1, <1>2 DEF IsFirst

\* A full table has an oldest entry.
LEMMA VictimExists ==
    ASSUME TypeOK
    PROVE  Victims \in SUBSET Slot /\ Victims # {}
  <1> DEFINE times == {entries[i].expiry : i \in Slot}
  <1>1. times \in SUBSET Nat /\ times # {}
    BY ArpAssumption DEF TypeOK, Entry, Slot
  <1>2. PICK t \in times : \A u \in times : t <= u
    BY <1>1, LeastExists
  <1>3. Oldest # {}
    BY <1>2 DEF Oldest
  <1> QED BY <1>3 DEF Victims, Invalid, Oldest

----------------------------------------------------------------------------
(* An ARP frame is taken in.                                               *)

\* What every frame does to the history.
LEMMA ClaimRecorded ==
    ASSUME Cache, NEW ip \in Host, NEW mac \in Mac,
           heard' = [heard EXCEPT ![ip] = [mac |-> mac, at |-> now]], now' = now
    PROVE  /\ heard' \in [Host -> [mac : Mac \cup {NoMac}, at : Nat \cup {Never}]]
           /\ heard'[ip] = [mac |-> mac, at |-> now]
           /\ \A h \in Host \ {ip} : heard'[h] = heard[h]
           /\ \A h \in Host : heard'[h].at \in Int /\ heard[h].at \in Int
           /\ \A h \in Host : heard'[h].at <= now /\ heard[h].at <= heard'[h].at
  <1>1. now \in Nat /\ heard \in [Host -> [mac : Mac \cup {NoMac}, at : Nat \cup {Never}]]
    BY DEF Cache, TypeOK
  <1>2. \A h \in Host : heard[h].at \in Int /\ heard[h].at <= now
    BY <1>1 DEF Cache, HeardInPast, Never
  <1> QED BY <1>1, <1>2 DEF Never

\* Refreshing an entry touches its mac and its expiry.
LEMMA RenewedEntry ==
    ASSUME NEW e \in Entry, NEW mac \in Mac, now \in Nat, TTL \in Nat
    PROVE  /\ Renewed(e, mac) \in Entry
           /\ Renewed(e, mac).mac = mac /\ Renewed(e, mac).expiry = now + TTL
           /\ Renewed(e, mac).valid = e.valid /\ Renewed(e, mac).ip = e.ip
  <1> DEFINE t == now + TTL
  <1>1. t \in Nat
    OBVIOUS
  <1> HIDE DEF t
  <1>2. Renewed(e, mac) = [e EXCEPT !.mac = mac, !.expiry = t]
    BY DEF Renewed, t
  <1>3. Renewed(e, mac) \in Entry
    BY <1>1, <1>2 DEF Entry
  <1>4. Renewed(e, mac).mac = mac /\ Renewed(e, mac).expiry = t
    BY <1>1, <1>2 DEF Entry
  <1>5. Renewed(e, mac).valid = e.valid /\ Renewed(e, mac).ip = e.ip
    BY <1>1, <1>2 DEF Entry
  <1> QED BY <1>3, <1>4, <1>5 DEF t

\* A host that has an entry keeps it, with what it says now.
LEMMA RefreshKeeps ==
    ASSUME Cache, NEW ip \in Host, NEW mac \in Mac, FrameIn(ip, mac),
           Existing(ip) # {}
    PROVE  Cache'
  <1>1. PICK k \in Existing(ip) : \A i \in Slot : IsFirst(i, Existing(ip)) <=> i = k
    BY FirstExists DEF Existing, EntriesOf
  <1>2. k \in Slot /\ entries[k].valid /\ entries[k].ip = ip
    BY <1>1 DEF Existing, EntriesOf
  <1>3. \A i \in Slot : entries[i].valid /\ entries[i].ip = ip => i = k
    BY <1>2 DEF Cache, OneEntryPerHost
  <1>4. entries \in [Slot -> Entry] /\ now \in Nat /\ TTL \in Nat
    BY ArpAssumption DEF Cache, TypeOK
  <1>5. entries' = [i \in Slot |-> IF i = k THEN Renewed(entries[i], mac)
                                  ELSE entries[i]]
    BY <1>1 DEF FrameIn, Update, Refreshed
  <1>6. /\ entries' \in [Slot -> Entry]
        /\ entries'[k].mac = mac /\ entries'[k].expiry = now + TTL
        /\ \A i \in Slot \ {k} : entries'[i] = entries[i]
        /\ \A i \in Slot : /\ entries'[i].valid = entries[i].valid
                           /\ entries'[i].ip = entries[i].ip
    <2>1. \A i \in Slot : entries[i] \in Entry
      BY <1>4
    <2>2. /\ Renewed(entries[k], mac) \in Entry
          /\ Renewed(entries[k], mac).mac = mac
          /\ Renewed(entries[k], mac).expiry = now + TTL
          /\ Renewed(entries[k], mac).valid = entries[k].valid
          /\ Renewed(entries[k], mac).ip = entries[k].ip
      BY <2>1, <1>2, <1>4, RenewedEntry
    <2>3. /\ entries'[k] = Renewed(entries[k], mac)
          /\ \A i \in Slot \ {k} : entries'[i] = entries[i]
      BY <1>2, <1>5
    <2> QED BY <1>5, <2>1, <2>2, <2>3
  <1>7. heard' = [heard EXCEPT ![ip] = [mac |-> mac, at |-> now]] /\ now' = now
        /\ waiting' = waiting /\ answer' = answer
    BY DEF FrameIn, Update
  <1>8. /\ heard' \in [Host -> [mac : Mac \cup {NoMac}, at : Nat \cup {Never}]]
        /\ heard'[ip] = [mac |-> mac, at |-> now]
        /\ \A h \in Host \ {ip} : heard'[h] = heard[h]
        /\ \A h \in Host : heard'[h].at \in Int /\ heard[h].at \in Int
        /\ \A h \in Host : heard'[h].at <= now /\ heard[h].at <= heard'[h].at
    BY <1>7, ClaimRecorded
  <1>9. TypeOK'
    BY <1>6, <1>7, <1>8 DEF Cache, TypeOK
  <1>10. OneEntryPerHost'
    BY <1>6 DEF Cache, OneEntryPerHost
  <1>11. EntriesHeard'
    BY <1>2, <1>4, <1>6, <1>8 DEF Cache, EntriesHeard
  <1>12. EntriesCurrent'
    <2> SUFFICES ASSUME NEW i \in Slot, entries'[i].valid
                 PROVE  /\ entries'[i].mac = heard'[entries'[i].ip].mac
                        /\ entries'[i].expiry = heard'[entries'[i].ip].at + TTL
      BY DEF EntriesCurrent
    <2>1. CASE i = k
      BY <2>1, <1>2, <1>6, <1>8
    <2>2. CASE i # k
      <3>1. entries[i].ip \in Host \ {ip}
        BY <2>2, <1>3, <1>6 DEF Cache, EntriesHeard
      <3> QED BY <2>2, <3>1, <1>6, <1>8 DEF Cache, EntriesCurrent
    <2> QED BY <2>1, <2>2
  <1>13. HeardInPast'
    BY <1>7, <1>8 DEF HeardInPast
  <1>14. KeepsRecent'
    <2>1. /\ \A h \in Host : EntriesOf(h)' = EntriesOf(h)
          /\ Invalid' = Invalid
      BY <1>6 DEF EntriesOf, Invalid
    <2> SUFFICES ASSUME NEW h \in Host, heard'[h].at # Never, EntriesOf(h) = {}
                 PROVE  /\ Invalid = {}
                        /\ \A i \in Slot : heard'[entries'[i].ip].at >= heard'[h].at
      BY <2>1 DEF KeepsRecent
    <2>2. h # ip
      BY <1>2 DEF EntriesOf
    <2>3. Invalid = {} /\ \A i \in Slot : heard[entries[i].ip].at >= heard'[h].at
      BY <2>2, <1>8 DEF Cache, KeepsRecent
    <2>4. \A i \in Slot : entries[i].ip \in Host
      BY <2>3 DEF Invalid, Cache, EntriesHeard
    <2> QED BY <2>3, <2>4, <1>6, <1>8
  <1> QED BY <1>9, <1>10, <1>11, <1>12, <1>13, <1>14 DEF Cache

\* A host that has none gets a free entry, or that of the host heard from
\* longest ago.
LEMMA PlaceKeeps ==
    ASSUME Cache, NEW ip \in Host, NEW mac \in Mac, FrameIn(ip, mac),
           Existing(ip) = {}
    PROVE  Cache'
  <1> DEFINE new == [ip |-> ip, mac |-> mac, expiry |-> now + TTL, valid |-> TRUE]
  <1>1. PICK k \in Victims : \A i \in Slot : IsFirst(i, Victims) <=> i = k
    BY VictimExists, FirstExists DEF Cache
  <1>2. k \in Slot
    BY VictimExists DEF Cache
  <1>3. \A i \in Slot : entries[i].valid => entries[i].ip \in Host \ {ip}
    BY DEF Existing, EntriesOf, Cache, EntriesHeard
  <1>4. entries \in [Slot -> Entry] /\ now \in Nat /\ TTL \in Nat
    BY ArpAssumption DEF Cache, TypeOK
  <1>5. entries' = [i \in Slot |-> IF i = k THEN new ELSE entries[i]]
    BY <1>1 DEF FrameIn, Update, Placed
  <1>6. /\ entries' \in [Slot -> Entry]
        /\ entries'[k] = new
        /\ \A i \in Slot \ {k} : entries'[i] = entries[i]
    BY <1>2, <1>4, <1>5 DEF Entry
  <1>7. heard' = [heard EXCEPT ![ip] = [mac |-> mac, at |-> now]] /\ now' = now
        /\ waiting' = waiting /\ answer' = answer
    BY DEF FrameIn, Update
  <1>8. /\ heard' \in [Host -> [mac : Mac \cup {NoMac}, at : Nat \cup {Never}]]
        /\ heard'[ip] = [mac |-> mac, at |-> now]
        /\ \A h \in Host \ {ip} : heard'[h] = heard[h]
        /\ \A h \in Host : heard'[h].at \in Int /\ heard[h].at \in Int
        /\ \A h \in Host : heard'[h].at <= now /\ heard[h].at <= heard'[h].at
    BY <1>7, ClaimRecorded
  <1>9. TypeOK'
    BY <1>6, <1>7, <1>8 DEF Cache, TypeOK
  <1>10. OneEntryPerHost'
    BY <1>3, <1>6 DEF Cache, OneEntryPerHost
  <1>11. EntriesHeard'
    BY <1>3, <1>4, <1>6, <1>8 DEF Cache, EntriesHeard
  <1>12. EntriesCurrent'
    BY <1>3, <1>6, <1>8 DEF Cache, EntriesCurrent
  <1>13. HeardInPast'
    BY <1>7, <1>8 DEF HeardInPast
  <1>14. KeepsRecent'
    <2> SUFFICES ASSUME NEW h \in Host, heard'[h].at # Never, EntriesOf(h)' = {}
                 PROVE  /\ Invalid' = {}
                        /\ \A i \in Slot : heard'[entries'[i].ip].at >= heard'[h].at
      BY DEF KeepsRecent
    <2>1. h # ip
      BY <1>2, <1>6 DEF EntriesOf
    <2>2. heard'[h] = heard[h] /\ heard[h].at # Never
      BY <2>1, <1>8
    <2>3. \A i \in Slot \ {k} : ~(entries[i].valid /\ entries[i].ip = h)
      BY <1>6 DEF EntriesOf
    <2>4. Invalid = {}
      <3> SUFFICES ASSUME Invalid # {} PROVE FALSE
        OBVIOUS
      <3>1. ~entries[k].valid
        BY DEF Victims, Invalid
      <3>2. EntriesOf(h) = {}
        BY <2>3, <3>1 DEF EntriesOf
      <3> QED BY <2>2, <3>2 DEF Cache, KeepsRecent
    <2>5. \A i \in Slot : entries[i].valid /\ entries[i].ip \in Host \ {ip}
      BY <2>4, <1>3 DEF Invalid
    <2>6. \A i \in Slot : heard[entries[i].ip].at >= heard[h].at
      <3>1. CASE EntriesOf(h) = {}
        BY <3>1, <2>2 DEF Cache, KeepsRecent
      <3>2. CASE EntriesOf(h) # {}
        <4>1. entries[k].ip = h
          BY <3>2, <2>3 DEF EntriesOf
        <4>2. \A i \in Slot : entries[k].expiry <= entries[i].expiry
          BY <2>4 DEF Victims, Oldest
        <4>3. \A i \in Slot : entries[i].expiry = heard[entries[i].ip].at + TTL
          BY <2>5 DEF Cache, EntriesCurrent
        <4> QED BY <1>2, <1>4, <1>8, <2>5, <4>1, <4>2, <4>3
      <3> QED BY <3>1, <3>2
    <2>7. Invalid' = {}
      BY <2>5, <1>6 DEF Invalid
    <2>8. \A i \in Slot : heard'[entries'[i].ip].at >= heard'[h].at
      <3> SUFFICES ASSUME NEW i \in Slot
                   PROVE  heard'[entries'[i].ip].at >= heard'[h].at
        OBVIOUS
      <3>1. CASE i = k
        <4>1. heard'[entries'[i].ip].at = now
          BY <3>1, <1>6, <1>8
        <4> QED BY <4>1, <1>4, <1>8
      <3>2. CASE i # k
        <4>1. entries'[i] = entries[i] /\ heard'[entries[i].ip] = heard[entries[i].ip]
          BY <3>2, <1>6, <1>8, <2>5
        <4> QED BY <4>1, <2>2, <2>6
      <3> QED BY <3>1, <3>2
    <2> QED BY <2>7, <2>8
  <1> QED BY <1>9, <1>10, <1>11, <1>12, <1>13, <1>14 DEF Cache

----------------------------------------------------------------------------
(* The steps of a resolution and the clock.                                *)

\* A step that leaves the table and the history alone keeps what relates them.
LEMMA TableUntouched ==
    ASSUME Cache, entries' = entries, heard' = heard,
           now' \in Nat, now' >= now,
           waiting' \in [ip : Host \cup {NoHost}, polls : 0..MaxPolls],
           answer' \in Answer
    PROVE  Cache'
  <1>1. TypeOK'
    BY DEF Cache, TypeOK
  <1>2. HeardInPast'
    <2>1. now \in Nat /\ \A h \in Host : heard[h].at \in Int
      BY DEF Cache, TypeOK, Never
    <2> QED BY <2>1 DEF Cache, HeardInPast
  <1>3. OneEntryPerHost' /\ EntriesCurrent' /\ EntriesHeard'
    BY DEF Cache, OneEntryPerHost, EntriesCurrent, EntriesHeard
  <1>4. KeepsRecent'
    BY DEF Cache, KeepsRecent, EntriesOf, Invalid
  <1> QED BY <1>1, <1>2, <1>3, <1>4 DEF Cache

\* What a search returns is an address of the table.
LEMMA LookupType ==
    ASSUME TypeOK, NEW ip, NEW mac \in Lookup(ip)
    PROVE  mac \in Mac \cup {NoMac}
  BY DEF TypeOK, Lookup, Entry

LEMMA ResolveKeeps ==
    ASSUME Cache, NEW dst \in Host \cup Far, Resolve(dst)
    PROVE  Cache'
  <1> DEFINE hop == NextHop(dst)
  <1>1. hop \in Host \cup {NoHost}
    BY ArpAssumption DEF NextHop, NoHost
  <1>2. entries' = entries /\ heard' = heard /\ now' = now /\ now \in Nat
    BY DEF Resolve, Cache, TypeOK
  <1>3. waiting' \in [ip : Host \cup {NoHost}, polls : 0..MaxPolls]
    BY <1>1, ArpAssumption DEF Resolve, Cache, TypeOK
  <1>4. answer' \in Answer
    BY <1>1, LookupType DEF Resolve, Cache, TypeOK, Nothing, Answer
  <1> QED BY <1>2, <1>3, <1>4, TableUntouched

LEMMA ResolveGroupKeeps ==
    ASSUME Cache, NEW dst \in Group, ResolveGroup(dst)
    PROVE  Cache'
  <1>1. answer' \in Answer
    BY DEF ResolveGroup, Answer
  <1> QED BY <1>1, TableUntouched DEF ResolveGroup, Cache, TypeOK

LEMMA WaitedKeeps ==
    ASSUME Cache, Waited
    PROVE  Cache'
  <1>1. entries' = entries /\ heard' = heard /\ now' = now /\ now \in Nat
    BY DEF Waited, Cache, TypeOK
  <1>2. waiting.ip \in Host \cup {NoHost} /\ waiting.polls \in 0..MaxPolls
    BY DEF Cache, TypeOK
  <1>3. waiting' \in [ip : Host \cup {NoHost}, polls : 0..MaxPolls]
    <2>1. NotWaiting \in [ip : Host \cup {NoHost}, polls : 0..MaxPolls]
      BY ArpAssumption DEF NotWaiting
    <2>2. waiting.polls + 1 < MaxPolls =>
              [waiting EXCEPT !.polls = @ + 1] \in [ip : Host \cup {NoHost}, polls : 0..MaxPolls]
      BY <1>2, ArpAssumption DEF Cache, TypeOK
    <2> QED BY <2>1, <2>2 DEF Waited
  <1>4. answer' \in Answer
    BY <1>2, LookupType DEF Waited, Cache, TypeOK, Nothing, Answer
  <1> QED BY <1>1, <1>3, <1>4, TableUntouched

LEMMA TickKeeps ==
    ASSUME Cache, Tick
    PROVE  Cache'
  <1>1. now' \in Nat /\ now' >= now
    BY DEF Tick, Cache, TypeOK
  <1> QED BY <1>1, TableUntouched DEF Tick, Cache, TypeOK

LEMMA InitCache == Init => Cache
  <1> SUFFICES ASSUME Init PROVE Cache
    OBVIOUS
  <1>1. /\ entries \in [Slot -> Entry]
        /\ \A i \in Slot : ~entries[i].valid
    BY DEF Init, Entry, Unused
  <1>2. /\ heard \in [Host -> [mac : Mac \cup {NoMac}, at : Nat \cup {Never}]]
        /\ \A h \in Host : heard[h].at = Never
    BY DEF Init
  <1>3. TypeOK
    BY <1>1, <1>2, ArpAssumption DEF Init, TypeOK, NotWaiting, Nothing, Answer
  <1>4. HeardInPast
    BY <1>2 DEF Init, HeardInPast, Never
  <1> QED BY <1>1, <1>2, <1>3, <1>4
          DEF Cache, OneEntryPerHost, EntriesCurrent, EntriesHeard, KeepsRecent

----------------------------------------------------------------------------
(* The theorems.                                                           *)

\* The inductive invariant holds for any table, hosts and lifetime
\* (src/stack/arp.go:33-71).
THEOREM CacheInvariant == Spec => []Cache
  <1>1. Cache /\ [Next]_vars => Cache'
    <2> SUFFICES ASSUME Cache, [Next]_vars PROVE Cache'
      OBVIOUS
    <2>1. CASE \E ip \in Host, mac \in Mac : FrameIn(ip, mac)
      BY <2>1, RefreshKeeps, PlaceKeeps
    <2>2. CASE \E dst \in Host \cup Far : Resolve(dst)
      BY <2>2, ResolveKeeps
    <2>3. CASE \E dst \in Group : ResolveGroup(dst)
      BY <2>3, ResolveGroupKeeps
    <2>4. CASE Waited
      BY <2>4, WaitedKeeps
    <2>5. CASE Tick
      BY <2>5, TickKeeps
    <2>6. CASE UNCHANGED vars
      BY <2>6, TableUntouched DEF vars, Cache, TypeOK
    <2> QED BY <2>1, <2>2, <2>3, <2>4, <2>5, <2>6 DEF Next
  <1> QED BY <1>1, InitCache, PTL DEF Spec

\* The types of the table, the resolution and the history.
THEOREM ArpTypeCorrect == Spec => []TypeOK
  <1>1. Cache => TypeOK
    BY DEF Cache
  <1> QED BY <1>1, CacheInvariant, PTL

\* No address is ever in two entries (src/stack/arp.go:44-71).
THEOREM EntriesAreUnique == Spec => []OneEntryPerHost
  <1>1. Cache => OneEntryPerHost
    BY DEF Cache
  <1> QED BY <1>1, CacheInvariant, PTL

\* An entry is the last claim of its host, with its expiry counted from then
\* (src/stack/arp.go:44-71).
THEOREM EntriesFollowClaims == Spec => []EntriesCurrent
  <1>1. Cache => EntriesCurrent
    BY DEF Cache
  <1> QED BY <1>1, CacheInvariant, PTL

\* Only the hosts heard from longest ago are forgotten, and none while there is
\* room (src/stack/arp.go:54-64).
THEOREM OldestIsForgotten == Spec => []KeepsRecent
  <1>1. Cache => KeepsRecent
    BY DEF Cache
  <1> QED BY <1>1, CacheInvariant, PTL
=============================================================================
