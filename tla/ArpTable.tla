------------------------------ MODULE ArpTable ------------------------------
(***************************************************************************)
(* The ARP table and the resolution of a next hop (src/stack/arp.go): a    *)
(* fixed table that is searched for an address, refreshed by every ARP     *)
(* frame that is seen, and that gives up its oldest entry when it is full; *)
(* and the loop in which the stack waits for an answer while it polls the  *)
(* device.  What is sent is not kept: other hosts' frames come whenever    *)
(* they come.                                                              *)
(***************************************************************************)
EXTENDS Integers

CONSTANTS
    TableLen,   \* ARPTableLen: 16
    Host,       \* addresses on our own subnet
    Far,        \* addresses that are not
    Group,      \* the broadcast address and multicast addresses
    GroupMac,   \* the mac that is derived from such an address
    NoGateway,  \* the gateway is not configured
    Gateway,    \* s.gateway, or NoGateway
    Mac,
    NoMac,
    TTL,        \* arpTTL: five minutes
    MaxPolls,   \* 200: how often resolve polls
    MaxNow      \* bound of the clock

ASSUME ArpAssumption ==
    /\ TableLen \in Nat \ {0}
    /\ Gateway \in Host \cup {NoGateway} /\ NoGateway \notin Host
    /\ NoGateway \notin Group /\ Group \cap Host = {}
    /\ NoMac \notin Mac /\ GroupMac \notin Mac \cup {NoMac}
    /\ TTL \in Nat /\ MaxPolls \in Nat \ {0} /\ MaxNow \in Nat

VARIABLES
    entries,    \* the table
    now,        \* the clock
    waiting,    \* the resolution under way: its next hop and its polls
    answer,     \* what the last resolution returned
    heard       \* history: the last claim of each host, and when it was heard

vars == <<entries, now, waiting, answer, heard>>

Slot == 0..(TableLen - 1)
Never == -1
NoHost == NoGateway

Entry == [ip : Host \cup {NoHost}, mac : Mac \cup {NoMac}, expiry : Nat, valid : BOOLEAN]
Unused == [ip |-> NoHost, mac |-> NoMac, expiry |-> 0, valid |-> FALSE]
Answer == [ip : Host \cup Group \cup {NoHost}, mac : Mac \cup {GroupMac, NoMac}]
NotWaiting == [ip |-> NoHost, polls |-> 0]
Nothing == [ip |-> NoHost, mac |-> NoMac]

Init ==
    /\ entries = [i \in Slot |-> Unused]
    /\ now = 0
    /\ waiting = NotWaiting
    /\ answer = Nothing
    /\ heard = [h \in Host |-> [mac |-> NoMac, at |-> Never]]

----------------------------------------------------------------------------
IsFirst(i, S) == i \in S /\ \A j \in S : i <= j

EntriesOf(ip) == {i \in Slot : entries[i].valid /\ entries[i].ip = ip}

Invalid == {i \in Slot : ~entries[i].valid}

\* Slips the runs must catch.
JustRefreshed(ip) == {i \in EntriesOf(ip) : entries[i].expiry = now + TTL}
MacKept(ip, mac) ==
    [i \in Slot |-> IF i \in EntriesOf(ip) THEN [entries[i] EXCEPT !.expiry = now + TTL]
                    ELSE entries[i]]
Newest == {i \in Slot : \A j \in Slot : entries[j].expiry <= entries[i].expiry}

\* The entry the search for an address stops at.
Existing(ip) == EntriesOf(ip)

\* lookup: the mac of the first entry, however old it is.
Lookup(ip) == {entries[i].mac : i \in {j \in Slot : IsFirst(j, EntriesOf(ip))}}

Oldest == {i \in Slot : \A j \in Slot : entries[i].expiry <= entries[j].expiry}

\* The slot a new entry goes to.
Victims == IF Invalid # {} THEN Invalid ELSE Oldest

Renewed(e, mac) == [e EXCEPT !.mac = mac, !.expiry = now + TTL]

Refreshed(ip, mac) ==
    [i \in Slot |-> IF IsFirst(i, Existing(ip)) THEN Renewed(entries[i], mac)
                    ELSE entries[i]]

Placed(ip, mac) ==
    [i \in Slot |-> IF IsFirst(i, Victims)
                    THEN [ip |-> ip, mac |-> mac, expiry |-> now + TTL, valid |-> TRUE]
                    ELSE entries[i]]

\* handleARP, for any frame of another host: update, with what it says of its
\* sender.
Update(ip, mac) ==
    /\ entries' = IF Existing(ip) # {} THEN Refreshed(ip, mac) ELSE Placed(ip, mac)
    /\ heard' = [heard EXCEPT ![ip] = [mac |-> mac, at |-> now]]

----------------------------------------------------------------------------
(* resolve                                                                 *)

\* The host whose mac is needed to reach dst.
NextHop(dst) == IF dst \in Host THEN dst ELSE Gateway

Resolve(dst) ==
    /\ waiting = NotWaiting
    /\ LET hop == NextHop(dst) IN
        \/ hop = NoGateway /\ answer' = Nothing /\ UNCHANGED waiting
        \/ /\ hop # NoGateway /\ Lookup(hop) # {}
           /\ \E mac \in Lookup(hop) : answer' = [ip |-> hop, mac |-> mac]
           /\ UNCHANGED waiting
        \/ /\ hop # NoGateway /\ Lookup(hop) = {}
           /\ waiting' = [ip |-> hop, polls |-> 0]
           /\ UNCHANGED answer
    /\ UNCHANGED <<entries, now, heard>>

\* resolve, for a group: neither the table nor the gateway is needed.
ResolveGroup(dst) ==
    /\ waiting = NotWaiting
    /\ answer' = [ip |-> dst, mac |-> GroupMac]
    /\ UNCHANGED <<entries, now, waiting, heard>>

\* Slip: the turns are not counted.
WaitedForever ==
    /\ waiting.ip # NoHost
    /\ \/ /\ \E mac \in Lookup(waiting.ip) : answer' = [ip |-> waiting.ip, mac |-> mac]
          /\ waiting' = NotWaiting
       \/ Lookup(waiting.ip) = {} /\ UNCHANGED <<waiting, answer>>
    /\ UNCHANGED <<entries, now, heard>>

\* One turn of the loop after its poll: the answer is there, or it is not.
Waited ==
    /\ waiting.ip # NoHost
    /\ \/ /\ \E mac \in Lookup(waiting.ip) : answer' = [ip |-> waiting.ip, mac |-> mac]
          /\ waiting' = NotWaiting
       \/ /\ Lookup(waiting.ip) = {} /\ waiting.polls + 1 < MaxPolls
          /\ waiting' = [waiting EXCEPT !.polls = @ + 1]
          /\ UNCHANGED answer
       \/ /\ Lookup(waiting.ip) = {} /\ waiting.polls + 1 >= MaxPolls
          /\ waiting' = NotWaiting /\ answer' = Nothing
    /\ UNCHANGED <<entries, now, heard>>

\* A poll, of the loop or of anyone else, brings a frame.
FrameIn(ip, mac) == Update(ip, mac) /\ UNCHANGED <<now, waiting, answer>>

Tick == now < MaxNow /\ now' = now + 1 /\ UNCHANGED <<entries, waiting, answer, heard>>

Next ==
    \/ \E ip \in Host, mac \in Mac : FrameIn(ip, mac)
    \/ \E dst \in Host \cup Far : Resolve(dst)
    \/ \E dst \in Group : ResolveGroup(dst)
    \/ Waited
    \/ Tick

Spec == Init /\ [][Next]_vars

\* The loop of resolve sleeps and goes on.
FairSpec == Spec /\ WF_vars(Waited)

----------------------------------------------------------------------------
(* Properties.                                                             *)

TypeOK ==
    /\ entries \in [Slot -> Entry]
    /\ now \in Nat
    /\ waiting \in [ip : Host \cup {NoHost}, polls : 0..MaxPolls]
    /\ answer \in Answer
    /\ heard \in [Host -> [mac : Mac \cup {NoMac}, at : Nat \cup {Never}]]

\* A host has one entry: no refresh and no eviction ever leaves an address in
\* two slots, of which the search would find the staler (arp.go:44-71).
OneEntryPerHost ==
    \A i, j \in Slot : entries[i].valid /\ entries[j].valid /\ entries[i].ip = entries[j].ip
                       => i = j

\* An entry holds the last claim of its host.
EntriesCurrent ==
    \A i \in Slot : entries[i].valid =>
        /\ entries[i].mac = heard[entries[i].ip].mac
        /\ entries[i].expiry = heard[entries[i].ip].at + TTL

\* Only the hosts heard from longest ago are forgotten, and none while there is
\* room (arp.go:54-64).
KeepsRecent ==
    \A h \in Host : heard[h].at # Never /\ EntriesOf(h) = {} =>
        /\ Invalid = {}
        /\ \A i \in Slot : heard[entries[i].ip].at >= heard[h].at

\* A resolution ends (arp.go:188-200).
ResolveEnds == waiting.ip # NoHost ~> waiting.ip = NoHost

----------------------------------------------------------------------------
(* What the documentation says and the code does not keep.                 *)

\* An entry is not used when its time is over (DESIGN.md:177 "16-entry table,
\* 5-min TTL").
AnswersAreFresh ==
    [][answer' # answer /\ answer'.mac \in Mac => now <= heard[answer'.ip].at + TTL]_vars
=============================================================================
