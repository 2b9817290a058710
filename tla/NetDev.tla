------------------------------- MODULE NetDev -------------------------------
(***************************************************************************)
(* The station's connection (src/netdev.go): the background goroutine run, *)
(* which polls the stack and keeps the link up, the application's          *)
(* goroutines, which share one mutex with it, the status callback, for     *)
(* which the mutex is released, the DHCP client, and the link state that   *)
(* the chip's events keep (src/wifi.go, src/ioctl.go).  The chip, the      *)
(* access point and its DHCP server are outside the code: what they may do *)
(* is bounded by a budget of faults.                                       *)
(***************************************************************************)
EXTENDS DhcpClient, Sequences

CONSTANTS
    Static,     \* whether Config.IP is set, so that DHCP is not used
    Blocks,     \* the application calls Recv without a deadline
    MaxRx,      \* packets waiting in the chip
    MaxFaults   \* lost frames, refused joins, NAKs, lost links, early timers

ASSUME NetDevAssumption ==
    Static \subseteq BOOLEAN /\ Blocks \in BOOLEAN /\ MaxRx \in Nat /\ MaxFaults \in Nat

VARIABLES
    mu,     \* nd.mu: who holds it, "timers" for a user whose Poll is at its timers
    run,    \* where the goroutine run is
    nd,     \* cfg.IP.IsValid(), connSt, connDeadline, connRetry, and dev.linkUp
    dhcp,   \* the DHCP client
    told,   \* the last event the application was told
    acked,  \* history: the server granted the lease since LinkUp was told
    chip,   \* the packets for the host, the radio, and the request on its way
    faults  \* what went wrong so far

vars == <<mu, run, nd, dhcp, told, acked, chip, faults>>

Event == {"LinkUp", "LinkDown", "IPAcquired"}

Holder == {"free", "run", "user", "timers"}

RunPc == {"unlocked", "poll", "timers", "maintain", "startJoin", "joinSent", "callback", "relock"}

Init ==
    /\ mu = "free"
    /\ run = [pc |-> "unlocked", then |-> "end"]
    /\ nd \in [static : Static, connSt : {"idle"}, due : {FALSE}, retry : {"zero"},
              linkUp : {FALSE}]
    /\ dhcp = NewClient
    /\ told = "none"
    /\ acked = FALSE
    /\ chip = [rx |-> <<>>, radio |-> "off", asked |-> "none"]
    /\ faults = 0

----------------------------------------------------------------------------
(* Poll, by whoever holds the mutex: dev.Poll first, the timers after it,   *)
(* whether or not there was a packet.                                      *)

\* What the DHCP client broadcasts gets nowhere while the radio is off.
Asked(types) == IF types = {} \/ chip.radio # "on" THEN chip.asked ELSE CHOOSE t \in types : TRUE

LinkEvent == {"link", "nolink"}

\* processEvent, for the events that move the link.
LinkAfter(up, packet) ==
    IF packet \in LinkEvent THEN packet = "link" ELSE up

\* dev.Poll takes one packet from the chip and handles it to the end.
PollPacket ==
    /\ chip.rx # <<>>
    /\ LET packet == Head(chip.rx) IN
        /\ nd' = [nd EXCEPT !.linkUp = LinkAfter(@, packet)]
        /\ \/ packet \in LinkEvent /\ UNCHANGED dhcp
           \/ packet \notin LinkEvent /\ \E a \in Addr : dhcp' = HandlePacket(dhcp, packet, a)
        /\ acked' = (acked \/ (packet = "ack" /\ TakesAck(dhcp)))
        /\ chip' = [chip EXCEPT !.rx = Tail(@), !.asked = Asked(Answers(dhcp, packet))]
    /\ UNCHANGED <<told, faults>>

\* There was none.
NoPacket == chip.rx = <<>> /\ UNCHANGED <<nd, dhcp, told, acked, chip, faults>>

\* Nothing that could still bring an answer is under way.
Quiet == chip.rx = <<>> /\ chip.asked = "none" /\ chip.radio # "trying"

\* What may happen at any time in time, and before its time only as a fault.
OnlyAsFaultUnless(inTime) ==
    \/ inTime /\ UNCHANGED faults
    \/ ~inTime /\ faults < MaxFaults /\ faults' = faults + 1

\* A timer may run out while the answer is late.
TimeUp == OnlyAsFaultUnless(Quiet)

\* dhcp.poll: retxTime or renewTime has passed.  Half of a lease is longer than
\* run takes to notice the lease, unless something holds the mutex.
PollTimer ==
    /\ \/ RetxDue(dhcp) /\ dhcp' = RetxExpired(dhcp) /\ TimeUp
       \/ RenewDue(dhcp) /\ dhcp' = Renewed(dhcp) /\ OnlyAsFaultUnless(nd.connSt # "dhcp")
    /\ chip' = [chip EXCEPT !.asked = Asked(Sends(dhcp'))]
    /\ UNCHANGED <<nd, told, acked>>

\* No timer of the client has run out.
NoTimer == UNCHANGED <<nd, dhcp, told, acked, chip, faults>>

----------------------------------------------------------------------------
(* run                                                                     *)

At(pc) == run.pc = pc

Lock ==
    /\ At("unlocked") /\ mu = "free"
    /\ mu' = "run" /\ run' = [run EXCEPT !.pc = "poll"]
    /\ UNCHANGED <<nd, dhcp, told, acked, chip, faults>>

\* The mutex is released and the goroutine sleeps for a millisecond.
Unlock == mu' = "free" /\ run' = [pc |-> "unlocked", then |-> "end"]

\* notify: the callback runs without the mutex.
Notify(e, then) ==
    /\ told' = e
    /\ mu' = "free" /\ run' = [pc |-> "callback", then |-> then]

\* The status callback returns, and notify takes the mutex back.
CallbackReturns ==
    /\ At("callback") /\ run' = [run EXCEPT !.pc = "relock"]
    /\ UNCHANGED <<mu, nd, dhcp, told, acked, chip, faults>>

RunPolls ==
    /\ At("poll")
    /\ PollPacket \/ NoPacket
    /\ run' = [run EXCEPT !.pc = "timers"]
    /\ UNCHANGED mu

RunTimers ==
    /\ At("timers")
    /\ PollTimer \/ NoTimer
    /\ run' = [run EXCEPT !.pc = "maintain"]
    /\ UNCHANGED mu

\* DHCPStart
StartDhcp ==
    /\ dhcp' = Started(dhcp)
    /\ chip' = [chip EXCEPT !.asked = Asked({"discover"})]

\* maintainConnection, case by case.
StayIdle ==
    /\ At("maintain") /\ nd.connSt = "idle" /\ nd.retry = "wait"
    /\ Unlock /\ UNCHANGED <<nd, dhcp, told, acked, chip, faults>>

\* startJoin forgets the link before its first ioctl; every ioctl polls.
StartJoin ==
    /\ At("maintain") /\ nd.connSt = "idle" /\ nd.retry # "wait"
    /\ nd' = [nd EXCEPT !.linkUp = FALSE]
    /\ run' = [run EXCEPT !.pc = "startJoin"]
    /\ UNCHANGED <<mu, dhcp, told, acked, chip, faults>>

\* The last ioctl, WLC_SET_SSID, tells the chip to associate.  The chip reports
\* the end of an association it had, and answers the ioctl after everything it
\* had queued before.
JoinSent ==
    /\ At("startJoin")
    /\ LET reports == IF chip.radio = "on" THEN <<"nolink", "joined">> ELSE <<"joined">> IN
        /\ Len(chip.rx) + Len(reports) <= MaxRx
        /\ chip' = [radio |-> "trying", asked |-> "none", rx |-> chip.rx \o reports]
    /\ run' = [run EXCEPT !.pc = "joinSent"]
    /\ UNCHANGED <<mu, nd, dhcp, told, acked, faults>>

JoinPolls ==
    /\ At("startJoin") \/ At("joinSent")
    /\ chip.rx # <<>> /\ Head(chip.rx) # "joined"
    /\ PollPacket
    /\ UNCHANGED <<mu, run>>

JoinReturns ==
    /\ At("joinSent") /\ chip.rx # <<>> /\ Head(chip.rx) = "joined"
    /\ chip' = [chip EXCEPT !.rx = Tail(@)]
    /\ nd' = [nd EXCEPT !.connSt = "joining", !.due = FALSE, !.retry = "zero"]
    /\ Unlock /\ UNCHANGED <<dhcp, told, acked, faults>>

\* An answer that is still on its way has the wrong id for the next ioctl, and is
\* dropped when it is read.
Outdated(rx) == [i \in DOMAIN rx |-> IF rx[i] = "joined" THEN "outdated" ELSE rx[i]]

\* An ioctl was refused or not answered in time.
JoinFails ==
    /\ At("startJoin") \/ At("joinSent")
    /\ faults < MaxFaults /\ faults' = faults + 1
    /\ chip' = [chip EXCEPT !.rx = Outdated(@)]
    /\ nd' = [nd EXCEPT !.retry = "wait"]
    /\ Unlock /\ UNCHANGED <<dhcp, told, acked>>

\* Slips the runs must catch: waiting on for a join that ran out of time, and
\* leaving the application uninformed of a link that is lost before the address
\* comes.
StillJoining(s) == s
LossTooEarly ==
    /\ ~nd.linkUp /\ nd' = [nd EXCEPT !.connSt = "idle"]
    /\ IF nd.connSt = "dhcp" THEN Unlock /\ UNCHANGED told ELSE Notify("LinkDown", "end")

\* The retry time after a join that ran out of time.
GaveUpJoin(s) == [s EXCEPT !.connSt = "idle", !.retry = "wait"]

WhileJoining ==
    /\ At("maintain") /\ nd.connSt = "joining"
    /\ \/ nd.linkUp /\ Notify("LinkUp", "configure") /\ acked' = FALSE /\ UNCHANGED nd
       \/ ~nd.linkUp /\ nd.due /\ nd' = GaveUpJoin(nd) /\ Unlock /\ UNCHANGED <<told, acked>>
       \/ ~nd.linkUp /\ ~nd.due /\ Unlock /\ UNCHANGED <<nd, told, acked>>
    /\ UNCHANGED <<dhcp, chip, faults>>

\* maintainConnection goes on after the callback, whatever happened meanwhile.
Relock ==
    /\ At("relock") /\ mu = "free"
    /\ \/ /\ run.then = "end"
          /\ Unlock
          /\ UNCHANGED <<nd, dhcp, told, chip>>
       \/ /\ run.then = "configure" /\ nd.static
          /\ nd' = [nd EXCEPT !.connSt = "up"]
          /\ Notify("IPAcquired", "end")
          /\ UNCHANGED <<dhcp, chip>>
       \/ /\ run.then = "configure" /\ ~nd.static
          /\ nd' = [nd EXCEPT !.connSt = "dhcp", !.due = FALSE]
          /\ StartDhcp
          /\ Unlock
          /\ UNCHANGED told
    /\ UNCHANGED <<acked, faults>>

\* The link went down: join again at once.
LinkLost == ~nd.linkUp /\ nd' = [nd EXCEPT !.connSt = "idle"] /\ Notify("LinkDown", "end")

WhileDhcp ==
    /\ At("maintain") /\ nd.connSt = "dhcp"
    /\ \/ /\ LinkLost
          /\ UNCHANGED <<dhcp, chip>>
       \/ /\ nd.linkUp /\ dhcp.state = "Bound"
          /\ nd' = [nd EXCEPT !.connSt = "up"] /\ Notify("IPAcquired", "end")
          /\ UNCHANGED <<dhcp, chip>>
       \/ /\ nd.linkUp /\ dhcp.state # "Bound" /\ nd.due
          /\ nd' = [nd EXCEPT !.due = FALSE] /\ StartDhcp /\ Unlock
          /\ UNCHANGED told
       \/ /\ nd.linkUp /\ dhcp.state # "Bound" /\ ~nd.due
          /\ Unlock /\ UNCHANGED <<nd, dhcp, told, chip>>
    /\ UNCHANGED <<acked, faults>>

WhileUp ==
    /\ At("maintain") /\ nd.connSt = "up"
    /\ \/ LinkLost
       \/ nd.linkUp /\ Unlock /\ UNCHANGED <<nd, told>>
    /\ UNCHANGED <<dhcp, acked, chip, faults>>

Maintain == StayIdle \/ StartJoin \/ JoinSent \/ JoinReturns \/ WhileJoining \/ WhileDhcp \/ WhileUp

----------------------------------------------------------------------------
(* The application: a call that polls while it holds the mutex, like Recv. *)

UserLocks ==
    /\ mu = "free" /\ mu' = "user"
    /\ UNCHANGED <<run, nd, dhcp, told, acked, chip, faults>>

UserPolls ==
    /\ mu = "user" /\ mu' = "timers"
    /\ PollPacket \/ NoPacket
    /\ UNCHANGED run

UserTimers ==
    /\ mu = "timers" /\ mu' = "user"
    /\ PollTimer \/ NoTimer
    /\ UNCHANGED run

UserReturns ==
    /\ mu = "user" /\ mu' = "free"
    /\ UNCHANGED <<run, nd, dhcp, told, acked, chip, faults>>

----------------------------------------------------------------------------
(* Time, and what is outside the code.                                     *)

DeadlinePasses ==
    /\ nd.connSt \in {"joining", "dhcp"} /\ ~nd.due
    /\ nd' = [nd EXCEPT !.due = TRUE]
    /\ TimeUp
    /\ UNCHANGED <<mu, run, dhcp, told, acked, chip>>

RetryPasses ==
    /\ nd.retry = "wait" /\ nd' = [nd EXCEPT !.retry = "past"]
    /\ UNCHANGED <<mu, run, dhcp, told, acked, chip, faults>>

Associates ==
    /\ chip.radio = "trying" /\ Len(chip.rx) < MaxRx
    /\ chip' = [chip EXCEPT !.radio = "on", !.rx = Append(@, "link")]
    /\ UNCHANGED <<mu, run, nd, dhcp, told, acked, faults>>

ServerReplies ==
    /\ chip.asked # "none" /\ Len(chip.rx) < MaxRx
    /\ chip' = [chip EXCEPT !.asked = "none",
                            !.rx = Append(@, IF chip.asked = "discover" THEN "offer" ELSE "ack")]
    /\ UNCHANGED <<mu, run, nd, dhcp, told, acked, faults>>

\* The access point does not answer the join, drops the station, or a frame is
\* lost; the server refuses the request.
Fault ==
    /\ faults < MaxFaults /\ faults' = faults + 1
    /\ \/ /\ chip.radio = "trying"
          /\ chip' = [chip EXCEPT !.radio = "off"]
       \/ /\ chip.radio = "on" /\ Len(chip.rx) < MaxRx
          /\ chip' = [radio |-> "off", asked |-> "none", rx |-> Append(chip.rx, "nolink")]
       \/ /\ chip.asked # "none"
          /\ chip' = [chip EXCEPT !.asked = "none"]
       \/ /\ chip.asked = "request" /\ Len(chip.rx) < MaxRx
          /\ chip' = [chip EXCEPT !.asked = "none", !.rx = Append(@, "nak")]
    /\ UNCHANGED <<mu, run, nd, dhcp, told, acked>>

Next ==
    \/ Lock \/ RunPolls \/ RunTimers \/ Maintain \/ JoinPolls \/ JoinFails
    \/ CallbackReturns \/ Relock
    \/ UserLocks \/ UserPolls \/ UserTimers \/ UserReturns
    \/ DeadlinePasses \/ RetryPasses \/ Associates \/ ServerReplies \/ Fault

Spec == Init /\ [][Next]_vars

\* The goroutine run is scheduled, the mutex is fair to who waits for it, time
\* passes, callbacks return, and the access point answers what does not fall to
\* a fault.  A call of the application returns if it has a deadline, which it looks
\* at between its polls.
Fairness ==
    /\ SF_vars(Lock) /\ SF_vars(Relock)
    /\ WF_vars(RunPolls) /\ WF_vars(RunTimers) /\ WF_vars(JoinPolls) /\ WF_vars(Maintain)
    /\ WF_vars(CallbackReturns)
    /\ WF_vars(DeadlinePasses) /\ WF_vars(RetryPasses)
    /\ WF_vars(Associates) /\ WF_vars(ServerReplies)
    /\ (~Blocks => WF_vars(UserTimers) /\ SF_vars(UserReturns))

FairSpec == Spec /\ Fairness

----------------------------------------------------------------------------
(* Properties.                                                             *)

Packet == {"link", "nolink", "joined", "outdated", "offer", "ack", "nak"}

TypeOK ==
    /\ mu \in Holder
    /\ run \in [pc : RunPc, then : {"end", "configure"}]
    /\ nd \in [static : Static, connSt : {"idle", "joining", "dhcp", "up"}, due : BOOLEAN,
               retry : {"zero", "wait", "past"}, linkUp : BOOLEAN]
    /\ dhcp \in DhcpRecord
    /\ told \in Event \cup {"none"}
    /\ acked \in BOOLEAN
    /\ DOMAIN chip = {"rx", "radio", "asked"}
    /\ chip.rx \in Seq(Packet) /\ Len(chip.rx) <= MaxRx
    /\ chip.radio \in {"off", "trying", "on"}
    /\ chip.asked \in {"none", "discover", "request"}
    /\ faults \in 0..MaxFaults

\* The status callback is called.
Tells == run.pc # "callback" /\ run'.pc = "callback"

\* The application is told of an address only after it was told of the link,
\* and of a new link only after it was told that the old one is gone, although
\* other goroutines poll while the callback runs (netdev.go:173-207).
EventsInOrder ==
    [][Tells => <<told, told'>> \in
        {<<"none", "LinkUp">>, <<"LinkUp", "IPAcquired">>, <<"LinkUp", "LinkDown">>,
         <<"IPAcquired", "LinkDown">>, <<"LinkDown", "LinkUp">>}]_vars

\* The connection is up only with an address the server granted since this link
\* came up and the application was told so: the lease of an earlier link is never
\* taken for this one's, however the DHCP client was left (netdev.go:182, 193-197).
AddressOfThisLink ==
    ~nd.static /\ nd.connSt = "up" => acked

\* The connection comes up, and stays up once nothing goes wrong any more
\* (README.md:6-7; TODO.md:1 "reconnect attempts should loop foever").
ComesUp == <>[](nd.connSt = "up" /\ nd.linkUp)

\* The application is told when a link it was told of is gone, with an address or
\* while DHCP was still asking for one (netdev.go:188-191, 204-207).
LossIsReported == (told \in {"LinkUp", "IPAcquired"} /\ ~nd.linkUp) ~> (told = "LinkDown")

----------------------------------------------------------------------------
(* What the documentation says and the code does not keep.                 *)

\* A lost link is joined again (README.md:7 "auto-reconnects on link loss").
LossIsRepaired == (nd.connSt = "up" /\ ~nd.linkUp) ~> (nd.connSt = "joining")

\* A connection that is up does not stay without a lease (DESIGN.md:182 "lease
\* renewal").
LeaseIsRenewed ==
    (nd.connSt = "up" /\ dhcp.state = "Init") ~> (HasLease(dhcp) \/ nd.connSt # "up")

\* A station with an address has a link (netdev.go:41 "Standard net/http works
\* once EventIPAcquired fires").
AddressMeansLink == [][Tells /\ told' = "IPAcquired" => nd.linkUp]_vars
=============================================================================
