-------------------------------- MODULE Mdns --------------------------------
(***************************************************************************)
(* The mDNS responder: its table of services, and the queries it answers   *)
(* (stack/mdns.go).  A query is read question by question from the receive *)
(* buffer, and each record goes out in a frame of its own.  A frame may    *)
(* have to wait for bus credit, and that wait polls: another packet then   *)
(* takes the receive buffer, and the frame it is answered with takes the   *)
(* buffer in which the first one waits.                                    *)
(***************************************************************************)
EXTENDS Naturals, Sequences, FiniteSetsExt, Functions

CONSTANTS
    Inst, Type,     \* the names and the types of services
    LongTxt,        \* the services whose strings do not fit in a response
    HostName,       \* "hostname.local"
    EnumName,       \* "_services._dns-sd._udp.local"
    Elsewhere,      \* a name of another host, or one written with a pointer
    Broken,         \* bytes that are no question
    Foreign,        \* a frame the stack builds for another protocol
    MaxServices,    \* maxServices
    Asked,          \* the questions that are asked
    MaxQuestions,   \* bound: the questions of a packet
    MaxDepth        \* bound: the handlers nested in each other

ASSUME MdnsAssumption ==
    /\ MaxServices \in Nat /\ MaxQuestions \in Nat /\ MaxDepth \in Nat
    /\ LongTxt \subseteq Inst \X Type
    /\ HostName # EnumName
    /\ {HostName, EnumName} \cap (Type \cup Inst \X Type) = {}
    /\ Type \cap (Inst \X Type) = {}
    /\ Broken \notin Asked

VARIABLES
    services,   \* the table, in the order of registration
    ready,      \* the host name and the address are set
    rxBuf,      \* what the receive buffer holds where questions begin
    txPkt,      \* the record built last
    handlers    \* the handlers in progress, the innermost first

vars == <<services, ready, rxBuf, txPkt, handlers>>

-----------------------------------------------------------------------------
(* The records.                                                            *)

Service == Inst \X Type
Slots == Asked \cup {Broken}
Packets == UNION {[1..n -> Slots] : n \in 0..MaxQuestions}

\* Other packets, and what the buffers hold that nobody will read.
NoQuestions == [i \in 1..MaxQuestions |-> Broken]

AddressRecord == <<"A", HostName, HostName>>
EnumRecord(s) == <<"PTR", EnumName, s[2]>>
PtrRecord(s) == <<"PTR", s[2], s>>
SrvRecord(s) == <<"SRV", s, HostName>>
TxtRecord(s) == <<"TXT", s, s[1]>>

Record == {AddressRecord} \cup UNION {{EnumRecord(s), PtrRecord(s), SrvRecord(s), TxtRecord(s)} : s \in Service}

\* Which question a record may answer.
Wants(q, type) == q.type \in {type, "ANY"}

\* Slip: the instance is looked for where the type is.
OfServiceByInstance(q, s) ==
    IF Wants(q, "PTR") /\ q.name = s THEN <<PtrRecord(s)>>
    ELSE IF Wants(q, "SRV") /\ q.name = s THEN <<SrvRecord(s)>>
    ELSE IF Wants(q, "TXT") /\ q.name = s /\ s \notin LongTxt THEN <<TxtRecord(s)>>
    ELSE <<>>

\* The records of one service: the first comparison that succeeds decides.
OfService(q, s) ==
    IF Wants(q, "PTR") /\ q.name = s[2] THEN <<PtrRecord(s)>>
    ELSE IF Wants(q, "SRV") /\ q.name = s THEN <<SrvRecord(s)>>
    ELSE IF Wants(q, "TXT") /\ q.name = s /\ s \notin LongTxt THEN <<TxtRecord(s)>>
    ELSE <<>>

\* The services a question names.
Named(q) ==
    {i \in DOMAIN services : \/ Wants(q, "PTR") /\ q.name = services[i][2]
                             \/ (Wants(q, "SRV") \/ Wants(q, "TXT")) /\ q.name = services[i]}

First(S) == CHOOSE i \in S : \A j \in S : i <= j

\* What is sent for a question, in this order.
Reply(q) ==
    IF Wants(q, "A") /\ q.name = HostName THEN <<AddressRecord>>
    ELSE IF Wants(q, "PTR") /\ q.name = EnumName
         THEN [i \in DOMAIN services |-> EnumRecord(services[i])]
    ELSE IF Named(q) # {} THEN OfService(q, services[First(Named(q))])
    ELSE <<>>

-----------------------------------------------------------------------------
(* The handlers.                                                           *)

\* A handler in progress: the packet, the question it reads next, the records
\* it has still to send for the last one, whether it waits for credit with the
\* first of them, and what went out.  "quiet" is a history: nothing it still
\* needs was overwritten, and every frame found credit.
Handler == [asked : Packets, next : Nat \ {0}, todo : Seq(Record \cup {Foreign}),
            waits : BOOLEAN, said : SUBSET (Record \cup {Foreign}), quiet : BOOLEAN]

Top == handlers[1]
Busy == handlers # <<>>

\* A packet can arrive: run polls, or a frame waits for credit.
Polls == Busy => Top.waits

Starting(asked, todo) ==
    [asked |-> asked, next |-> 1, todo |-> todo, waits |-> FALSE, said |-> {}, quiet |-> TRUE]

\* The history of a handler that was disturbed is not kept, only its length.
Disturbed(h) == [h EXCEPT !.quiet = FALSE, !.said = {}, !.asked = [k \in DOMAIN @ |-> Broken]]

\* A packet takes the receive buffer: handlers with questions to read are
\* disturbed.  A frame takes the transmit buffer: all that wait are.
BufferTaken(h) == IF h.next > Len(h.asked) THEN h ELSE Disturbed(h)
BufferTakenFromAll == [i \in DOMAIN handlers |-> BufferTaken(handlers[i])]

\* A packet is received.  A shorter one leaves the end of the one before it.
Receive(packet) ==
    /\ Polls
    /\ rxBuf' = [i \in 1..MaxQuestions |-> IF i <= Len(packet) THEN packet[i] ELSE rxBuf[i]]
    /\ UNCHANGED <<services, ready, txPkt>>

\* A query for the responder.
HandleQuery(packet) ==
    /\ ready
    /\ Len(handlers) < MaxDepth
    /\ Receive(packet)
    /\ handlers' = <<Starting(packet, <<>>)>> \o BufferTakenFromAll

\* A packet that the stack answers with a frame of another protocol.
AnswersOtherwise ==
    /\ Len(handlers) < MaxDepth
    /\ Receive(NoQuestions)
    /\ handlers' = <<Starting(<<>>, <<Foreign>>)>> \o BufferTakenFromAll

\* A packet that needs no answer: a response of another host, a query before
\* there is an address.
Ignores ==
    /\ Receive(NoQuestions)
    /\ handlers' = BufferTakenFromAll

\* The next question, read from the buffer as it is now.
ReadsQuestion ==
    /\ Busy /\ Top.todo = <<>> /\ Top.next <= Len(Top.asked)
    /\ rxBuf[Top.next] # Broken
    /\ handlers' = [handlers EXCEPT ![1] = [Top EXCEPT !.next = @ + 1, !.todo = Reply(rxBuf[Top.next])]]
    /\ UNCHANGED <<services, ready, rxBuf, txPkt>>

\* A question that cannot be read ends the handler, as does the end of the packet.
Returns ==
    /\ Busy /\ Top.todo = <<>>
    /\ Top.next <= Len(Top.asked) => rxBuf[Top.next] = Broken
    /\ handlers' = Tail(handlers)
    /\ rxBuf' = IF Len(handlers) = 1 THEN NoQuestions ELSE rxBuf
    /\ txPkt' = IF Len(handlers) = 1 THEN Foreign ELSE txPkt
    /\ UNCHANGED <<services, ready>>

\* A frame is built and may have to wait.
Builds ==
    /\ Busy /\ Top.todo # <<>> /\ ~Top.waits
    /\ txPkt' = Head(Top.todo)
    /\ handlers' = [i \in DOMAIN handlers |->
                       IF i = 1 THEN [Top EXCEPT !.waits = TRUE] ELSE Disturbed(handlers[i])]
    /\ UNCHANGED <<services, ready, rxBuf>>

\* There is credit: what the buffer holds now goes out.
Goes ==
    /\ Busy /\ Top.waits
    /\ handlers' = [handlers EXCEPT ![1] =
                       [Top EXCEPT !.waits = FALSE, !.todo = Tail(@),
                                   !.said = IF Top.quiet THEN @ \cup {txPkt} ELSE @]]
    /\ UNCHANGED <<services, ready, rxBuf, txPkt>>

\* There was none for too long: the error is ignored and the next record is sent.
GivesUp ==
    /\ Busy /\ Top.waits
    /\ handlers' = [handlers EXCEPT ![1] =
                       [Disturbed(Top) EXCEPT !.waits = FALSE, !.todo = Tail(@)]]
    /\ UNCHANGED <<services, ready, rxBuf, txPkt>>

\* The table after a registration, which a full table refuses.
Registered(s) == IF Len(services) < MaxServices THEN Append(services, s) ELSE services

\* The application, which has the mutex when no handler runs.
AddService(s) ==
    /\ ~Busy
    /\ services' = Registered(s)
    /\ UNCHANGED <<ready, rxBuf, txPkt, handlers>>

\* The address is set, between two polls or by a packet of one.
SetAddr ==
    /\ Polls /\ ~ready
    /\ ready' = TRUE
    /\ UNCHANGED <<services, rxBuf, txPkt, handlers>>

-----------------------------------------------------------------------------
Init ==
    /\ services = <<>>
    /\ ready = FALSE
    /\ rxBuf = NoQuestions
    /\ txPkt = Foreign
    /\ handlers = <<>>

Next ==
    \/ \E packet \in Packets : HandleQuery(packet)
    \/ AnswersOtherwise \/ Ignores
    \/ ReadsQuestion \/ Returns \/ Builds \/ Goes \/ GivesUp
    \/ \E s \in Service : AddService(s)
    \/ SetAddr

Spec == Init /\ [][Next]_vars

-----------------------------------------------------------------------------
(* What is advertised, by the table of the interface's description, and    *)
(* not by the order of comparisons in the code.                            *)

Advertised ==
    {AddressRecord} \cup UNION {{EnumRecord(s), PtrRecord(s), SrvRecord(s), TxtRecord(s)} : s \in Range(services)}

AnswerTo(q) == {r \in Advertised : r[2] = q.name /\ Wants(q, r[1])}

\* The questions of a packet up to the first that cannot be read.
Legible(packet) == {k \in DOMAIN packet : \A j \in 1..k : packet[j] # Broken}

\* What a packet asks for.
AnswersTo(packet) == UNION {AnswerTo(packet[k]) : k \in Legible(packet)}

\* The handler of a query is about to return.
Finished(h) ==
    /\ h.asked # <<>> /\ h.todo = <<>>
    /\ h.next <= Len(h.asked) => rxBuf[h.next] = Broken

\* One name for each type, and no question for everything a service has.
Distinct == \A s, t \in Range(services) : s[2] = t[2] => s = t
Specific(packet) == \A k \in Legible(packet) : packet[k].type = "ANY" => packet[k].name \notin Service
TooLong == {TxtRecord(s) : s \in LongTxt}

\* Types, and the table of services is not overrun.
TypeOK ==
    /\ services \in Seq(Service) /\ Len(services) <= MaxServices
    /\ ready \in BOOLEAN
    /\ rxBuf \in [1..MaxQuestions -> Slots]
    /\ txPkt \in Record \cup {Foreign}
    /\ handlers \in Seq(Handler)

\* What a handler sends that was not disturbed and whose frames all found credit.
\* For any table and packet: only records that a question asks for, and for every
\* question one of them at least, unless the only one is too long to be sent, so
\* that no comparison hides another (mdns.go:108-150).  If no two services have one
\* type and nobody asks for everything about an instance: all of them that are not
\* too long (README.md:173-183).  A packet may still be handled within a frame that
\* waits, if the last question was read and no frame is built for it.  Of a handler
\* that was disturbed nothing is said: see FramesAreItsOwn and QuestionsAreItsOwn.
AnswersAsAsked ==
    Busy /\ Top.quiet /\ Finished(Top) =>
        /\ Top.said \subseteq AnswersTo(Top.asked)
        /\ \A k \in Legible(Top.asked) :
              AnswerTo(Top.asked[k]) \cap Top.said = {} => AnswerTo(Top.asked[k]) \subseteq TooLong
        /\ Distinct /\ Specific(Top.asked) => Top.said = AnswersTo(Top.asked) \ TooLong

\* Not kept: that also services of one type are all found (README.md:161).
EveryServiceIsFound ==
    Busy /\ Top.quiet /\ Finished(Top) /\ Specific(Top.asked)
    => Top.said = AnswersTo(Top.asked) \ TooLong

\* Not kept: that a frame that waits for credit goes out as it was built, although
\* the polls of the wait build the frames of other packets (ipv4.go:69-110, wifi.go:186).
FramesAreItsOwn == Busy /\ Top.waits => txPkt = Head(Top.todo)

\* Not kept: that no packet is handled while another handler has questions to read
\* from the buffer it is received in (mdns.go:90-105).
QuestionsAreItsOwn ==
    \A i \in DOMAIN handlers : i > 1 => handlers[i].next > Len(handlers[i].asked)

=============================================================================
