----------------------------- MODULE MdnsProofs -----------------------------
(***************************************************************************)
(* What a handler of the mDNS responder sends that no other disturbed and  *)
(* whose frames all found credit, for any names, services and questions    *)
(* and any number of handlers nested in each other.                        *)
(***************************************************************************)
EXTENDS Mdns, WellFoundedInduction, TLAPS

\* What is sent for each question.
Replies == [q \in Asked |-> Range(Reply(q))]

\* What went out for a query and what is still to be sent for its last question.
Owed(h) == h.said \cup Range(h.todo)

\* A handler that was not disturbed reads its own packet, waits with its own
\* frame, and has answered what it read.
Intact(h, buf, frame, replies) ==
    /\ h.next <= Len(h.asked) + 1
    /\ \A k \in h.next..Len(h.asked) : buf[k] = h.asked[k]
    /\ \A k \in 1..(h.next - 1) : h.asked[k] # Broken
    /\ h.waits => frame = Head(h.todo)
    /\ h.asked # <<>> => Owed(h) = UNION {replies[h.asked[k]] : k \in 1..(h.next - 1)}

\* Whoever waits has something to send.
Good(h, buf, frame, replies) ==
    /\ h \in Handler
    /\ h.waits => h.todo # <<>>
    /\ h.quiet => Intact(h, buf, frame, replies)

\* The inductive invariant.  AnswersAsAsked speaks of a handler that is about to
\* return; before that, what it owes are the answers to what it has read.
Answering ==
    /\ TypeOK
    /\ \A i \in DOMAIN handlers : Good(handlers[i], rxBuf, txPkt, Replies)

----------------------------------------------------------------------------
(* The answer to one question.                                             *)

\* A search finds the first service that is named.
LEMMA FirstIsNamed ==
    ASSUME NEW S \in SUBSET Nat, S # {}
    PROVE  First(S) \in S
  <1>1. PICK m \in S : \A k \in S : <<k, m>> \notin OpToRel(<, Nat)
    BY WFMin, NatLessThanWellFounded, Zenon
  <1>2. \A k \in S : ~(k < m)
    BY <1>1, Zenon DEF OpToRel
  <1>3. \A k \in S : m <= k
    BY <1>2
  <1> QED BY <1>3, Zenon DEF First

\* Only records of the table are sent.
LEMMA ReplyType ==
    ASSUME TypeOK, NEW q
    PROVE  Reply(q) \in Seq(Record)
  <1>1. services \in Seq(Service)
    BY DEF TypeOK
  <1>2. CASE Wants(q, "A") /\ q.name = HostName
    BY <1>2 DEF Reply, Record
  <1>3. CASE ~(Wants(q, "A") /\ q.name = HostName) /\ Wants(q, "PTR") /\ q.name = EnumName
    <2>1. \A i \in 1..Len(services) : services[i] \in Service
      BY <1>1
    <2>2. \A i \in 1..Len(services) : EnumRecord(services[i]) \in Record
      BY <2>1 DEF Record
    <2>3. Reply(q) = [i \in 1..Len(services) |-> EnumRecord(services[i])]
      BY <1>1, <1>3 DEF Reply
    <2> QED BY <1>1, <2>2, <2>3
  <1>4. CASE /\ ~(Wants(q, "A") /\ q.name = HostName)
             /\ ~(Wants(q, "PTR") /\ q.name = EnumName)
             /\ Named(q) # {}
    <2>1. Named(q) \in SUBSET Nat
      BY <1>1 DEF Named
    <2>2. First(Named(q)) \in DOMAIN services
      BY <1>4, <2>1, FirstIsNamed, Zenon DEF Named
    <2> DEFINE s == services[First(Named(q))]
    <2>3. s \in Service
      BY <1>1, <2>2
    <2>4. Reply(q) = OfService(q, s)
      BY <1>4 DEF Reply
    <2> HIDE DEF s
    <2>5. {PtrRecord(s), SrvRecord(s), TxtRecord(s)} \subseteq Record
      BY <2>3 DEF Record
    <2> QED BY <2>4, <2>5 DEF OfService
  <1>5. CASE /\ ~(Wants(q, "A") /\ q.name = HostName)
             /\ ~(Wants(q, "PTR") /\ q.name = EnumName)
             /\ Named(q) = {}
    BY <1>5 DEF Reply
  <1> QED BY <1>2, <1>3, <1>4, <1>5

\* What the description lists for a question.
LEMMA AnswerIs ==
    ASSUME NEW q, NEW r
    PROVE  r \in AnswerTo(q) <=>
             \/ r = AddressRecord /\ HostName = q.name /\ Wants(q, "A")
             \/ \E s \in Range(services) :
                  \/ r = EnumRecord(s) /\ EnumName = q.name /\ Wants(q, "PTR")
                  \/ r = PtrRecord(s) /\ s[2] = q.name /\ Wants(q, "PTR")
                  \/ r = SrvRecord(s) /\ s = q.name /\ Wants(q, "SRV")
                  \/ r = TxtRecord(s) /\ s = q.name /\ Wants(q, "TXT")
  <1>1. /\ AddressRecord[1] = "A" /\ AddressRecord[2] = HostName
        /\ \A s : /\ EnumRecord(s)[1] = "PTR" /\ EnumRecord(s)[2] = EnumName
                  /\ PtrRecord(s)[1] = "PTR" /\ PtrRecord(s)[2] = s[2]
                  /\ SrvRecord(s)[1] = "SRV" /\ SrvRecord(s)[2] = s
                  /\ TxtRecord(s)[1] = "TXT" /\ TxtRecord(s)[2] = s
    BY DEF AddressRecord, EnumRecord, PtrRecord, SrvRecord, TxtRecord
  <1>2. r \in AnswerTo(q) <=>
          /\ \/ r = AddressRecord
             \/ \E s \in Range(services) : r \in {EnumRecord(s), PtrRecord(s), SrvRecord(s), TxtRecord(s)}
          /\ r[2] = q.name /\ Wants(q, r[1])
    BY Zenon DEF AnswerTo, Advertised
  <1> QED BY <1>1, <1>2

\* Which records are too long.
LEMMA TooLongIs ==
    ASSUME NEW s
    PROVE  /\ AddressRecord \notin TooLong /\ EnumRecord(s) \notin TooLong
           /\ PtrRecord(s) \notin TooLong /\ SrvRecord(s) \notin TooLong
           /\ TxtRecord(s) \in TooLong <=> s \in LongTxt
  BY DEF TooLong, AddressRecord, EnumRecord, PtrRecord, SrvRecord, TxtRecord

\* For any table: only what is asked for is sent, and something is, unless all there
\* is to send is too long.
LEMMA RepliesAreAnswers ==
    ASSUME TypeOK, NEW q
    PROVE  /\ Range(Reply(q)) \subseteq AnswerTo(q)
           /\ Range(Reply(q)) = {} => AnswerTo(q) \subseteq TooLong
  <1>1. services \in Seq(Service)
    BY DEF TypeOK
  <1>2. \A i \in DOMAIN services : services[i] \in Service /\ services[i] \in Range(services)
    BY <1>1 DEF Range
  <1>3. \A s \in Range(services) : s \in Service /\ s[2] \in Type /\ \E i \in DOMAIN services : s = services[i]
    BY <1>1 DEF Range, Service
  <1>4. /\ HostName # EnumName
        /\ \A s \in Service : s # HostName /\ s # EnumName /\ s[2] # HostName /\ s[2] # EnumName
        /\ \A s, t \in Service : s # t[2]
    BY MdnsAssumption DEF Service
  <1>5. \A r : Range(<<r>>) = {r}
    BY DEF Range
  <1>6. Range(<<>>) = {}
    BY DEF Range
  <1>7. CASE Wants(q, "A") /\ q.name = HostName
    <2>1. Range(Reply(q)) = {AddressRecord}
      BY <1>5, <1>7 DEF Reply
    <2>2. AddressRecord \in AnswerTo(q)
      BY <1>7, AnswerIs
    <2> QED BY <2>1, <2>2
  <1>8. CASE ~(Wants(q, "A") /\ q.name = HostName) /\ Wants(q, "PTR") /\ q.name = EnumName
    <2>1. Range(Reply(q)) = {EnumRecord(services[i]) : i \in DOMAIN services}
      BY <1>8 DEF Reply, Range
    <2>2. Range(Reply(q)) = {EnumRecord(s) : s \in Range(services)}
      BY <2>1 DEF Range
    <2>3. \A r : r \in AnswerTo(q) <=> \E s \in Range(services) : r = EnumRecord(s)
      BY <1>3, <1>4, <1>8, AnswerIs
    <2> QED BY <2>2, <2>3
  <1>9. CASE /\ ~(Wants(q, "A") /\ q.name = HostName)
             /\ ~(Wants(q, "PTR") /\ q.name = EnumName)
             /\ Named(q) # {}
    <2>0. Named(q) \in SUBSET Nat
      BY <1>1 DEF Named
    <2> DEFINE i == First(Named(q))
               s == services[i]
    <2>1. i \in Named(q)
      BY <1>9, <2>0, FirstIsNamed, Zenon
    <2> HIDE DEF i
    <2>2. /\ s \in Range(services) /\ s \in Service
          /\ \/ Wants(q, "PTR") /\ q.name = s[2]
             \/ (Wants(q, "SRV") \/ Wants(q, "TXT")) /\ q.name = s
      BY <1>2, <2>1 DEF Named
    <2> USE DEF i
    <2>3. Reply(q) = OfService(q, s)
      BY <1>9 DEF Reply
    <2> HIDE DEF i, s
    <2>4. CASE Wants(q, "PTR") /\ q.name = s[2]
      <3>1. Range(Reply(q)) = {PtrRecord(s)}
        BY <1>5, <2>3, <2>4 DEF OfService
      <3> QED BY <2>2, <2>4, <3>1, AnswerIs
    <2>5. CASE ~(Wants(q, "PTR") /\ q.name = s[2]) /\ Wants(q, "SRV")
      <3>1. Range(Reply(q)) = {SrvRecord(s)}
        BY <1>5, <2>2, <2>3, <2>5 DEF OfService
      <3> QED BY <2>2, <2>5, <3>1, AnswerIs
    <2>6. CASE ~(Wants(q, "PTR") /\ q.name = s[2]) /\ ~Wants(q, "SRV")
      <3>1. q.name = s /\ q.type = "TXT"
        BY <2>2, <2>6 DEF Wants
      <3>2. Range(Reply(q)) = IF s \in LongTxt THEN {} ELSE {TxtRecord(s)}
        BY <1>5, <1>6, <2>2, <2>3, <2>6 DEF OfService
      <3>3. TxtRecord(s) \in AnswerTo(q)
        BY <2>2, <3>1, AnswerIs DEF Wants
      <3>4. q.name # HostName /\ q.name # EnumName /\ \A t \in Range(services) : t[2] # q.name
        BY <1>3, <1>4, <2>2, <3>1
      <3>5. \A r : r \in AnswerTo(q) => r = TxtRecord(s)
        BY <3>1, <3>4, AnswerIs DEF Wants
      <3> QED BY <3>2, <3>3, <3>5, TooLongIs
    <2> QED BY <2>4, <2>5, <2>6
  <1>10. CASE /\ ~(Wants(q, "A") /\ q.name = HostName)
              /\ ~(Wants(q, "PTR") /\ q.name = EnumName)
              /\ Named(q) = {}
    <2>1. Range(Reply(q)) = {}
      BY <1>6, <1>10 DEF Reply
    <2>2. \A s \in Range(services) : /\ ~(Wants(q, "PTR") /\ s[2] = q.name)
                                     /\ ~((Wants(q, "SRV") \/ Wants(q, "TXT")) /\ s = q.name)
      BY <1>3, <1>10 DEF Named
    <2>3. \A r : r \notin AnswerTo(q)
      BY <1>10, <2>2, AnswerIs
    <2> QED BY <2>1, <2>3
  <1> QED BY <1>7, <1>8, <1>9, <1>10

\* The comparisons of the code pick the records the description lists, if a type
\* names one service and nobody asks for everything about an instance.
LEMMA RepliesAsDescribed ==
    ASSUME TypeOK, Distinct, NEW q, q.type = "ANY" => q.name \notin Service
    PROVE  Range(Reply(q)) = AnswerTo(q) \ TooLong
  <1>1. services \in Seq(Service)
    BY DEF TypeOK
  <1>2. \A i \in DOMAIN services : services[i] \in Service /\ services[i] \in Range(services)
    BY <1>1 DEF Range
  <1>3. \A s \in Range(services) : s \in Service /\ s[2] \in Type /\ \E i \in DOMAIN services : s = services[i]
    BY <1>1 DEF Range, Service
  <1>4. /\ HostName # EnumName
        /\ \A s \in Service : s # HostName /\ s # EnumName /\ s[2] # HostName /\ s[2] # EnumName
        /\ \A s, t \in Service : s # t[2]
    BY MdnsAssumption DEF Service
  <1>5. \A r : Range(<<r>>) = {r}
    BY DEF Range
  <1>6. Range(<<>>) = {}
    BY DEF Range
  <1>7. CASE Wants(q, "A") /\ q.name = HostName
    <2>1. Range(Reply(q)) = {AddressRecord}
      BY <1>5, <1>7 DEF Reply
    <2>2. AnswerTo(q) = {AddressRecord}
      BY <1>3, <1>4, <1>7, AnswerIs
    <2> QED BY <2>1, <2>2, TooLongIs
  <1>8. CASE ~(Wants(q, "A") /\ q.name = HostName) /\ Wants(q, "PTR") /\ q.name = EnumName
    <2>1. Range(Reply(q)) = {EnumRecord(services[i]) : i \in DOMAIN services}
      BY <1>8 DEF Reply, Range
    <2>2. Range(Reply(q)) = {EnumRecord(s) : s \in Range(services)}
      BY <2>1 DEF Range
    <2>3. \A r : r \in AnswerTo(q) <=> \E s \in Range(services) : r = EnumRecord(s)
      BY <1>3, <1>4, <1>8, AnswerIs
    <2> QED BY <2>2, <2>3, TooLongIs
  <1>9. CASE /\ ~(Wants(q, "A") /\ q.name = HostName)
             /\ ~(Wants(q, "PTR") /\ q.name = EnumName)
             /\ Named(q) # {}
    <2>0. Named(q) \in SUBSET Nat
      BY <1>1 DEF Named
    <2> DEFINE i == First(Named(q))
               s == services[i]
    <2>1. i \in Named(q)
      BY <1>9, <2>0, FirstIsNamed, Zenon
    <2> HIDE DEF i
    <2>2. /\ s \in Range(services) /\ s \in Service
          /\ \/ Wants(q, "PTR") /\ q.name = s[2]
             \/ (Wants(q, "SRV") \/ Wants(q, "TXT")) /\ q.name = s
      BY <1>2, <2>1 DEF Named
    <2> USE DEF i
    <2>3. Reply(q) = OfService(q, s)
      BY <1>9 DEF Reply
    <2> HIDE DEF s
    <2>4. q.name # HostName /\ q.name # EnumName
      BY <1>4, <2>2
    <2>5. CASE Wants(q, "PTR") /\ q.name = s[2]
      <3>1. Range(Reply(q)) = {PtrRecord(s)}
        BY <1>5, <2>3, <2>5 DEF OfService
      <3>2. \A t \in Range(services) : t[2] = q.name => t = s
        BY <2>2, <2>5 DEF Distinct
      <3>3. \A t \in Range(services) : t # q.name
        BY <1>3, <1>4, <2>2, <2>5
      <3>4. \A r : r \in AnswerTo(q) <=> r = PtrRecord(s)
        BY <2>2, <2>4, <2>5, <3>2, <3>3, AnswerIs
      <3> QED BY <3>1, <3>4, TooLongIs
    <2>6. CASE ~(Wants(q, "PTR") /\ q.name = s[2])
      <3>1. q.name = s /\ q.type # "ANY"
        BY <2>2, <2>6
      <3>2. \A t \in Range(services) : t[2] # q.name
        BY <1>3, <1>4, <2>2, <3>1
      <3>3. CASE q.type = "SRV"
        <4>1. Range(Reply(q)) = {SrvRecord(s)}
          BY <1>5, <2>3, <2>6, <3>1, <3>3 DEF OfService, Wants
        <4>2. \A r : r \in AnswerTo(q) <=> r = SrvRecord(s)
          BY <2>2, <2>4, <3>1, <3>2, <3>3, AnswerIs DEF Wants
        <4> QED BY <4>1, <4>2, TooLongIs
      <3>4. CASE q.type = "TXT"
        <4>1. Range(Reply(q)) = IF s \in LongTxt THEN {} ELSE {TxtRecord(s)}
          BY <1>5, <1>6, <2>3, <2>6, <3>1, <3>4 DEF OfService, Wants
        <4>2. \A r : r \in AnswerTo(q) <=> r = TxtRecord(s)
          BY <2>2, <2>4, <3>1, <3>2, <3>4, AnswerIs DEF Wants
        <4> QED BY <4>1, <4>2, TooLongIs
      <3> QED BY <2>2, <2>6, <3>1, <3>3, <3>4 DEF Wants
    <2> QED BY <2>5, <2>6
  <1>10. CASE /\ ~(Wants(q, "A") /\ q.name = HostName)
              /\ ~(Wants(q, "PTR") /\ q.name = EnumName)
              /\ Named(q) = {}
    <2>1. Range(Reply(q)) = {}
      BY <1>6, <1>10 DEF Reply
    <2>2. \A s \in Range(services) : /\ ~(Wants(q, "PTR") /\ s[2] = q.name)
                                     /\ ~((Wants(q, "SRV") \/ Wants(q, "TXT")) /\ s = q.name)
      BY <1>3, <1>10 DEF Named
    <2>3. \A r : r \notin AnswerTo(q)
      BY <1>10, <2>2, AnswerIs
    <2> QED BY <2>1, <2>3
  <1> QED BY <1>7, <1>8, <1>9, <1>10

----------------------------------------------------------------------------
(* What the steps do to one handler.                                       *)

\* A packet has at most MaxQuestions questions.
LEMMA PacketIs ==
    ASSUME NEW p \in Packets
    PROVE  /\ p \in Seq(Slots) /\ Len(p) \in 0..MaxQuestions
           /\ DOMAIN p = 1..Len(p) /\ \A k \in 1..Len(p) : p[k] \in Slots
  <1>1. PICK n \in 0..MaxQuestions : p \in [1..n -> Slots]
    BY DEF Packets
  <1>2. n \in Nat /\ n <= MaxQuestions
    BY <1>1, MdnsAssumption
  <1> QED BY <1>1, <1>2

\* A disturbed handler has nothing to keep but its length.
LEMMA DisturbedIsGood ==
    ASSUME NEW h \in Handler, h.waits => h.todo # <<>>, NEW buf, NEW frame, NEW replies
    PROVE  /\ Good(Disturbed(h), buf, frame, replies)
           /\ Disturbed(h).waits = h.waits /\ Disturbed(h).todo = h.todo
           /\ Disturbed(h).next = h.next /\ Disturbed(h).quiet = FALSE
  <1> DEFINE blank == [k \in DOMAIN h.asked |-> Broken]
  <1>1. h.asked \in Packets
    BY DEF Handler
  <1>2. PICK n \in 0..MaxQuestions : h.asked \in [1..n -> Slots]
    BY <1>1 DEF Packets
  <1>3. blank \in [1..n -> Slots]
    BY <1>2 DEF Slots
  <1>4. blank \in Packets
    BY <1>3 DEF Packets
  <1>5. Disturbed(h) = [h EXCEPT !.quiet = FALSE, !.said = {}, !.asked = blank]
    BY DEF Disturbed
  <1> HIDE DEF blank
  <1>6. Disturbed(h) \in Handler /\ Disturbed(h).quiet = FALSE
    BY <1>4, <1>5 DEF Handler
  <1>7. /\ Disturbed(h).waits = h.waits /\ Disturbed(h).todo = h.todo
        /\ Disturbed(h).next = h.next
    BY <1>5 DEF Handler
  <1> QED BY <1>6, <1>7 DEF Good

\* A packet takes the receive buffer.
LEMMA BufferTakenIsGood ==
    ASSUME NEW h, NEW buf, NEW frame, NEW replies, NEW buf2, Good(h, buf, frame, replies)
    PROVE  Good(BufferTaken(h), buf2, frame, replies)
  <1>1. h \in Handler /\ (h.waits => h.todo # <<>>)
    BY DEF Good
  <1>2. CASE h.next > Len(h.asked)
    <2>1. BufferTaken(h) = h
      BY <1>2 DEF BufferTaken
    <2>2. h.next \in Nat /\ Len(h.asked) \in Nat
      BY <1>1, PacketIs DEF Handler
    <2>3. Intact(h, buf, frame, replies) => Intact(h, buf2, frame, replies)
      BY <1>2, <2>2 DEF Intact
    <2> QED BY <2>1, <2>3 DEF Good
  <1>3. CASE ~(h.next > Len(h.asked))
    BY <1>1, <1>3, DisturbedIsGood DEF BufferTaken
  <1> QED BY <1>2, <1>3

\* A new handler goes on top of the others.
LEMMA Pushed ==
    ASSUME NEW h \in Handler, NEW hs \in Seq(Handler)
    PROVE  /\ <<h>> \o hs \in Seq(Handler)
           /\ \A i \in DOMAIN (<<h>> \o hs) :
                (<<h>> \o hs)[i] = h \/ \E j \in DOMAIN hs : (<<h>> \o hs)[i] = hs[j]
  <1>1. <<h>> \o hs \in Seq(Handler) /\ Len(<<h>> \o hs) = Len(hs) + 1
    OBVIOUS
  <1>2. (<<h>> \o hs)[1] = h /\ \A i \in 2..(Len(hs) + 1) : (<<h>> \o hs)[i] = hs[i - 1]
    OBVIOUS
  <1> QED BY <1>1, <1>2

\* What is still owed after one record went out.
LEMMA HeadAndTail ==
    ASSUME NEW R, NEW s \in Seq(R), s # <<>>
    PROVE  /\ Tail(s) \in Seq(R) /\ Head(s) \in R
           /\ {Head(s)} \cup Range(Tail(s)) = Range(s)
  <1>1. Tail(s) \in Seq(R) /\ Len(Tail(s)) = Len(s) - 1 /\ Head(s) = s[1] /\ Len(s) \in Nat \ {0}
    OBVIOUS
  <1>2. \A i \in 1..(Len(s) - 1) : Tail(s)[i] = s[i + 1]
    OBVIOUS
  <1>3. ASSUME NEW i \in 1..Len(s), i # 1
        PROVE  s[i] = Tail(s)[i - 1] /\ i - 1 \in 1..(Len(s) - 1)
    BY <1>1, <1>2, <1>3
  <1>4. DOMAIN s = 1..Len(s) /\ DOMAIN Tail(s) = 1..(Len(s) - 1)
    BY <1>1
  <1>5. ASSUME NEW x \in Range(s) PROVE x \in {Head(s)} \cup Range(Tail(s))
    <2>1. PICK i \in 1..Len(s) : x = s[i]
      BY <1>4 DEF Range
    <2> QED BY <1>1, <1>3, <1>4, <2>1 DEF Range
  <1>6. ASSUME NEW x \in Range(Tail(s)) PROVE x \in Range(s)
    <2>1. PICK i \in 1..(Len(s) - 1) : x = Tail(s)[i]
      BY <1>4 DEF Range
    <2>2. x = s[i + 1] /\ i + 1 \in 1..Len(s)
      BY <1>1, <1>2, <2>1
    <2> QED BY <1>4, <2>2 DEF Range
  <1>7. Head(s) \in Range(s)
    BY <1>1, <1>4 DEF Range
  <1> QED BY <1>1, <1>5, <1>6, <1>7

----------------------------------------------------------------------------
(* One lemma for each kind of step.                                        *)

LEMMA InitAnswering ==
    Init => Answering
  <1> SUFFICES ASSUME Init PROVE Answering
    OBVIOUS
  <1>1. MaxQuestions \in Nat /\ MaxServices \in Nat
    BY MdnsAssumption
  <1>2. rxBuf \in [1..MaxQuestions -> Slots]
    BY DEF Init, NoQuestions, Slots
  <1>3. handlers = <<>> /\ services = <<>> /\ DOMAIN handlers = {}
    BY DEF Init
  <1>4. services \in Seq(Service) /\ handlers \in Seq(Handler) /\ Len(services) = 0
    BY <1>3
  <1>5. ready \in BOOLEAN /\ txPkt \in Record \cup {Foreign}
    BY DEF Init
  <1>6. Len(services) <= MaxServices
    BY <1>1, <1>4
  <1>7. TypeOK
    BY <1>2, <1>4, <1>5, <1>6 DEF TypeOK
  <1> QED BY <1>3, <1>7 DEF Answering

\* The buffers after a packet.
LEMMA ReceiveType ==
    ASSUME Answering, NEW p \in Packets, Receive(p)
    PROVE  /\ services' \in Seq(Service) /\ Len(services') <= MaxServices
           /\ ready' \in BOOLEAN /\ rxBuf' \in [1..MaxQuestions -> Slots]
           /\ txPkt' \in Record \cup {Foreign} /\ txPkt' = txPkt /\ Replies' = Replies
           /\ \A k \in 1..Len(p) : rxBuf'[k] = p[k]
  <1>1. /\ rxBuf' = [i \in 1..MaxQuestions |-> IF i <= Len(p) THEN p[i] ELSE rxBuf[i]]
        /\ UNCHANGED <<services, ready, txPkt>>
    BY DEF Receive
  <1>2. Replies' = Replies
    BY <1>1 DEF Replies, Reply, Named, OfService
  <1>3. p \in Seq(Slots) /\ Len(p) \in 0..MaxQuestions /\ \A k \in 1..Len(p) : p[k] \in Slots
    BY PacketIs
  <1>4. MaxQuestions \in Nat
    BY MdnsAssumption
  <1>5. rxBuf \in [1..MaxQuestions -> Slots]
    BY DEF Answering, TypeOK
  <1>6. rxBuf' \in [1..MaxQuestions -> Slots] /\ \A k \in 1..Len(p) : rxBuf'[k] = p[k]
    BY <1>1, <1>3, <1>4, <1>5
  <1> QED BY <1>1, <1>2, <1>6 DEF Answering, TypeOK

\* The handlers in progress after a packet.
LEMMA OthersAfterPacket ==
    ASSUME Answering, NEW p \in Packets, Receive(p)
    PROVE  /\ BufferTakenFromAll \in Seq(Handler)
           /\ \A i \in DOMAIN BufferTakenFromAll :
                Good(BufferTakenFromAll[i], rxBuf', txPkt', Replies')
  <1>1. handlers \in Seq(Handler)
    BY DEF Answering, TypeOK
  <1>2. \A i \in DOMAIN handlers : Good(BufferTaken(handlers[i]), rxBuf', txPkt', Replies')
    BY BufferTakenIsGood, ReceiveType DEF Answering
  <1>3. \A i \in 1..Len(handlers) : BufferTaken(handlers[i]) \in Handler
    BY <1>1, <1>2 DEF Good
  <1>4. DOMAIN handlers = 1..Len(handlers) /\ Len(handlers) \in Nat
    BY <1>1
  <1>5. BufferTakenFromAll = [i \in 1..Len(handlers) |-> BufferTaken(handlers[i])]
    BY <1>4, Zenon DEF BufferTakenFromAll
  <1>6. BufferTakenFromAll \in Seq(Handler)
    BY <1>3, <1>4, <1>5
  <1> QED BY <1>2, <1>4, <1>5, <1>6

LEMMA NoQuestionsIsPacket ==
    NoQuestions \in Packets
  <1>1. MaxQuestions \in 0..MaxQuestions
    BY MdnsAssumption
  <1>2. NoQuestions \in [1..MaxQuestions -> Slots]
    BY DEF NoQuestions, Slots
  <1> QED BY <1>1, <1>2 DEF Packets

LEMMA HandleQueryKeeps ==
    ASSUME Answering, NEW p \in Packets, HandleQuery(p)
    PROVE  Answering'
  <1> DEFINE h == Starting(p, <<>>)
  <1>1. Receive(p) /\ handlers' = <<h>> \o BufferTakenFromAll
    BY DEF HandleQuery
  <1>2. p \in Seq(Slots) /\ Len(p) \in 0..MaxQuestions
    BY PacketIs
  <1>3. h \in Handler
    BY DEF Starting, Handler
  <1>4. Good(h, rxBuf', txPkt', Replies')
    <2>1. \A k \in 1..Len(p) : rxBuf'[k] = p[k]
      BY <1>1, ReceiveType
    <2>2. /\ h.next = 1 /\ h.asked = p /\ h.waits = FALSE /\ h.todo = <<>> /\ h.said = {}
      BY DEF Starting
    <2>3. Owed(h) = {}
      BY <2>2 DEF Owed, Range
    <2> HIDE DEF h
    <2>4. 1..(h.next - 1) = {}
      BY <2>2
    <2>5. Intact(h, rxBuf', txPkt', Replies')
      BY <1>2, <2>1, <2>2, <2>3, <2>4 DEF Intact
    <2> QED BY <1>3, <2>2, <2>5 DEF Good
  <1> HIDE DEF h
  <1>5. /\ handlers' \in Seq(Handler)
        /\ \A i \in DOMAIN handlers' : Good(handlers'[i], rxBuf', txPkt', Replies')
    BY <1>1, <1>3, <1>4, Pushed, OthersAfterPacket
  <1> QED BY <1>1, <1>5, ReceiveType DEF Answering, TypeOK

LEMMA AnswersOtherwiseKeeps ==
    ASSUME Answering, AnswersOtherwise
    PROVE  Answering'
  <1> DEFINE h == Starting(<<>>, <<Foreign>>)
  <1>1. Receive(NoQuestions) /\ handlers' = <<h>> \o BufferTakenFromAll
    BY DEF AnswersOtherwise
  <1>2. <<>> \in Packets
    <2>1. 0 \in 0..MaxQuestions /\ <<>> \in [1..0 -> Slots]
      BY MdnsAssumption
    <2> QED BY <2>1 DEF Packets
  <1>3. h \in Handler
    BY <1>2 DEF Starting, Handler
  <1>4. Good(h, rxBuf', txPkt', Replies')
    <2>1. /\ h.next = 1 /\ h.asked = <<>> /\ h.waits = FALSE
      BY DEF Starting
    <2> HIDE DEF h
    <2>2. Intact(h, rxBuf', txPkt', Replies')
      BY <2>1 DEF Intact
    <2> QED BY <1>3, <2>1, <2>2 DEF Good
  <1> HIDE DEF h
  <1>5. /\ handlers' \in Seq(Handler)
        /\ \A i \in DOMAIN handlers' : Good(handlers'[i], rxBuf', txPkt', Replies')
    BY <1>1, <1>3, <1>4, Pushed, OthersAfterPacket, NoQuestionsIsPacket
  <1> QED BY <1>1, <1>5, ReceiveType, NoQuestionsIsPacket DEF Answering, TypeOK

LEMMA IgnoresKeeps ==
    ASSUME Answering, Ignores
    PROVE  Answering'
  <1>1. Receive(NoQuestions) /\ handlers' = BufferTakenFromAll
    BY DEF Ignores
  <1>2. /\ handlers' \in Seq(Handler)
        /\ \A i \in DOMAIN handlers' : Good(handlers'[i], rxBuf', txPkt', Replies')
    BY <1>1, OthersAfterPacket, NoQuestionsIsPacket
  <1> QED BY <1>1, <1>2, ReceiveType, NoQuestionsIsPacket DEF Answering, TypeOK

\* The first element of a sequence is replaced.
LEMMA FirstReplaced ==
    ASSUME NEW R, NEW s \in Seq(R), NEW x \in R
    PROVE  /\ [s EXCEPT ![1] = x] \in Seq(R) /\ DOMAIN [s EXCEPT ![1] = x] = DOMAIN s
           /\ \A i \in DOMAIN s : [s EXCEPT ![1] = x][i] = IF i = 1 THEN x ELSE s[i]
  <1>1. Len(s) \in Nat /\ s \in [1..Len(s) -> R]
    OBVIOUS
  <1>2. [s EXCEPT ![1] = x] \in [1..Len(s) -> R]
    BY <1>1
  <1> QED BY <1>1, <1>2

\* Nothing but the handler on top changes.
LEMMA TopChanges ==
    ASSUME Answering, Busy, NEW h, Good(h, rxBuf, txPkt, Replies),
           handlers' = [handlers EXCEPT ![1] = h], UNCHANGED <<services, ready, rxBuf, txPkt>>
    PROVE  Answering'
  <1>1. handlers \in Seq(Handler) /\ h \in Handler
    BY DEF Answering, TypeOK, Good
  <1>2. handlers' \in Seq(Handler) /\ DOMAIN handlers' = DOMAIN handlers
    BY <1>1, FirstReplaced
  <1>3. \A i \in DOMAIN handlers' : handlers'[i] = IF i = 1 THEN h ELSE handlers[i]
    BY <1>1, <1>2, FirstReplaced
  <1>4. Replies' = Replies
    BY DEF Replies, Reply, Named, OfService
  <1>5. \A i \in DOMAIN handlers' : Good(handlers'[i], rxBuf', txPkt', Replies')
    BY <1>2, <1>3, <1>4 DEF Answering
  <1>6. TypeOK'
    BY <1>2 DEF Answering, TypeOK
  <1> QED BY <1>5, <1>6 DEF Answering

\* The handler on top is one of them.
LEMMA TopIsGood ==
    ASSUME Answering, Busy
    PROVE  Top \in Handler /\ Good(Top, rxBuf, txPkt, Replies)
  <1>1. handlers \in Seq(Handler) /\ 1 \in DOMAIN handlers
    BY DEF Answering, TypeOK, Busy
  <1> QED BY <1>1 DEF Answering, Top

LEMMA ReadsQuestionKeeps ==
    ASSUME Answering, ReadsQuestion
    PROVE  Answering'
  <1> DEFINE q == rxBuf[Top.next]
             records == Reply(q)
             after == Top.next + 1
             h == [Top EXCEPT !.next = after, !.todo = records]
  <1>1. /\ Busy /\ Top.todo = <<>> /\ Top.next <= Len(Top.asked) /\ q # Broken
        /\ handlers' = [handlers EXCEPT ![1] = h]
        /\ UNCHANGED <<services, ready, rxBuf, txPkt>>
    BY DEF ReadsQuestion
  <1>2. Top \in Handler /\ Good(Top, rxBuf, txPkt, Replies)
    BY <1>1, TopIsGood
  <1>3. /\ Top.asked \in Packets /\ Top.next \in Nat \ {0} /\ Top.waits = FALSE
        /\ Len(Top.asked) \in 0..MaxQuestions /\ \A k \in 1..Len(Top.asked) : Top.asked[k] \in Slots
    BY <1>1, <1>2, PacketIs DEF Handler, Good
  <1>4. q \in Asked
    BY <1>1, <1>3, MdnsAssumption DEF Answering, TypeOK, Slots
  <1>5. Reply(q) \in Seq(Record)
    BY ReplyType DEF Answering
  <1>6. Reply(q) \in Seq(Record \cup {Foreign})
    BY <1>5
  <1>61. after \in Nat \ {0} /\ records \in Seq(Record \cup {Foreign})
    BY <1>3, <1>6
  <1> HIDE DEF q, records, after
  <1>62. /\ h \in Handler /\ h.next = after /\ h.todo = records /\ h.waits = Top.waits
         /\ h.asked = Top.asked /\ h.said = Top.said /\ h.quiet = Top.quiet
    BY <1>2, <1>61 DEF Handler
  <1>7. /\ h \in Handler /\ h.next = Top.next + 1 /\ h.todo = Reply(q) /\ h.waits = FALSE
        /\ h.asked = Top.asked /\ h.said = Top.said /\ h.quiet = Top.quiet
    BY <1>3, <1>62 DEF records, after
  <1> HIDE DEF h
  <1>8. ASSUME Top.quiet PROVE Intact(h, rxBuf, txPkt, Replies)
    <2>1. Intact(Top, rxBuf, txPkt, Replies)
      BY <1>2, <1>8 DEF Good
    <2>2. q = Top.asked[Top.next] /\ Top.asked # <<>>
      BY <1>1, <1>3, <2>1 DEF Intact, q
    <2>3. Top.said = UNION {Replies[Top.asked[k]] : k \in 1..(Top.next - 1)}
      <3>1. Owed(Top) = Top.said
        BY <1>1 DEF Owed, Range
      <3> QED BY <2>1, <2>2, <3>1 DEF Intact
    <2>4. Replies[q] = Range(Reply(q))
      BY <1>4 DEF Replies
    <2>5. 1..(h.next - 1) = 1..(Top.next - 1) \cup {Top.next}
      BY <1>3, <1>7
    <2>6. Owed(h) = UNION {Replies[h.asked[k]] : k \in 1..(h.next - 1)}
      BY <1>7, <2>2, <2>3, <2>4, <2>5 DEF Owed
    <2>7. \A k \in 1..(h.next - 1) : h.asked[k] # Broken
      BY <1>1, <1>7, <2>1, <2>2, <2>5 DEF Intact
    <2>8. h.next <= Len(h.asked) + 1 /\ \A k \in h.next..Len(h.asked) : rxBuf[k] = h.asked[k]
      BY <1>1, <1>3, <1>7, <2>1 DEF Intact
    <2> QED BY <1>7, <2>6, <2>7, <2>8 DEF Intact
  <1>9. Good(h, rxBuf, txPkt, Replies)
    BY <1>7, <1>8 DEF Good
  <1> QED BY <1>1, <1>9, TopChanges

LEMMA GoesKeeps ==
    ASSUME Answering, Goes
    PROVE  Answering'
  <1> DEFINE said == IF Top.quiet THEN Top.said \cup {txPkt} ELSE Top.said
             h == [Top EXCEPT !.waits = FALSE, !.todo = Tail(@), !.said = said]
  <1>1. /\ Busy /\ Top.waits
        /\ handlers' = [handlers EXCEPT ![1] = h]
        /\ UNCHANGED <<services, ready, rxBuf, txPkt>>
    BY DEF Goes
  <1>2. Top \in Handler /\ Good(Top, rxBuf, txPkt, Replies)
    BY <1>1, TopIsGood
  <1>3. /\ Top.todo \in Seq(Record \cup {Foreign}) /\ Top.todo # <<>>
        /\ Top.said \in SUBSET (Record \cup {Foreign})
    BY <1>1, <1>2 DEF Handler, Good
  <1>4. /\ Tail(Top.todo) \in Seq(Record \cup {Foreign})
        /\ {Head(Top.todo)} \cup Range(Tail(Top.todo)) = Range(Top.todo)
    BY <1>3, HeadAndTail
  <1>5. said \in SUBSET (Record \cup {Foreign})
    BY <1>3 DEF Answering, TypeOK
  <1> HIDE DEF said
  <1>6. /\ h \in Handler /\ h.next = Top.next /\ h.todo = Tail(Top.todo) /\ h.waits = FALSE
        /\ h.asked = Top.asked /\ h.said = said /\ h.quiet = Top.quiet
    BY <1>2, <1>4, <1>5 DEF Handler
  <1> HIDE DEF h
  <1>7. ASSUME Top.quiet PROVE Intact(h, rxBuf, txPkt, Replies)
    <2>1. Intact(Top, rxBuf, txPkt, Replies)
      BY <1>2, <1>7 DEF Good
    <2>2. txPkt = Head(Top.todo) /\ said = Top.said \cup {txPkt}
      BY <1>1, <1>7, <2>1 DEF Intact, said
    <2>3. Owed(h) = Owed(Top)
      BY <1>4, <1>6, <2>2 DEF Owed
    <2> QED BY <1>6, <2>1, <2>3 DEF Intact
  <1>8. Good(h, rxBuf, txPkt, Replies)
    BY <1>6, <1>7 DEF Good
  <1> QED BY <1>1, <1>8, TopChanges

LEMMA GivesUpKeeps ==
    ASSUME Answering, GivesUp
    PROVE  Answering'
  <1> DEFINE d == Disturbed(Top)
             h == [d EXCEPT !.waits = FALSE, !.todo = Tail(@)]
  <1>1. /\ Busy /\ Top.waits
        /\ handlers' = [handlers EXCEPT ![1] = h]
        /\ UNCHANGED <<services, ready, rxBuf, txPkt>>
    BY DEF GivesUp
  <1>2. Top \in Handler /\ Top.todo # <<>>
    BY <1>1, TopIsGood DEF Good
  <1>3. d \in Handler /\ d.quiet = FALSE /\ d.todo = Top.todo
    BY <1>2, DisturbedIsGood DEF Good
  <1> HIDE DEF d
  <1>4. Tail(d.todo) \in Seq(Record \cup {Foreign})
    BY <1>2, <1>3, HeadAndTail DEF Handler
  <1>5. h \in Handler /\ h.quiet = FALSE /\ h.waits = FALSE
    BY <1>3, <1>4 DEF Handler
  <1> HIDE DEF h
  <1>6. Good(h, rxBuf, txPkt, Replies)
    BY <1>5 DEF Good
  <1> QED BY <1>1, <1>6, TopChanges

LEMMA BuildsKeeps ==
    ASSUME Answering, Builds
    PROVE  Answering'
  <1> DEFINE h == [Top EXCEPT !.waits = TRUE]
  <1>1. /\ Busy /\ Top.todo # <<>> /\ txPkt' = Head(Top.todo)
        /\ handlers' = [i \in DOMAIN handlers |-> IF i = 1 THEN h ELSE Disturbed(handlers[i])]
        /\ UNCHANGED <<services, ready, rxBuf>>
    BY DEF Builds
  <1>2. Top \in Handler /\ Good(Top, rxBuf, txPkt, Replies)
    BY <1>1, TopIsGood
  <1>3. Head(Top.todo) \in Record \cup {Foreign}
    BY <1>1, <1>2, HeadAndTail DEF Handler
  <1>4. /\ h \in Handler /\ h.next = Top.next /\ h.todo = Top.todo /\ h.waits = TRUE
        /\ h.asked = Top.asked /\ h.said = Top.said /\ h.quiet = Top.quiet
    BY <1>2 DEF Handler
  <1> HIDE DEF h
  <1>5. Replies' = Replies
    BY <1>1 DEF Replies, Reply, Named, OfService
  <1>6. Good(h, rxBuf', txPkt', Replies')
    <2>1. Top.quiet => Intact(h, rxBuf', txPkt', Replies)
      BY <1>1, <1>2, <1>4 DEF Good, Intact, Owed
    <2> QED BY <1>1, <1>4, <1>5, <2>1 DEF Good
  <1>7. handlers \in Seq(Handler) /\ DOMAIN handlers = 1..Len(handlers)
    BY DEF Answering, TypeOK
  <1>8. \A i \in DOMAIN handlers : Good(Disturbed(handlers[i]), rxBuf', txPkt', Replies')
    BY DisturbedIsGood DEF Answering, Good
  <1>9. DOMAIN handlers' = DOMAIN handlers /\ \A i \in DOMAIN handlers' : Good(handlers'[i], rxBuf', txPkt', Replies')
    BY <1>1, <1>6, <1>8
  <1>10. handlers' \in Seq(Handler)
    <2>1. handlers' = [i \in 1..Len(handlers) |-> IF i = 1 THEN h ELSE Disturbed(handlers[i])]
      BY <1>1, <1>7, Zenon
    <2>2. \A i \in 1..Len(handlers) : Disturbed(handlers[i]) \in Handler
      BY <1>7, <1>8 DEF Good
    <2> QED BY <1>4, <1>7, <2>1, <2>2
  <1>11. TypeOK'
    BY <1>1, <1>3, <1>10 DEF Answering, TypeOK
  <1> QED BY <1>9, <1>11 DEF Answering

LEMMA ReturnsKeeps ==
    ASSUME Answering, Returns
    PROVE  Answering'
  <1>1. /\ handlers # <<>> /\ handlers' = Tail(handlers)
        /\ rxBuf' = IF Len(handlers) = 1 THEN NoQuestions ELSE rxBuf
        /\ txPkt' = IF Len(handlers) = 1 THEN Foreign ELSE txPkt
        /\ UNCHANGED <<services, ready>>
    BY DEF Returns, Busy
  <1>2. handlers \in Seq(Handler)
    BY DEF Answering, TypeOK
  <1>3. Replies' = Replies
    BY <1>1 DEF Replies, Reply, Named, OfService
  <1>4. NoQuestions \in [1..MaxQuestions -> Slots]
    BY DEF NoQuestions, Slots
  <1>5. handlers' \in Seq(Handler) /\ DOMAIN handlers' = 1..(Len(handlers) - 1) /\ Len(handlers) \in Nat \ {0}
    BY <1>1, <1>2
  <1>6. \A i \in 1..(Len(handlers) - 1) : handlers'[i] = handlers[i + 1] /\ i + 1 \in DOMAIN handlers
    BY <1>1, <1>2
  <1>7. TypeOK'
    BY <1>1, <1>4, <1>5 DEF Answering, TypeOK
  <1>8. \A i \in DOMAIN handlers' : Good(handlers'[i], rxBuf', txPkt', Replies')
    <2>1. CASE Len(handlers) = 1
      BY <1>5, <2>1
    <2>2. CASE Len(handlers) # 1
      BY <1>1, <1>3, <1>5, <1>6, <2>2 DEF Answering
    <2> QED BY <2>1, <2>2
  <1> QED BY <1>7, <1>8 DEF Answering

LEMMA AddServiceKeeps ==
    ASSUME Answering, NEW s \in Service, AddService(s)
    PROVE  Answering'
  <1>1. handlers = <<>> /\ UNCHANGED <<ready, rxBuf, txPkt, handlers>> /\ services' = Registered(s)
    BY DEF AddService, Busy
  <1>2. services \in Seq(Service) /\ Len(services) <= MaxServices /\ MaxServices \in Nat
    BY MdnsAssumption DEF Answering, TypeOK
  <1>3. services' \in Seq(Service) /\ Len(services') <= MaxServices
    BY <1>1, <1>2 DEF Registered
  <1>4. DOMAIN handlers' = {}
    BY <1>1
  <1> QED BY <1>1, <1>3, <1>4 DEF Answering, TypeOK

LEMMA SetAddrKeeps ==
    ASSUME Answering, SetAddr
    PROVE  Answering'
  <1>1. ready' = TRUE /\ UNCHANGED <<services, rxBuf, txPkt, handlers>>
    BY DEF SetAddr
  <1>2. Replies' = Replies
    BY <1>1 DEF Replies, Reply, Named, OfService
  <1> QED BY <1>1, <1>2 DEF Answering, TypeOK

----------------------------------------------------------------------------
(* The theorems.                                                           *)

\* The inductive invariant of the responder.
THEOREM ResponderInvariant ==
    Spec => []Answering
  <1>1. Init => Answering
    BY InitAnswering
  <1>2. Answering /\ [Next]_vars => Answering'
    <2> SUFFICES ASSUME Answering, [Next]_vars PROVE Answering'
      OBVIOUS
    <2>1. CASE UNCHANGED vars
      <3>1. Replies' = Replies
        BY <2>1 DEF vars, Replies, Reply, Named, OfService
      <3> QED BY <2>1, <3>1 DEF vars, Answering, TypeOK
    <2>2. ASSUME NEW p \in Packets, HandleQuery(p) PROVE Answering'
      BY <2>2, HandleQueryKeeps
    <2>3. CASE AnswersOtherwise
      BY <2>3, AnswersOtherwiseKeeps
    <2>4. CASE Ignores
      BY <2>4, IgnoresKeeps
    <2>5. CASE ReadsQuestion
      BY <2>5, ReadsQuestionKeeps
    <2>6. CASE Returns
      BY <2>6, ReturnsKeeps
    <2>7. CASE Builds
      BY <2>7, BuildsKeeps
    <2>8. CASE Goes
      BY <2>8, GoesKeeps
    <2>9. CASE GivesUp
      BY <2>9, GivesUpKeeps
    <2>10. ASSUME NEW s \in Service, AddService(s) PROVE Answering'
      BY <2>10, AddServiceKeeps
    <2>11. CASE SetAddr
      BY <2>11, SetAddrKeeps
    <2> QED BY <2>1, <2>2, <2>3, <2>4, <2>5, <2>6, <2>7, <2>8, <2>9, <2>10, <2>11 DEF Next
  <1> QED BY <1>1, <1>2, PTL DEF Spec

\* Types, and a full table refuses services (mdns.go:57-68).
THEOREM ResponderTypeCorrect ==
    Spec => []TypeOK
  <1>1. Answering => TypeOK
    BY DEF Answering
  <1> QED BY <1>1, ResponderInvariant, PTL

\* A finished handler that was not disturbed has sent the replies to its questions.
LEMMA FinishedHasReplied ==
    ASSUME Answering, Busy, Top.quiet, Finished(Top)
    PROVE  /\ Top.said = UNION {Range(Reply(Top.asked[k])) : k \in Legible(Top.asked)}
           /\ \A k \in Legible(Top.asked) : Top.asked[k] \in Asked
  <1>1. Top \in Handler /\ Intact(Top, rxBuf, txPkt, Replies)
    BY TopIsGood DEF Good
  <1>2. /\ Top.next \in Nat \ {0} /\ DOMAIN Top.asked = 1..Len(Top.asked) /\ Len(Top.asked) \in Nat
        /\ \A k \in 1..Len(Top.asked) : Top.asked[k] \in Slots
    BY <1>1, PacketIs, MdnsAssumption DEF Handler
  <1>3. Top.said = UNION {Replies[Top.asked[k]] : k \in 1..(Top.next - 1)}
    <2>1. Owed(Top) = Top.said
      BY DEF Finished, Owed, Range
    <2> QED BY <1>1, <2>1 DEF Finished, Intact
  <1>4. Legible(Top.asked) = 1..(Top.next - 1)
    <2>1. \A k \in 1..(Top.next - 1) : k \in DOMAIN Top.asked /\ Top.asked[k] # Broken
      BY <1>1, <1>2 DEF Intact
    <2>2. Top.next <= Len(Top.asked) => Top.asked[Top.next] = Broken
      BY <1>1, <1>2 DEF Intact, Finished
    <2>3. \A k \in 1..(Top.next - 1) : k \in Legible(Top.asked)
      BY <1>2, <2>1 DEF Legible
    <2>4. ASSUME NEW k \in Legible(Top.asked) PROVE k \in 1..(Top.next - 1)
      <3>1. k \in 1..Len(Top.asked) /\ \A j \in 1..k : Top.asked[j] # Broken
        BY <1>2 DEF Legible
      <3> QED BY <1>2, <2>2, <3>1
    <2> QED BY <2>3, <2>4
  <1>5. ASSUME NEW k \in Legible(Top.asked)
        PROVE  Top.asked[k] \in Asked /\ Replies[Top.asked[k]] = Range(Reply(Top.asked[k]))
    <2>1. k \in 1..Len(Top.asked) /\ Top.asked[k] # Broken
      BY <1>2 DEF Legible
    <2>2. Top.asked[k] \in Asked
      BY <1>2, <2>1 DEF Slots
    <2> QED BY <2>2 DEF Replies
  <1>6. \A r : r \in Top.said <=> \E k \in Legible(Top.asked) : r \in Range(Reply(Top.asked[k]))
    BY <1>3, <1>4, <1>5
  <1> DEFINE replies == {Range(Reply(Top.asked[k])) : k \in Legible(Top.asked)}
  <1>7. \A r : r \in UNION replies <=> \E k \in Legible(Top.asked) : r \in Range(Reply(Top.asked[k]))
    OBVIOUS
  <1> HIDE DEF replies
  <1>8. Top.said = UNION replies
    BY <1>6, <1>7, Zenon
  <1> QED BY <1>5, <1>8 DEF replies

\* And these replies are what the description lists.
LEMMA FinishedHasAnswered ==
    ASSUME Answering
    PROVE  AnswersAsAsked
  <1> SUFFICES ASSUME Busy, Top.quiet, Finished(Top)
               PROVE  /\ Top.said \subseteq AnswersTo(Top.asked)
                      /\ \A k \in Legible(Top.asked) :
                            AnswerTo(Top.asked[k]) \cap Top.said = {} => AnswerTo(Top.asked[k]) \subseteq TooLong
                      /\ Distinct /\ Specific(Top.asked) => Top.said = AnswersTo(Top.asked) \ TooLong
    BY DEF AnswersAsAsked
  <1>1. TypeOK
    BY DEF Answering
  <1>2. \A r : r \in Top.said <=> \E k \in Legible(Top.asked) : r \in Range(Reply(Top.asked[k]))
    BY FinishedHasReplied
  <1>3. \A r : r \in AnswersTo(Top.asked) <=> \E k \in Legible(Top.asked) : r \in AnswerTo(Top.asked[k])
    BY DEF AnswersTo
  <1>4. \A k \in Legible(Top.asked) : /\ Range(Reply(Top.asked[k])) \subseteq AnswerTo(Top.asked[k])
                                      /\ Range(Reply(Top.asked[k])) = {} => AnswerTo(Top.asked[k]) \subseteq TooLong
    BY <1>1, RepliesAreAnswers
  <1>5. Top.said \subseteq AnswersTo(Top.asked)
    BY <1>2, <1>3, <1>4
  <1>6. ASSUME NEW k \in Legible(Top.asked), AnswerTo(Top.asked[k]) \cap Top.said = {}
        PROVE  AnswerTo(Top.asked[k]) \subseteq TooLong
    BY <1>2, <1>4, <1>6
  <1>7. ASSUME Distinct, Specific(Top.asked)
        PROVE  Top.said = AnswersTo(Top.asked) \ TooLong
    <2>1. \A k \in Legible(Top.asked) : Range(Reply(Top.asked[k])) = AnswerTo(Top.asked[k]) \ TooLong
      BY <1>1, <1>7, RepliesAsDescribed DEF Specific
    <2>2. \A r : r \in Top.said <=> r \in AnswersTo(Top.asked) \ TooLong
      BY <1>2, <1>3, <2>1
    <2> QED BY <2>2, Zenon
  <1> QED BY <1>5, <1>6, <1>7

\* A handler that no other disturbed and whose frames all found credit has sent, for
\* any table and packet, only what was asked for and something for every question,
\* and all of it if a type names one service and nobody asks for everything about
\* an instance; save for strings that are too long (mdns.go:71-150).
THEOREM AnswersAreDescribed ==
    Spec => []AnswersAsAsked
  <1>1. Answering => AnswersAsAsked
    BY FinishedHasAnswered
  <1> QED BY <1>1, ResponderInvariant, PTL
=============================================================================
