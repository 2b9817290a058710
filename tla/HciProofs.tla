----------------------------- MODULE HciProofs -----------------------------
(***************************************************************************)
(* The backplane window is where the driver believes it is, for every      *)
(* address of the rings, every size, and every pattern of failures; and    *)
(* packets cross each ring whole, in order and once, for every size and    *)
(* content, until what harm names has happened to it.                      *)
(***************************************************************************)
EXTENDS Hci, TLAPS

Cached == BackplaneTypeOK /\ WindowIsCached

\* One move of the window, whatever fails: it keeps the invariant, and one that
\* succeeds gets where it should.
LEMMA SetWindowKeeps ==
    ASSUME Cached, NEW w \in Window, NEW ok \in BOOLEAN, SetWindow(w, ok)
    PROVE  Cached' /\ (ok => Reaches(w))
<1>1. CASE ok
  <2>1. WindowSet(w)
    BY <1>1 DEF SetWindow
  <2>2. ASSUME NEW r \in Reg PROVE r \notin Differing(w) => regs[r] = w[r]
    <3>1. CASE window = NoWindow
      BY <3>1, ByteAssumption DEF Differing, NoWindow, Window
    <3>2. CASE window # NoWindow
      BY <3>2 DEF Differing, Cached, WindowIsCached
    <3> QED BY <3>1, <3>2
  <2>3. regs' = [r \in Reg |-> w[r]]
    BY <2>1, <2>2 DEF WindowSet
  <2>4. regs' = w
    BY <2>3 DEF Window
  <2> QED BY <1>1, <2>1, <2>4 DEF WindowSet, Cached, BackplaneTypeOK, WindowIsCached, Reaches
<1>2. CASE ~ok
  <2>1. PICK r \in Reg : WindowFails(w, r)
    BY <1>2 DEF SetWindow, Differing
  <2>2. regs' \in Window
    BY <2>1 DEF WindowFails, Cached, BackplaneTypeOK, Window
  <2> QED BY <1>2, <2>1, <2>2 DEF WindowFails, Cached, BackplaneTypeOK, WindowIsCached
<1> QED BY <1>1, <1>2

\* The same for a whole access.
LEMMA AccessKeeps ==
    ASSUME Cached, faults \in Nat, NEW w \in Window, NEW r, Access(w, r)
    PROVE  Cached' /\ faults' \in Nat /\ (r # "window" => Reaches(w))
<1>1. SetWindow(w, r # "window")
  BY DEF Access
<1>2. (r # "window") \in BOOLEAN
  OBVIOUS
<1>3. Cached' /\ (r # "window" => Reaches(w))
  BY <1>1, <1>2, SetWindowKeeps
<1>4. faults' \in Nat
  BY DEF Access
<1> QED BY <1>3, <1>4

----------------------------------------------------------------------------
\* Facts about frames.
LEMMA WordsPositive == \A payload \in Nat : Words(payload) \in Nat \ {0}
BY DEF Words

LEMMA FrameOfWords ==
    ASSUME NEW p \in Packet
    PROVE  /\ Frame(p) \in Seq(Word)
           /\ Len(Frame(p)) = Words(p.payload)
           /\ Words(p.payload) \in Nat \ {0}
<1>1. p.payload \in Nat
  <2>1. p.payload \in Payloads \cup {0}
    BY DEF Packet
  <2>2. Payloads \subseteq Nat
    BY HciAssumption
  <2>3. CASE p.payload = 0
    BY <2>3
  <2>4. CASE p.payload \in Payloads
    BY <2>2, <2>4
  <2> QED BY <2>1, <2>3, <2>4
<1>2. Words(p.payload) \in Nat \ {0}
  BY <1>1, WordsPositive
<1>3. Frame(p) \in [1..Words(p.payload) -> Word]
  BY <1>2 DEF Frame, Word
<1> QED BY <1>2, <1>3

LEMMA BlankIsWord == Blank \in Word
BY DEF Blank, NoPacket, Word, Packet

LEMMA ParsedIsPacket ==
    ASSUME NEW words \in Seq(Word), Len(words) > 0
    PROVE  Parsed(words) \in Packet
<1>1. words[1] \in Word
  OBVIOUS
<1>2. words[1][1] \in Packet
  BY <1>1 DEF Word
<1>3. Torn \in Packet
  BY DEF Torn, NoPacket, Packet
<1> QED BY <1>2, <1>3 DEF Parsed

LEMMA StagedIsSeq ==
    ASSUME NEW buf \in Seq(Word), NEW at \in Nat, NEW n \in Nat, at + n <= Len(buf)
    PROVE  Staged(buf, at, n) \in Seq(Word) /\ Len(Staged(buf, at, n)) = Len(buf)
<1>1. DOMAIN buf = 1..Len(buf) /\ Len(buf) \in Nat
  OBVIOUS
<1>2. ASSUME NEW i \in 1..Len(buf)
      PROVE  (IF i <= n THEN buf[at + i] ELSE buf[i]) \in Word
  BY <1>1, <1>2
<1>3. Staged(buf, at, n) \in [1..Len(buf) -> Word]
  BY <1>1, <1>2 DEF Staged
<1> QED BY <1>1, <1>3

\* A burst has at least a word, and no more than is left.
LEMMA BurstLenBounds ==
    ASSUME NEW addr \in Nat, NEW left \in Nat \ {0}
    PROVE  BurstLen(addr, left) \in 1..left
<1>1. addr % WinWords \in 0..(WinWords - 1)
  BY HciAssumption
<1>2. WinWords - (addr % WinWords) \in Nat \ {0}
  BY <1>1, HciAssumption
<1> QED BY <1>2, HciAssumption DEF BurstLen, Least

LEMMA ModRing == \A x \in Int : x % RingSize \in 0..(RingSize - 1)
BY HciAssumption

LEMMA WindowsOfArea ==
    ASSUME base \in Bases
    PROVE  /\ base \in Nat
           /\ \A p \in Pointer : WindowOf(Register(p)) \in Window
           /\ \A o \in 0..(2 * RingSize - 1) : WindowOf(base + o) \in Window
<1>1. base \in Nat /\ RingSize \in Nat
  BY HciAssumption
<1>2. ASSUME NEW p \in Pointer
      PROVE  \E k \in 0..3 : Register(p) = base + (2 * RingSize + k)
  <2>1. CASE p = "Host2BTIn"
    BY <1>1, <2>1 DEF Register
  <2>2. CASE p = "Host2BTOut"
    BY <1>1, <2>2 DEF Register
  <2>3. CASE p = "BT2HostIn"
    BY <1>1, <2>3 DEF Register
  <2>4. CASE p = "BT2HostOut"
    BY <1>1, <2>4 DEF Register
  <2> QED BY <1>2, <2>1, <2>2, <2>3, <2>4 DEF Pointer
<1>3. ASSUME NEW p \in Pointer PROVE WindowOf(Register(p)) \in Window
  <2>1. PICK k \in 0..3 : Register(p) = base + (2 * RingSize + k)
    BY <1>2
  <2>2. 2 * RingSize + k \in 0..(2 * RingSize + 3)
    BY <1>1
  <2> QED BY <2>1, <2>2, AddressAssumption
<1>4. ASSUME NEW o \in 0..(2 * RingSize - 1) PROVE WindowOf(base + o) \in Window
  BY <1>1, AddressAssumption
<1> QED BY <1>1, <1>3, <1>4

----------------------------------------------------------------------------
(***************************************************************************)
(* One lemma per action.  The window moves with every access, so what an   *)
(* action needs of the rest is that the address is one of the chip's.      *)
(***************************************************************************)
Good == TypeOK /\ WindowIsCached

LEMMA GoodCached == Good => Cached /\ faults \in Nat /\ base \in Bases
BY DEF Good, TypeOK, Cached

LEMMA IdleIsCall == Idle \in Call /\ Idle.step = "idle" /\ Idle.at = 0
BY DEF Idle, Call, Step

LEMMA BootingIsCall == Booting \in Call /\ Booting.step = "clear" /\ Booting.at = 0
<1>1. "clear" \in Step
  BY DEF Step
<1> QED BY <1>1, IdleIsCall DEF Booting, Call

LEMMA InitGood == Init => Good
<1> SUFFICES ASSUME Init PROVE Good
  OBVIOUS
<1>1. Cached
  BY DEF Init, BackplaneInit, Cached, BackplaneTypeOK, WindowIsCached
<1>2. cells \in [0..(2 * RingSize - 1) -> Word]
  BY BlankIsWord DEF Init
<1>3. ptr \in [Pointer -> 0..(2 * RingSize)] /\ \A p \in Pointer : ptr[p] < RingSize
  BY HciAssumption DEF Init
<1>4. call \in Call /\ call.step = "clear" /\ call.at = 0
  BY BootingIsCall DEF Init
<1>5. h2bWritePtr \in 0..MaxWritten /\ b2hReadPtr \in 0..(RingSize - 1)
  BY HciAssumption DEF Init
<1> QED BY <1>1, <1>2, <1>3, <1>4, <1>5 DEF Init, Good, TypeOK, Cached

LEMMA ControlKeeps ==
    ASSUME Good, NEW r, NEW bits \in SUBSET {"wake", "ready", "valid"}, Control(bits, r)
    PROVE  Cached' /\ faults' \in Nat /\ hostCtrl' \subseteq {"wake", "ready", "valid"}
<1>1. Cached' /\ faults' \in Nat
  BY AccessKeeps, GoodCached, AddressAssumption DEF Control
<1>2. hostCtrl' \subseteq {"wake", "ready", "valid"}
  BY DEF Control, Good, TypeOK
<1> QED BY <1>1, <1>2

LEMMA IndexOfRing ==
    ASSUME Good, NEW p \in Pointer \ {"Host2BTIn"}
    PROVE  ptr[p] \in 0..(RingSize - 1)
<1>1. ptr[p] \in 0..(2 * RingSize) /\ ptr[p] < RingSize
  BY DEF Good, TypeOK
<1> QED BY <1>1, HciAssumption

LEMMA WritePointerKeeps ==
    ASSUME Good, NEW r, NEW p \in Pointer, NEW value \in 0..(2 * RingSize),
           p # "Host2BTIn" => value < RingSize, WritePointer(p, value, r)
    PROVE  /\ Cached' /\ faults' \in Nat
           /\ ptr' \in [Pointer -> 0..(2 * RingSize)]
           /\ \A q \in Pointer \ {"Host2BTIn"} : ptr'[q] < RingSize
<1>1. WindowOf(Register(p)) \in Window
  BY GoodCached, WindowsOfArea
<1>2. Access(WindowOf(Register(p)), r)
  BY DEF WritePointer
<1>3. Cached' /\ faults' \in Nat
  BY <1>1, <1>2, AccessKeeps, GoodCached
<1>4. ptr' = [ptr EXCEPT ![p] = value] \/ ptr' = ptr
  BY DEF WritePointer
<1>5. /\ ptr' \in [Pointer -> 0..(2 * RingSize)]
      /\ \A q \in Pointer \ {"Host2BTIn"} : ptr'[q] < RingSize
  BY <1>4 DEF Good, TypeOK
<1> QED BY <1>3, <1>5

\* How a call goes on with the same buffer, or ends.
LEMMA GoesIsCall ==
    ASSUME call \in Call, NEW step \in Step, Goes(step)
    PROVE  call' \in Call /\ call'.step = step /\ call'.at = 0 /\ call'.buf = call.buf
BY DEF Goes, Call

LEMMA ReturnsIsCall ==
    ASSUME Returns
    PROVE  call' \in Call /\ call'.step = "idle"
BY DEF Returns, Idle, Call, Step

LEMMA ClearPointerKeeps == ASSUME Good, ClearPointer PROVE Good'
<1>1. PICK r \in WordEnds :
        /\ call.step = "clear"
        /\ WritePointer(Order[call.at + 1], 0, r)
        /\ IF r # "ok" THEN Goes("failed")
           ELSE IF call.at < 3 THEN call' = [call EXCEPT !.at = @ + 1]
           ELSE Goes("awaited")
        /\ UNCHANGED <<base, cells, device, hostCtrl, awake, sends, history>>
  BY DEF ClearPointer
<1>2. call \in Call /\ call.at \in 0..3
  BY <1>1 DEF Good, TypeOK, Call
<1>3. Order[call.at + 1] \in Pointer
  BY <1>2 DEF Order, Pointer
<1>4. 0 \in 0..(2 * RingSize) /\ 0 < RingSize
  BY HciAssumption
<1>5. WritePointer(Order[call.at + 1], 0, r)
  BY <1>1
<1>6. /\ Cached' /\ faults' \in Nat
      /\ ptr' \in [Pointer -> 0..(2 * RingSize)]
      /\ \A q \in Pointer \ {"Host2BTIn"} : ptr'[q] < RingSize
  BY <1>3, <1>4, <1>5, WritePointerKeeps
<1>7. /\ call' \in Call
      /\ \/ call'.step = "clear" /\ call'.at < 4
         \/ call'.step \in {"failed", "awaited"}
  <2>1. CASE r # "ok"
    BY <1>1, <1>2, <2>1, GoesIsCall DEF Step
  <2>2. CASE r = "ok" /\ call.at < 3
    BY <1>1, <1>2, <2>2 DEF Call
  <2>3. CASE r = "ok" /\ ~(call.at < 3)
    BY <1>1, <1>2, <2>3, GoesIsCall DEF Step
  <2> QED BY <2>1, <2>2, <2>3
<1> QED BY <1>1, <1>6, <1>7 DEF Good, TypeOK, Cached, device, history

LEMMA WaitAwakeKeeps == ASSUME Good, WaitAwake PROVE Good'
<1>1. PICK r \in {"ok", "window", "lost"} :
        /\ call.step \in {"awaited", "wait"}
        /\ Access(CtlWindow, r)
        /\ IF r = "ok" /\ awake
           THEN Goes(IF call.step = "wait" THEN "burst" ELSE "ready")
           ELSE \/ r = "ok" /\ UNCHANGED call
                \/ IF call.step = "wait" THEN Returns ELSE Goes("failed")
        /\ UNCHANGED <<ring, device, hostCtrl, awake, sends, history>>
  BY DEF WaitAwake
<1>2. Cached' /\ faults' \in Nat
  BY <1>1, AccessKeeps, GoodCached, AddressAssumption
<1>3. call \in Call
  BY DEF Good, TypeOK
<1>4. \/ call' = call
      \/ Goes("failed") \/ Goes("ready") \/ Returns
      \/ Goes("burst") /\ call.step = "wait"
  BY <1>1
<1>5. /\ call' \in Call
      /\ \/ call' = call
         \/ call'.step \in {"failed", "ready", "idle"}
         \/ /\ call'.step = "burst" /\ call.step = "wait"
            /\ call'.at = 0 /\ call'.buf = call.buf
  BY <1>3, <1>4, GoesIsCall, ReturnsIsCall DEF Step
<1>6. call.step = "wait" =>
        /\ h2bWritePtr + Len(call.buf) <= MaxWritten
        /\ 0 < Len(call.buf)
  BY <1>3 DEF Good, TypeOK, Call
<1> QED BY <1>1, <1>2, <1>5, <1>6 DEF Good, TypeOK, Cached, ring, device, history

LEMMA HostReadyKeeps == ASSUME Good, HostReady PROVE Good'
<1>1. PICK r \in WordEnds :
        /\ Control(hostCtrl \cup {"ready"}, r)
        /\ Goes(IF r = "ok" THEN "boot toggle" ELSE "failed")
        /\ UNCHANGED <<ring, device, awake, sends, history>>
  BY DEF HostReady
<1>2. hostCtrl \cup {"ready"} \in SUBSET {"wake", "ready", "valid"}
  BY DEF Good, TypeOK
<1>3. Cached' /\ faults' \in Nat /\ hostCtrl' \subseteq {"wake", "ready", "valid"}
  BY <1>1, <1>2, ControlKeeps
<1>4. call' \in Call /\ call'.step \in {"boot toggle", "failed"}
  BY <1>1, GoesIsCall DEF Step, Good, TypeOK
<1> QED BY <1>1, <1>3, <1>4 DEF Good, TypeOK, Cached, ring, device, history

LEMMA ToggleIntrKeeps == ASSUME Good, ToggleIntr PROVE Good'
<1>1. PICK r \in WordEnds :
        /\ Control(Toggled, r)
        /\ Goes("failed") \/ Returns
        /\ UNCHANGED <<ring, device, awake, sends, history>>
  BY DEF ToggleIntr
<1>2. Toggled \in SUBSET {"wake", "ready", "valid"}
  BY DEF Good, TypeOK, Toggled
<1>3. Cached' /\ faults' \in Nat /\ hostCtrl' \subseteq {"wake", "ready", "valid"}
  BY <1>1, <1>2, ControlKeeps
<1>4. call' \in Call /\ call'.step \in {"idle", "failed"}
  BY <1>1, GoesIsCall, ReturnsIsCall DEF Step, Good, TypeOK
<1> QED BY <1>1, <1>3, <1>4 DEF Good, TypeOK, Cached, ring, device, history

LEMMA RestartKeeps == ASSUME Good, Restart PROVE Good'
<1>1. call' \in Call /\ call'.step = "clear" /\ call'.at = 0
  BY BootingIsCall DEF Restart
<1>2. Cached'
  BY DEF Restart, Good, TypeOK, Cached, BackplaneTypeOK, WindowIsCached
<1>3. /\ written' \in Seq(Packet) /\ taken' \in Seq(Packet)
      /\ put' \in Seq(Packet) /\ got' \in Seq(Packet)
  BY DEF Restart
<1> QED BY <1>1, <1>2, <1>3 DEF Restart, Good, TypeOK, Cached, ring, device

----------------------------------------------------------------------------
LEMMA StartWriteKeeps == ASSUME Good, StartWrite PROVE Good'
<1>1. PICK payload \in Payloads :
        /\ h2bWritePtr + Words(payload) <= MaxWritten
        /\ call' = [step |-> "wake", at |-> 0, room |-> 0,
                    buf |-> Frame([by |-> "host", n |-> sends + 1, payload |-> payload])]
        /\ sends' = sends + 1
        /\ UNCHANGED <<backplane, ring, device, hostCtrl, awake, faults, history>>
  BY DEF StartWrite
<1> DEFINE p == [by |-> "host", n |-> sends + 1, payload |-> payload]
<1>2. p \in Packet /\ p.payload = payload
  BY DEF Packet, Good, TypeOK
<1>3. /\ Frame(p) \in Seq(Word)
      /\ Len(Frame(p)) = Words(payload)
      /\ Words(payload) \in Nat \ {0}
  BY <1>2, FrameOfWords
<1>4. call' = [step |-> "wake", at |-> 0, room |-> 0, buf |-> Frame(p)]
  BY <1>1
<1> HIDE DEF p
<1>5. /\ call' \in Call /\ call'.step = "wake"
      /\ h2bWritePtr + Len(call'.buf) <= MaxWritten
      /\ call'.at < Len(call'.buf)
  BY <1>1, <1>3, <1>4 DEF Call, Step
<1>6. sends' \in Nat
  BY <1>1 DEF Good, TypeOK
<1>7. Cached'
  BY <1>1 DEF Good, TypeOK, Cached, BackplaneTypeOK, WindowIsCached, backplane
<1> QED BY <1>1, <1>5, <1>6, <1>7 DEF Good, TypeOK, Cached, ring, device, history

LEMMA WakeKeeps == ASSUME Good, Wake PROVE Good'
<1>1. PICK r \in WordEnds :
        /\ call.step = "wake"
        /\ Control(hostCtrl \cup {"wake"}, r)
        /\ IF r = "ok" THEN Goes("wait") ELSE Returns
        /\ UNCHANGED <<ring, device, awake, sends, history>>
  BY DEF Wake
<1>2. hostCtrl \cup {"wake"} \in SUBSET {"wake", "ready", "valid"}
  BY DEF Good, TypeOK
<1>3. Cached' /\ faults' \in Nat /\ hostCtrl' \subseteq {"wake", "ready", "valid"}
  BY <1>1, <1>2, ControlKeeps
<1>4. call \in Call /\ "wait" \in Step
  BY DEF Good, TypeOK, Step
<1>5. /\ call' \in Call
      /\ \/ call'.step = "idle"
         \/ call'.step = "wait" /\ call'.at = 0 /\ call'.buf = call.buf
  BY <1>1, <1>4, GoesIsCall, ReturnsIsCall
<1>6. h2bWritePtr + Len(call.buf) <= MaxWritten /\ 0 < Len(call.buf)
  BY <1>1, <1>4 DEF Good, TypeOK, Call
<1> QED BY <1>1, <1>3, <1>5, <1>6 DEF Good, TypeOK, Cached, ring, device, history

LEMMA StoredIsMemory ==
    ASSUME cells \in [0..(2 * RingSize - 1) -> Word], NEW words \in Seq(Word),
           NEW c \in Nat, NEW n \in Nat, n <= Len(words)
    PROVE  Stored(c, words, n) \in [0..(2 * RingSize - 1) -> Word]
<1>1. ASSUME NEW d \in 0..(2 * RingSize - 1), d \in c..(c + n - 1)
      PROVE  words[d - c + 1] \in Word
  <2>1. d - c + 1 \in 1..Len(words)
    BY <1>1, HciAssumption
  <2> QED BY <2>1
<1> QED BY <1>1 DEF Stored

LEMMA WriteBurstKeeps == ASSUME Good, WriteBurst PROVE Good'
<1> DEFINE c == h2bWritePtr + call.at
           n == BurstLen(base + c, Len(call.buf) - call.at)
           w == WindowOf(base + c)
           staged == Staged(call.buf, call.at, n)
<1>1. PICK r \in BurstEnds :
        /\ call.step = "burst"
        /\ Access(w, r)
        /\ cells' = IF Effective(w, r) THEN Stored(c, staged, n) ELSE cells
        /\ IF r = "window"
           THEN Returns /\ UNCHANGED <<h2bWritePtr, written>>
           ELSE IF call.at + n < Len(call.buf)
           THEN /\ call' = [call EXCEPT !.at = @ + n, !.buf = staged]
                /\ UNCHANGED <<h2bWritePtr, written>>
           ELSE /\ Goes("publish")
                /\ h2bWritePtr' = h2bWritePtr + Len(call.buf)
                /\ written' = Append(written, call.buf[Len(call.buf)][1])
        /\ harm' = harm \cup (IF r = "silent" THEN {"write burst"} ELSE {})
                        \cup (IF c + n >= RingSize THEN {"lap"} ELSE {})
        /\ UNCHANGED <<base, ptr, b2hReadPtr, hostCtrl, awake, sends, taken, put, got>>
  BY DEF WriteBurst
<1>13. call.step = "burst"
  BY <1>1
<1>2. /\ call \in Call /\ call.buf \in Seq(Word) /\ call.at \in Nat
      /\ Len(call.buf) \in Nat
      /\ h2bWritePtr \in 0..MaxWritten
      /\ h2bWritePtr + Len(call.buf) <= MaxWritten /\ call.at < Len(call.buf)
  BY <1>13 DEF Good, TypeOK, Call
<1>3. c \in 0..(2 * RingSize - 1) /\ base + c \in Nat /\ w \in Window
  <2>1. c \in 0..(2 * RingSize - 1)
    BY <1>2, HciAssumption
  <2>2. base \in Nat /\ w \in Window
    BY <2>1, GoodCached, WindowsOfArea
  <2> QED BY <2>1, <2>2
<1>4. n \in 1..(Len(call.buf) - call.at)
  <2>1. Len(call.buf) - call.at \in Nat \ {0}
    BY <1>2
  <2> QED BY <1>3, <2>1, BurstLenBounds
<1>5. n \in Nat /\ call.at + n <= Len(call.buf)
  BY <1>2, <1>4
<1>6. staged \in Seq(Word) /\ Len(staged) = Len(call.buf)
  BY <1>2, <1>5, StagedIsSeq
<1>7. Cached' /\ faults' \in Nat
  BY <1>1, <1>3, AccessKeeps, GoodCached
<1> HIDE DEF w
<1>8. cells' \in [0..(2 * RingSize - 1) -> Word]
  <2>1. c \in Nat /\ n <= Len(staged)
    BY <1>2, <1>3, <1>5, <1>6
  <2> HIDE DEF c, n, staged
  <2>2. Stored(c, staged, n) \in [0..(2 * RingSize - 1) -> Word]
    BY <1>5, <1>6, <2>1, StoredIsMemory DEF Good, TypeOK
  <2> QED BY <1>1, <2>2 DEF Good, TypeOK
<1> HIDE DEF c, n, staged
<1>12. harm' \subseteq Harm
  <2>1. harm' \subseteq harm \cup {"write burst", "lap"}
    BY <1>1
  <2> QED BY <2>1 DEF Good, TypeOK, Harm
<1>9. CASE r = "window"
  <2>1. call' \in Call /\ call'.step = "idle"
    BY <1>1, <1>9, ReturnsIsCall
  <2> QED BY <1>1, <1>7, <1>8, <1>9, <1>12, <2>1 DEF Good, TypeOK, Cached
<1>10. CASE r # "window" /\ call.at + n < Len(call.buf)
  <2>1. /\ call' = [call EXCEPT !.at = @ + n, !.buf = staged]
        /\ UNCHANGED <<h2bWritePtr, written>>
    BY <1>1, <1>10
  <2>2. /\ call' \in Call /\ call'.step = "burst"
        /\ call'.at = call.at + n /\ call'.buf = staged
    <3>1. call.step = "burst" /\ call.at + n \in Nat
      BY <1>2, <1>5, <1>13
    <3>2. call' = [call EXCEPT !.at = call.at + n, !.buf = staged]
      BY <1>2, <2>1
    <3> QED BY <1>2, <1>6, <3>1, <3>2 DEF Call
  <2>3. /\ h2bWritePtr' + Len(call'.buf) <= MaxWritten
        /\ call'.at < Len(call'.buf)
    BY <1>2, <1>6, <1>10, <2>1, <2>2
  <2> QED BY <1>1, <1>7, <1>8, <1>12, <2>1, <2>2, <2>3 DEF Good, TypeOK, Cached
<1>11. CASE r # "window" /\ ~(call.at + n < Len(call.buf))
  <2>1. /\ Goes("publish")
        /\ h2bWritePtr' = h2bWritePtr + Len(call.buf)
        /\ written' = Append(written, call.buf[Len(call.buf)][1])
    BY <1>1, <1>11
  <2>2. call' \in Call /\ call'.step = "publish"
    BY <1>2, <2>1, GoesIsCall DEF Step
  <2>3. h2bWritePtr' \in 0..MaxWritten
    BY <1>2, <2>1, HciAssumption
  <2>4. call.buf[Len(call.buf)] \in Word
    BY <1>2
  <2>5. call.buf[Len(call.buf)][1] \in Packet
    BY <2>4 DEF Word
  <2>6. written' \in Seq(Packet)
    BY <2>1, <2>5 DEF Good, TypeOK
  <2> QED BY <1>1, <1>7, <1>8, <1>12, <2>2, <2>3, <2>6 DEF Good, TypeOK, Cached
<1> QED BY <1>9, <1>10, <1>11

LEMMA PublishKeeps == ASSUME Good, Publish PROVE Good'
<1>1. PICK r \in WordEnds :
        /\ WritePointer("Host2BTIn", h2bWritePtr, r)
        /\ IF r = "ok" THEN Goes("toggle") ELSE Returns
        /\ UNCHANGED <<base, cells, device, hostCtrl, awake, sends, history>>
  BY DEF Publish
<1>2. "Host2BTIn" \in Pointer /\ h2bWritePtr \in 0..(2 * RingSize)
  BY HciAssumption DEF Pointer, Good, TypeOK
<1>3. /\ Cached' /\ faults' \in Nat
      /\ ptr' \in [Pointer -> 0..(2 * RingSize)]
      /\ \A q \in Pointer \ {"Host2BTIn"} : ptr'[q] < RingSize
  BY <1>1, <1>2, WritePointerKeeps
<1>4. call' \in Call /\ call'.step \in {"toggle", "idle"}
  BY <1>1, GoesIsCall, ReturnsIsCall DEF Step, Good, TypeOK
<1> QED BY <1>1, <1>3, <1>4 DEF Good, TypeOK, Cached, device, history

----------------------------------------------------------------------------
LEMMA StartReadKeeps == ASSUME Good, StartRead PROVE Good'
<1>1. PICK room \in Rooms \cup {Peeking} :
        /\ call' = [Idle EXCEPT !.step = "available", !.room = room]
        /\ UNCHANGED <<backplane, ring, device, hostCtrl, awake, faults, sends, history>>
  BY DEF StartRead
<1>2. "available" \in Step
  BY DEF Step
<1>3. call' \in Call /\ call'.step = "available" /\ call'.buf = Idle.buf
  BY <1>1, <1>2, IdleIsCall DEF Call
<1>5. Idle.buf = <<>>
  BY DEF Idle
<1>4. Cached'
  BY <1>1 DEF Good, TypeOK, Cached, BackplaneTypeOK, WindowIsCached, backplane
<1> QED BY <1>1, <1>3, <1>4, <1>5 DEF Good, TypeOK, Cached, ring, device, history

LEMMA AvailableKeeps == ASSUME Good, Available PROVE Good'
<1>1. PICK r \in {"ok", "window", "lost"} :
        /\ Access(WindowOf(Register("BT2HostIn")), r)
        /\ call.step = "available"
        /\ Goes("header") \/ Returns
        /\ UNCHANGED <<ring, device, hostCtrl, awake, sends, history>>
  BY DEF Available
<1>2. WindowOf(Register("BT2HostIn")) \in Window
  BY GoodCached, WindowsOfArea DEF Pointer
<1>3. Cached' /\ faults' \in Nat
  BY <1>1, <1>2, AccessKeeps, GoodCached
<1>4. /\ call' \in Call
      /\ (call'.step = "header" /\ call'.buf = <<>>) \/ call'.step = "idle"
  BY <1>1, GoesIsCall, ReturnsIsCall DEF Step, Good, TypeOK
<1> QED BY <1>1, <1>3, <1>4 DEF Good, TypeOK, Cached, ring, device, history

LEMMA FetchedWords ==
    ASSUME cells \in [0..(2 * RingSize - 1) -> Word], NEW c \in Nat, NEW n \in Nat,
           c + n <= RingSize, NEW w, NEW r
    PROVE  Fetched(c, n, w, r) \in Seq(Word) /\ Len(Fetched(c, n, w, r)) = n
<1>1. ASSUME NEW i \in 1..n
      PROVE  HostReadBuf + c + i - 1 \in 0..(2 * RingSize - 1)
  BY <1>1, HciAssumption DEF HostReadBuf
<1>2. Fetched(c, n, w, r) \in [1..n -> Word]
  BY <1>1, BlankIsWord DEF Fetched
<1>3. Fetched(c, n, w, r) \in Seq(Word)
  BY <1>2
<1> QED BY <1>2, <1>3

LEMMA ReadHeaderKeeps == ASSUME Good, ReadHeader PROVE Good'
<1> DEFINE w == WindowOf(base + HostReadBuf + b2hReadPtr)
           header(r) == Fetched(b2hReadPtr, 1, w, r)
<1>1. PICK r \in BurstEnds :
        /\ Access(w, r)
        /\ \/ Returns
           \/ call' = [call EXCEPT !.step = "frame", !.at = RoundedLen(header(r)[1][1].payload)]
              /\ call.step = "header"
        /\ Harmed("read burst", r = "silent")
        /\ UNCHANGED <<ring, device, hostCtrl, awake, sends, written, taken, put, got>>
  BY DEF ReadHeader
<1>2. b2hReadPtr \in 0..(RingSize - 1) /\ call \in Call
  BY DEF Good, TypeOK
<1>3. w \in Window
  <2>1. HostReadBuf + b2hReadPtr \in 0..(2 * RingSize - 1)
    BY <1>2, HciAssumption DEF HostReadBuf
  <2>2. base + HostReadBuf + b2hReadPtr = base + (HostReadBuf + b2hReadPtr)
    BY <1>2, GoodCached, WindowsOfArea, HciAssumption DEF HostReadBuf
  <2> QED BY <2>1, <2>2, GoodCached, WindowsOfArea
<1>4. Cached' /\ faults' \in Nat
  BY <1>1, <1>3, AccessKeeps, GoodCached
<1> HIDE DEF w
<1>5. header(r) \in Seq(Word) /\ Len(header(r)) = 1
  <2>1. b2hReadPtr \in Nat /\ 1 \in Nat /\ b2hReadPtr + 1 <= RingSize
    BY <1>2, HciAssumption
  <2>2. cells \in [0..(2 * RingSize - 1) -> Word]
    BY DEF Good, TypeOK
  <2>3. /\ Fetched(b2hReadPtr, 1, w, r) \in Seq(Word)
        /\ Len(Fetched(b2hReadPtr, 1, w, r)) = 1
    <3> DEFINE one == 1
    <3>1. one \in Nat /\ b2hReadPtr + one <= RingSize
      BY <2>1
    <3> HIDE DEF one
    <3>2. /\ Fetched(b2hReadPtr, one, w, r) \in Seq(Word)
          /\ Len(Fetched(b2hReadPtr, one, w, r)) = one
      BY <2>1, <2>2, <3>1, FetchedWords
    <3> QED BY <3>2 DEF one
  <2> QED BY <2>3
<1> HIDE DEF header
<1>6. header(r)[1][1] \in Packet
  <2>1. header(r)[1] \in Word
    BY <1>5
  <2> QED BY <2>1 DEF Word
<1> DEFINE n == RoundedLen(header(r)[1][1].payload)
<1>7. n \in Nat \ {0}
  BY <1>6, FrameOfWords DEF RoundedLen
<1>8. \/ Returns
      \/ call' = [call EXCEPT !.step = "frame", !.at = n] /\ call.step = "header"
  BY <1>1
<1> HIDE DEF n
<1>9. /\ call' \in Call
      /\ \/ call'.step = "idle"
         \/ call'.step = "frame" /\ call'.at = n /\ call'.buf = <<>>
  <2>1. CASE Returns
    BY <2>1, ReturnsIsCall
  <2>2. CASE call' = [call EXCEPT !.step = "frame", !.at = n] /\ call.step = "header"
    <3>1. call.buf = <<>> /\ "frame" \in Step
      BY <2>2 DEF Good, TypeOK, Step
    <3> QED BY <1>2, <1>7, <2>2, <3>1 DEF Call
  <2> QED BY <1>8, <2>1, <2>2
<1>10. harm' \subseteq Harm
  <2>1. harm' \subseteq harm \cup {"read burst"}
    BY <1>1 DEF Harmed
  <2> QED BY <2>1 DEF Good, TypeOK, Harm
<1>11. UNCHANGED <<base, cells, ptr, h2bWritePtr, b2hReadPtr, hostCtrl, awake, sends,
                    written, taken, put, got>>
  BY <1>1 DEF ring, device
<1> QED BY <1>4, <1>7, <1>9, <1>10, <1>11 DEF Good, TypeOK, Cached

LEMMA ReadBurstKeeps == ASSUME Good, ReadBurst PROVE Good'
<1> DEFINE done == Len(call.buf)
           c == (b2hReadPtr + done) % RingSize
           n == BurstLen(base + HostReadBuf + c, Least(call.at - done, RingSize - c))
           w == WindowOf(base + HostReadBuf + c)
<1>1. PICK r \in BurstEnds :
        /\ call.step = "frame"
        /\ Access(w, r)
        /\ IF r = "window" THEN Returns
           ELSE call' = [call EXCEPT !.buf = @ \o Fetched(c, n, w, r),
                                     !.step = IF done + n < call.at THEN "frame" ELSE "consume"]
        /\ Harmed("read burst", r = "silent")
        /\ UNCHANGED <<ring, device, hostCtrl, awake, sends, written, taken, put, got>>
  BY DEF ReadBurst
<1>12. call.step = "frame"
  BY <1>1
<1>2. /\ call \in Call /\ call.buf \in Seq(Word) /\ call.at \in Nat
      /\ done \in Nat /\ done < call.at /\ b2hReadPtr \in Nat
  BY <1>12, HciAssumption DEF Good, TypeOK, Call
<1>3. c \in 0..(RingSize - 1)
  BY SMTT(30), <1>2, ModRing
<1> HIDE DEF c, done
<1>4. base + HostReadBuf + c \in Nat /\ w \in Window
  <2>1. HostReadBuf + c \in 0..(2 * RingSize - 1)
    BY <1>3, HciAssumption DEF HostReadBuf
  <2>2. base \in Nat /\ base + HostReadBuf + c = base + (HostReadBuf + c)
    BY <1>3, GoodCached, WindowsOfArea, HciAssumption DEF HostReadBuf
  <2> QED BY <2>1, <2>2, GoodCached, WindowsOfArea
<1>5. n \in Nat \ {0} /\ c + n <= RingSize
  <2>1. Least(call.at - done, RingSize - c) \in 1..(RingSize - c)
    BY <1>2, <1>3, HciAssumption DEF Least
  <2>2. Least(call.at - done, RingSize - c) \in Nat \ {0}
    BY <2>1
  <2>3. n \in 1..Least(call.at - done, RingSize - c)
    BY <1>4, <2>2, BurstLenBounds
  <2> QED BY <1>3, <2>1, <2>3, HciAssumption
<1>6. Cached' /\ faults' \in Nat
  BY <1>1, <1>4, AccessKeeps, GoodCached
<1> HIDE DEF w, n
<1> DEFINE words == Fetched(c, n, w, r)
<1>7. words \in Seq(Word) /\ Len(words) = n
  <2>1. cells \in [0..(2 * RingSize - 1) -> Word]
    BY DEF Good, TypeOK
  <2>2. c \in Nat /\ n \in Nat /\ c + n <= RingSize
    BY <1>3, <1>5
  <2> HIDE DEF words
  <2>3. /\ Fetched(c, n, w, r) \in Seq(Word)
        /\ Len(Fetched(c, n, w, r)) = n
    BY <2>1, <2>2, FetchedWords
  <2> QED BY <2>3 DEF words
<1> HIDE DEF words
<1>8. call.buf \o words \in Seq(Word) /\ Len(call.buf \o words) = done + n
  BY <1>2, <1>7 DEF done
<1> DEFINE step == IF done + n < call.at THEN "frame" ELSE "consume"
<1>11. harm' \subseteq Harm
  <2>1. harm' \subseteq harm \cup {"read burst"}
    BY <1>1 DEF Harmed
  <2> QED BY <2>1 DEF Good, TypeOK, Harm
<1>9. CASE r = "window"
  BY <1>1, <1>6, <1>9, <1>11, ReturnsIsCall DEF Good, TypeOK, Cached, ring, device
<1>10. CASE r # "window"
  <2>1. call' = [call EXCEPT !.buf = call.buf \o words, !.step = step]
    BY <1>1, <1>2, <1>10 DEF words, Call
  <2>2. step \in Step
    BY DEF Step
  <2>3. /\ call' \in Call /\ call'.step = step
        /\ call'.buf = call.buf \o words /\ call'.at = call.at
    <3> HIDE DEF step
    <3> QED BY <1>2, <1>8, <2>1, <2>2 DEF Call
  <2>4. /\ call'.step \in {"frame", "consume"}
        /\ call'.step = "frame" => Len(call'.buf) < call'.at
        /\ Len(call'.buf) > 0
    BY <1>2, <1>5, <1>8, <2>3
  <2> QED BY <1>1, <1>6, <1>11, <2>3, <2>4 DEF Good, TypeOK, Cached, ring, device
<1> QED BY <1>9, <1>10

LEMMA ConsumeKeeps == ASSUME Good, Consume PROVE Good'
<1> DEFINE newPtr == NextReadPtr(Len(call.buf))
<1>1. PICK r \in WordEnds :
        /\ call.step = "consume"
        /\ WritePointer("BT2HostOut", newPtr, r)
        /\ IF r = "ok"
           THEN /\ b2hReadPtr' = newPtr
                /\ got' = Append(got, Parsed(call.buf))
                /\ call' = [Idle EXCEPT !.step = "toggle"]
           ELSE Returns /\ UNCHANGED <<b2hReadPtr, got>>
        /\ Harmed("moved", r = "done")
        /\ UNCHANGED <<base, cells, h2bWritePtr, hostCtrl, awake, sends, written, taken, put>>
  BY DEF Consume
<1>2. call.buf \in Seq(Word) /\ Len(call.buf) > 0
  BY <1>1 DEF Good, TypeOK, Call
<1>3. newPtr \in 0..(RingSize - 1)
  <2>1. b2hReadPtr + Len(call.buf) \in Int
    BY <1>2 DEF Good, TypeOK
  <2> QED BY <2>1, ModRing DEF NextReadPtr
<1> HIDE DEF newPtr
<1>4. /\ "BT2HostOut" \in Pointer /\ newPtr \in 0..(2 * RingSize) /\ newPtr < RingSize
  BY <1>3, HciAssumption DEF Pointer
<1>5. /\ Cached' /\ faults' \in Nat
      /\ ptr' \in [Pointer -> 0..(2 * RingSize)]
      /\ \A q \in Pointer \ {"Host2BTIn"} : ptr'[q] < RingSize
  BY <1>1, <1>4, WritePointerKeeps
<1>6. /\ b2hReadPtr' \in 0..(RingSize - 1) /\ got' \in Seq(Packet)
      /\ call' \in Call /\ call'.step \in {"idle", "toggle"}
  <2>1. CASE r = "ok"
    <3>1. Parsed(call.buf) \in Packet
      BY <1>2, ParsedIsPacket
    <3>2. got' \in Seq(Packet)
      <4>1. got \in Seq(Packet) /\ got' = Append(got, Parsed(call.buf))
        BY <1>1, <2>1 DEF Good, TypeOK
      <4> QED BY <3>1, <4>1
    <3>3. "toggle" \in Step
      BY DEF Step
    <3>4. call' \in Call /\ call'.step = "toggle"
      BY <1>1, <2>1, <3>3, IdleIsCall DEF Call
    <3> QED BY <1>1, <1>3, <2>1, <3>2, <3>4
  <2>2. CASE r # "ok"
    BY <1>1, <2>2, ReturnsIsCall DEF Good, TypeOK
  <2> QED BY <2>1, <2>2
<1>7. harm' \subseteq Harm
  <2>1. harm' \subseteq harm \cup {"moved"}
    BY <1>1 DEF Harmed
  <2> QED BY <2>1 DEF Good, TypeOK, Harm
<1> QED BY <1>1, <1>5, <1>6, <1>7 DEF Good, TypeOK, Cached

----------------------------------------------------------------------------
\* The controller moves no window.
LEMMA HostKeepsCached == ASSUME Good, UNCHANGED Host PROVE Cached'
BY DEF Good, TypeOK, Cached, BackplaneTypeOK, WindowIsCached, Host, backplane

LEMMA ControllerWakesKeeps == ASSUME Good, ControllerWakes PROVE Good'
<1>1. UNCHANGED <<Host, cells, ptr, taken, put>> /\ awake' \in BOOLEAN
  BY DEF ControllerWakes, Good, TypeOK
<1> QED BY <1>1, HostKeepsCached DEF Good, TypeOK, Cached, Host, backplane, device

LEMMA ControllerTakesKeeps == ASSUME Good, ControllerTakes PROVE Good'
<1> DEFINE out == ptr["Host2BTOut"]
           n == Words(cells[out][1].payload)
           words == [i \in 1..n |-> cells[(out + i - 1) % RingSize]]
<1>1. /\ taken' = Append(taken, Parsed(words))
      /\ ptr' = [ptr EXCEPT !["Host2BTOut"] = (out + n) % RingSize]
      /\ UNCHANGED <<Host, cells, awake, put>>
  BY DEF ControllerTakes
<1>2. out \in 0..(RingSize - 1)
  BY IndexOfRing DEF Pointer
<1>3. cells[out] \in Word
  BY <1>2, HciAssumption DEF Good, TypeOK
<1>4. n \in Nat \ {0}
  <2>1. cells[out][1] \in Packet
    BY <1>3 DEF Word
  <2> QED BY <2>1, FrameOfWords
<1>5. words \in Seq(Word) /\ Len(words) > 0
  <2>1. ASSUME NEW i \in 1..n PROVE cells[(out + i - 1) % RingSize] \in Word
    <3>1. out + i - 1 \in Int
      BY <1>2, <1>4
    <3>2. (out + i - 1) % RingSize \in 0..(RingSize - 1)
      BY <3>1, ModRing
    <3>3. (out + i - 1) % RingSize \in 0..(2 * RingSize - 1)
      BY <3>2, HciAssumption
    <3> QED BY <3>3 DEF Good, TypeOK
  <2> HIDE DEF n, out
  <2>2. words \in [1..n -> Word]
    BY <2>1
  <2> QED BY <1>4, <2>2
<1>6. (out + n) % RingSize \in 0..(RingSize - 1)
  <2>1. out + n \in Int
    BY <1>2, <1>4
  <2> QED BY <2>1, ModRing
<1> HIDE DEF words
<1>7. taken' \in Seq(Packet)
  <2>1. Parsed(words) \in Packet
    BY <1>5, ParsedIsPacket
  <2> QED BY <1>1, <2>1 DEF Good, TypeOK
<1> DEFINE m == (out + n) % RingSize
<1>8. ptr' = [ptr EXCEPT !["Host2BTOut"] = m] /\ m \in 0..(RingSize - 1)
  BY <1>1, <1>6
<1> HIDE DEF m, n, out
<1>9. m \in 0..(2 * RingSize) /\ m < RingSize
  BY <1>8, HciAssumption
<1>10. /\ ptr' \in [Pointer -> 0..(2 * RingSize)]
       /\ \A q \in Pointer \ {"Host2BTIn"} : ptr'[q] < RingSize
  BY <1>8, <1>9 DEF Good, TypeOK
<1> QED BY <1>1, <1>7, <1>10, HostKeepsCached
        DEF Good, TypeOK, Cached, Host, backplane, device

LEMMA ControllerPutsKeeps == ASSUME Good, ControllerPuts PROVE Good'
<1>1. PICK payload \in Payloads :
        LET p == [by |-> "controller", n |-> Len(put) + 1, payload |-> payload]
            in == ptr["BT2HostIn"]
            n == Words(payload)
        IN
        /\ cells' = [c \in DOMAIN cells |->
                       LET i == (c - HostReadBuf - in) % RingSize IN
                       IF c >= HostReadBuf /\ i < n THEN Frame(p)[i + 1] ELSE cells[c]]
        /\ ptr' = [ptr EXCEPT !["BT2HostIn"] = (in + n) % RingSize]
        /\ put' = Append(put, p)
        /\ UNCHANGED <<Host, awake, taken>>
  BY DEF ControllerPuts
<1> DEFINE p == [by |-> "controller", n |-> Len(put) + 1, payload |-> payload]
           in == ptr["BT2HostIn"]
           n == Words(payload)
           at(c) == (c - HostReadBuf - in) % RingSize
           m == (in + n) % RingSize
<1>2. p \in Packet /\ p.payload = payload
  BY DEF Packet, Good, TypeOK
<1>3. Frame(p) \in Seq(Word) /\ Len(Frame(p)) = n /\ n \in Nat \ {0}
  BY <1>2, FrameOfWords
<1>4. in \in 0..(RingSize - 1)
  BY IndexOfRing DEF Pointer
<1>5. /\ cells' = [c \in DOMAIN cells |->
                     IF c >= HostReadBuf /\ at(c) < n THEN Frame(p)[at(c) + 1] ELSE cells[c]]
      /\ ptr' = [ptr EXCEPT !["BT2HostIn"] = m]
      /\ put' = Append(put, p)
      /\ UNCHANGED <<Host, awake, taken>>
  BY <1>1
<1>6. m \in 0..(RingSize - 1)
  <2>1. in + n \in Int
    BY <1>3, <1>4
  <2> QED BY <2>1, ModRing
<1>7. ASSUME NEW c \in 0..(2 * RingSize - 1) PROVE at(c) \in Nat
  <2>1. c - HostReadBuf - in \in Int
    BY <1>4, HciAssumption DEF HostReadBuf
  <2> QED BY <2>1, ModRing
<1> HIDE DEF p, in, n, at, m
<1>8. cells' \in [0..(2 * RingSize - 1) -> Word]
  <2>1. cells \in [0..(2 * RingSize - 1) -> Word]
    BY DEF Good, TypeOK
  <2>2. ASSUME NEW c \in 0..(2 * RingSize - 1), at(c) < n
        PROVE  Frame(p)[at(c) + 1] \in Word
    <3>1. at(c) + 1 \in 1..Len(Frame(p))
      BY <1>3, <1>7, <2>2
    <3> QED BY <1>3, <3>1
  <2> QED BY <1>5, <2>1, <2>2
<1>9. /\ ptr' \in [Pointer -> 0..(2 * RingSize)]
      /\ \A q \in Pointer \ {"Host2BTIn"} : ptr'[q] < RingSize
  <2>1. m \in 0..(2 * RingSize) /\ m < RingSize
    BY <1>6, HciAssumption
  <2> QED BY <1>5, <2>1 DEF Good, TypeOK
<1>10. put' \in Seq(Packet)
  BY <1>2, <1>5 DEF Good, TypeOK
<1> QED BY <1>5, <1>8, <1>9, <1>10, HostKeepsCached
        DEF Good, TypeOK, Cached, Host, backplane, device

----------------------------------------------------------------------------
LEMMA StepGood == Good /\ [Next]_vars => Good'
<1> SUFFICES ASSUME Good, [Next]_vars PROVE Good'
  OBVIOUS
<1>1. CASE UNCHANGED vars
  BY <1>1 DEF Good, TypeOK, BackplaneTypeOK, WindowIsCached, vars, ring, device, history
<1>2. CASE Boot
  BY <1>2, ClearPointerKeeps, WaitAwakeKeeps, HostReadyKeeps, ToggleIntrKeeps,
     RestartKeeps DEF Boot
<1>3. CASE WriteHCI
  BY <1>3, StartWriteKeeps, WakeKeeps, WriteBurstKeeps, PublishKeeps DEF WriteHCI
<1>4. CASE ReadHCI
  BY <1>4, StartReadKeeps, AvailableKeeps, ReadHeaderKeeps, ReadBurstKeeps,
     ConsumeKeeps DEF ReadHCI
<1>5. CASE Controller
  BY <1>5, ControllerWakesKeeps, ControllerTakesKeeps, ControllerPutsKeeps DEF Controller
<1> QED BY <1>1, <1>2, <1>3, <1>4, <1>5 DEF Next

\* The types, with the bounds of every index into the shared memory
\* (bluetooth.go:141-161, 219-352).
THEOREM HciTypeCorrect == Spec => []TypeOK
<1>1. Good => TypeOK
  BY DEF Good
<1> QED BY <1>1, InitGood, StepGood, PTL DEF Spec

\* Whatever fails between, the chip's window is the one the driver remembers
\* (device.go:73-104).
THEOREM WindowStaysCached == Spec => []WindowIsCached
<1>1. Good => WindowIsCached
  BY DEF Good
<1> QED BY <1>1, InitGood, StepGood, PTL DEF Spec

----------------------------------------------------------------------------
(***************************************************************************)
(* The order of the packets.  Each ring holds packets one after the other, *)
(* from positions that only grow: in the ring to the controller they are   *)
(* its indices, in the other one indices modulo its size.                  *)
(***************************************************************************)

\* Nothing has happened that the ring to the controller does not survive, and
\* nothing that the ring from it does not.
SafeWrites == harm \cap {"write burst", "lap"} = {}
SafeReads == harm \cap {"read burst", "moved", "lap"} = {}

\* Until the write pointer is at its end, WriteHCI is in its own ring.
Short ==
    "lap" \notin harm =>
        /\ h2bWritePtr < RingSize
        /\ call.step = "burst" => h2bWritePtr + call.at < RingSize

\* Steps of btInit, and what is so until the pointers are cleared.
Boots == {"clear", "awaited", "ready", "boot toggle", "failed"}
Cleared == call.step \notin {"clear", "failed"} \/ Running

Phases ==
    /\ call.step \in Boots =>
          h2bWritePtr = 0 /\ b2hReadPtr = 0 /\ written = <<>> /\ got = <<>>
    /\ call.step \in {"clear", "awaited", "ready"} => ~Running
    /\ call.step \in Boots /\ ~Running => taken = <<>> /\ put = <<>>
    /\ call.step = "clear" => \A i \in 1..call.at : ptr[Order[i]] = 0

\* The positions at which packets begin that follow each other; the last is
\* where the next one will.
Starts(at, packets) ==
    /\ at \in [1..(Len(packets) + 1) -> Nat]
    /\ at[1] = 0
    /\ \A k \in 1..Len(packets) : at[k + 1] = at[k] + Words(packets[k].payload)
    /\ \A j, k \in 1..(Len(packets) + 1) : j <= k => at[j] <= at[k]

\* The ring to the controller: what was written lies there from its beginning,
\* and both pointers are between two packets.
WrittenAt(at) ==
    /\ Starts(at, written) /\ at[Len(written) + 1] = h2bWritePtr
    /\ \A k \in 1..Len(written) : \A i \in 1..Words(written[k].payload) :
          cells[at[k] + i - 1] = <<written[k], i>>
    /\ PacketsTaken
    /\ ptr["Host2BTOut"] = at[Len(taken) + 1]
    /\ \E k \in (Len(taken) + 1)..(Len(written) + 1) : ptr["Host2BTIn"] = at[k]

\* The ring from the controller: what was not read yet lies in it, and the
\* controller has the pointer of the driver.
PutAt(at) ==
    /\ Starts(at, put)
    /\ PacketsReturned
    /\ at[Len(put) + 1] - at[Len(got) + 1] < RingSize
    /\ ptr["BT2HostIn"] = at[Len(put) + 1] % RingSize
    /\ b2hReadPtr = at[Len(got) + 1] % RingSize
    /\ ptr["BT2HostOut"] = b2hReadPtr
    /\ \A k \in (Len(got) + 1)..Len(put) : \A i \in 1..Words(put[k].payload) :
          cells[HostReadBuf + ((at[k] + i - 1) % RingSize)] = <<put[k], i>>

Sends == SafeWrites /\ Cleared => \E at : WrittenAt(at)
Puts == SafeReads /\ Cleared => \E at : PutAt(at)

\* What WriteHCI has still to transfer is as it was built, and what it has
\* transferred lies behind the packets.
Writes(p) ==
    /\ Len(call.buf) = Words(p.payload)
    /\ \A i \in (call.at + 1)..Len(call.buf) : call.buf[i] = <<p, i>>
    /\ \A i \in 1..call.at : cells[h2bWritePtr + i - 1] = <<p, i>>

Writing ==
    SafeWrites =>
        /\ call.step \in {"wake", "wait", "burst"} => \E p \in Packet : Writes(p)
        /\ call.step \in {"wake", "wait"} => call.at = 0

\* What ReadHCI has read is the beginning of the next packet.
Reads(p) ==
    /\ call.at = Words(p.payload)
    /\ Len(call.buf) <= call.at
    /\ \A i \in 1..Len(call.buf) : call.buf[i] = <<p, i>>

Reading ==
    SafeReads =>
        /\ call.step \in {"header", "frame", "consume"} => Len(got) < Len(put)
        /\ call.step \in {"frame", "consume"} => Reads(put[Len(got) + 1])
        /\ call.step = "consume" => Len(call.buf) = call.at

Transport == Phases /\ Short /\ Sends /\ Puts /\ Writing /\ Reading

----------------------------------------------------------------------------
(* Positions modulo the size of the ring.                                  *)

LEMMA DivRing ==
    ASSUME NEW x \in Int
    PROVE  /\ x % RingSize \in 0..(RingSize - 1) /\ x \div RingSize \in Int
           /\ x = RingSize * (x \div RingSize) + (x % RingSize)
  BY HciAssumption

LEMMA ModUnique ==
    ASSUME NEW q \in Int, NEW r \in 0..(RingSize - 1)
    PROVE  (RingSize * q + r) % RingSize = r
  BY HciAssumption

LEMMA ModSmall ==
    ASSUME NEW r \in 0..(RingSize - 1)
    PROVE  r % RingSize = r
  BY HciAssumption

\* A multiple of the size does not count.
LEMMA ModMultiple ==
    ASSUME NEW q \in Int, NEW x \in Int
    PROVE  (RingSize * q + x) % RingSize = x % RingSize
  <1> DEFINE p == x \div RingSize
             r == x % RingSize
  <1>1. p \in Int /\ r \in 0..(RingSize - 1) /\ x = RingSize * p + r
    BY DivRing
  <1> HIDE DEF p, r
  <1>2. q + p \in Int /\ RingSize * q + x = RingSize * (q + p) + r
    BY <1>1, HciAssumption
  <1>3. (RingSize * (q + p) + r) % RingSize = r
    BY <1>1, <1>2, ModUnique
  <1> QED BY <1>2, <1>3 DEF r

\* An index and a distance.
LEMMA ModAdd ==
    ASSUME NEW a \in Int, NEW k \in Int
    PROVE  ((a % RingSize) + k) % RingSize = (a + k) % RingSize
  <1> DEFINE q == a \div RingSize
             r == a % RingSize
  <1>1. q \in Int /\ r \in 0..(RingSize - 1) /\ a = RingSize * q + r
    BY DivRing
  <1> HIDE DEF q, r
  <1>2. r + k \in Int /\ a + k = RingSize * q + (r + k)
    BY <1>1, HciAssumption
  <1>3. (RingSize * q + (r + k)) % RingSize = (r + k) % RingSize
    BY <1>1, <1>2, ModMultiple
  <1> QED BY <1>2, <1>3 DEF r

\* The distance of two indices.
LEMMA ModLess ==
    ASSUME NEW a \in Int, NEW b \in Int, NEW k \in Int
    PROVE  ((b % RingSize) - (a % RingSize) + k) % RingSize = (b - a + k) % RingSize
  <1> DEFINE q == a \div RingSize
             r == a % RingSize
             s == b % RingSize
  <1>1. q \in Int /\ r \in 0..(RingSize - 1) /\ a = RingSize * q + r /\ s \in Int
    BY DivRing
  <1> HIDE DEF q, r, s
  <1>2. /\ -q \in Int /\ b - a + k \in Int /\ s - r + k \in Int /\ k - r \in Int
        /\ s - r + k = s + (k - r) /\ b + (k - r) = RingSize * q + (b - a + k)
    BY <1>1, HciAssumption
  <1>3. (s + (k - r)) % RingSize = (b + (k - r)) % RingSize
    BY <1>2, ModAdd DEF s
  <1>4. (RingSize * q + (b - a + k)) % RingSize = (b - a + k) % RingSize
    BY <1>1, <1>2, ModMultiple
  <1> QED BY <1>2, <1>3, <1>4 DEF r, s

----------------------------------------------------------------------------
(* What keeps the parts of the invariant.                                  *)

\* What happened stays so.
LEMMA HarmStays ==
    ASSUME harm \subseteq harm'
    PROVE  (SafeWrites' => SafeWrites) /\ (SafeReads' => SafeReads)
  BY DEF SafeWrites, SafeReads

\* An access has its effect just when it ends so.
LEMMA AccessWorks ==
    ASSUME Good, NEW w \in Window, NEW r \in WordEnds \cup BurstEnds, Access(w, r)
    PROVE  Effective(w, r) <=> r \in {"ok", "done"}
  <1>1. r \in {"ok", "done"} => Reaches(w)
    BY AccessKeeps, GoodCached
  <1> QED BY <1>1 DEF Effective

LEMMA PointerAfter ==
    ASSUME Good, NEW p \in Pointer, NEW value, NEW r \in WordEnds,
           WritePointer(p, value, r)
    PROVE  ptr' = IF r \in {"ok", "done"} THEN [ptr EXCEPT ![p] = value] ELSE ptr
  <1>1. WindowOf(Register(p)) \in Window
    BY GoodCached, WindowsOfArea
  <1> QED BY <1>1, AccessWorks DEF WritePointer

LEMMA Sizes ==
    ASSUME Good
    PROVE  /\ RingSize \in Nat \ {0, 1} /\ HostReadBuf = RingSize
           /\ h2bWritePtr \in Nat /\ b2hReadPtr \in 0..(RingSize - 1)
           /\ call.buf \in Seq(Word) /\ call.at \in Nat /\ Len(call.buf) \in Nat
           /\ written \in Seq(Packet) /\ taken \in Seq(Packet)
           /\ put \in Seq(Packet) /\ got \in Seq(Packet)
           /\ ptr \in [Pointer -> 0..(2 * RingSize)]
           /\ cells \in [0..(2 * RingSize - 1) -> Word]
  <1>1. RingSize \in Nat \ {0, 1} /\ HostReadBuf = RingSize /\ MaxWritten \in Nat
    BY HciAssumption DEF HostReadBuf
  <1>2. h2bWritePtr \in Nat
    BY <1>1 DEF Good, TypeOK
  <1>3. call.buf \in Seq(Word) /\ call.at \in Nat /\ Len(call.buf) \in Nat
    BY DEF Good, TypeOK, Call
  <1> QED BY <1>1, <1>2, <1>3 DEF Good, TypeOK

LEMMA InItsRing ==
    ASSUME Good, Short, "lap" \notin harm
    PROVE  h2bWritePtr \in 0..(RingSize - 1)
  BY Sizes DEF Short

LEMMA ShortKept ==
    ASSUME Short, harm \subseteq harm', UNCHANGED h2bWritePtr, h2bWritePtr \in Nat,
           call'.step = "burst" => call'.at = 0 \/ call' = call
    PROVE  Short'
  BY DEF Short

\* The places of a packet that was written.
LEMMA PlaceWritten ==
    ASSUME Good, h2bWritePtr \in 0..(RingSize - 1), NEW at, Starts(at, written), at[Len(written) + 1] = h2bWritePtr,
           NEW k \in 1..Len(written), NEW i \in 1..Words(written[k].payload)
    PROVE  /\ at[k] \in Nat /\ at[k] + i - 1 \in 0..(h2bWritePtr - 1)
           /\ at[k] + i - 1 \in 0..(RingSize - 1)
  <1>1. /\ Len(written) \in Nat /\ k \in 1..(Len(written) + 1) /\ k + 1 \in 1..(Len(written) + 1)
        /\ Len(written) + 1 \in 1..(Len(written) + 1) /\ k + 1 <= Len(written) + 1
    BY Sizes
  <1>2. at[k] \in Nat /\ at[k + 1] = at[k] + Words(written[k].payload) /\ at[k + 1] <= h2bWritePtr
    BY <1>1 DEF Starts
  <1>3. written[k] \in Packet
    BY Sizes
  <1>4. Words(written[k].payload) \in Nat
    BY <1>3, FrameOfWords
  <1>5. h2bWritePtr \in 0..(RingSize - 1) /\ RingSize \in Nat
    BY Sizes
  <1> DEFINE n == Words(written[k].payload)
             a == at[k]
  <1>6. a \in Nat /\ n \in Nat /\ a + n <= h2bWritePtr /\ i \in 1..n
    BY <1>2, <1>4
  <1> HIDE DEF n, a
  <1>7. a \in Nat /\ a + i - 1 \in 0..(h2bWritePtr - 1) /\ a + i - 1 \in 0..(RingSize - 1)
    BY <1>5, <1>6
  <1> QED BY <1>7 DEF a

\* What the ring to the controller needs of a step.
LEMMA SendsKept ==
    ASSUME Good, Short, Sends, harm \subseteq harm', Cleared' => Cleared,
           UNCHANGED <<written, taken, h2bWritePtr>>,
           ptr'["Host2BTIn"] = ptr["Host2BTIn"], ptr'["Host2BTOut"] = ptr["Host2BTOut"],
           SafeWrites' => \A c \in 0..(h2bWritePtr - 1) : cells'[c] = cells[c]
    PROVE  Sends'
  <1> SUFFICES ASSUME SafeWrites', Cleared' PROVE \E at : WrittenAt(at)'
    BY DEF Sends
  <1>1. PICK at : WrittenAt(at)
    BY HarmStays DEF Sends
  <1>4. h2bWritePtr \in 0..(RingSize - 1)
    BY InItsRing, HarmStays DEF SafeWrites
  <1>2. ASSUME NEW k \in 1..Len(written), NEW i \in 1..Words(written[k].payload)
        PROVE  cells'[at[k] + i - 1] = <<written[k], i>>
    BY <1>1, <1>2, <1>4, PlaceWritten DEF WrittenAt
  <1>3. WrittenAt(at)'
    BY <1>1, <1>2 DEF WrittenAt, Starts, PacketsTaken, IsPrefixOf
  <1> QED BY <1>3

\* What the ring from the controller needs.
LEMMA PutsKept ==
    ASSUME Good, Puts, harm \subseteq harm', Cleared' => Cleared,
           UNCHANGED <<put, got, b2hReadPtr>>,
           ptr'["BT2HostIn"] = ptr["BT2HostIn"], ptr'["BT2HostOut"] = ptr["BT2HostOut"],
           SafeReads' =>
             \A c \in 0..(RingSize - 1) : cells'[HostReadBuf + c] = cells[HostReadBuf + c]
    PROVE  Puts'
  <1> SUFFICES ASSUME SafeReads', Cleared' PROVE \E at : PutAt(at)'
    BY DEF Puts
  <1>1. PICK at : PutAt(at)
    BY HarmStays DEF Puts
  <1>2. ASSUME NEW k \in (Len(got) + 1)..Len(put), NEW i \in 1..Words(put[k].payload)
        PROVE  cells'[HostReadBuf + ((at[k] + i - 1) % RingSize)] = <<put[k], i>>
    <2>1. at[k] + i - 1 \in Int
      <3>1. k \in 1..(Len(put) + 1) /\ k \in 1..Len(put)
        BY Sizes
      <3>2. at[k] \in Nat
        BY <1>1, <3>1 DEF PutAt, Starts
      <3>3. put[k] \in Packet
        BY <3>1, Sizes
      <3>4. Words(put[k].payload) \in Nat
        BY <3>3, FrameOfWords
      <3> QED BY <3>2, <3>4
    <2>2. (at[k] + i - 1) % RingSize \in 0..(RingSize - 1)
      BY <2>1, ModRing
    <2> QED BY <1>1, <2>2 DEF PutAt
  <1>3. PutAt(at)'
    BY <1>1, <1>2 DEF PutAt, Starts, PacketsReturned, IsPrefixOf
  <1> QED BY <1>3

\* Steps that leave the rings and what is in them alone.
LEMMA RingsKept ==
    ASSUME Good, Short, Sends, Puts, Cleared' => Cleared, harm \subseteq harm',
           UNCHANGED <<ring, device, written, taken, put, got>>
    PROVE  Sends' /\ Puts'
  <1>1. UNCHANGED <<written, taken, put, got, h2bWritePtr, b2hReadPtr, ptr, cells>>
    BY DEF ring, device
  <1> QED BY <1>1, SendsKept, PutsKept

\* The rings after a step that leaves all pointers zero.
LEMMA EmptyRings ==
    ASSUME RingSize \in Nat \ {0}, written' = <<>>, taken' = <<>>, put' = <<>>, got' = <<>>,
           h2bWritePtr' = 0, b2hReadPtr' = 0, \A p \in Pointer : ptr'[p] = 0
    PROVE  Sends' /\ Puts'
  <1> DEFINE at == [i \in 1..1 |-> 0]
  <1>1. Len(<<>>) = 0
    OBVIOUS
  <1>2. Starts(at, <<>>) /\ at[1] = 0
    BY <1>1 DEF Starts
  <1> HIDE DEF at
  <1>3. /\ ptr'["Host2BTOut"] = 0 /\ ptr'["Host2BTIn"] = 0
        /\ ptr'["BT2HostOut"] = 0 /\ ptr'["BT2HostIn"] = 0
    BY DEF Pointer
  <1>4. 0 % RingSize = 0
    OBVIOUS
  <1>5. PacketsTaken' /\ PacketsReturned'
    BY <1>1 DEF PacketsTaken, PacketsReturned, IsPrefixOf
  <1>6. WrittenAt(at)'
    <2>1. \E k \in 1..1 : ptr'["Host2BTIn"] = at[k]
      BY <1>2, <1>3
    <2> QED BY <1>1, <1>2, <1>3, <1>5, <2>1 DEF WrittenAt
  <1>7. PutAt(at)'
    BY <1>1, <1>2, <1>3, <1>4, <1>5 DEF PutAt
  <1> QED BY <1>6, <1>7 DEF Sends, Puts

----------------------------------------------------------------------------
(* One lemma per action.                                                   *)

LEMMA InitOrdered == Init => Transport
  <1> SUFFICES ASSUME Init PROVE Transport
    OBVIOUS
  <1>1. call.step = "clear" /\ call.at = 0 /\ ~Running /\ ~Cleared
    BY BootingIsCall DEF Init, Running, Cleared
  <1>2. \A i \in 1..call.at : ptr[Order[i]] = 0
    BY <1>1
  <1>3. /\ h2bWritePtr = 0 /\ b2hReadPtr = 0 /\ written = <<>> /\ got = <<>>
        /\ taken = <<>> /\ put = <<>>
    BY DEF Init
  <1>4. Phases
    BY <1>1, <1>2, <1>3 DEF Phases
  <1>7. Short
    BY <1>1, <1>3, HciAssumption DEF Short
  <1>5. Sends /\ Puts
    BY <1>1 DEF Sends, Puts
  <1>6. Writing /\ Reading
    BY <1>1 DEF Writing, Reading
  <1> QED BY <1>4, <1>5, <1>6, <1>7 DEF Transport

LEMMA ClearPointerOrdered ==
    ASSUME Good, Transport, ClearPointer PROVE Transport'
  <1>1. PICK r \in WordEnds :
          /\ call.step = "clear"
          /\ WritePointer(Order[call.at + 1], 0, r)
          /\ IF r # "ok" THEN Goes("failed")
             ELSE IF call.at < 3 THEN call' = [call EXCEPT !.at = @ + 1]
             ELSE Goes("awaited")
          /\ UNCHANGED <<base, cells, device, hostCtrl, awake, sends, history>>
    BY DEF ClearPointer
  <1>2. call \in Call /\ call.at \in 0..3
    BY <1>1 DEF Good, TypeOK, Call
  <1>3. Order[call.at + 1] \in Pointer /\ \A i \in 1..4 : Order[i] \in Pointer
    BY <1>2 DEF Order, Pointer
  <1>4. /\ h2bWritePtr' = 0 /\ b2hReadPtr' = 0 /\ written' = <<>> /\ got' = <<>>
        /\ taken' = <<>> /\ put' = <<>> /\ ~Running /\ ~Running'
        /\ \A i \in 1..call.at : ptr[Order[i]] = 0
    BY <1>1 DEF Transport, Phases, Boots, device, history, Running
  <1>7. ASSUME call'.step # "burst" PROVE Short'
    BY <1>4, <1>7, HciAssumption DEF Short
  <1>5. CASE r # "ok"
    <2>1. call'.step = "failed"
      BY <1>1, <1>2, <1>5, GoesIsCall DEF Step
    <2> QED BY <1>4, <1>7, <2>1 DEF Transport, Phases, Sends, Puts, Writing, Reading, Cleared
  <1>6. CASE r = "ok"
    <2>1. ptr' = [ptr EXCEPT ![Order[call.at + 1]] = 0]
      <3>1. WritePointer(Order[call.at + 1], 0, r)
        BY <1>1
      <3> QED BY <1>3, <1>6, <3>1, PointerAfter
    <2>2. \A i \in 1..(call.at + 1) : ptr'[Order[i]] = 0
      <3>1. ptr \in [Pointer -> 0..(2 * RingSize)]
        BY Sizes
      <3>2. ASSUME NEW i \in 1..(call.at + 1) PROVE ptr'[Order[i]] = 0
        <4>1. i \in 1..4 /\ (i = call.at + 1 \/ i \in 1..call.at)
          BY <1>2
        <4>2. Order[i] \in Pointer
          BY <1>3, <4>1
        <4> QED BY <1>3, <1>4, <2>1, <3>1, <4>1, <4>2
      <3> QED BY <3>2
    <2>3. CASE call.at < 3
      <3>1. call' = [call EXCEPT !.at = call.at + 1]
        BY <1>1, <1>2, <1>6, <2>3 DEF Call
      <3>2. call'.step = "clear" /\ call'.at = call.at + 1
        BY <1>1, <1>2, <3>1 DEF Call
      <3> QED BY <1>4, <1>7, <2>2, <3>2 DEF Transport, Phases, Sends, Puts, Writing, Reading, Cleared
    <2>4. CASE ~(call.at < 3)
      <3>4. Goes("awaited") /\ "awaited" \in Step
        BY <1>1, <1>6, <2>4 DEF Step
      <3>5. call.at = 3
        BY <1>2, <2>4
      <3>1. call'.step = "awaited" /\ call.at = 3
        BY <1>2, <3>4, <3>5, GoesIsCall
      <3>2. ASSUME NEW p \in Pointer PROVE ptr'[p] = 0
        <4>1. \E i \in 1..4 : Order[i] = p
          BY DEF Pointer, Order
        <4> QED BY <2>2, <3>1, <4>1
      <3>3. Sends' /\ Puts'
        <4>1. RingSize \in Nat \ {0}
          BY HciAssumption
        <4> QED BY <1>4, <3>2, <4>1, EmptyRings
      <3> QED BY <1>4, <1>7, <3>1, <3>3 DEF Transport, Phases, Writing, Reading
    <2> QED BY <2>3, <2>4
  <1> QED BY <1>5, <1>6

\* btInit goes on, or fails.
LEMMA WaitAwakeOrdered ==
    ASSUME Good, Transport, WaitAwake PROVE Transport'
  <1>1. /\ call.step \in {"awaited", "wait"}
        /\ \/ call' = call
           \/ call.step = "awaited" /\ (Goes("failed") \/ Goes("ready"))
           \/ Returns
           \/ Goes("burst") /\ call.step = "wait"
        /\ UNCHANGED <<ring, device, hostCtrl, awake, sends, history>>
    BY DEF WaitAwake
  <1>2. call \in Call
    BY DEF Good, TypeOK
  <1>3. \/ call' = call
        \/ call.step = "awaited" /\ call'.step \in {"failed", "ready"}
        \/ call'.step = "idle"
        \/ /\ call.step = "wait" /\ call'.step = "burst"
           /\ call'.at = 0 /\ call'.buf = call.buf
    <2>1. {"failed", "ready", "burst"} \subseteq Step
      BY DEF Step
    <2> QED BY <1>1, <1>2, <2>1, GoesIsCall, ReturnsIsCall
  <1>4. /\ UNCHANGED <<written, taken, put, got, h2bWritePtr, b2hReadPtr, ptr, cells, hostCtrl, harm>>
        /\ Running' = Running
    BY <1>1 DEF ring, device, history, Running
  <1>5. Phases'
    BY <1>1, <1>3, <1>4 DEF Transport, Phases, Boots
  <1>6. Sends' /\ Puts'
    BY <1>1, <1>4, RingsKept DEF Cleared, Transport, history
  <1>7. Writing'
    BY <1>3, <1>4, HarmStays DEF Transport, Writing, Writes
  <1>8. Reading'
    BY <1>1, <1>3 DEF Reading
  <1>9. Short'
    BY <1>3, <1>4, ShortKept, Sizes DEF Transport
  <1> QED BY <1>5, <1>6, <1>7, <1>8, <1>9 DEF Transport

LEMMA HostReadyOrdered ==
    ASSUME Good, Transport, HostReady PROVE Transport'
  <1>1. PICK r \in WordEnds :
          /\ call.step = "ready"
          /\ Control(hostCtrl \cup {"ready"}, r)
          /\ Goes(IF r = "ok" THEN "boot toggle" ELSE "failed")
          /\ UNCHANGED <<ring, device, awake, sends, history>>
    BY DEF HostReady
  <1>2. /\ call \in Call
        /\ call'.step = IF r = "ok" THEN "boot toggle" ELSE "failed"
    <2>1. {"failed", "boot toggle"} \subseteq Step /\ call \in Call
      BY DEF Step, Good, TypeOK
    <2> QED BY <1>1, <2>1, GoesIsCall
  <1>3. hostCtrl' = IF r \in {"ok", "done"} THEN hostCtrl \cup {"ready"} ELSE hostCtrl
    <2>1. Access(CtlWindow, r) /\ CtlWindow \in Window
      BY <1>1, AddressAssumption DEF Control
    <2>2. Effective(CtlWindow, r) <=> r \in {"ok", "done"}
      BY <2>1, AccessWorks
    <2> QED BY <1>1, <2>2 DEF Control
  <1>4. ~Running /\ (r \in {"ok", "done"} <=> Running')
    BY <1>1, <1>3 DEF Transport, Phases, Running
  <1>5. UNCHANGED <<written, taken, put, got, h2bWritePtr, b2hReadPtr, harm>>
    BY <1>1 DEF device, history
  <1>6. Phases'
    BY <1>1, <1>2, <1>4, <1>5 DEF Transport, Phases, Boots
  <1>7. Sends' /\ Puts'
    BY <1>1, <1>5, RingsKept DEF Cleared, Transport
  <1>8. Writing' /\ Reading'
    BY <1>2 DEF Writing, Reading
  <1>9. Short'
    BY <1>1, <1>2, ShortKept, Sizes DEF Transport, device, history
  <1> QED BY <1>6, <1>7, <1>8, <1>9 DEF Transport

LEMMA ToggleIntrOrdered ==
    ASSUME Good, Transport, ToggleIntr PROVE Transport'
  <1>1. PICK r \in WordEnds :
          /\ call.step \in {"toggle", "boot toggle"}
          /\ Control(Toggled, r)
          /\ IF call.step = "boot toggle" /\ r # "ok" THEN Goes("failed") ELSE Returns
          /\ UNCHANGED <<ring, device, awake, sends, history>>
    BY DEF ToggleIntr
  <1>2. /\ call'.step \in {"failed", "idle"}
        /\ call'.step = "failed" => call.step = "boot toggle"
    <2>1. "failed" \in Step /\ call \in Call
      BY DEF Step, Good, TypeOK
    <2> QED BY <1>1, <2>1, GoesIsCall, ReturnsIsCall
  <1>3. Running' = Running
    <2>1. hostCtrl' \in {hostCtrl, Toggled}
      BY <1>1 DEF Control
    <2>2. "ready" \in Toggled <=> "ready" \in hostCtrl
      BY DEF Toggled
    <2> QED BY <2>1, <2>2 DEF Running
  <1>4. UNCHANGED <<written, taken, put, got, h2bWritePtr, b2hReadPtr, harm>>
    BY <1>1 DEF device, history
  <1>5. Phases'
    BY <1>1, <1>2, <1>3, <1>4 DEF Transport, Phases, Boots
  <1>6. Sends' /\ Puts'
    BY <1>1, <1>4, RingsKept DEF Cleared, Transport
  <1>7. Writing' /\ Reading'
    BY <1>2 DEF Writing, Reading
  <1>8. Short'
    BY <1>1, <1>2, ShortKept, Sizes DEF Transport, device, history
  <1> QED BY <1>5, <1>6, <1>7, <1>8 DEF Transport

LEMMA RestartOrdered ==
    ASSUME Good, Transport, Restart PROVE Transport'
  <1>1. call.step = "failed" /\ call'.step = "clear" /\ call'.at = 0 /\ ~Running'
    BY BootingIsCall DEF Restart, Running
  <1>2. /\ h2bWritePtr' = 0 /\ b2hReadPtr' = 0 /\ written' = <<>> /\ got' = <<>>
        /\ taken' = <<>> /\ put' = <<>>
    BY <1>1 DEF Restart, Transport, Phases, Boots, device
  <1>3. \A i \in 1..call'.at : ptr'[Order[i]] = 0
    BY <1>1
  <1>4. Phases'
    BY <1>1, <1>2, <1>3 DEF Phases
  <1>5. Sends' /\ Puts'
    BY <1>1 DEF Sends, Puts, Cleared
  <1>6. Writing' /\ Reading'
    BY <1>1 DEF Writing, Reading
  <1>7. Short'
    BY <1>1, <1>2, HciAssumption DEF Short
  <1> QED BY <1>4, <1>5, <1>6, <1>7 DEF Transport

\* Steps of a call after btInit that do not move the packets.
LEMMA CallGoesOn ==
    ASSUME Good, Transport, call.step \notin Boots, call'.step \notin Boots,
           call'.step # "burst",
           harm \subseteq harm', UNCHANGED <<ring, device, written, taken, put, got>>,
           Writing', Reading'
    PROVE  Transport'
  <1>1. Phases'
    BY DEF Phases, Boots
  <1>2. Sends' /\ Puts'
    BY RingsKept DEF Cleared, Transport, Boots
  <1>3. Short'
    BY ShortKept, Sizes DEF Transport, device
  <1> QED BY <1>1, <1>2, <1>3 DEF Transport

LEMMA StartWriteOrdered ==
    ASSUME Good, Transport, StartWrite PROVE Transport'
  <1>1. PICK payload \in Payloads :
          /\ call = Idle
          /\ call' = [step |-> "wake", at |-> 0, room |-> 0,
                      buf |-> Frame([by |-> "host", n |-> sends + 1, payload |-> payload])]
          /\ UNCHANGED <<backplane, ring, device, hostCtrl, awake, faults, history>>
    BY DEF StartWrite
  <1>2. PICK p \in Packet : p = [by |-> "host", n |-> sends + 1, payload |-> payload]
    <2>1. sends + 1 \in Nat
      BY DEF Good, TypeOK
    <2>2. [by |-> "host", n |-> sends + 1, payload |-> payload] \in Packet
      BY <2>1 DEF Packet
    <2> QED BY <2>2
  <1>3. /\ call'.step = "wake" /\ call'.at = 0 /\ call'.buf = Frame(p)
        /\ call.step = "idle"
    BY <1>1, <1>2, IdleIsCall
  <1>4. Len(Frame(p)) = Words(p.payload)
    BY <1>2, FrameOfWords
  <1>5. Writes(p)'
    <2>1. \A i \in 1..Words(p.payload) : Frame(p)[i] = <<p, i>>
      BY DEF Frame
    <2>2. \A i \in 1..0 : FALSE
      OBVIOUS
    <2> QED BY <1>3, <1>4, <2>1, <2>2 DEF Writes
  <1>6. Writing' /\ Reading'
    BY <1>2, <1>3, <1>5 DEF Writing, Reading
  <1> QED BY <1>1, <1>3, <1>6, CallGoesOn DEF Boots, history

LEMMA WakeOrdered ==
    ASSUME Good, Transport, Wake PROVE Transport'
  <1>1. PICK r \in WordEnds :
          /\ call.step = "wake"
          /\ IF r = "ok" THEN Goes("wait") ELSE Returns
          /\ UNCHANGED <<ring, device, awake, sends, history>>
    BY DEF Wake
  <1>2. /\ call \in Call
        /\ \/ call'.step = "wait" /\ call'.at = 0 /\ call'.buf = call.buf
           \/ call'.step = "idle"
    <2>1. "wait" \in Step /\ call \in Call
      BY DEF Step, Good, TypeOK
    <2> QED BY <1>1, <2>1, GoesIsCall, ReturnsIsCall
  <1>3. UNCHANGED <<h2bWritePtr, cells, harm>>
    BY <1>1 DEF ring, device, history
  <1>4. Writing'
    BY <1>1, <1>2, <1>3, HarmStays DEF Transport, Writing, Writes
  <1>5. Reading'
    BY <1>2 DEF Reading
  <1> QED BY <1>1, <1>2, <1>4, <1>5, CallGoesOn DEF Boots, history

LEMMA PublishOrdered ==
    ASSUME Good, Transport, Publish PROVE Transport'
  <1>1. PICK r \in WordEnds :
          /\ call.step = "publish"
          /\ WritePointer("Host2BTIn", h2bWritePtr, r)
          /\ IF r = "ok" THEN Goes("toggle") ELSE Returns
          /\ UNCHANGED <<base, cells, device, hostCtrl, awake, sends, history>>
    BY DEF Publish
  <1>2. call'.step \in {"toggle", "idle"}
    <2>1. "toggle" \in Step /\ call \in Call
      BY DEF Step, Good, TypeOK
    <2> QED BY <1>1, <2>1, GoesIsCall, ReturnsIsCall
  <1>3. ptr' = IF r \in {"ok", "done"} THEN [ptr EXCEPT !["Host2BTIn"] = h2bWritePtr] ELSE ptr
    BY <1>1, PointerAfter DEF Pointer
  <1>4. /\ \A p \in Pointer \ {"Host2BTIn"} : ptr'[p] = ptr[p]
        /\ ptr'["Host2BTIn"] \in {h2bWritePtr, ptr["Host2BTIn"]}
    BY <1>3, Sizes DEF Pointer
  <1>5. UNCHANGED <<written, taken, put, got, h2bWritePtr, b2hReadPtr, cells, harm>>
    BY <1>1 DEF device, history
  <1>6. Phases' /\ Writing' /\ Reading' /\ Cleared /\ Cleared'
    BY <1>1, <1>2 DEF Phases, Writing, Reading, Boots, Cleared
  <1>7. Puts'
    BY <1>4, <1>5, <1>6, PutsKept DEF Transport, Pointer
  <1>8. Sends'
    <2> SUFFICES ASSUME SafeWrites' PROVE Sends'
      BY DEF Sends
    <2>1. PICK at : WrittenAt(at)
      BY <1>5, <1>6, HarmStays DEF Transport, Sends
    <2>2. Len(written) + 1 \in (Len(taken) + 1)..(Len(written) + 1)
      BY <2>1, Sizes DEF WrittenAt, PacketsTaken, IsPrefixOf
    <2>3. \E k \in (Len(taken) + 1)..(Len(written) + 1) : ptr'["Host2BTIn"] = at[k]
      BY <1>4, <2>1, <2>2 DEF WrittenAt
    <2>4. ptr'["Host2BTOut"] = ptr["Host2BTOut"]
      BY <1>4 DEF Pointer
    <2>5. WrittenAt(at)'
      BY <1>5, <2>1, <2>3, <2>4 DEF WrittenAt, Starts, PacketsTaken, IsPrefixOf
    <2> QED BY <2>5 DEF Sends
  <1>9. Short'
    BY <1>1, <1>2, ShortKept, Sizes DEF Transport, device, history
  <1> QED BY <1>6, <1>7, <1>8, <1>9 DEF Transport

LEMMA StartReadOrdered ==
    ASSUME Good, Transport, StartRead PROVE Transport'
  <1>1. /\ call.step = "idle" /\ call'.step = "available"
        /\ UNCHANGED <<ring, device, history>>
    BY IdleIsCall DEF StartRead, Idle
  <1> QED BY <1>1, CallGoesOn DEF history, Boots, Writing, Reading

\* There is a packet to read when the pointers differ.
LEMMA AvailableOrdered ==
    ASSUME Good, Transport, Available PROVE Transport'
  <1>1. /\ call.step = "available"
        /\ \/ Returns
           \/ Goes("header") /\ (ptr["BT2HostIn"] - b2hReadPtr) % RingSize > 0
        /\ UNCHANGED <<ring, device, hostCtrl, awake, sends, history>>
    BY DEF Available
  <1>2. call \in Call /\ "header" \in Step
    BY DEF Step, Good, TypeOK
  <1>3. /\ \/ call'.step = "idle"
           \/ call'.step = "header" /\ (ptr["BT2HostIn"] - b2hReadPtr) % RingSize > 0
    BY <1>1, <1>2, GoesIsCall, ReturnsIsCall
  <1>4. UNCHANGED <<put, got, harm>>
    BY <1>1 DEF history
  <1>5. ASSUME SafeReads, (ptr["BT2HostIn"] - b2hReadPtr) % RingSize > 0 PROVE Len(got) < Len(put)
    <2>1. PICK at : PutAt(at)
      BY <1>1, <1>5 DEF Transport, Puts, Cleared
    <2>2. ptr["BT2HostIn"] # b2hReadPtr
      <3>1. 0 % RingSize = 0 /\ b2hReadPtr \in Int
        BY Sizes
      <3>2. b2hReadPtr - b2hReadPtr = 0
        BY <3>1
      <3> QED BY <1>5, <3>1, <3>2
    <2>3. Len(got) # Len(put)
      BY <2>1, <2>2 DEF PutAt
    <2> QED BY <2>1, <2>3, Sizes DEF PutAt, PacketsReturned, IsPrefixOf
  <1>6. Writing' /\ Reading'
    BY <1>3, <1>4, <1>5, HarmStays DEF Writing, Reading
  <1> QED BY <1>1, <1>3, <1>6, CallGoesOn DEF Boots, history

\* One more packet at the end.
LEMMA StartsAppend ==
    ASSUME NEW packets \in Seq(Packet), NEW p \in Packet, NEW at, Starts(at, packets)
    PROVE  \E bt : /\ Starts(bt, Append(packets, p))
                   /\ bt[Len(packets) + 2] = at[Len(packets) + 1] + Words(p.payload)
                   /\ \A k \in 1..(Len(packets) + 1) : bt[k] = at[k]
  <1> DEFINE m == Len(packets)
             w == Words(p.payload)
             more == Append(packets, p)
             bt == [k \in 1..(m + 2) |-> IF k <= m + 1 THEN at[k] ELSE at[m + 1] + w]
  <1>1. m \in Nat /\ w \in Nat /\ Len(more) = m + 1
    BY FrameOfWords
  <1>2. \A k \in 1..m : more[k] = packets[k]
    OBVIOUS
  <1>3. more[m + 1] = p
    OBVIOUS
  <1>4. at \in [1..(m + 1) -> Nat] /\ at[1] = 0
    BY DEF Starts
  <1>5. /\ \A k \in 1..m : at[k + 1] = at[k] + Words(packets[k].payload)
        /\ \A j, k \in 1..(m + 1) : j <= k => at[j] <= at[k]
    BY DEF Starts
  <1> HIDE DEF m, w, more
  <1>6. bt \in [1..(m + 2) -> Nat] /\ bt[m + 2] = at[m + 1] + w
        /\ \A k \in 1..(m + 1) : bt[k] = at[k]
    BY <1>1, <1>4
  <1> HIDE DEF bt
  <1>7. ASSUME NEW k \in 1..(m + 1) PROVE bt[k + 1] = bt[k] + Words(more[k].payload)
    <2>1. CASE k \in 1..m
      <3>1. k + 1 \in 1..(m + 1)
        BY <1>1, <2>1
      <3> QED BY <1>2, <1>5, <1>6, <2>1, <3>1
    <2>2. CASE k = m + 1
      <3>1. k + 1 = m + 2 /\ Words(more[k].payload) = w
        BY <1>1, <1>3, <2>2 DEF w
      <3> QED BY <1>6, <2>2, <3>1
    <2> QED BY <1>1, <2>1, <2>2
  <1>8. ASSUME NEW j \in 1..(m + 2), NEW k \in 1..(m + 2), j <= k PROVE bt[j] <= bt[k]
    <2>1. CASE k \in 1..(m + 1)
      <3>1. j \in 1..(m + 1)
        BY <1>1, <1>8, <2>1
      <3> QED BY <1>5, <1>6, <1>8, <2>1, <3>1
    <2>2. CASE k = m + 2 /\ j \in 1..(m + 1)
      <3>1. m + 1 \in 1..(m + 1) /\ j <= m + 1
        BY <1>1, <2>2
      <3>2. at[j] <= at[m + 1] /\ at[j] \in Nat /\ at[m + 1] \in Nat
        BY <1>4, <1>5, <2>2, <3>1
      <3> QED BY <1>1, <1>6, <2>2, <3>2
    <2>3. CASE k = m + 2 /\ j = m + 2
      <3>1. bt[k] \in Nat
        BY <1>6
      <3> QED BY <2>3, <3>1
    <2> QED BY <1>1, <2>1, <2>2, <2>3
  <1>9. bt[1] = 0
    <2>1. 1 \in 1..(m + 1)
      BY <1>1
    <2> QED BY <1>4, <1>6, <2>1
  <1>10. Starts(bt, more)
    <2>1. Len(more) + 1 = m + 2
      BY <1>1
    <2> QED BY <1>1, <1>6, <1>7, <1>8, <1>9, <2>1 DEF Starts
  <1> QED BY <1>6, <1>10 DEF m, w, more

\* A burst of WriteHCI: it lies behind the packets and ends before the other ring.
LEMMA WriteBurstOrdered ==
    ASSUME Good, Transport, WriteBurst PROVE Transport'
  <1> DEFINE c == h2bWritePtr + call.at
             left == Len(call.buf) - call.at
             n == BurstLen(base + c, left)
             w == WindowOf(base + c)
             staged == Staged(call.buf, call.at, n)
             top == Len(call.buf)
  <1>1. PICK r \in BurstEnds :
          /\ call.step = "burst"
          /\ Access(w, r)
          /\ cells' = IF Effective(w, r) THEN Stored(c, staged, n) ELSE cells
          /\ IF r = "window"
             THEN Returns /\ UNCHANGED <<h2bWritePtr, written>>
             ELSE IF call.at + n < Len(call.buf)
             THEN /\ call' = [call EXCEPT !.at = @ + n, !.buf = staged]
                  /\ UNCHANGED <<h2bWritePtr, written>>
             ELSE /\ Goes("publish")
                  /\ h2bWritePtr' = h2bWritePtr + Len(call.buf)
                  /\ written' = Append(written, call.buf[Len(call.buf)][1])
          /\ harm' = harm \cup (IF r = "silent" THEN {"write burst"} ELSE {})
                          \cup (IF c + n >= RingSize THEN {"lap"} ELSE {})
          /\ UNCHANGED <<base, ptr, b2hReadPtr, hostCtrl, awake, sends, taken, put, got>>
    BY DEF WriteBurst
  <1>2. /\ call \in Call /\ call.buf \in Seq(Word) /\ call.at \in Nat
        /\ top \in Nat /\ h2bWritePtr \in Nat /\ RingSize \in Nat
        /\ h2bWritePtr + top <= 2 * RingSize /\ call.at < top
    <2>1. call \in Call /\ h2bWritePtr \in 0..MaxWritten
          /\ h2bWritePtr + top <= MaxWritten /\ call.at < top
      BY <1>1 DEF Good, TypeOK
    <2> QED BY <2>1, Sizes, HciAssumption
  <1>3. c \in 0..(2 * RingSize - 1) /\ base + c \in Nat /\ w \in Window
    <2>1. c \in 0..(2 * RingSize - 1)
      BY <1>2
    <2>2. base \in Nat /\ w \in Window
      BY <2>1, GoodCached, WindowsOfArea
    <2> QED BY <2>1, <2>2
  <1>4. n \in Nat /\ n > 0 /\ call.at + n <= top
    <2>1. left \in Nat \ {0}
      BY <1>2
    <2>2. n \in 1..left
      BY <1>3, <2>1, BurstLenBounds
    <2> QED BY <1>2, <2>2
  <1>5. /\ r \in {"ok", "window", "silent"} /\ (Effective(w, r) <=> r = "ok")
        /\ harm \subseteq harm'
        /\ SafeWrites' => r # "silent"
        /\ "lap" \notin harm' => c + n < RingSize
    <2>1. r \in WordEnds \cup BurstEnds
      OBVIOUS
    <2>2. Effective(w, r) <=> r \in {"ok", "done"}
      BY <1>1, <1>3, <2>1, AccessWorks
    <2>3. c + n \in Int /\ RingSize \in Int
      BY <1>2, <1>3, <1>4
    <2> HIDE DEF c, n, w
    <2>5. harm' = harm \cup (IF r = "silent" THEN {"write burst"} ELSE {})
                       \cup (IF c + n >= RingSize THEN {"lap"} ELSE {})
      BY <1>1
    <2>4. "lap" \notin harm' => c + n < RingSize
      <3>1. ASSUME c + n >= RingSize PROVE "lap" \in harm'
        BY <2>5, <3>1
      <3>2. c + n >= RingSize \/ c + n < RingSize
        BY <2>3
      <3> QED BY <3>1, <3>2
    <2> QED BY <2>2, <2>4, <2>5 DEF BurstEnds, SafeWrites
  <1>6. /\ staged \in Seq(Word) /\ Len(staged) = top
        /\ \A i \in 1..top : staged[i] = IF i <= n THEN call.buf[call.at + i] ELSE call.buf[i]
    <2>1. staged \in Seq(Word) /\ Len(staged) = top
      BY <1>2, <1>4, StagedIsSeq
    <2>2. DOMAIN call.buf = 1..top
      BY <1>2
    <2> QED BY <2>1, <2>2 DEF Staged
  <1>7. PICK p \in Packet : SafeWrites' => Writes(p)
    <2>1. CASE SafeWrites'
      BY <1>1, <1>5, <2>1, HarmStays DEF Transport, Writing
    <2>2. CASE ~SafeWrites'
      <3>1. NoPacket \in Packet
        BY DEF Packet, NoPacket
      <3> QED BY <2>2, <3>1
    <2> QED BY <2>1, <2>2
  <1>8. SafeWrites' =>
          /\ top = Words(p.payload)
          /\ \A i \in (call.at + 1)..top : call.buf[i] = <<p, i>>
          /\ \A i \in 1..call.at : cells[h2bWritePtr + i - 1] = <<p, i>>
    BY <1>7 DEF Writes
  <1>9. cells' = IF r = "ok" THEN Stored(c, staged, n) ELSE cells
    BY <1>1, <1>5
  <1> HIDE DEF w, n, staged, left, top
  <1>10. ASSUME NEW d \in 0..(2 * RingSize - 1), d \notin c..(c + n - 1)
         PROVE  cells'[d] = cells[d]
    BY <1>9, <1>10, Sizes DEF Stored
  <1>11. ASSUME SafeWrites', r = "ok", NEW i \in 1..(call.at + n)
         PROVE  cells'[h2bWritePtr + i - 1] = <<p, i>>
    <2> DEFINE d == h2bWritePtr + i - 1
    <2>1. d \in 0..(2 * RingSize - 1) /\ i \in 1..top
      BY <1>2, <1>4
    <2>2. CASE i <= call.at
      <3>1. d \notin c..(c + n - 1) /\ i \in 1..call.at
        BY <1>2, <1>4, <2>2
      <3> HIDE DEF d, c
      <3>2. cells'[d] = cells[d]
        BY <1>10, <2>1, <3>1
      <3> QED BY <1>8, <1>11, <3>1, <3>2 DEF d
    <2>3. CASE ~(i <= call.at)
      <3>1. /\ d \in c..(c + n - 1) /\ d - c + 1 = i - call.at /\ i - call.at \in 1..n
            /\ i - call.at \in 1..top /\ call.at + (i - call.at) = i
            /\ i \in (call.at + 1)..top
        BY SMTT(30), <1>2, <1>4, <2>1, <2>3
      <3>2. cells'[d] = staged[i - call.at]
        <4> HIDE DEF d, c
        <4> QED BY <1>9, <1>11, <2>1, <3>1, Sizes DEF Stored
      <3>3. i - call.at <= n
        BY <3>1
      <3>4. staged[i - call.at] = call.buf[i]
        BY <1>6, <3>1, <3>3
      <3> QED BY <1>8, <1>11, <3>1, <3>2, <3>4 DEF d
    <2> QED BY <2>2, <2>3
  <1>12. \A d \in 0..(h2bWritePtr - 1) : cells'[d] = cells[d]
    <2>1. ASSUME NEW d \in 0..(h2bWritePtr - 1) PROVE cells'[d] = cells[d]
      <3>1. d \in 0..(2 * RingSize - 1) /\ d \notin c..(c + n - 1)
        BY <1>2, <1>4
      <3> HIDE DEF c
      <3> QED BY <1>10, <3>1
    <2> QED BY <2>1
  <1>13. ASSUME SafeReads'
         PROVE  \A d \in 0..(RingSize - 1) : cells'[HostReadBuf + d] = cells[HostReadBuf + d]
    <2>2. c + n < RingSize
      BY <1>5, <1>13 DEF SafeReads
    <2>1. ASSUME NEW d \in 0..(RingSize - 1)
          PROVE  cells'[HostReadBuf + d] = cells[HostReadBuf + d]
      <3>1. HostReadBuf + d \in 0..(2 * RingSize - 1) /\ HostReadBuf + d \notin c..(c + n - 1)
        BY <1>2, <1>4, <2>2 DEF HostReadBuf
      <3> HIDE DEF c
      <3> QED BY <1>10, <3>1
    <2> QED BY <2>1
  <1>19. "lap" \notin harm' => h2bWritePtr + call.at + n < RingSize
    BY <1>5 DEF c
  <1> HIDE DEF c
  <1>14. call'.step \in {"idle", "burst", "publish"} /\ call.step \notin Boots /\ Cleared
    <2>1. "publish" \in Step
      BY DEF Step
    <2> QED BY <1>1, <1>2, <2>1, GoesIsCall, ReturnsIsCall DEF Boots, Cleared, Call
  <1>20. Short'
    <2> SUFFICES ASSUME "lap" \notin harm'
                 PROVE  h2bWritePtr' < RingSize
                        /\ (call'.step = "burst" => h2bWritePtr' + call'.at < RingSize)
      BY DEF Short
    <2>1. h2bWritePtr < RingSize /\ h2bWritePtr + call.at + n < RingSize
      BY <1>2, <1>4, <1>19
    <2>2. CASE r = "window"
      BY <1>1, <1>14, <2>1, <2>2, ReturnsIsCall
    <2>3. CASE r # "window" /\ call.at + n < top
      <3>1. call' = [call EXCEPT !.at = call.at + n, !.buf = staged] /\ UNCHANGED h2bWritePtr
        BY <1>1, <1>2, <2>3 DEF top, Call
      <3>2. call'.at = call.at + n
        BY <1>2, <3>1 DEF Call
      <3>3. h2bWritePtr + (call.at + n) = h2bWritePtr + call.at + n
        BY <1>2, <1>4
      <3> QED BY <2>1, <3>1, <3>2, <3>3
    <2>4. CASE r # "window" /\ ~(call.at + n < top)
      <3>1. Goes("publish") /\ h2bWritePtr' = h2bWritePtr + top
        BY <1>1, <2>4 DEF top
      <3>2. call'.step = "publish"
        BY <1>2, <3>1, GoesIsCall DEF Step
      <3>3. h2bWritePtr + top < RingSize
        BY <1>2, <1>4, <2>1, <2>4
      <3> QED BY <3>1, <3>2, <3>3
    <2> QED BY <2>2, <2>3, <2>4
  <1>15. Phases' /\ Reading'
    BY <1>14 DEF Phases, Reading, Boots
  <1>16. Puts'
    BY <1>1, <1>5, <1>13, <1>14, PutsKept DEF Transport
  <1>17. CASE r = "window" \/ call.at + n < top
    <2>1. Sends'
      <3>1. UNCHANGED <<written, taken, h2bWritePtr, ptr>>
        BY <1>1, <1>17 DEF top
      <3> QED BY <1>5, <1>12, <1>14, <3>1, SendsKept DEF Transport
    <2>2. Writing'
      <3> SUFFICES ASSUME SafeWrites' PROVE Writing'
        BY DEF Writing
      <3>1. CASE r = "window"
        <4>1. call'.step = "idle"
          BY <1>1, <3>1, ReturnsIsCall
        <4> QED BY <4>1 DEF Writing
      <3>2. CASE r # "window"
        <4>1. /\ call' = [call EXCEPT !.at = call.at + n, !.buf = staged]
              /\ UNCHANGED h2bWritePtr
          BY <1>1, <1>2, <1>17, <3>2 DEF top, Call
        <4>2. call'.at = call.at + n /\ call'.buf = staged /\ call'.step = "burst"
          BY <1>1, <1>2, <4>1 DEF Call
        <4>3. ASSUME NEW i \in (call.at + n + 1)..top PROVE staged[i] = <<p, i>>
          <5>1. i \in 1..top /\ i \in (call.at + 1)..top /\ ~(i <= n)
            BY <1>2, <1>4
          <5> QED BY <1>6, <1>8, <5>1
        <4>4. Writes(p)'
          BY <1>5, <1>6, <1>8, <1>11, <3>2, <4>1, <4>2, <4>3 DEF Writes
        <4> QED BY <4>2, <4>4 DEF Writing
      <3> QED BY <3>1, <3>2
    <2> QED BY <1>15, <1>16, <1>20, <2>1, <2>2 DEF Transport
  <1>18. CASE r # "window" /\ ~(call.at + n < top)
    <2>1. /\ Goes("publish") /\ h2bWritePtr' = h2bWritePtr + top
          /\ written' = Append(written, call.buf[top][1])
      BY <1>1, <1>18 DEF top
    <2>4. Writing'
      <3>1. call'.step = "publish"
        BY <1>2, <2>1, GoesIsCall DEF Step
      <3> QED BY <3>1 DEF Writing
    <2> SUFFICES ASSUME SafeWrites' PROVE Sends'
      BY <1>15, <1>16, <1>20, <2>4 DEF Transport, Sends
    <2>2. top \in (call.at + 1)..top /\ call.at + n = top
      BY <1>2, <1>4, <1>18
    <2>3. written' = Append(written, p)
      BY <1>8, <2>1, <2>2
    <2>5. PICK at : WrittenAt(at)
      BY <1>5, <1>14, HarmStays DEF Transport, Sends
    <2>16. h2bWritePtr \in 0..(RingSize - 1)
      BY <1>5, InItsRing, HarmStays DEF SafeWrites, Transport
    <2>6. PICK bt : /\ Starts(bt, Append(written, p))
                    /\ bt[Len(written) + 2] = at[Len(written) + 1] + Words(p.payload)
                    /\ \A k \in 1..(Len(written) + 1) : bt[k] = at[k]
      BY SMTT(30), <2>5, Sizes, StartsAppend DEF WrittenAt
    <2> DEFINE m == Len(written)
    <2>7. m \in Nat /\ Len(written') = m + 1
          /\ (\A k \in 1..m : written'[k] = written[k]) /\ written'[m + 1] = p
      BY <2>3, Sizes
    <2>8. bt[Len(written') + 1] = h2bWritePtr'
      <3>1. Len(written') + 1 = m + 2
        BY <2>7
      <3> QED BY <1>8, <2>1, <2>5, <2>6, <3>1 DEF WrittenAt
    <2> HIDE DEF m
    <2>9. ASSUME NEW k \in 1..(m + 1), NEW i \in 1..Words(written'[k].payload)
          PROVE  cells'[bt[k] + i - 1] = <<written'[k], i>>
      <3>1. CASE k \in 1..m
        <4>1. written'[k] = written[k] /\ i \in 1..Words(written[k].payload)
              /\ k \in 1..Len(written) /\ k \in 1..(Len(written) + 1)
          BY <2>7, <2>9, <3>1 DEF m
        <4>2. bt[k] = at[k]
          BY <2>6, <4>1
        <4>3. at[k] + i - 1 \in 0..(h2bWritePtr - 1)
          BY <2>5, <2>16, <4>1, PlaceWritten DEF WrittenAt
        <4>4. cells[at[k] + i - 1] = <<written[k], i>>
          BY <2>5, <4>1 DEF WrittenAt
        <4> QED BY <1>12, <4>1, <4>2, <4>3, <4>4
      <3>2. CASE k = m + 1
        <4>1. k \in 1..(Len(written) + 1) /\ bt[k] = h2bWritePtr
          BY <2>5, <2>6, <2>7, <3>2 DEF WrittenAt, m
        <4>2. i \in 1..(call.at + n)
          BY <1>8, <2>2, <2>7, <2>9, <3>2
        <4>3. r = "ok"
          BY <1>5, <1>18
        <4> QED BY <1>11, <2>7, <3>2, <4>1, <4>2, <4>3
      <3> QED BY <2>7, <3>1, <3>2
    <2>10. /\ Len(taken) \in Nat /\ Len(taken) <= m /\ DOMAIN taken = 1..Len(taken)
           /\ \A i \in DOMAIN taken : taken[i] = written[i]
      BY <2>5, Sizes DEF WrittenAt, PacketsTaken, IsPrefixOf, m
    <2>11. PacketsTaken'
      <3>1. \A i \in 1..Len(taken) : taken[i] = written'[i]
        BY <2>7, <2>10
      <3>2. taken' = taken
        BY <1>1
      <3> QED BY <2>7, <2>10, <3>1, <3>2 DEF PacketsTaken, IsPrefixOf
    <2>12. ptr["Host2BTOut"] = bt[Len(taken) + 1]
      <3>1. Len(taken) + 1 \in 1..(Len(written) + 1)
        BY <2>7, <2>10 DEF m
      <3> QED BY <2>5, <2>6, <3>1 DEF WrittenAt
    <2>13. \E k \in (Len(taken) + 1)..((m + 1) + 1) : ptr["Host2BTIn"] = bt[k]
      <3>1. PICK k \in (Len(taken) + 1)..(Len(written) + 1) : ptr["Host2BTIn"] = at[k]
        BY <2>5 DEF WrittenAt
      <3>2. k \in 1..(Len(written) + 1) /\ k \in (Len(taken) + 1)..((m + 1) + 1)
        BY <2>7, <2>10 DEF m
      <3> QED BY <2>6, <3>1, <3>2
    <2>14. WrittenAt(bt)'
      BY <1>1, <2>3, <2>6, <2>7, <2>8, <2>9, <2>11, <2>12, <2>13 DEF WrittenAt, Starts
    <2> QED BY <2>14 DEF Sends
  <1> QED BY <1>17, <1>18

\* Where the next packet lies that ReadHCI has not read.
LEMMA NextPacket ==
    ASSUME Good, NEW at, PutAt(at), Len(got) < Len(put)
    PROVE  /\ Len(got) + 1 \in 1..Len(put) /\ put[Len(got) + 1] \in Packet
           /\ Words(put[Len(got) + 1].payload) \in Nat \ {0}
           /\ at[Len(got) + 1] \in Nat
           /\ \A i \in 1..Words(put[Len(got) + 1].payload) :
                cells[HostReadBuf + ((b2hReadPtr + i - 1) % RingSize)] = <<put[Len(got) + 1], i>>
  <1>1. /\ Len(got) \in Nat /\ Len(got) + 1 \in 1..Len(put) /\ Len(got) + 1 \in 1..(Len(put) + 1)
        /\ Len(got) + 1 \in (Len(got) + 1)..Len(put)
    BY Sizes
  <1>2. put[Len(got) + 1] \in Packet
    BY <1>1, Sizes
  <1>3. Words(put[Len(got) + 1].payload) \in Nat \ {0}
    BY <1>2, FrameOfWords
  <1>4. at[Len(got) + 1] \in Nat
    BY <1>1 DEF PutAt, Starts
  <1>5. ASSUME NEW i \in 1..Words(put[Len(got) + 1].payload)
        PROVE  cells[HostReadBuf + ((b2hReadPtr + i - 1) % RingSize)] = <<put[Len(got) + 1], i>>
    <2> DEFINE a == at[Len(got) + 1]
    <2>1. cells[HostReadBuf + ((a + i - 1) % RingSize)] = <<put[Len(got) + 1], i>>
      BY <1>1 DEF PutAt
    <2>2. b2hReadPtr = a % RingSize
      BY DEF PutAt
    <2> HIDE DEF a
    <2>3. a \in Int /\ i - 1 \in Int
      BY <1>3, <1>4 DEF a
    <2>4. ((a % RingSize) + (i - 1)) % RingSize = (a + (i - 1)) % RingSize
      BY <2>3, ModAdd
    <2>5. a % RingSize \in Int /\ i \in Int
      BY <2>3, ModRing
    <2>6. (a % RingSize) + i - 1 = (a % RingSize) + (i - 1) /\ a + i - 1 = a + (i - 1)
      BY <2>3, <2>5
    <2> QED BY <2>1, <2>2, <2>4, <2>6
  <1> QED BY <1>1, <1>2, <1>3, <1>4, <1>5

LEMMA ReadHeaderOrdered ==
    ASSUME Good, Transport, ReadHeader PROVE Transport'
  <1> DEFINE w == WindowOf(base + HostReadBuf + b2hReadPtr)
             payload(r) == Fetched(b2hReadPtr, 1, w, r)[1][1].payload
  <1>1. PICK r \in BurstEnds :
          /\ call.step = "header"
          /\ Access(w, r)
          /\ \/ Returns
             \/ r # "window" /\ call' = [call EXCEPT !.step = "frame", !.at = RoundedLen(payload(r))]
          /\ Harmed("read burst", r = "silent")
          /\ UNCHANGED <<ring, device, hostCtrl, awake, sends, written, taken, put, got>>
    BY DEF ReadHeader
  <1>2. call \in Call /\ call.buf = <<>>
    BY <1>1 DEF Good, TypeOK
  <1>3. w \in Window
    <2>1. HostReadBuf + b2hReadPtr \in 0..(2 * RingSize - 1)
      BY Sizes
    <2>2. base + HostReadBuf + b2hReadPtr = base + (HostReadBuf + b2hReadPtr)
      BY GoodCached, WindowsOfArea, Sizes
    <2> QED BY <2>1, <2>2, GoodCached, WindowsOfArea
  <1>4. /\ r \in {"ok", "window", "silent"} /\ (Effective(w, r) <=> r = "ok")
        /\ harm \subseteq harm' /\ (SafeReads' => r # "silent")
    <2>1. r \in WordEnds \cup BurstEnds
      OBVIOUS
    <2>2. Effective(w, r) <=> r \in {"ok", "done"}
      BY <1>1, <1>3, <2>1, AccessWorks
    <2> HIDE DEF w
    <2> QED BY <1>1, <2>2 DEF BurstEnds, Harmed, SafeReads
  <1> HIDE DEF w
  <1>5. UNCHANGED <<got, put>> /\ (SafeReads' => SafeReads /\ Len(got) < Len(put))
    BY <1>1, <1>4, HarmStays DEF Transport, Reading
  <1>6. ASSUME SafeReads', r = "ok" PROVE payload(r) = put[Len(got) + 1].payload
    <2>1. PICK at : PutAt(at)
      BY <1>1, <1>5, <1>6 DEF Transport, Puts, Cleared
    <2>2. 1 \in 1..Words(put[Len(got) + 1].payload)
      BY <1>5, <1>6, <2>1, NextPacket
    <2>3. cells[HostReadBuf + ((b2hReadPtr + 1 - 1) % RingSize)] = <<put[Len(got) + 1], 1>>
      BY <1>5, <1>6, <2>1, <2>2, NextPacket
    <2>4. b2hReadPtr % RingSize = b2hReadPtr /\ b2hReadPtr \in Int /\ HostReadBuf \in Int
      BY Sizes, ModSmall
    <2>5. b2hReadPtr + 1 - 1 = b2hReadPtr
      BY <2>4
    <2>6. Fetched(b2hReadPtr, 1, w, r)[1] = cells[HostReadBuf + b2hReadPtr + 1 - 1]
      BY <1>4, <1>6 DEF Fetched
    <2>7. HostReadBuf + b2hReadPtr + 1 - 1 = HostReadBuf + b2hReadPtr
      BY <2>4
    <2> QED BY <2>3, <2>4, <2>5, <2>6, <2>7
  <1> HIDE DEF payload
  <1>7. \/ call'.step = "idle"
        \/ /\ call'.step = "frame" /\ call'.buf = <<>>
           /\ SafeReads' => call'.at = Words(put[Len(got) + 1].payload)
    <2>1. CASE Returns
      BY <2>1, ReturnsIsCall
    <2>2. CASE ~Returns
      <3>1. r # "window" /\ (SafeReads' => r = "ok") /\ call' = [call EXCEPT !.step = "frame", !.at = RoundedLen(payload(r))]
        BY <1>1, <1>4, <2>2
      <3> QED BY <1>2, <1>6, <3>1 DEF RoundedLen, Call
    <2> QED BY <2>1, <2>2
  <1>8. Reading'
    <2> SUFFICES ASSUME SafeReads' PROVE Reading'
      BY DEF Reading
    <2>1. CASE call'.step = "idle"
      BY <2>1 DEF Reading
    <2>2. CASE call'.step = "frame" /\ call'.buf = <<>>
               /\ call'.at = Words(put[Len(got) + 1].payload)
      <3>1. put[Len(got) + 1] \in Packet
        BY <1>5, Sizes
      <3>2. Words(put[Len(got) + 1].payload) \in Nat
        BY <3>1, FrameOfWords
      <3>3. Reads(put[Len(got) + 1])'
        BY <1>5, <2>2, <3>2 DEF Reads
      <3> QED BY <1>5, <2>2, <3>3 DEF Reading
    <2> QED BY <1>7, <2>1, <2>2
  <1>9. Writing'
    BY <1>7 DEF Writing
  <1> QED BY <1>1, <1>7, <1>8, <1>9, <1>4, CallGoesOn DEF Boots

\* A burst of ReadHCI: it ends at the end of the ring at the latest.
LEMMA ReadBurstOrdered ==
    ASSUME Good, Transport, ReadBurst PROVE Transport'
  <1> DEFINE done == Len(call.buf)
             c == (b2hReadPtr + done) % RingSize
             n == BurstLen(base + HostReadBuf + c, Least(call.at - done, RingSize - c))
             w == WindowOf(base + HostReadBuf + c)
  <1>1. PICK r \in BurstEnds :
          /\ call.step = "frame"
          /\ Access(w, r)
          /\ IF r = "window" THEN Returns
             ELSE call' = [call EXCEPT !.buf = @ \o Fetched(c, n, w, r),
                                       !.step = IF done + n < call.at THEN "frame" ELSE "consume"]
          /\ Harmed("read burst", r = "silent")
          /\ UNCHANGED <<ring, device, hostCtrl, awake, sends, written, taken, put, got>>
    BY DEF ReadBurst
  <1>2. /\ call \in Call /\ call.buf \in Seq(Word) /\ call.at \in Nat
        /\ done \in Nat /\ done < call.at /\ b2hReadPtr \in 0..(RingSize - 1)
        /\ RingSize \in Nat \ {0} /\ HostReadBuf = RingSize
    BY <1>1, Sizes DEF Good, TypeOK, Call
  <1>3. c \in 0..(RingSize - 1)
    <2>1. b2hReadPtr + done \in Int
      BY <1>2
    <2> QED BY <2>1, ModRing
  <1> DEFINE b == b2hReadPtr + done
  <1>4. b \in Nat /\ c = b % RingSize
    BY <1>2
  <1> HIDE DEF c, done, b
  <1>5. base + HostReadBuf + c \in Nat /\ w \in Window
    <2>1. HostReadBuf + c \in 0..(2 * RingSize - 1)
      BY <1>2, <1>3
    <2>2. base \in Nat /\ base + HostReadBuf + c = base + (HostReadBuf + c)
      BY <1>2, <1>3, GoodCached, WindowsOfArea
    <2> QED BY <2>1, <2>2, GoodCached, WindowsOfArea
  <1>6. n \in Nat \ {0} /\ c + n <= RingSize /\ done + n <= call.at
    <2> DEFINE l == Least(call.at - done, RingSize - c)
    <2>1. l \in Nat \ {0} /\ l <= RingSize - c /\ l <= call.at - done
      BY <1>2, <1>3 DEF Least
    <2> HIDE DEF l
    <2>2. BurstLen(base + HostReadBuf + c, l) \in 1..l
      BY <1>5, <2>1, BurstLenBounds
    <2>3. n = BurstLen(base + HostReadBuf + c, l)
      BY DEF l
    <2> HIDE DEF n
    <2> QED BY <1>2, <1>3, <2>1, <2>2, <2>3
  <1>7. /\ r \in {"ok", "window", "silent"} /\ (Effective(w, r) <=> r = "ok")
        /\ harm \subseteq harm' /\ (SafeReads' => r # "silent")
    <2>1. r \in WordEnds \cup BurstEnds
      OBVIOUS
    <2>2. Effective(w, r) <=> r \in {"ok", "done"}
      BY <1>1, <1>5, <2>1, AccessWorks
    <2> HIDE DEF w
    <2> QED BY <1>1, <2>2 DEF BurstEnds, Harmed, SafeReads
  <1> DEFINE words == Fetched(c, n, w, r)
             p == put[Len(got) + 1]
  <1>8. words \in Seq(Word) /\ Len(words) = n
    BY SMTT(30), <1>3, <1>6, FetchedWords, Sizes
  <1>9. /\ UNCHANGED <<got, put>>
        /\ SafeReads' =>
             /\ SafeReads /\ Len(got) < Len(put)
             /\ call.at = Words(p.payload) /\ \A i \in 1..done : call.buf[i] = <<p, i>>
    BY <1>1, <1>7, HarmStays DEF Transport, Reading, Reads, done
  <1>10. ASSUME SafeReads', r = "ok", NEW i \in 1..n PROVE words[i] = <<p, done + i>>
    <2>1. PICK at : PutAt(at)
      BY <1>1, <1>9, <1>10 DEF Transport, Puts, Cleared
    <2>2. done + i \in 1..Words(p.payload)
      BY <1>2, <1>6, <1>9, <1>10
    <2>3. cells[HostReadBuf + ((b2hReadPtr + (done + i) - 1) % RingSize)] = <<p, done + i>>
      BY <1>9, <1>10, <2>1, <2>2, NextPacket
    <2> HIDE DEF n, w
    <2>4. (b2hReadPtr + (done + i) - 1) % RingSize = c + i - 1
      <3>1. b2hReadPtr + (done + i) - 1 = b + (i - 1) /\ i - 1 \in Int /\ b \in Int
        BY <1>2, <1>6 DEF b
      <3>2. (c + (i - 1)) % RingSize = (b + (i - 1)) % RingSize
        BY <1>4, <3>1, ModAdd
      <3>3. c + (i - 1) \in 0..(RingSize - 1) /\ c + (i - 1) = c + i - 1
        BY <1>2, <1>3, <1>6
      <3> QED BY <3>1, <3>2, <3>3, ModSmall
    <2>5. words[i] = cells[HostReadBuf + c + i - 1]
      BY <1>7, <1>10 DEF Fetched
    <2>6. HostReadBuf + (c + i - 1) = HostReadBuf + c + i - 1
      BY <1>2, <1>3, <1>6
    <2> QED BY <2>3, <2>4, <2>5, <2>6
  <1> HIDE DEF n, w, words
  <1> DEFINE next == IF done + n < call.at THEN "frame" ELSE "consume"
  <1>11. CASE r = "window"
    <2>1. call'.step = "idle"
      BY <1>1, <1>11, ReturnsIsCall
    <2> QED BY <1>1, <1>7, <2>1, CallGoesOn DEF Boots, Writing, Reading
  <1>12. CASE r # "window"
    <2>1. call' = [call EXCEPT !.buf = call.buf \o words, !.step = next]
      BY <1>1, <1>2, <1>12 DEF words, Call
    <2>2. /\ call'.step = next /\ call'.buf = call.buf \o words /\ call'.at = call.at
          /\ next \in {"frame", "consume"}
      <3>1. next \in {"frame", "consume"}
        OBVIOUS
      <3> HIDE DEF next
      <3> QED BY <1>2, <2>1, <3>1 DEF Call
    <2>3. /\ Len(call.buf \o words) = done + n
          /\ \A i \in 1..done : (call.buf \o words)[i] = call.buf[i]
          /\ \A i \in 1..n : (call.buf \o words)[done + i] = words[i]
      BY <1>2, <1>6, <1>8 DEF done
    <2>4. ASSUME SafeReads', NEW i \in 1..(done + n) PROVE (call.buf \o words)[i] = <<p, i>>
      <3>1. CASE i \in 1..done
        BY <1>9, <2>3, <2>4, <3>1
      <3>2. CASE ~(i \in 1..done)
        <4>1. i - done \in 1..n /\ done + (i - done) = i
          BY <1>2, <1>6, <3>2
        <4>2. r = "ok"
          BY <1>7, <1>12, <2>4
        <4>3. words[i - done] = <<p, done + (i - done)>>
          BY <1>10, <2>4, <4>1, <4>2
        <4>4. (call.buf \o words)[done + (i - done)] = words[i - done]
          BY <2>3, <4>1
        <4> QED BY <4>1, <4>3, <4>4
      <3> QED BY <3>1, <3>2
    <2>5. Reading'
      <3> SUFFICES ASSUME SafeReads' PROVE Reading'
        BY DEF Reading
      <3>1. Reads(p)'
        BY <1>6, <1>9, <2>2, <2>3, <2>4 DEF Reads
      <3>2. call'.step = "consume" => Len(call'.buf) = call'.at
        <4>1. next = "consume" => done + n = call.at
          BY <1>2, <1>6
        <4> QED BY <2>2, <2>3, <4>1
      <3> QED BY <1>9, <3>1, <3>2 DEF Reading
    <2>6. call'.step \notin Boots /\ call'.step # "burst" /\ Writing'
      BY <2>2 DEF Boots, Writing
    <2> QED BY <1>1, <1>7, <2>5, <2>6, CallGoesOn DEF Boots
  <1> QED BY <1>11, <1>12

\* What is one packet from its first word on is that packet.
LEMMA ParsedFrame ==
    ASSUME NEW p \in Packet, NEW words \in Seq(Word), Len(words) = Words(p.payload),
           \A i \in 1..Len(words) : words[i] = <<p, i>>
    PROVE  Parsed(words) = p
  <1>1. Len(words) \in Nat \ {0} /\ words = [i \in 1..Len(words) |-> words[i]]
    BY FrameOfWords
  <1>2. words = [i \in 1..Words(p.payload) |-> <<p, i>>]
    BY <1>1
  <1>3. words = Frame(p)
    BY <1>2 DEF Frame
  <1>4. words[1][1] = p
    BY <1>1
  <1> QED BY <1>3, <1>4 DEF Parsed

\* The space of a packet is given back: both ends move to the next one.
LEMMA ConsumeOrdered ==
    ASSUME Good, Transport, Consume PROVE Transport'
  <1> DEFINE newPtr == NextReadPtr(Len(call.buf))
  <1>1. PICK r \in WordEnds :
          /\ call.step = "consume"
          /\ WritePointer("BT2HostOut", newPtr, r)
          /\ IF r = "ok"
             THEN /\ b2hReadPtr' = newPtr
                  /\ got' = Append(got, Parsed(call.buf))
                  /\ call' = [Idle EXCEPT !.step = "toggle"]
             ELSE Returns /\ UNCHANGED <<b2hReadPtr, got>>
          /\ Harmed("moved", r = "done")
          /\ UNCHANGED <<base, cells, h2bWritePtr, hostCtrl, awake, sends, written, taken, put>>
    BY DEF Consume
  <1>2. ptr' = IF r \in {"ok", "done"} THEN [ptr EXCEPT !["BT2HostOut"] = newPtr] ELSE ptr
    BY <1>1, PointerAfter DEF Pointer
  <1>9. harm \subseteq harm' /\ (SafeReads' => r # "done" /\ SafeReads)
    <2> HIDE DEF newPtr
    <2> QED BY <1>1, HarmStays DEF Harmed, SafeReads
  <1>3. call'.step \in {"toggle", "idle"}
    BY <1>1, IdleIsCall, ReturnsIsCall DEF Idle
  <1>4. /\ \A p \in Pointer \ {"BT2HostOut"} : ptr'[p] = ptr[p]
        /\ r = "ok" => ptr'["BT2HostOut"] = newPtr
    BY <1>2, Sizes DEF Pointer
  <1>5. Phases' /\ Writing' /\ Reading' /\ Cleared /\ Cleared'
    BY <1>1, <1>3 DEF Phases, Writing, Reading, Boots, Cleared
  <1>6. Sends'
    <2>1. ptr'["Host2BTIn"] = ptr["Host2BTIn"] /\ ptr'["Host2BTOut"] = ptr["Host2BTOut"]
      BY <1>4 DEF Pointer
    <2> QED BY <1>1, <1>5, <1>9, <2>1, SendsKept DEF Transport
  <1>10. Short'
    BY <1>1, <1>3, <1>9, ShortKept, Sizes DEF Transport
  <1> SUFFICES ASSUME SafeReads' PROVE Puts'
    BY <1>5, <1>6, <1>10 DEF Transport, Puts
  <1>7. CASE r # "ok"
    <2>1. ptr' = ptr /\ UNCHANGED <<put, got, b2hReadPtr, cells>>
      BY <1>1, <1>2, <1>7, <1>9
    <2>2. Puts'
      BY <1>5, <1>9, <2>1, PutsKept DEF Transport
    <2> QED BY <2>2
  <1>8. CASE r = "ok"
    <2>1. PICK at : PutAt(at)
      BY <1>5, <1>9 DEF Transport, Puts
    <2> DEFINE g == Len(got)
               m == Len(put)
    <2>2. PICK p \in Packet : p = put[g + 1]
      <3>1. Len(got) < Len(put)
        BY <1>1, <1>9 DEF Transport, Reading
      <3> QED BY <2>1, <3>1, NextPacket
    <2>3. /\ g \in Nat /\ m \in Nat /\ g < m
          /\ Len(call.buf) = Words(p.payload) /\ Words(p.payload) \in Nat \ {0}
          /\ \A i \in 1..Len(call.buf) : call.buf[i] = <<p, i>>
      <3>1. g \in Nat /\ m \in Nat /\ Words(p.payload) \in Nat \ {0}
        BY Sizes, FrameOfWords
      <3>2. Len(got) < Len(put) /\ Reads(put[Len(got) + 1]) /\ Len(call.buf) = call.at
        BY <1>1, <1>9 DEF Transport, Reading
      <3>3. Reads(p)
        BY <2>2, <3>2
      <3> QED BY <3>1, <3>2, <3>3 DEF Reads
    <2>4. Parsed(call.buf) = p
      BY <2>3, ParsedFrame, Sizes
    <2>5. /\ got' = Append(got, p) /\ Len(got') = g + 1 /\ got'[g + 1] = p
          /\ \A i \in 1..g : got'[i] = got[i]
      BY <1>1, <1>8, <2>4, Sizes
    <2>6. /\ at \in [1..(m + 1) -> Nat] /\ at[g + 2] = at[g + 1] + Words(p.payload)
          /\ \A j, k \in 1..(m + 1) : j <= k => at[j] <= at[k]
      <3>1. g + 1 \in 1..m /\ (g + 1) + 1 = g + 2
        BY <2>3
      <3> QED BY <2>1, <2>2, <3>1 DEF PutAt, Starts
    <2>7. /\ b2hReadPtr = at[g + 1] % RingSize
          /\ at[m + 1] - at[g + 1] < RingSize
          /\ g <= m /\ \A i \in 1..g : got[i] = put[i]
      <3>1. DOMAIN got = 1..g
        BY Sizes
      <3> QED BY <2>1, <3>1 DEF PutAt, PacketsReturned, IsPrefixOf
    <2>8. \A k \in (g + 1)..m : \A i \in 1..Words(put[k].payload) :
             cells[HostReadBuf + ((at[k] + i - 1) % RingSize)] = <<put[k], i>>
      BY <2>1 DEF PutAt
    <2>9. ptr["BT2HostIn"] = at[m + 1] % RingSize
      BY <2>1 DEF PutAt
    <2> HIDE DEF g, m
    <2>10. g + 1 \in 1..(m + 1) /\ g + 2 \in 1..(m + 1) /\ m + 1 \in 1..(m + 1)
           /\ (g + 1) + 1 = g + 2
      BY <2>3
    <2>11. newPtr = at[g + 2] % RingSize
      <3>1. newPtr = ((at[g + 1] % RingSize) + Words(p.payload)) % RingSize
        BY <2>3, <2>7 DEF NextReadPtr
      <3>2. at[g + 1] \in Int /\ Words(p.payload) \in Int
        BY <2>3, <2>6, <2>10
      <3> HIDE DEF newPtr
      <3> QED BY <2>6, <3>1, <3>2, ModAdd
    <2>12. at[m + 1] - at[g + 2] < RingSize
      <3>1. at[m + 1] \in Nat /\ at[g + 1] \in Nat /\ Words(p.payload) \in Nat /\ RingSize \in Nat
        BY <2>3, <2>6, <2>10, Sizes
      <3> QED BY <2>6, <2>7, <3>1
    <2>13. PacketsReturned'
      <3>1. ASSUME NEW i \in 1..(g + 1) PROVE got'[i] = put[i]
        <4>1. i \in 1..g \/ i = g + 1
          BY <2>3
        <4> QED BY <2>2, <2>5, <2>7, <4>1
      <3>2. DOMAIN got' = 1..(g + 1)
        BY <2>5, Sizes DEF g
      <3>3. g + 1 <= m
        BY <2>3
      <3> QED BY <1>1, <2>5, <3>1, <3>2, <3>3 DEF PacketsReturned, IsPrefixOf, m
    <2>14. \A k \in (g + 2)..m : k \in (g + 1)..m
      BY <2>3
    <2>15. ptr'["BT2HostOut"] = newPtr /\ b2hReadPtr' = newPtr
           /\ ptr'["BT2HostIn"] = ptr["BT2HostIn"]
      BY <1>1, <1>4, <1>8 DEF Pointer
    <2> HIDE DEF newPtr
    <2>16. PutAt(at)'
      <3>1. UNCHANGED <<put, cells>> /\ Len(put) = m /\ Len(got') + 1 = g + 2
        BY <1>1, <2>3, <2>5, <2>10 DEF m
      <3>2. Starts(at, put)
        BY <2>1 DEF PutAt
      <3> QED BY <2>8, <2>9, <2>11, <2>12, <2>13, <2>14, <2>15, <3>1, <3>2 DEF PutAt
    <2> QED BY <2>16 DEF Puts
  <1> QED BY <1>7, <1>8

----------------------------------------------------------------------------
(* The controller.                                                         *)

LEMMA ControllerWakesOrdered ==
    ASSUME Good, Transport, ControllerWakes PROVE Transport'
  <1>1. UNCHANGED <<Host, cells, ptr, taken, put>>
    BY DEF ControllerWakes
  <1>2. UNCHANGED <<harm, call, hostCtrl, h2bWritePtr, b2hReadPtr, written, got, cells, ptr, taken, put>>
    BY <1>1 DEF Host, device
  <1>3. Running' = Running /\ Cleared' = Cleared
    BY <1>2 DEF Running, Cleared
  <1>4. Phases'
    BY <1>2, <1>3 DEF Transport, Phases
  <1>5. Sends' /\ Puts'
    BY <1>2, <1>3, SendsKept, PutsKept DEF Transport
  <1>6. Writing' /\ Reading'
    BY <1>2, HarmStays DEF Transport, Writing, Reading, Writes, Reads
  <1>7. Short'
    BY <1>2, ShortKept, Sizes DEF Transport
  <1> QED BY <1>4, <1>5, <1>6, <1>7 DEF Transport

\* What the controller takes is the next packet, if the ring was not harmed.
LEMMA PacketTaken ==
    ASSUME Good, Transport, ControllerTakes, SafeWrites PROVE Sends'
  <1> DEFINE out == ptr["Host2BTOut"]
             len == Words(cells[out][1].payload)
             words == [i \in 1..len |-> cells[(out + i - 1) % RingSize]]
             t == Len(taken)
             m == Len(written)
  <1>1. /\ Running /\ (ptr["Host2BTIn"] - out) % RingSize > 0
        /\ taken' = Append(taken, Parsed(words))
        /\ ptr' = [ptr EXCEPT !["Host2BTOut"] = (out + len) % RingSize]
        /\ UNCHANGED <<Host, cells, awake, put>>
    BY DEF ControllerTakes
  <1>2. UNCHANGED <<call, hostCtrl, h2bWritePtr, b2hReadPtr, written, got, cells, put>>
    BY <1>1 DEF Host, device
  <1>3. Cleared
    BY <1>1 DEF Cleared
  <1>24. h2bWritePtr \in 0..(RingSize - 1)
    BY InItsRing DEF SafeWrites, Transport
  <1>4. PICK at : WrittenAt(at)
    BY <1>3 DEF Transport, Sends
  <1>5. /\ t \in Nat /\ m \in Nat /\ t <= m /\ out = at[t + 1]
        /\ \A i \in 1..t : taken[i] = written[i]
    <2>1. DOMAIN taken = 1..t
      BY Sizes
    <2>2. t \in Nat /\ m \in Nat
      BY Sizes
    <2>3. out = at[t + 1] /\ PacketsTaken
      BY <1>4 DEF WrittenAt
    <2> QED BY <2>1, <2>2, <2>3 DEF PacketsTaken, IsPrefixOf
  <1>6. PICK j \in (t + 1)..(m + 1) : ptr["Host2BTIn"] = at[j]
    BY <1>4 DEF WrittenAt
  <1>7. t < m /\ j \in (t + 2)..(m + 1)
    <2>1. out \in Int
      BY IndexOfRing DEF Pointer
    <2>2. ptr["Host2BTIn"] # out
      <3>1. 0 % RingSize = 0 /\ out - out = 0
        BY <2>1, HciAssumption
      <3> QED BY <1>1, <3>1
    <2>3. j # t + 1
      BY <1>5, <1>6, <2>2
    <2> HIDE DEF t, m
    <2> QED BY <1>5, <1>6, <2>3
  <1>8. PICK p \in Packet : p = written[t + 1]
    <2>1. t + 1 \in 1..m
      BY <1>5, <1>7
    <2> QED BY <2>1, Sizes
  <1> DEFINE n == Words(p.payload)
  <1>9. n \in Nat \ {0}
    BY FrameOfWords
  <1>10. ASSUME NEW i \in 1..n
         PROVE  /\ out + i - 1 \in 0..(RingSize - 1)
                /\ cells[out + i - 1] = <<p, i>>
    <2>1. t + 1 \in 1..Len(written)
      BY <1>5, <1>7
    <2>2. i \in 1..Words(written[t + 1].payload)
      BY <1>8
    <2>3. at[t + 1] + i - 1 \in 0..(RingSize - 1)
      BY <1>4, <1>24, <2>1, <2>2, PlaceWritten DEF WrittenAt
    <2>4. cells[at[t + 1] + i - 1] = <<written[t + 1], i>>
      BY <1>4, <2>1, <2>2 DEF WrittenAt
    <2> QED BY <1>5, <1>8, <2>3, <2>4
  <1>11. out \in 0..(RingSize - 1)
    BY IndexOfRing DEF Pointer
  <1>12. len = n
    <2>1. 1 \in 1..n /\ out + 1 - 1 = out
      BY <1>9, <1>11
    <2>2. cells[out] = <<p, 1>>
      BY <1>10, <2>1
    <2> QED BY <2>2
  <1> HIDE DEF len
  <1>13. /\ words \in Seq(Word) /\ Len(words) = n
         /\ \A i \in 1..n : words[i] = <<p, i>>
    <2>1. ASSUME NEW i \in 1..n PROVE cells[(out + i - 1) % RingSize] = <<p, i>>
      <3>1. (out + i - 1) % RingSize = out + i - 1
        BY <1>10, ModSmall
      <3> QED BY <1>10, <3>1
    <2>2. \A i \in 1..n : <<p, i>> \in Word
      BY <1>9 DEF Word
    <2> HIDE DEF n, out
    <2>3. words = [i \in 1..n |-> <<p, i>>]
      BY <1>12, <2>1
    <2>4. [i \in 1..n |-> <<p, i>>] \in [1..n -> Word]
      BY <2>2
    <2> HIDE DEF words
    <2>5. words \in [1..n -> Word] /\ \A i \in 1..n : words[i] = <<p, i>>
      BY <2>3, <2>4
    <2>6. words \in Seq(Word) /\ Len(words) = n
      BY <1>9, <2>5
    <2> QED BY <2>5, <2>6
  <1>14. Parsed(words) = p
    BY <1>13, ParsedFrame
  <1> HIDE DEF words
  <1>15. /\ taken' = Append(taken, p) /\ Len(taken') = t + 1 /\ taken'[t + 1] = p
         /\ \A i \in 1..t : taken'[i] = taken[i]
    BY <1>1, <1>14, Sizes
  <1>16. /\ at \in [1..(m + 1) -> Nat] /\ at[m + 1] = h2bWritePtr
         /\ at[t + 2] = out + n /\ at[t + 2] <= at[m + 1]
    <2>1. Starts(at, written) /\ at[m + 1] = h2bWritePtr
      BY <1>4 DEF WrittenAt
    <2>2. t + 1 \in 1..m /\ t + 2 \in 1..(m + 1) /\ m + 1 \in 1..(m + 1)
          /\ (t + 1) + 1 = t + 2 /\ t + 2 <= m + 1
      BY <1>5, <1>7
    <2>3. at[(t + 1) + 1] = at[t + 1] + Words(written[t + 1].payload)
      BY <2>1, <2>2 DEF Starts
    <2>4. at \in [1..(m + 1) -> Nat] /\ at[t + 2] <= at[m + 1]
      BY <2>1, <2>2 DEF Starts
    <2> QED BY <1>5, <1>8, <2>1, <2>2, <2>3, <2>4
  <1>17. (out + len) % RingSize = at[t + 2]
    <2>1. at[t + 2] \in 0..(RingSize - 1)
      <3>1. at[t + 2] \in Nat
        BY <1>9, <1>11, <1>16
      <3> QED BY <1>16, <1>24, <3>1, Sizes
    <2> QED BY <1>12, <1>16, <2>1, ModSmall
  <1>18. /\ ptr'["Host2BTOut"] = at[t + 2]
         /\ \A q \in Pointer \ {"Host2BTOut"} : ptr'[q] = ptr[q]
    BY <1>1, <1>17, Sizes DEF Pointer
  <1> HIDE DEF out, n, t, m
  <1>19. PacketsTaken'
    <2>1. ASSUME NEW i \in 1..(t + 1) PROVE taken'[i] = written[i]
      <3>1. i \in 1..t \/ i = t + 1
        BY <1>5
      <3> QED BY <1>5, <1>8, <1>15, <3>1
    <2>2. DOMAIN taken' = 1..(t + 1)
      BY <1>15, Sizes DEF t
    <2>3. t + 1 <= m
      BY <1>5, <1>7
    <2> QED BY <1>2, <1>15, <2>1, <2>2, <2>3 DEF PacketsTaken, IsPrefixOf, m
  <1>20. (t + 1) + 1 = t + 2
    BY <1>5
  <1>21. \E k \in (t + 2)..(m + 1) : ptr'["Host2BTIn"] = at[k]
    BY <1>6, <1>7, <1>18 DEF Pointer
  <1>22. WrittenAt(at)'
    BY <1>2, <1>4, <1>15, <1>18, <1>19, <1>20, <1>21 DEF WrittenAt, Starts, m
  <1> QED BY <1>22 DEF Sends

LEMMA ControllerTakesOrdered ==
    ASSUME Good, Transport, ControllerTakes PROVE Transport'
  <1>1. /\ Running /\ UNCHANGED <<Host, cells, put>>
        /\ \E m : ptr' = [ptr EXCEPT !["Host2BTOut"] = m]
    BY DEF ControllerTakes
  <1>2. UNCHANGED <<harm, call, hostCtrl, h2bWritePtr, b2hReadPtr, written, got, cells, put>>
    BY <1>1 DEF Host, device
  <1>3. Running' /\ Cleared /\ Cleared'
    BY <1>1, <1>2 DEF Running, Cleared
  <1>4. Sends'
    BY <1>2, HarmStays, PacketTaken DEF Sends
  <1>5. Puts'
    <2>1. ptr'["BT2HostIn"] = ptr["BT2HostIn"] /\ ptr'["BT2HostOut"] = ptr["BT2HostOut"]
      BY <1>1, Sizes DEF Pointer
    <2> QED BY <1>2, <1>3, <2>1, PutsKept DEF Transport
  <1>6. Phases'
    <2>1. call.step # "clear"
      BY <1>1 DEF Transport, Phases
    <2> QED BY <1>1, <1>2, <1>3, <2>1 DEF Transport, Phases
  <1>7. Short' /\ Writing' /\ Reading'
    BY <1>2, HarmStays DEF Transport, Short, Writing, Reading, Writes, Reads
  <1> QED BY <1>4, <1>5, <1>6, <1>7 DEF Transport

\* The room a frame is put into.
LEMMA RoomLeft ==
    ASSUME Good, NEW a \in Nat, NEW b \in Nat, b <= a, a - b < RingSize
    PROVE  ((b % RingSize) - (a % RingSize) - 1) % RingSize = RingSize - 1 - (a - b)
  <1>1. RingSize \in Nat \ {0}
    BY HciAssumption
  <1> DEFINE d == a - b
             x == b % RingSize
             y == a % RingSize
  <1>2. d \in 0..(RingSize - 1) /\ x \in Int /\ y \in Int /\ b - a + (-1) = -d - 1
        /\ RingSize - 1 - d \in 0..(RingSize - 1)
    BY <1>1, ModRing
  <1>3. (x - y + (-1)) % RingSize = (b - a + (-1)) % RingSize
    BY ModLess
  <1> HIDE DEF d, x, y
  <1>4. x - y + (-1) = x - y - 1 /\ -d - 1 \in Int /\ RingSize * 1 + (-d - 1) = RingSize - 1 - d
    BY <1>1, <1>2
  <1>5. (RingSize * 1 + (-d - 1)) % RingSize = (-d - 1) % RingSize
    BY <1>4, ModMultiple
  <1>6. (RingSize - 1 - d) % RingSize = RingSize - 1 - d
    BY <1>2, ModSmall
  <1> QED BY <1>2, <1>3, <1>4, <1>5, <1>6 DEF d, x, y

\* The distance of a position from the pointer at a.
LEMMA Behind ==
    ASSUME Good, NEW a \in Nat, NEW x \in Nat, x < a, a - x <= RingSize
    PROVE  ((x % RingSize) - (a % RingSize)) % RingSize = RingSize - (a - x)
  <1>1. RingSize \in Nat \ {0}
    BY HciAssumption
  <1> DEFINE u == x % RingSize
             y == a % RingSize
  <1>2. u \in Int /\ y \in Int /\ x - a + 0 = x - a /\ x - a \in Int
        /\ RingSize - (a - x) \in 0..(RingSize - 1) /\ RingSize * 1 + (x - a) = RingSize - (a - x)
    BY <1>1, ModRing
  <1>3. (u - y + 0) % RingSize = (x - a + 0) % RingSize
    BY ModLess
  <1> HIDE DEF u, y
  <1>4. u - y + 0 = u - y
    BY <1>2
  <1>5. (RingSize * 1 + (x - a)) % RingSize = (x - a) % RingSize
    BY <1>2, ModMultiple
  <1>6. (RingSize - (a - x)) % RingSize = RingSize - (a - x)
    BY <1>2, ModSmall
  <1> QED BY <1>2, <1>3, <1>4, <1>5, <1>6 DEF u, y

LEMMA Ahead ==
    ASSUME Good, NEW a \in Nat, NEW i \in 0..(RingSize - 1)
    PROVE  (((a + i) % RingSize) - (a % RingSize)) % RingSize = i
  <1>1. RingSize \in Nat \ {0}
    BY HciAssumption
  <1> DEFINE u == (a + i) % RingSize
             y == a % RingSize
  <1>2. a + i \in Int /\ u \in Int /\ y \in Int /\ (a + i) - a + 0 = i
    BY <1>1, ModRing
  <1>3. (u - y + 0) % RingSize = ((a + i) - a + 0) % RingSize
    BY <1>2, ModLess
  <1> HIDE DEF u, y
  <1>4. u - y + 0 = u - y
    BY <1>2
  <1>5. i % RingSize = i
    BY ModSmall
  <1> QED BY <1>2, <1>3, <1>4, <1>5 DEF u, y

\* The distance of a cell of the ring from the controller from a pointer.
Offset(c, pos) == (c - HostReadBuf - pos) % RingSize

\* A frame is put where there is room: behind the packets that were not read.
LEMMA FramePut ==
    ASSUME Good, Transport, ControllerPuts, SafeReads PROVE Puts'
  <1> DEFINE in == ptr["BT2HostIn"]
             g == Len(got)
             m == Len(put)
  <1>1. PICK payload \in Payloads :
          LET p == [by |-> "controller", n |-> Len(put) + 1, payload |-> payload]
              n == Words(payload)
          IN
          /\ Running
          /\ n <= (ptr["BT2HostOut"] - in - 1) % RingSize
          /\ cells' = [c \in DOMAIN cells |->
                         LET i == (c - HostReadBuf - in) % RingSize IN
                         IF c >= HostReadBuf /\ i < n THEN Frame(p)[i + 1] ELSE cells[c]]
          /\ ptr' = [ptr EXCEPT !["BT2HostIn"] = (in + n) % RingSize]
          /\ put' = Append(put, p)
          /\ UNCHANGED <<Host, awake, taken>>
    BY DEF ControllerPuts
  <1>2. PICK p \in Packet : p = [by |-> "controller", n |-> Len(put) + 1, payload |-> payload]
    <2>1. Len(put) + 1 \in Nat
      BY Sizes
    <2>2. [by |-> "controller", n |-> Len(put) + 1, payload |-> payload] \in Packet
      BY <2>1 DEF Packet
    <2> QED BY <2>2
  <1> DEFINE n == Words(p.payload)
  <1>3. /\ Running /\ n <= (ptr["BT2HostOut"] - in - 1) % RingSize
        /\ cells' = [c \in DOMAIN cells |->
                       IF c >= HostReadBuf /\ Offset(c, in) < n THEN Frame(p)[Offset(c, in) + 1] ELSE cells[c]]
        /\ ptr' = [ptr EXCEPT !["BT2HostIn"] = (in + n) % RingSize]
        /\ put' = Append(put, p)
        /\ UNCHANGED <<Host, awake, taken>>
    BY <1>1, <1>2 DEF Offset
  <1>4. UNCHANGED <<call, hostCtrl, h2bWritePtr, b2hReadPtr, written, got, taken>>
    BY <1>3 DEF Host, device
  <1>5. Cleared /\ Running' = Running
    BY <1>3, <1>4 DEF Cleared, Running
  <1>6. PICK at : PutAt(at)
    BY <1>5 DEF Transport, Puts
  <1> DEFINE a == at[m + 1]
             b == at[g + 1]
  <1>7. /\ g \in Nat /\ m \in Nat /\ g <= m /\ \A i \in 1..g : got[i] = put[i]
        /\ DOMAIN got = 1..g
    <2>1. DOMAIN got = 1..g /\ g \in Nat /\ m \in Nat
      BY Sizes
    <2>2. PacketsReturned
      BY <1>6 DEF PutAt
    <2> QED BY <2>1, <2>2 DEF PacketsReturned, IsPrefixOf
  <1>8. /\ at \in [1..(m + 1) -> Nat] /\ Starts(at, put)
        /\ \A k \in 1..m : at[k + 1] = at[k] + Words(put[k].payload)
        /\ \A j, k \in 1..(m + 1) : j <= k => at[j] <= at[k]
    BY <1>6 DEF PutAt, Starts
  <1>9. /\ a \in Nat /\ b \in Nat /\ b <= a /\ a - b < RingSize
        /\ in = a % RingSize /\ ptr["BT2HostOut"] = b % RingSize /\ b2hReadPtr = b % RingSize
    <2>1. g + 1 \in 1..(m + 1) /\ m + 1 \in 1..(m + 1) /\ g + 1 <= m + 1
      BY <1>7
    <2>2. a \in Nat /\ b \in Nat /\ b <= a
      BY <1>8, <2>1
    <2> QED BY <1>6, <2>2 DEF PutAt
  <1>10. n \in Nat \ {0} /\ Len(Frame(p)) = n /\ \A i \in 1..n : Frame(p)[i] = <<p, i>>
    BY FrameOfWords DEF Frame
  <1>11. RingSize \in Nat \ {0} /\ HostReadBuf = RingSize /\ in \in Int
    <2> HIDE DEF a, b, in
    <2>1. a % RingSize \in Int
      <3>1. a \in Int
        BY <1>9
      <3> QED BY <3>1, ModRing
    <2>2. in \in Int
      BY <1>9, <2>1
    <2> QED BY <2>2, HciAssumption, Sizes
  <1>12. DOMAIN cells = 0..(2 * RingSize - 1)
    BY Sizes
  <1> HIDE DEF in, g, m, a, b, n
  <1>13. n <= RingSize - 1 - (a - b)
    BY <1>3, <1>9, RoomLeft
  <1>14. ASSUME NEW y \in 0..(RingSize - 1)
         PROVE  /\ HostReadBuf + y \in DOMAIN cells
                /\ Offset(HostReadBuf + y, in) = (y - in) % RingSize
    <2>1. (HostReadBuf + y) - HostReadBuf - in = y - in
      BY <1>11
    <2>2. HostReadBuf + y \in 0..(2 * RingSize - 1)
      BY <1>11
    <2>3. Offset(HostReadBuf + y, in) = ((HostReadBuf + y) - HostReadBuf - in) % RingSize
      BY DEF Offset
    <2>4. Offset(HostReadBuf + y, in) = (y - in) % RingSize
      BY <2>1, <2>3
    <2> QED BY <1>12, <2>2, <2>4
  <1>15. ASSUME NEW i \in 1..n
         PROVE  cells'[HostReadBuf + ((a + i - 1) % RingSize)] = <<p, i>>
    <2> DEFINE y == (a + (i - 1)) % RingSize
    <2>1. i - 1 \in 0..(RingSize - 1) /\ a + i - 1 = a + (i - 1) /\ a + (i - 1) \in Int
          /\ i - 1 < n /\ (i - 1) + 1 = i
      BY <1>9, <1>10, <1>11, <1>13
    <2>2. y \in 0..(RingSize - 1)
      BY <2>1, ModRing
    <2>3. (y - in) % RingSize = i - 1
      BY <1>9, <2>1, Ahead
    <2> HIDE DEF y
    <2>4. HostReadBuf + y >= HostReadBuf
      BY <1>11, <2>2
    <2>5. Offset(HostReadBuf + y, in) = i - 1 /\ HostReadBuf + y \in DOMAIN cells
      BY <1>14, <2>2, <2>3
    <2>6. cells'[HostReadBuf + y] = Frame(p)[(i - 1) + 1]
      BY <1>3, <2>1, <2>4, <2>5
    <2> QED BY <1>10, <2>1, <2>6 DEF y
  <1>16. ASSUME NEW x \in Nat, b <= x, x < a
         PROVE  cells'[HostReadBuf + (x % RingSize)] = cells[HostReadBuf + (x % RingSize)]
    <2> DEFINE y == x % RingSize
    <2>1. y \in 0..(RingSize - 1)
      BY ModRing
    <2>2. a - x <= RingSize /\ RingSize - (a - x) >= n
      BY <1>9, <1>10, <1>11, <1>13, <1>16
    <2>3. (y - in) % RingSize = RingSize - (a - x)
      BY <1>9, <1>16, <2>2, Behind
    <2> HIDE DEF y
    <2>4. Offset(HostReadBuf + y, in) = RingSize - (a - x) /\ HostReadBuf + y \in DOMAIN cells
      BY <1>14, <2>1, <2>3
    <2>5. ~(Offset(HostReadBuf + y, in) < n)
      BY <1>9, <1>10, <1>11, <2>2, <2>4
    <2> QED BY <1>3, <2>4, <2>5 DEF y
  <1>18. /\ put' = Append(put, p) /\ Len(put') = m + 1 /\ put'[m + 1] = p
         /\ \A k \in 1..m : put'[k] = put[k]
    BY <1>3, Sizes DEF m
  <1>19. PICK bt : /\ Starts(bt, put') /\ bt[m + 2] = a + n
                   /\ \A k \in 1..(m + 1) : bt[k] = at[k]
    <2>1. put \in Seq(Packet)
      BY Sizes
    <2> QED BY <1>8, <1>18, <2>1, StartsAppend DEF m, n, a
  <1>20. bt[g + 1] = b /\ bt[m + 1] = a
    <2>1. g + 1 \in 1..(m + 1) /\ m + 1 \in 1..(m + 1)
      BY <1>7
    <2> QED BY <1>19, <2>1 DEF a, b
  <1>21. /\ ptr'["BT2HostIn"] = (a + n) % RingSize
         /\ \A q \in Pointer \ {"BT2HostIn"} : ptr'[q] = ptr[q]
    <2>1. (in + n) % RingSize = (a + n) % RingSize
      BY <1>9, <1>10, ModAdd
    <2> QED BY <1>3, <2>1, Sizes DEF Pointer
  <1>22. ASSUME NEW k \in (g + 1)..(m + 1), NEW i \in 1..Words(put'[k].payload)
         PROVE  cells'[HostReadBuf + ((bt[k] + i - 1) % RingSize)] = <<put'[k], i>>
    <2>1. CASE k = m + 1
      <3>1. put'[k] = p /\ bt[k] = a /\ i \in 1..n
        BY <1>18, <1>20, <1>22, <2>1 DEF n
      <3> QED BY <1>15, <3>1
    <2>2. CASE k # m + 1
      <3>1. k \in 1..m /\ k \in 1..(m + 1) /\ k + 1 \in 1..(m + 1) /\ k \in (g + 1)..m
            /\ g + 1 \in 1..(m + 1) /\ m + 1 \in 1..(m + 1) /\ g + 1 <= k /\ k + 1 <= m + 1
        BY <1>7, <1>22, <2>2
      <3>2. put'[k] = put[k] /\ bt[k] = at[k]
        BY <1>18, <1>19, <3>1
      <3> DEFINE x == at[k] + i - 1
                 s == Words(put[k].payload)
      <3>3. put[k] \in Packet
        BY <3>1, Sizes DEF m
      <3>4. s \in Nat /\ i \in 1..s
        BY <1>22, <3>2, <3>3, FrameOfWords
      <3>5. at[k] \in Nat /\ b <= at[k] /\ at[k + 1] = at[k] + s /\ at[k + 1] <= a
        BY <1>8, <3>1 DEF a, b
      <3>6. cells[HostReadBuf + (x % RingSize)] = <<put[k], i>>
        BY <1>6, <3>1, <3>4 DEF PutAt, g, m
      <3> HIDE DEF s
      <3>7. x \in Nat /\ b <= x /\ x < a
        BY <1>9, <3>4, <3>5
      <3> HIDE DEF x
      <3>8. cells'[HostReadBuf + (x % RingSize)] = cells[HostReadBuf + (x % RingSize)]
        BY <1>16, <3>7
      <3> QED BY <3>2, <3>6, <3>8 DEF x
    <2> QED BY <2>1, <2>2
  <1>23. Puts'
    <2>1. Len(put') + 1 = m + 2 /\ Len(got') = g /\ (m + 1) + 1 = m + 2
      BY <1>4, <1>7, <1>18 DEF g
    <2>2. PacketsReturned'
      <3>1. \A i \in 1..g : got[i] = put'[i]
        BY <1>7, <1>18
      <3>2. g <= m + 1
        BY <1>7
      <3> QED BY <1>4, <1>7, <1>18, <3>1, <3>2 DEF PacketsReturned, IsPrefixOf, g
    <2>3. bt[m + 2] - bt[g + 1] < RingSize
      BY <1>9, <1>10, <1>11, <1>13, <1>19, <1>20
    <2>4. ptr'["BT2HostOut"] = b2hReadPtr' /\ b2hReadPtr' = b % RingSize
      BY <1>4, <1>9, <1>21 DEF Pointer
    <2>5. PutAt(bt)'
      BY <1>18, <1>19, <1>20, <1>21, <1>22, <2>1, <2>2, <2>3, <2>4 DEF PutAt, Starts
    <2> QED BY <2>5 DEF Puts
  <1> QED BY <1>23

LEMMA ControllerPutsOrdered ==
    ASSUME Good, Transport, ControllerPuts PROVE Transport'
  <1> DEFINE in == ptr["BT2HostIn"]
  <1>1. PICK p, n :
          /\ Running
          /\ cells' = [c \in DOMAIN cells |->
                         IF c >= HostReadBuf /\ Offset(c, in) < n
                         THEN Frame(p)[Offset(c, in) + 1] ELSE cells[c]]
          /\ ptr' = [ptr EXCEPT !["BT2HostIn"] = (in + n) % RingSize]
          /\ put' = Append(put, p)
          /\ UNCHANGED <<Host, awake, taken>>
    BY DEF ControllerPuts, Offset
  <1>2. UNCHANGED <<harm, call, hostCtrl, h2bWritePtr, b2hReadPtr, written, got, taken>>
    BY <1>1 DEF Host, device
  <1>3. Cleared /\ Cleared' /\ Running'
    BY <1>1, <1>2 DEF Cleared, Running
  <1>4. /\ ptr'["Host2BTIn"] = ptr["Host2BTIn"] /\ ptr'["Host2BTOut"] = ptr["Host2BTOut"]
        /\ put' \in Seq(Packet) => Len(put') = Len(put) + 1
        /\ \A k \in 1..Len(put) : put'[k] = put[k]
    BY <1>1, Sizes DEF Pointer
  <1>5. ASSUME NEW c \in 0..(RingSize - 1) PROVE cells'[c] = cells[c]
    <2>1. c \in 0..(2 * RingSize - 1) /\ ~(c >= HostReadBuf)
      BY Sizes
    <2> QED BY <1>1, <2>1, Sizes
  <1>6. SafeWrites => h2bWritePtr \in 0..(RingSize - 1)
    BY InItsRing DEF SafeWrites, Transport
  <1>7. Puts'
    BY <1>2, HarmStays, FramePut DEF Puts
  <1>8. Sends'
    <2>1. SafeWrites' => \A c \in 0..(h2bWritePtr - 1) : c \in 0..(RingSize - 1)
      BY <1>2, <1>6, HarmStays, Sizes
    <2> QED BY <1>2, <1>3, <1>4, <1>5, <2>1, SendsKept DEF Transport
  <1>9. Phases' /\ Short'
    <2>1. call.step \notin {"clear", "awaited", "ready"}
      BY <1>1 DEF Transport, Phases
    <2>2. Phases'
      BY <1>2, <1>3, <2>1 DEF Transport, Phases
    <2> QED BY <1>2, <2>2 DEF Transport, Short
  <1>10. Writing'
    <2> SUFFICES ASSUME SafeWrites PROVE Writing'
      BY <1>2, HarmStays DEF Writing
    <2>1. CASE call.step \in {"wake", "wait", "burst"}
      <3>1. PICK q \in Packet : Writes(q)
        BY <2>1 DEF Transport, Writing
      <3>2. ASSUME NEW i \in 1..call.at PROVE cells'[h2bWritePtr + i - 1] = <<q, i>>
        <4>1. call.step \in {"wake", "wait"} => call.at = 0
          BY DEF Transport, Writing
        <4>2. h2bWritePtr + call.at < RingSize /\ h2bWritePtr \in Nat
              /\ call.at \in Nat /\ RingSize \in Nat
          <5>1. /\ call.at \in Nat /\ RingSize \in Nat /\ h2bWritePtr \in Nat
            BY Sizes
          <5>2. call.step = "burst"
            <6>1. call.at # 0
              BY <3>2, <5>1
            <6> QED BY <2>1, <4>1, <6>1
          <5>3. "lap" \notin harm
            BY DEF SafeWrites
          <5> QED BY <5>1, <5>2, <5>3 DEF Transport, Short
        <4>3. h2bWritePtr + i - 1 \in 0..(RingSize - 1)
          BY <4>2
        <4>4. cells[h2bWritePtr + i - 1] = <<q, i>>
          BY <3>1 DEF Writes
        <4> QED BY <1>5, <4>3, <4>4
      <3>3. Writes(q)'
        BY <1>2, <3>1, <3>2 DEF Writes
      <3>4. call.step \in {"wake", "wait"} => call.at = 0
        BY DEF Transport, Writing
      <3> QED BY <1>2, <3>3, <3>4 DEF Writing
    <2>2. CASE call.step \notin {"wake", "wait", "burst"}
      BY <1>2, <2>2 DEF Writing
    <2> QED BY <2>1, <2>2
  <1>11. Reading'
    <2> SUFFICES ASSUME SafeReads PROVE Reading'
      BY <1>2, HarmStays DEF Reading
    <2>1. CASE call.step \in {"header", "frame", "consume"}
      <3>1. /\ Len(got) < Len(put) /\ Len(got) + 1 \in 1..Len(put)
        BY <2>1, Sizes DEF Transport, Reading
      <3>2. put'[Len(got) + 1] = put[Len(got) + 1]
        BY <1>4, <3>1
      <3>3. Len(got) < Len(put')
        BY <1>1, <3>1, Sizes
      <3>4. call.step \in {"frame", "consume"} => Reads(put[Len(got) + 1])
        BY DEF Transport, Reading
      <3> QED BY <1>2, <3>2, <3>3, <3>4 DEF Transport, Reading, Reads
    <2>2. CASE call.step \notin {"header", "frame", "consume"}
      BY <1>2, <2>2 DEF Reading
    <2> QED BY <2>1, <2>2
  <1> QED BY <1>7, <1>8, <1>9, <1>10, <1>11 DEF Transport

----------------------------------------------------------------------------
LEMMA StepOrdered == Good /\ Transport /\ [Next]_vars => Transport'
  <1> SUFFICES ASSUME Good, Transport, [Next]_vars PROVE Transport'
    OBVIOUS
  <1>1. CASE UNCHANGED vars
    <2>1. /\ UNCHANGED <<harm, call, hostCtrl, h2bWritePtr, b2hReadPtr, written, got, taken, put,
                         cells, ptr>>
      BY <1>1 DEF vars, ring, device, history
    <2>2. Running' = Running /\ Cleared' = Cleared
      BY <2>1 DEF Running, Cleared
    <2>3. Phases' /\ Short' /\ Writing' /\ Reading'
      BY <2>1, <2>2, HarmStays DEF Transport, Phases, Short, Writing, Reading, Writes, Reads
    <2>4. Sends' /\ Puts'
      BY <2>1, <2>2, SendsKept, PutsKept DEF Transport
    <2> QED BY <2>3, <2>4 DEF Transport
  <1>2. CASE Boot
    BY <1>2, ClearPointerOrdered, WaitAwakeOrdered, HostReadyOrdered, ToggleIntrOrdered,
       RestartOrdered DEF Boot
  <1>3. CASE WriteHCI
    BY <1>3, StartWriteOrdered, WakeOrdered, WriteBurstOrdered, PublishOrdered DEF WriteHCI
  <1>4. CASE ReadHCI
    BY <1>4, StartReadOrdered, AvailableOrdered, ReadHeaderOrdered, ReadBurstOrdered,
       ConsumeOrdered DEF ReadHCI
  <1>5. CASE Controller
    BY <1>5, ControllerWakesOrdered, ControllerTakesOrdered, ControllerPutsOrdered DEF Controller
  <1> QED BY <1>1, <1>2, <1>3, <1>4, <1>5 DEF Next

\* The two rings, the pointers on both sides of the bus and the call in progress
\* agree on the packets, each ring until something happened that it does not
\* survive (bluetooth.go:219-352).
THEOREM PacketsInRings == Spec => [](Good /\ Transport)
  <1>1. Good /\ Transport /\ [Next]_vars => Good' /\ Transport'
    BY StepGood, StepOrdered
  <1> QED BY <1>1, InitGood, InitOrdered, PTL DEF Spec

\* What the controller takes is what WriteHCI put there, whole, in order and once,
\* until a burst of WriteHCI fails or its pointer is at the end of the ring, and
\* whatever else fails.
THEOREM PacketsSent == Spec => []SentInOrder
  <1>1. Good /\ Transport => SentInOrder
    <2> SUFFICES ASSUME Good, Transport, SafeWrites PROVE PacketsTaken
      BY DEF SentInOrder, SafeWrites
    <2>1. CASE Cleared
      BY <2>1 DEF Transport, Sends, WrittenAt
    <2>2. CASE ~Cleared
      <3>1. call.step \in Boots /\ ~Running
        BY <2>2 DEF Cleared, Boots
      <3>2. taken = <<>> /\ Len(written) \in Nat
        BY <3>1, Sizes DEF Transport, Phases
      <3> QED BY <3>2 DEF PacketsTaken, IsPrefixOf
    <2> QED BY <2>1, <2>2
  <1> QED BY <1>1, PacketsInRings, PTL

\* ReadHCI returns the controller's packets whole, in order and once, until a burst
\* of ReadHCI fails, the pointer moves that it was told had not, or WriteHCI comes
\* to the end of its ring, and whatever else fails.
THEOREM PacketsRead == Spec => []ReadInOrder
  <1>1. Good /\ Transport => ReadInOrder
    <2> SUFFICES ASSUME Good, Transport, SafeReads PROVE PacketsReturned
      BY DEF ReadInOrder, SafeReads
    <2>1. CASE Cleared
      BY <2>1 DEF Transport, Puts, PutAt
    <2>2. CASE ~Cleared
      <3>1. call.step \in Boots
        BY <2>2 DEF Cleared, Boots
      <3>2. got = <<>> /\ Len(put) \in Nat
        BY <3>1, Sizes DEF Transport, Phases
      <3> QED BY <3>2 DEF PacketsReturned, IsPrefixOf
    <2> QED BY <2>1, <2>2
  <1> QED BY <1>1, PacketsInRings, PTL

=============================================================================
