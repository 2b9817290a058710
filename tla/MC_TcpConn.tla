----------------------------- MODULE MC_TcpConn -----------------------------
(***************************************************************************)
(* The circumstances in which TLC runs a connection.  Each scene lets a    *)
(* few things vary, so that all of them together stay small.               *)
(***************************************************************************)
EXTENDS TcpConn

\* Nothing is sent, nothing goes wrong.
Quiet == [passive |-> FALSE, out |-> 0, waits |-> TRUE, mayClose |-> FALSE,
          bytes |-> 0, closes |-> FALSE, aborts |-> FALSE, resolves |-> {TRUE},
          lossIn |-> 0, lossOut |-> 0, reach |-> 1, patient |-> FALSE]

\* The peer's bytes come in another order than they were sent, its hardware
\* address is known or not, the application may close at any time.
Receives == [Quiet EXCEPT !.bytes = 3, !.closes = TRUE, !.aborts = TRUE, !.mayClose = TRUE,
                          !.reach = 3, !.resolves = {TRUE, FALSE}]

\* The application sends over a network that loses, and closes.
Sends == [Quiet EXCEPT !.out = 5, !.aborts = TRUE, !.mayClose = TRUE, !.lossIn = 2, !.lossOut = 2]

\* A server receives; and a server sends more than its ring takes, without
\* waiting.
ServesIn == [Receives EXCEPT !.passive = TRUE, !.mayClose = FALSE]
ServesOut == [Quiet EXCEPT !.passive = TRUE, !.out = 3, !.waits = FALSE, !.lossIn = 1]

\* The end of the stream overtakes its only byte.
Ends == [Receives EXCEPT !.bytes = 1]

\* Bytes go both ways and both ends close.
Talks == [Quiet EXCEPT !.out = 2, !.bytes = 1, !.closes = TRUE, !.mayClose = TRUE,
                       !.lossOut = 1]

SafetyScenes == {Receives, Ends, Sends, ServesIn, ServesOut, Talks}

\* Scenes for liveness: timeouts are longer than the network's delays, and the
\* losses fewer than the retransmissions.
SendsLive == [Quiet EXCEPT !.out = 4, !.lossIn = 1, !.lossOut = 1, !.patient = TRUE]
ReceivesLive == [Quiet EXCEPT !.bytes = 3, !.closes = TRUE, !.lossIn = 1, !.patient = TRUE]
ClosesLive == [Quiet EXCEPT !.out = 1, !.bytes = 1, !.closes = TRUE, !.mayClose = TRUE, !.lossIn = 1,
                            !.lossOut = 1, !.patient = TRUE]

LiveScenes == {SendsLive, ReceivesLive, ClosesLive}

\* Scenes of the disagreements with the documentation.
Pipelined == {[Quiet EXCEPT !.out = 2, !.waits = FALSE]}
ClosesEarly == {[Quiet EXCEPT !.out = 2, !.waits = FALSE, !.mayClose = TRUE, !.lossOut = 1]}
ServerSends == {[Quiet EXCEPT !.passive = TRUE, !.out = 2, !.waits = FALSE]}
Unresolved == {[Sends EXCEPT !.resolves = {TRUE, FALSE}]}
Reordered == {[Quiet EXCEPT !.out = 5, !.reach = 2]}
LosesAck == {[ReceivesLive EXCEPT !.lossOut = 1]}
LosesFin == {[ClosesLive EXCEPT !.bytes = 0]}
ShutWindow == {SendsLive}
IsReset == {[Quiet EXCEPT !.out = 5, !.waits = FALSE, !.aborts = TRUE, !.patient = TRUE]}
=============================================================================
