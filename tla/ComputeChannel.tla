---------------------------- MODULE ComputeChannel ----------------------------
(***************************************************************************)
(* The host library calling the compute service over RPMessage             *)
(* (c7x_compute_client.cpp, rpmsg_wrapper.cpp), the service's message loop *)
(* (compute_service.c) and the life of the task that runs it (main.c),     *)
(* from boot to the acknowledged shutdown.                                 *)
(*                                                                         *)
(* What the handlers compute is the subject of ComputeService; here a      *)
(* message is its type and the sequence number its answer copies.          *)
(* RPMessage delivers in order and loses nothing.                          *)
(***************************************************************************)
EXTENDS Naturals, Sequences

CONSTANTS
  Programs,   \* the host programs considered: the types of request one makes, those
              \* of them that may arrive shorter than the service expects, whether
              \* a receive may time out or be interrupted while it runs, and
              \* whether Linux may stop the remote processor
  QueueLen,   \* requests the transport holds before a send fails
  EarlyStop,  \* whether Linux may do so while the firmware still starts up
  MaxCalls    \* bound on client->seq, far below its 2^32

Ping == 1
GetStatus == 3
DynLoad == 16
DynUnload == 18
ModelLoad == 32
Infer == 33
ModelUnload == 34
InferLarge == 35
SetPrintfBuf == 48

AllTypes == {Ping, GetStatus, DynLoad, DynUnload, ModelLoad, Infer, ModelUnload,
             InferLarge, SetPrintfBuf}

ASSUME ProgramsAssumption ==
  \A p \in Programs :
    /\ p.types \subseteq AllTypes /\ p.malformed \subseteq p.types \ {Ping, GetStatus}
    /\ p.mayFail \in BOOLEAN /\ p.mayStop \in BOOLEAN
ASSUME BoundsAssumption == QueueLen \in Nat /\ MaxCalls \in Nat
ASSUME FlagAssumption == EarlyStop \in BOOLEAN

\* The type a handler answers with, and the one the error path answers with.
Response(t) == IF t = InferLarge THEN 4096 + Infer ELSE 4096 + t
ErrorResponse(t) == 4096 + t

VARIABLES
  program,   \* the host program that runs, one of Programs
  waiting,   \* the host is in send_and_recv
  asked,     \* the type of its last request
  seq,       \* client->seq
  outcome,   \* the last call that returned, and the request whose answer it took
  toDsp,     \* requests in flight
  toHost,    \* answers in flight
  pc,        \* where c7x_compute_main is
  up,        \* compute_service_init has succeeded
  announced, \* Linux has a channel to the service's endpoint
  running,   \* gServiceRunning
  core,      \* gShutdownRemoteCoreId: who asked for the shutdown, 0 for nobody
  stopSent,  \* Linux has sent its shutdown request
  acked      \* SHUTDOWN_ACK has been sent

host == <<program, waiting, asked, seq, outcome>>
dsp == <<pc, up, announced, running, core, acked>>
vars == <<host, toDsp, toHost, dsp, stopSent>>

NoAnswer == 0

Init ==
  /\ program \in Programs
  /\ waiting = FALSE /\ asked = Ping /\ seq = 0
  /\ outcome = [call |-> 0, got |-> NoAnswer]
  /\ toDsp = <<>> /\ toHost = <<>>
  /\ pc = "boot" /\ up = FALSE /\ announced = FALSE /\ running = FALSE /\ core = 0
  /\ stopSent = FALSE /\ acked = FALSE
-----------------------------------------------------------------------------
(* The host library. *)

\* A call builds its request and sends it.
Send(t) ==
  /\ ~ waiting /\ seq < MaxCalls /\ announced
  /\ seq' = seq + 1
  /\ IF Len(toDsp) < QueueLen
     THEN /\ toDsp' = Append(toDsp, [type |-> t, seq |-> seq'])
          /\ waiting' = TRUE
          /\ asked' = t
          /\ UNCHANGED outcome
     ELSE /\ outcome' = [call |-> seq', got |-> NoAnswer]
          /\ UNCHANGED <<toDsp, waiting, asked>>
  /\ UNCHANGED <<program, toHost, dsp, stopSent>>

\* Whether the call takes an answer for its own: every call compares the type,
\* only c7x_client_ping compares the sequence number.
Accepts_TypeOnly(m) == m.type = Response(asked)
Accepts(m) == m.type = Response(asked) /\ (asked = Ping => m.seq = seq)

\* rpmsg_recv returns the oldest answer.
Receive ==
  /\ waiting /\ toHost # <<>>
  /\ waiting' = FALSE
  /\ outcome' = [call |-> seq, got |-> IF Accepts(Head(toHost)) THEN Head(toHost).seq
                                       ELSE NoAnswer]
  /\ toHost' = Tail(toHost)
  /\ UNCHANGED <<program, asked, seq, toDsp, dsp, stopSent>>

\* rpmsg_recv times out, or a signal interrupts its select: the call returns,
\* its answer is still to come.
ReceiveFails ==
  /\ program.mayFail
  /\ waiting /\ toHost = <<>>
  /\ waiting' = FALSE
  /\ outcome' = [call |-> seq, got |-> NoAnswer]
  /\ UNCHANGED <<program, asked, seq, toDsp, toHost, dsp, stopSent>>
-----------------------------------------------------------------------------
(* The firmware's task. *)

\* c7x_compute_main up to the registration of the mailbox callback.
Register ==
  /\ pc = "boot"
  /\ pc' = "init"
  /\ UNCHANGED <<host, toDsp, toHost, up, announced, running, core, acked, stopSent>>

\* compute_service_init creates its endpoint, or gives up; a failure to announce
\* the endpoint is only logged.
ServiceInit ==
  /\ pc = "init"
  /\ \/ pc' = "starting" /\ announced' \in BOOLEAN
     \/ pc' = "cleanup" /\ UNCHANGED announced
  /\ UNCHANGED <<host, toDsp, toHost, up, running, core, acked, stopSent>>

\* The rest of compute_service_init: its last assignment lets the loop run.
ServiceStart ==
  /\ pc = "starting"
  /\ running' = TRUE /\ up' = TRUE
  /\ pc' = "loop"
  /\ UNCHANGED <<host, toDsp, toHost, announced, core, acked, stopSent>>

\* The test at the head of compute_service_run's loop: left out, and as it is.
LoopTest_Forever ==
  /\ pc = "loop"
  /\ pc' = "recv"
  /\ UNCHANGED <<host, toDsp, toHost, up, announced, running, core, acked, stopSent>>
LoopTest ==
  /\ pc = "loop"
  /\ pc' = IF running THEN "recv" ELSE "cleanup"
  /\ UNCHANGED <<host, toDsp, toHost, up, announced, running, core, acked, stopSent>>

\* What the service sends back for request m: faulty loops that only log a
\* malformed message, that fall through into the error path after a handler
\* has answered, or that do not copy the sequence number; then the code's.
Replies_Silent(m) ==
  {<<[type |-> Response(m.type), seq |-> m.seq]>>} \cup
  {<<>> : t \in {m.type} \cap program.malformed}
Replies_Twice(m) ==
  {<<[type |-> Response(m.type), seq |-> m.seq],
     [type |-> ErrorResponse(m.type), seq |-> m.seq]>>}
Replies_NoSeq(m) == {<<[type |-> Response(m.type), seq |-> 0]>>}
Replies(m) ==
  {<<[type |-> Response(m.type), seq |-> m.seq]>>} \cup
  {<<[type |-> ErrorResponse(t), seq |-> m.seq]>> : t \in {m.type} \cap program.malformed}

\* RPMessage_recv returns a request; its handler, or the error path, answers.
Serve ==
  /\ pc = "recv" /\ toDsp # <<>>
  /\ \E r \in Replies(Head(toDsp)) : toHost' = toHost \o r
  /\ toDsp' = Tail(toDsp)
  /\ pc' = "loop"
  /\ UNCHANGED <<host, up, announced, running, core, acked, stopSent>>

\* RPMessage_recv returns without one: its 30 s passed, or it was unblocked.
ServeNothing ==
  /\ pc = "recv" /\ (toDsp = <<>> \/ ~ running)
  /\ pc' = "loop"
  /\ UNCHANGED <<host, toDsp, toHost, up, announced, running, core, acked, stopSent>>

\* The cleanup after the loop: the acknowledgement goes out before the
\* endpoint is destroyed.
SendAck ==
  /\ pc = "cleanup"
  /\ acked' = (core # 0)
  /\ pc' = "deinit"
  /\ UNCHANGED <<host, toDsp, toHost, up, announced, running, core, stopSent>>

\* compute_service_deinit, then IDLE.
Deinit ==
  /\ pc = "deinit"
  /\ running' = FALSE
  /\ pc' = "idle"
  /\ UNCHANGED <<host, toDsp, toHost, up, announced, core, acked, stopSent>>

MainTask ==
  Register \/ ServiceInit \/ ServiceStart \/ LoopTest \/ Serve \/ ServeNothing
  \/ SendAck \/ Deinit

\* A faulty callback: it acknowledges at once, in interrupt context.
Shutdown_AckAtOnce ==
  /\ program.mayStop /\ ~ stopSent /\ pc \in {"loop", "recv"}
  /\ stopSent' = TRUE /\ core' = 1 /\ running' = FALSE /\ acked' = TRUE
  /\ UNCHANGED <<host, toDsp, toHost, pc, up, announced>>

\* Linux sends the shutdown request, once.  From the registration of the
\* callback to HwiP_disable it interrupts the task between any two of its
\* steps (compute_service_stop), the cleanup included; before and after, no
\* one hears it.
Shutdown ==
  /\ program.mayStop /\ ~ stopSent
  /\ EarlyStop \/ pc \notin {"boot", "init", "starting"}
  /\ stopSent' = TRUE
  /\ IF pc \in {"boot", "idle"} THEN UNCHANGED <<core, running>>
     ELSE core' = 1 /\ running' = FALSE
  /\ UNCHANGED <<host, toDsp, toHost, pc, up, announced, acked>>

Next == (\E t \in program.types : Send(t)) \/ Receive \/ ReceiveFails \/ MainTask \/ Shutdown

\* The firmware's task is scheduled; a reply that is there, and a timeout
\* that can happen, end the host's select.
Fairness == WF_vars(MainTask) /\ WF_vars(Receive) /\ WF_vars(ReceiveFails)

Safety == Init /\ [][Next]_vars

Spec == Safety /\ Fairness
-----------------------------------------------------------------------------
Message == [type : Nat, seq : 1 .. MaxCalls]

\* Type invariant of the channel.
TypeOK ==
  /\ program \in Programs
  /\ waiting \in BOOLEAN /\ asked \in AllTypes /\ seq \in 0 .. MaxCalls
  /\ outcome \in [call : 0 .. MaxCalls, got : 0 .. MaxCalls]
  /\ toDsp \in Seq(Message) /\ toHost \in Seq(Message)
  /\ pc \in {"boot", "init", "starting", "loop", "recv", "cleanup", "deinit", "idle"}
  /\ {up, announced, running} \subseteq BOOLEAN /\ core \in {0, 1}
  /\ stopSent \in BOOLEAN /\ acked \in BOOLEAN

\* A call that returns an answer returns the answer to its own request: the
\* header's sequence number is there "for correlation".
AnswersMatch == outcome.got # NoAnswer => outcome.got = outcome.call

\* As long as no receive fails, exactly one message is in flight while the host
\* waits and none while it does not: why the calls that compare no sequence
\* number are right.
OneInFlight ==
  ~ program.mayFail => Len(toDsp) + Len(toHost) = IF waiting THEN 1 ELSE 0

\* The same with the message named: what a waiting host will receive carries
\* the sequence number of its request.  This is the inductive form.
OwnMessage ==
  \/ ~ waiting /\ toDsp = <<>> /\ toHost = <<>>
  \/ waiting /\ toHost = <<>> /\ \E t \in Nat : toDsp = <<[type |-> t, seq |-> seq]>>
  \/ waiting /\ toDsp = <<>> /\ \E t \in Nat : toHost = <<[type |-> t, seq |-> seq]>>

\* The host library keeps its promise: each call returns its own answer or an
\* error, and every call returns.
Call == INSTANCE RemoteCall WITH calling <- waiting, number <- seq, result <- outcome
CallSpec == Call!Spec

\* When the promise is kept: no receive fails, or all the calls are pings.
Correlated == \A p \in Programs : ~ p.mayFail \/ p.types \subseteq {Ping}

\* Every call returns: "Always send an error response so the host does not hang".
CallReturns == waiting ~> ~ waiting

\* A shutdown request that interrupts the firmware before it has tested for one
\* is acknowledged, so that "remoteproc stop" does not time out.
ShutdownAcked == core # 0 /\ pc \notin {"deinit", "idle"} ~> acked

\* Every shutdown request that reaches the firmware is acknowledged.  One that
\* comes between the test and HwiP_disable, after a failed start, is not.
AnyStopAcked == core # 0 ~> acked

\* The shutdown is acknowledged only once the loop has ended, and only if one was
\* asked for; a service that has come up does not destroy its endpoint or go
\* idle without having acknowledged one.
AckInOrder ==
  /\ acked => pc \in {"deinit", "idle"} /\ ~ running /\ core # 0
  /\ up /\ pc \in {"deinit", "idle"} => acked
=============================================================================
