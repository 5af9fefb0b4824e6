------------------------- MODULE ComputeChannelProofs -------------------------
(***************************************************************************)
(* The host library keeps RemoteCall's promise, for any number of calls,   *)
(* any queue length and any shutdown, as long as Correlated holds: either  *)
(* no receive fails, so that one message is in flight at a time, or every  *)
(* call compares sequence numbers, as c7x_client_ping does.                *)
(***************************************************************************)
EXTENDS ComputeChannel, TLAPS

\* The part of the type invariant the arguments need.
HostType ==
  program \in Programs /\ seq \in Nat /\ (waiting => asked \in program.types)

\* A response type is a number: both ways compute_service.c forms one.
LEMMA ResponseIsNat ==
  ASSUME NEW t \in Nat
  PROVE  Response(t) \in Nat /\ ErrorResponse(t) \in Nat
BY DEF Response, ErrorResponse, Infer

\* Sending one message into an empty queue and taking it out again, the four
\* facts about sequences the channel relies on.
LEMMA Singleton ==
  ASSUME NEW m
  PROVE  /\ Append(<<>>, m) = <<m>> /\ <<>> \o <<m>> = <<m>>
         /\ Head(<<m>>) = m /\ Tail(<<m>>) = <<>>
         /\ <<m>> # <<>>
OBVIOUS

\* What Serve may send: one message, with the request's sequence number.
LEMMA RepliesShape ==
  ASSUME NEW t \in Nat, NEW s, NEW r \in Replies([type |-> t, seq |-> s])
  PROVE  \E u \in Nat : r = <<[type |-> u, seq |-> s]>>
<1> DEFINE m == [type |-> t, seq |-> s]
<1>1. m.type = t /\ m.seq = s
  OBVIOUS
<1>2. \/ r = <<[type |-> Response(t), seq |-> s]>>
      \/ \E u \in {t} \cap program.malformed : r = <<[type |-> ErrorResponse(u), seq |-> s]>>
  <2> HIDE DEF m
  <2>1. r \in Replies(m)
    BY DEF m
  <2> QED
    BY <1>1, <2>1, Zenon DEF Replies
<1>3. CASE r = <<[type |-> Response(t), seq |-> s]>>
  BY <1>3, ResponseIsNat, Zenon
<1>4. CASE r = <<[type |-> ErrorResponse(t), seq |-> s]>>
  BY <1>4, ResponseIsNat, Zenon
<1>5. CASE \E u \in {t} \cap program.malformed : r = <<[type |-> ErrorResponse(u), seq |-> s]>>
  <2>1. PICK u \in {t} \cap program.malformed : r = <<[type |-> ErrorResponse(u), seq |-> s]>>
    BY <1>5, Zenon
  <2>2. u = t
    OBVIOUS
  <2> QED
    BY <2>1, <2>2, <1>4, Zenon
<1> QED
  BY <1>2, <1>3, <1>5, Zenon

\* The host's variables keep their types under every step.
LEMMA HostTypeStep == HostType /\ [Next]_vars => HostType'
<1> SUFFICES ASSUME HostType, [Next]_vars PROVE HostType'
  OBVIOUS
<1> USE DEF HostType
<1>1. CASE \E t \in program.types : Send(t)
  <2>1. PICK t \in program.types : Send(t)
    BY <1>1
  <2>2. seq' \in Nat
    BY <2>1 DEF Send
  <2>3. program' = program /\ (waiting' => asked' \in program.types)
    BY <2>1, Zenon DEF Send
  <2> QED
    BY <2>2, <2>3
<1>2. CASE Receive
  BY <1>2 DEF Receive
<1>3. CASE ReceiveFails
  BY <1>3 DEF ReceiveFails
<1>4. CASE MainTask
  BY <1>4 DEF MainTask, Register, ServiceInit, ServiceStart, LoopTest, Serve,
              ServeNothing, SendAck, Deinit, host
<1>5. CASE Shutdown
  BY <1>5 DEF Shutdown, host
<1>6. CASE UNCHANGED vars
  BY <1>6 DEF vars, host
<1> QED
  BY <1>1, <1>2, <1>3, <1>4, <1>5, <1>6 DEF Next

\* Without failing receives, the only message in flight is the one the host
\* waits for, whatever the service and Linux do in between.
LEMMA OwnMessageStep ==
  ASSUME ~ program.mayFail, HostType, OwnMessage, [Next]_vars
  PROVE  OwnMessage'
<1>1. ASSUME NEW t \in program.types, Send(t) PROVE OwnMessage'
  <2>1. toDsp = <<>> /\ toHost = <<>> /\ ~ waiting
    BY <1>1 DEF Send, OwnMessage
  <2>2. t \in Nat
    BY ProgramsAssumption DEF HostType, AllTypes, Ping, GetStatus, DynLoad, DynUnload,
       ModelLoad, Infer, ModelUnload, InferLarge, SetPrintfBuf
  <2>3. CASE Len(toDsp) < QueueLen
    <3>1. toDsp' = <<[type |-> t, seq |-> seq']>> /\ waiting' /\ toHost' = <<>>
      BY <1>1, <2>1, <2>3, Singleton DEF Send
    <3> QED
      BY <3>1, <2>2 DEF OwnMessage
  <2>4. CASE ~ (Len(toDsp) < QueueLen)
    BY <1>1, <2>1, <2>4 DEF Send, OwnMessage
  <2> QED
    BY <2>3, <2>4
<1>2. CASE Receive
  <2>1. PICK t \in Nat : toDsp = <<>> /\ toHost = <<[type |-> t, seq |-> seq]>>
    BY <1>2 DEF Receive, OwnMessage
  <2>2. toHost' = <<>> /\ toDsp' = <<>> /\ ~ waiting'
    BY <1>2, <2>1, Singleton DEF Receive
  <2> QED
    BY <2>2 DEF OwnMessage
<1>3. CASE ReceiveFails
  BY <1>3 DEF ReceiveFails
<1>4. CASE Serve
  <2>1. PICK t \in Nat : /\ waiting /\ toHost = <<>>
                         /\ toDsp = <<[type |-> t, seq |-> seq]>>
    BY <1>4 DEF Serve, OwnMessage
  <2>2. PICK r \in Replies([type |-> t, seq |-> seq]) : toHost' = <<>> \o r
    BY <1>4, <2>1, Singleton DEF Serve
  <2>3. PICK u \in Nat : r = <<[type |-> u, seq |-> seq]>>
    BY <2>2, RepliesShape
  <2>4. toHost' = <<[type |-> u, seq |-> seq]>>
    BY <2>2, <2>3, Singleton
  <2>5. toDsp' = <<>> /\ waiting' /\ seq' = seq
    BY <1>4, <2>1, Singleton DEF Serve, host
  <2> QED
    BY <2>4, <2>5 DEF OwnMessage
<1>5. CASE UNCHANGED <<host, toDsp, toHost>>
  BY <1>5 DEF OwnMessage, host
<1>6. CASE MainTask \/ Shutdown
  <2>1. Serve \/ UNCHANGED <<host, toDsp, toHost>>
    BY <1>6 DEF MainTask, Register, ServiceInit, ServiceStart, LoopTest,
                ServeNothing, SendAck, Deinit, Shutdown
  <2> QED
    BY <2>1, <1>4, <1>5
<1>7. CASE UNCHANGED vars
  BY <1>7, <1>5 DEF vars
<1> QED
  BY <1>1, <1>2, <1>3, <1>6, <1>7 DEF Next

\* The inductive invariant: one message in flight when no receive fails.
IInv == HostType /\ (~ program.mayFail => OwnMessage)

\* An invariant of the channel: what a waiting host receives is its own answer.
THEOREM ChannelInvariant == Safety => []IInv
<1>1. Init => IInv
  <2> SUFFICES ASSUME Init PROVE IInv
    OBVIOUS
  <2>1. HostType
    BY Zenon DEF Init, HostType
  <2>2. OwnMessage
    BY Zenon DEF Init, OwnMessage
  <2> QED
    BY <2>1, <2>2 DEF IInv
<1>2. IInv /\ [Next]_vars => IInv'
  <2> SUFFICES ASSUME IInv, [Next]_vars PROVE IInv'
    OBVIOUS
  <2>1. program' = program
    BY Zenon DEF Next, MainTask, Send, Receive, ReceiveFails, Register, ServiceInit,
           ServiceStart, LoopTest, Serve, ServeNothing, SendAck, Deinit, Shutdown,
           vars, host
  <2> QED
    BY <2>1, HostTypeStep, OwnMessageStep DEF IInv
<1> QED
  BY <1>1, <1>2, PTL DEF Safety

\* What Receive takes for an answer is the answer to the call under way.
LEMMA ReceiveOwn ==
  ASSUME Correlated, IInv, Receive
  PROVE  \/ outcome' = [call |-> seq, got |-> seq]
         \/ outcome' = [call |-> seq, got |-> NoAnswer]
<1>1. CASE ~ Accepts(Head(toHost))
  BY <1>1 DEF Receive
<1>2. CASE Accepts(Head(toHost))
  <2>1. outcome' = [call |-> seq, got |-> Head(toHost).seq]
    BY <1>2 DEF Receive
  <2>2. CASE ~ program.mayFail
    <3>1. PICK t \in Nat : toHost = <<[type |-> t, seq |-> seq]>>
      BY <2>2 DEF Receive, IInv, OwnMessage
    <3>2. Head(toHost) = [type |-> t, seq |-> seq]
      BY <3>1, Singleton
    <3>3. Head(toHost).seq = seq
      BY <3>2
    <3> QED
      BY <2>1, <3>3
  <2>3. CASE program.types \subseteq {Ping}
    <3>1. asked = Ping
      BY <2>3 DEF Receive, IInv, HostType
    <3>2. Head(toHost).seq = seq
      BY <3>1, <1>2 DEF Accepts
    <3> QED
      BY <2>1, <3>2
  <2> QED
    BY <2>2, <2>3 DEF Correlated, IInv, HostType
<1> QED
  BY <1>1, <1>2

\* Every other step leaves the host's view alone, or makes or fails a call.
LEMMA CallStep ==
  ASSUME Correlated, IInv, [Next]_vars
  PROVE  [Call!Next]_(Call!vars)
<1> USE DEF Call!Next, Call!vars, Call!NoAnswer, NoAnswer
<1>1. ASSUME NEW t \in program.types, Send(t) PROVE Call!Begin \/ Call!Refused
  BY <1>1, Zenon DEF Send, Call!Begin, Call!Refused
<1>2. CASE Receive
  <2>1. CASE outcome' = [call |-> seq, got |-> seq]
    BY <1>2, <2>1, Zenon DEF Receive, Call!Return
  <2>2. CASE outcome' = [call |-> seq, got |-> NoAnswer]
    BY <1>2, <2>2, Zenon DEF Receive, Call!Return
  <2> QED
    BY <1>2, <2>1, <2>2, ReceiveOwn
<1>3. CASE ReceiveFails
  BY <1>3, Zenon DEF ReceiveFails, Call!Return
<1>4. CASE UNCHANGED host
  BY <1>4 DEF host
<1>5. CASE MainTask \/ Shutdown
  <2>1. UNCHANGED host
    BY <1>5 DEF MainTask, Register, ServiceInit, ServiceStart, LoopTest, Serve,
                ServeNothing, SendAck, Deinit, Shutdown
  <2> QED
    BY <2>1, <1>4
<1>6. CASE UNCHANGED vars
  BY <1>6, <1>4 DEF vars
<1> QED
  BY <1>1, <1>2, <1>3, <1>5, <1>6 DEF Next

\* The detailed channel implements the abstract call: each call the host makes
\* returns its own answer or an error.
THEOREM ChannelImplementsCall == Correlated => (Safety => Call!Safety)
<1> SUFFICES ASSUME Correlated PROVE Safety => Call!Safety
  OBVIOUS
<1>1. Init => Call!Init
  BY Zenon DEF Init, Call!Init, NoAnswer, Call!NoAnswer
<1>2. IInv /\ [Next]_vars => [Call!Next]_(Call!vars)
  BY CallStep
<1> QED
  BY <1>1, <1>2, ChannelInvariant, PTL DEF Safety, Call!Safety

\* No call ever returns the answer to another one.
THEOREM ChannelAnswersMatch == Correlated => (Safety => []AnswersMatch)
<1> SUFFICES ASSUME Correlated PROVE Safety => []AnswersMatch
  OBVIOUS
<1>1. Init => AnswersMatch
  BY DEF Init, AnswersMatch, NoAnswer
<1>2. IInv /\ AnswersMatch /\ [Next]_vars => AnswersMatch'
  <2> SUFFICES ASSUME IInv, AnswersMatch, [Next]_vars PROVE AnswersMatch'
    OBVIOUS
  <2>1. CASE UNCHANGED outcome
    BY <2>1 DEF AnswersMatch
  <2>2. CASE outcome' = [call |-> seq, got |-> seq]
    BY <2>2 DEF AnswersMatch
  <2>3. ASSUME NEW n, outcome' = [call |-> n, got |-> NoAnswer] PROVE AnswersMatch'
    BY <2>3 DEF AnswersMatch
  <2>4. ASSUME NEW t \in program.types, Send(t) PROVE AnswersMatch'
    BY <2>4, <2>1, <2>3 DEF Send
  <2>5. CASE Receive
    BY <2>5, <2>2, <2>3, ReceiveOwn
  <2>6. CASE ReceiveFails
    BY <2>6, <2>3 DEF ReceiveFails
  <2>7. CASE MainTask \/ Shutdown
    BY <2>7, <2>1 DEF MainTask, Register, ServiceInit, ServiceStart, LoopTest, Serve,
                      ServeNothing, SendAck, Deinit, Shutdown, host
  <2>8. CASE UNCHANGED vars
    BY <2>8, <2>1 DEF vars, host
  <2> QED
    BY <2>4, <2>5, <2>6, <2>7, <2>8 DEF Next
<1> QED
  BY <1>1, <1>2, ChannelInvariant, PTL DEF Safety

\* As long as no receive fails, one message is in flight while the host waits and
\* none while it does not, so a call that compares no sequence number is safe.
THEOREM ChannelOneInFlight == Safety => []OneInFlight
<1>1. IInv => OneInFlight
  <2> SUFFICES ASSUME OwnMessage PROVE OneInFlight
    BY DEF IInv, OneInFlight
  <2>1. CASE ~ waiting /\ toDsp = <<>> /\ toHost = <<>>
    BY <2>1 DEF OneInFlight
  <2>2. ASSUME NEW t \in Nat, waiting, toHost = <<>>, toDsp = <<[type |-> t, seq |-> seq]>>
        PROVE  OneInFlight
    <3>1. Len(toHost) = 0 /\ Len(toDsp) = 1
      BY <2>2
    <3> QED
      BY <2>2, <3>1 DEF OneInFlight
  <2>3. ASSUME NEW t \in Nat, waiting, toDsp = <<>>, toHost = <<[type |-> t, seq |-> seq]>>
        PROVE  OneInFlight
    <3>1. Len(toHost) = 1 /\ Len(toDsp) = 0
      BY <2>3
    <3> QED
      BY <2>3, <3>1 DEF OneInFlight
  <2> QED
    BY <2>1, <2>2, <2>3 DEF OwnMessage
<1> QED
  BY <1>1, ChannelInvariant, PTL

\* The inductive form of AckInOrder: the service runs in its loop only, and the
\* loop is left, by a service that has come up, only for a shutdown.
TaskOrder ==
  /\ pc \notin {"loop", "recv"} => ~ running
  /\ pc \in {"boot", "init", "starting"} => ~ up
  /\ pc \in {"loop", "recv"} => running \/ core # 0
  /\ up /\ pc = "cleanup" => core # 0
  /\ up /\ pc \in {"deinit", "idle"} => acked
  /\ acked => pc \in {"deinit", "idle"} /\ core # 0

\* The acknowledgement of a shutdown is sent once the service's loop has ended and
\* before its endpoint goes away, wherever the request interrupts the task, its
\* start-up and its cleanup included.
THEOREM ChannelAckInOrder == Safety => []AckInOrder
<1>1. Init => TaskOrder
  BY Zenon DEF Init, TaskOrder
<1>2. TaskOrder /\ [Next]_vars => TaskOrder'
  <2> SUFFICES ASSUME TaskOrder, [Next]_vars PROVE TaskOrder'
    OBVIOUS
  <2> USE DEF TaskOrder
  <2>1. CASE UNCHANGED dsp
    BY <2>1 DEF dsp
  <2>2. CASE Register \/ ServiceInit
    BY <2>2 DEF Register, ServiceInit
  <2>3. CASE ServiceStart \/ LoopTest
    BY <2>3 DEF ServiceStart, LoopTest
  <2>4. CASE Serve \/ ServeNothing
    BY <2>4 DEF Serve, ServeNothing
  <2>5. CASE SendAck
    BY <2>5 DEF SendAck
  <2>6. CASE Deinit
    BY <2>6 DEF Deinit
  <2>7. CASE Shutdown
    BY <2>7 DEF Shutdown
  <2>8. CASE Receive \/ ReceiveFails \/ \E t \in program.types : Send(t)
    BY <2>1, <2>8, Zenon DEF Receive, ReceiveFails, Send
  <2>9. CASE UNCHANGED vars
    BY <2>1, <2>9 DEF vars
  <2> QED
    BY <2>2, <2>3, <2>4, <2>5, <2>6, <2>7, <2>8, <2>9 DEF Next, MainTask
<1>3. TaskOrder => AckInOrder
  BY Zenon DEF TaskOrder, AckInOrder
<1> QED
  BY <1>1, <1>2, <1>3, PTL DEF Safety

\* A message in flight carries a type and the number of a call that was made.
LEMMA RepliesType ==
  ASSUME NEW m \in Message, NEW r \in Replies(m)
  PROVE  r \in Seq(Message)
<1>1. PICK t \in Nat, n \in 1 .. MaxCalls : m = [type |-> t, seq |-> n]
  <2>1. m = [type |-> m.type, seq |-> m.seq]
    BY Zenon DEF Message
  <2>2. m.type \in Nat /\ m.seq \in 1 .. MaxCalls
    BY Zenon DEF Message
  <2> QED
    BY <2>1, <2>2, Zenon
<1>2. PICK u \in Nat : r = <<[type |-> u, seq |-> n]>>
  <2>1. r \in Replies([type |-> t, seq |-> n])
    BY <1>1
  <2> QED
    BY <2>1, RepliesShape
<1>3. [type |-> u, seq |-> n] \in Message
  BY <1>1, <1>2, Zenon DEF Message
<1> QED
  BY <1>2, <1>3

\* What a call has returned: its number, and the number of the answer it took.
Outcome == [call : 0 .. MaxCalls, got : 0 .. MaxCalls]

\* A call that fails and a call that takes the answer to call n both leave one.
LEMMA OutcomeType ==
  ASSUME NEW c \in 0 .. MaxCalls, NEW n \in 0 .. MaxCalls
  PROVE  [call |-> c, got |-> n] \in Outcome /\ [call |-> c, got |-> NoAnswer] \in Outcome
<1>1. NoAnswer \in 0 .. MaxCalls
  BY BoundsAssumption DEF NoAnswer
<1> QED
  BY <1>1, Zenon DEF Outcome

\* The service and the library keep the channel well formed: every message in
\* flight, and every answer a call returns, has the number of a call that was made.
THEOREM ChannelTypes == Safety => []TypeOK
<1>0. AllTypes \subseteq Nat /\ Ping \in AllTypes
  BY DEF AllTypes, Ping, GetStatus, DynLoad, DynUnload, ModelLoad, Infer, ModelUnload,
         InferLarge, SetPrintfBuf
<1> DEFINE HostOK == /\ program \in Programs
                     /\ waiting \in BOOLEAN /\ asked \in AllTypes /\ seq \in 0 .. MaxCalls
                     /\ outcome \in Outcome
           QueuesOK == toDsp \in Seq(Message) /\ toHost \in Seq(Message)
           TaskOK == /\ pc \in {"boot", "init", "starting", "loop", "recv", "cleanup",
                                "deinit", "idle"}
                     /\ {up, announced, running} \subseteq BOOLEAN /\ core \in {0, 1}
                     /\ stopSent \in BOOLEAN /\ acked \in BOOLEAN
<1>1. Init => HostOK /\ QueuesOK /\ TaskOK
  <2> SUFFICES ASSUME Init PROVE HostOK /\ QueuesOK /\ TaskOK
    OBVIOUS
  <2>1. 0 \in 0 .. MaxCalls
    BY BoundsAssumption
  <2>2. outcome \in Outcome
    BY <2>1, OutcomeType, Zenon DEF Init
  <2>3. HostOK
    BY <1>0, <2>1, <2>2, Zenon DEF Init
  <2>4. QueuesOK
    BY DEF Init
  <2>5. TaskOK
    BY Zenon DEF Init
  <2> QED
    BY <2>3, <2>4, <2>5
<1>2. ASSUME HostOK, [Next]_vars PROVE HostOK' \/ Receive
  <2>1. ASSUME NEW t \in program.types, Send(t) PROVE HostOK'
    <3>1. t \in AllTypes
      BY <1>2, ProgramsAssumption
    <3>2. seq' \in 0 .. MaxCalls
      BY <1>2, <2>1, BoundsAssumption DEF Send
    <3>3. outcome' \in Outcome
      BY <1>2, <2>1, <3>2, OutcomeType, Zenon DEF Send
    <3>4. waiting' \in BOOLEAN /\ asked' \in AllTypes /\ program' = program
      BY <1>2, <2>1, <3>1, Zenon DEF Send
    <3> QED
      BY <1>2, <3>2, <3>3, <3>4
  <2>2. CASE ReceiveFails
    BY <1>2, <2>2, OutcomeType, Zenon DEF ReceiveFails
  <2>3. CASE UNCHANGED host
    BY <1>2, <2>3 DEF host
  <2>4. CASE MainTask \/ Shutdown \/ UNCHANGED vars
    BY <2>3, <2>4 DEF MainTask, Register, ServiceInit, ServiceStart, LoopTest, Serve,
       ServeNothing, SendAck, Deinit, Shutdown, vars
  <2> QED
    BY <1>2, <2>1, <2>2, <2>4 DEF Next
<1>3. ASSUME HostOK, QueuesOK, Receive PROVE HostOK'
  <2>1. Head(toHost) \in Message
    BY <1>3 DEF Receive
  <2>2. Head(toHost).seq \in 0 .. MaxCalls
    BY <2>1 DEF Message
  <2>3. outcome' \in Outcome
    BY <1>3, <2>2, OutcomeType, Zenon DEF Receive
  <2> QED
    BY <1>3, <2>3, Zenon DEF Receive
<1>4. ASSUME HostOK, QueuesOK, [Next]_vars PROVE QueuesOK'
  <2>1. ASSUME NEW t \in program.types, Send(t) PROVE QueuesOK'
    <3>1. t \in Nat
      BY <1>0, <1>4, ProgramsAssumption, Zenon
    <3>2. seq' \in 1 .. MaxCalls
      BY <1>4, <2>1, BoundsAssumption DEF Send
    <3>3. [type |-> t, seq |-> seq'] \in Message
      BY <3>1, <3>2, Zenon DEF Message
    <3>4. \/ toDsp' = toDsp
          \/ toDsp' = Append(toDsp, [type |-> t, seq |-> seq'])
      BY <2>1, Zenon DEF Send
    <3>5. toHost' = toHost
      BY <2>1 DEF Send
    <3> HIDE DEF QueuesOK
    <3> DEFINE m == [type |-> t, seq |-> seq']
    <3> HIDE DEF m
    <3>6. m \in Message /\ (toDsp' = toDsp \/ toDsp' = Append(toDsp, m))
      BY <3>3, <3>4 DEF m
    <3>7. toDsp \in Seq(Message) /\ toHost \in Seq(Message)
      BY <1>4 DEF QueuesOK
    <3> QED
      BY <3>5, <3>6, <3>7 DEF QueuesOK
  <2>2. CASE Receive
    BY <1>4, <2>2 DEF Receive
  <2>3. CASE Serve
    <3>1. Head(toDsp) \in Message /\ toDsp' \in Seq(Message)
      BY <1>4, <2>3 DEF Serve
    <3>2. PICK r \in Replies(Head(toDsp)) : toHost' = toHost \o r
      BY <2>3, Zenon DEF Serve
    <3>3. r \in Seq(Message)
      BY <3>1, <3>2, RepliesType
    <3> QED
      BY <1>4, <3>1, <3>2, <3>3
  <2>4. CASE UNCHANGED <<toDsp, toHost>>
    BY <1>4, <2>4
  <2>5. CASE ReceiveFails \/ Register \/ ServiceInit \/ ServiceStart \/ LoopTest \/ ServeNothing
             \/ SendAck \/ Deinit \/ Shutdown \/ UNCHANGED vars
    BY <2>4, <2>5 DEF ReceiveFails, Register, ServiceInit, ServiceStart, LoopTest,
       ServeNothing, SendAck, Deinit, Shutdown, vars
  <2> QED
    BY <1>4, <2>1, <2>2, <2>3, <2>5 DEF Next, MainTask
<1>5. ASSUME TaskOK, [Next]_vars PROVE TaskOK'
  <2>1. CASE UNCHANGED <<dsp, stopSent>>
    BY <1>5, <2>1 DEF dsp
  <2>2. CASE MainTask
    BY <1>5, <2>2, Zenon DEF MainTask, Register, ServiceInit, ServiceStart, LoopTest, Serve,
       ServeNothing, SendAck, Deinit
  <2>3. CASE Shutdown
    BY <1>5, <2>3, Zenon DEF Shutdown
  <2>4. CASE Receive \/ ReceiveFails \/ (\E t \in program.types : Send(t)) \/ UNCHANGED vars
    BY <2>1, <2>4, Zenon DEF Receive, ReceiveFails, Send, vars
  <2> QED
    BY <1>5, <2>2, <2>3, <2>4 DEF Next
<1>6. (HostOK /\ QueuesOK /\ TaskOK) /\ [Next]_vars => (HostOK /\ QueuesOK /\ TaskOK)'
  BY <1>2, <1>3, <1>4, <1>5
<1>7. HostOK /\ QueuesOK /\ TaskOK => TypeOK
  BY Zenon DEF TypeOK, Outcome
<1> QED
  BY <1>1, <1>6, <1>7, PTL DEF Safety
=============================================================================
