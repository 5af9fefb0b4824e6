-------------------------------- MODULE Disco --------------------------------
(***************************************************************************)
(* A Disco session (src/runtime/disco): a controller broadcasts commands   *)
(* to its workers, which run them at their own pace.  Objects live in the  *)
(* workers' registers; the client holds references to them, DRefs, and the *)
(* controller reuses the register of a reference that is gone.             *)
(*                                                                         *)
(* log is the list of commands in the order they were issued.  A DRef is   *)
(* the index of the command that made it, and a register holds that index  *)
(* in place of the object.  A worker's queue is the part of the log that   *)
(* was sent to it and that it has not received.  One thread uses the       *)
(* session at a time.                                                      *)
(***************************************************************************)
EXTENDS Integers, Sequences, FiniteSets

CONSTANTS
  NumWorkers,        \* num_workers
  PipeLen,           \* commands a pipe holds before a write blocks
  Sessions           \* kinds of session: whether the workers but worker 0 are
                     \* processes, what the client uses of the API, and the bounds
                     \* on its commands (those that end it aside), on how far a
                     \* worker falls behind and on the operands of a call

ASSUME DiscoAssumption ==
  /\ {NumWorkers, PipeLen} \subseteq Nat \ {0}
  /\ Sessions \subseteq
       [process : BOOLEAN, commands : Nat, lag : Nat, operands : Nat,
        uses : SUBSET {"call", "collective", "unsupported", "copy", "sync", "debug",
                      "shutdown"}]

Workers == 0 .. NumWorkers - 1

VARIABLES
  kind,      \* what kind of session this is
  log,       \* the commands issued
  live,      \* the DRefs the client holds
  regCount,  \* reg_count_
  freeRegs,  \* free_regs_, as a set: any of them may be the next one
  pushed,    \* host arrays appended for worker 0 so far
  popped,    \* host arrays worker 0 has taken
  mpc,       \* where the controller is
  next,      \* the worker the broadcast under way comes to next
  open,      \* no shutdown was sent
  sent,      \* how far the log was sent to each worker
  pos,       \* the last command each worker has received
  stage,     \* where each worker is
  regs,      \* register_file of each worker
  replies    \* the commands whose reply is on its way, for each worker

session == <<kind, log, live, regCount, freeRegs, pushed, open>>
control == <<mpc, next>>
workers == <<pos, stage, regs, popped, replies>>
vars == <<session, control, sent, workers>>

IsThread(w) == w = 0 \/ ~ kind.process

\* The command under way, and the part of the log that waits for worker w.
Command == log[Len(log)]
Pending(w) == {i \in pos[w] + 1 .. sent[w] : w \in log[i].to}

Init ==
  /\ kind \in Sessions
  /\ log = <<>> /\ live = {} /\ regCount = 1 /\ freeRegs = {} /\ pushed = 0 /\ open = TRUE
  /\ mpc = "idle" /\ next = 0
  /\ sent = [w \in Workers |-> 0] /\ pos = [w \in Workers |-> 0]
  /\ stage = [w \in Workers |-> "recv"]
  /\ regs = [w \in Workers |-> [r \in 1 .. kind.commands |-> 0]]
  /\ popped = 0 /\ replies = [w \in Workers |-> {}]
-----------------------------------------------------------------------------
(* The controller: every operation issues one command and sends it. *)

\* A command: what it does, the register it sets, the DRefs it names, who gets
\* it, the worker that is to reply, the DRef the controller then looks at, the
\* number of its host array, and whether it waits for the other workers.
Plain(op) ==
  [op |-> op, reg |-> 0, args |-> {}, to |-> Workers, target |-> -1, peek |-> 0, host |-> 0,
   collective |-> FALSE]

Issue(e) ==
  /\ mpc = "idle"
  /\ log' = Append(log, e)
  /\ mpc' = "send"
  /\ next' = IF e.to = Workers THEN 0 ELSE e.target
  /\ UNCHANGED <<kind, sent, workers>>

\* The client uses the session until it is shut down.
Use(e) ==
  /\ open /\ Len(log) < kind.commands
  /\ \A w \in Workers : Cardinality(Pending(w)) <= kind.lag
  /\ Issue(e)
  /\ UNCHANGED open

\* AllocateReg.  Faulty ones do not take the register off the free list, or do
\* not count a new one.
Allocate_KeepFree(r) ==
  IF freeRegs = {}
  THEN r = regCount /\ regCount' = regCount + 1 /\ UNCHANGED freeRegs
  ELSE r \in freeRegs /\ UNCHANGED <<freeRegs, regCount>>
Allocate_Uncounted(r) ==
  IF freeRegs = {}
  THEN r = regCount /\ UNCHANGED <<regCount, freeRegs>>
  ELSE r \in freeRegs /\ freeRegs' = freeRegs \ {r} /\ UNCHANGED regCount
Allocate(r) ==
  IF freeRegs = {}
  THEN r = regCount /\ regCount' = regCount + 1 /\ UNCHANGED freeRegs
  ELSE r \in freeRegs /\ freeRegs' = freeRegs \ {r} /\ UNCHANGED regCount

GetGlobalFunc ==
  \E r \in 1 .. kind.commands :
    /\ Allocate(r)
    /\ Use([Plain("func") EXCEPT !.reg = r])
    /\ UNCHANGED <<live, pushed>>

\* CallWithPacked: the function and the arguments are DRefs.  A call of a
\* collective waits for the same call of the other workers.
CallWithPacked(args, collective) ==
  \E r \in 1 .. kind.commands :
    /\ Allocate(r)
    /\ Use([Plain("call") EXCEPT !.reg = r, !.args = args, !.collective = collective])
    /\ UNCHANGED <<live, pushed>>

\* A call with an argument the protocol cannot carry throws in the first Send,
\* before anything is written: the register is neither used nor free.
CallUnsupported ==
  /\ mpc = "idle" /\ open /\ "unsupported" \in kind.uses
  /\ regCount - 1 = Cardinality(live) + Cardinality(freeRegs)   \* bound: one in a session
  /\ \E r \in 1 .. kind.commands : Allocate(r)
  /\ UNCHANGED <<kind, log, live, pushed, open, control, sent, workers>>

\* CopyToWorker0 and CopyFromWorker0.
CopyWorker0(d) ==
  /\ pushed' = pushed + 1
  /\ Use([Plain("copy") EXCEPT !.args = {d}, !.host = pushed + 1])
  /\ UNCHANGED <<live, regCount, freeRegs>>

SyncWorker(w) ==
  /\ Use([Plain("sync") EXCEPT !.target = w])
  /\ UNCHANGED <<live, regCount, freeRegs, pushed>>

\* DebugGetFromRemote and DebugSetRegister: of a thread the register is used in
\* place once the worker is synchronized; a process gets a command of its own.
Debug(w, d) ==
  /\ Use(IF IsThread(w) THEN [Plain("sync") EXCEPT !.target = w, !.peek = d]
         ELSE [Plain("debug") EXCEPT !.target = w, !.args = {d}, !.to = {w}])
  /\ UNCHANGED <<live, regCount, freeRegs, pushed>>

\* DeallocReg, by the destructor of a DRef.
Kill(d) == [Plain("kill") EXCEPT !.reg = log[d].reg]

DeallocReg(d) ==
  /\ Len(log) < kind.commands \/ \A c \in live : d <= c   \* bound: the oldest first in the end
  /\ Issue(Kill(d))
  /\ live' = live \ {d}
  /\ UNCHANGED <<regCount, freeRegs, pushed, open>>

Shutdown ==
  /\ "shutdown" \in kind.uses /\ open
  /\ Issue(Plain("shutdown"))
  /\ open' = FALSE
  /\ UNCHANGED <<live, regCount, freeRegs, pushed>>

\* The destructor of the session, which its DRefs keep alive.  A faulty one joins
\* the workers without telling them to stop.
Destroy_Untold ==
  /\ mpc = "idle" /\ live = {}
  /\ mpc' = "join" /\ open' = FALSE
  /\ UNCHANGED <<kind, log, live, regCount, freeRegs, pushed, next, sent, workers>>
Destroy ==
  /\ live = {}
  /\ Issue(Plain("destroy"))
  /\ open' = FALSE
  /\ UNCHANGED <<live, regCount, freeRegs, pushed>>

Client ==
  \/ GetGlobalFunc \/ CallUnsupported \/ Shutdown \/ Destroy
  \/ \E args \in SUBSET live :
       /\ Cardinality(args) \in 1 .. kind.operands
       /\ \/ "call" \in kind.uses /\ CallWithPacked(args, FALSE)
          \/ "collective" \in kind.uses /\ CallWithPacked(args, TRUE)
  \/ \E d \in live : DeallocReg(d) \/ ("copy" \in kind.uses /\ CopyWorker0(d))
  \/ \E w \in Workers :
       \/ "sync" \in kind.uses /\ SyncWorker(w)
       \/ "debug" \in kind.uses /\ \E d \in live : Debug(w, d)

\* Send to the queue of a thread, which grows as needed.
SendThread(w) ==
  /\ mpc = "send" /\ next = w /\ w \in Command.to /\ IsThread(w)
  /\ sent' = [sent EXCEPT ![w] = Len(log)]
  /\ next' = next + 1
  /\ UNCHANGED <<session, mpc, workers>>

\* A write to the pipe of a process waits for room, and fails once the process
\* has left: the exception ends the program when it leaves a destructor.
SendProcess(w) ==
  /\ mpc = "send" /\ next = w /\ w \in Command.to /\ ~ IsThread(w)
  /\ \/ /\ stage[w] # "gone" /\ Cardinality(Pending(w)) < PipeLen
        /\ sent' = [sent EXCEPT ![w] = Len(log)]
        /\ next' = next + 1 /\ UNCHANGED mpc
     \/ /\ stage[w] = "gone"
        /\ mpc' = "failed" /\ UNCHANGED <<next, sent>>
  /\ UNCHANGED <<session, workers>>

\* What the operation does after its command was sent.
Sent ==
  /\ mpc = "send" /\ next \notin Command.to
  /\ live' = IF Command.op \in {"func", "call"} THEN live \cup {Len(log)} ELSE live
  /\ freeRegs' = IF Command.op = "kill" THEN freeRegs \cup {Command.reg} ELSE freeRegs
  /\ mpc' = CASE Command.op \in {"sync", "debug"} -> "reply"
              [] Command.op = "destroy" -> "join"
              [] OTHER -> "idle"
  /\ UNCHANGED <<kind, log, regCount, pushed, open, next, sent, workers>>

\* RecvReplyPacked; then DebugGetFromRemote looks at the worker's register.  A
\* faulty DebugGetFromRemote does not wait.
RecvReply_Early(w) ==
  /\ mpc = "reply" /\ w = Command.target
  /\ Command.peek # 0
  /\ mpc' = "peek"
  /\ UNCHANGED <<session, next, sent, workers>>
RecvReply(w) ==
  /\ mpc = "reply" /\ w = Command.target
  /\ \E i \in replies[w] :
       /\ \A j \in replies[w] : i <= j
       /\ replies' = [replies EXCEPT ![w] = @ \ {i}]
  /\ mpc' = IF Command.peek # 0 THEN "peek" ELSE "idle"
  /\ UNCHANGED <<session, next, sent, pos, stage, regs, popped>>

Peek ==
  /\ mpc = "peek"
  /\ mpc' = "idle"
  /\ UNCHANGED <<session, next, sent, workers>>

\* The threads are joined; the processes are then killed by the pool.
Join ==
  /\ mpc = "join"
  /\ \A w \in Workers : IsThread(w) => stage[w] = "gone"
  /\ mpc' = "done"
  /\ stage' = [w \in Workers |-> "gone"]
  /\ UNCHANGED <<session, next, sent, pos, regs, popped, replies>>

Controller ==
  \/ Sent \/ Peek \/ Join
  \/ \E w \in Workers : SendThread(w) \/ SendProcess(w) \/ RecvReply(w)
-----------------------------------------------------------------------------
(* The workers: MainLoop. *)

Leave(w, s) == stage' = [stage EXCEPT ![w] = s]

\* Recv of either queue: DequeueNextPacket waits for a command and takes the
\* oldest one.
Recv(w) ==
  /\ stage[w] = "recv"
  /\ \E i \in Pending(w) :
       /\ \A j \in Pending(w) : i <= j
       /\ pos' = [pos EXCEPT ![w] = i]
  /\ Leave(w, "exec")
  /\ UNCHANGED <<session, control, sent, regs, popped, replies>>

Runs(w, ops) == stage[w] = "exec" /\ log[pos[w]].op \in ops

\* GetGlobalFunc, CallPacked and kKillReg set a register.
ExecSet(w) ==
  /\ Runs(w, {"func", "call", "kill"})
  /\ log[pos[w]].collective => \A v \in Workers : pos[v] >= pos[w]
  /\ regs' = [regs EXCEPT ![w][log[pos[w]].reg] = IF Runs(w, {"kill"}) THEN 0 ELSE pos[w]]
  /\ Leave(w, "recv")
  /\ UNCHANGED <<session, control, sent, pos, popped, replies>>

\* CopyFromWorker0 and CopyToWorker0: worker 0 takes the oldest host array.  A
\* faulty one lets every worker take one.
ExecCopy_Every(w) ==
  /\ Runs(w, {"copy"})
  /\ popped' = popped + 1
  /\ Leave(w, "recv")
  /\ UNCHANGED <<session, control, sent, pos, regs, replies>>
ExecCopy(w) ==
  /\ Runs(w, {"copy"})
  /\ popped' = IF w = 0 THEN popped + 1 ELSE popped
  /\ Leave(w, "recv")
  /\ UNCHANGED <<session, control, sent, pos, regs, replies>>

\* SyncWorker, DebugGetFromRemote and DebugSetRegister: the worker that is
\* meant replies.  Faulty ones: every worker does, or only worker 0.
Replies_Always(w) == TRUE
Replies_Zero(w) == w = 0 /\ log[pos[w]].target = 0
Replies(w) == w = log[pos[w]].target

ExecReply(w) ==
  /\ Runs(w, {"sync", "debug"})
  /\ replies' = [replies EXCEPT ![w] = IF Replies(w) THEN @ \cup {pos[w]} ELSE @]
  /\ Leave(w, "recv")
  /\ UNCHANGED <<session, control, sent, pos, regs, popped>>

ExecShutdown(w) ==
  /\ Runs(w, {"shutdown", "destroy"})
  /\ Leave(w, "gone")
  /\ UNCHANGED <<session, control, sent, pos, regs, popped, replies>>

Worker(w) ==
  Recv(w) \/ ExecSet(w) \/ ExecCopy(w) \/ ExecReply(w) \/ ExecShutdown(w)
-----------------------------------------------------------------------------
Next == Client \/ Controller \/ \E w \in Workers : Worker(w)

Safety == Init /\ [][Next]_vars

\* The controller goes on with what it has begun and every worker runs: each
\* has a thread of its own, and the calls it makes return.
Spec == Safety /\ WF_vars(Controller) /\ \A w \in Workers : WF_vars(Worker(w))
-----------------------------------------------------------------------------
Ops == {"func", "call", "kill", "copy", "sync", "debug", "shutdown", "destroy"}
Commands ==
  [op : Ops, reg : Nat, args : SUBSET (Nat \ {0}), to : SUBSET Workers,
   target : {-1} \cup Workers, peek : Nat, host : Nat, collective : BOOLEAN]

\* The state is well formed: free registers are below reg_count_, and no worker
\* is ahead of its queue.
TypeOK ==
  /\ kind \in Sessions /\ open \in BOOLEAN
  /\ log \in Seq(Commands)
  /\ live \subseteq 1 .. Len(log)
  /\ regCount \in Nat \ {0} /\ freeRegs \subseteq 1 .. regCount - 1
  /\ pushed \in Nat /\ popped \in Nat
  /\ mpc \in {"idle", "send", "reply", "peek", "join", "done", "failed"}
  /\ next \in 0 .. NumWorkers
  /\ sent \in [Workers -> 0 .. Len(log)] /\ pos \in [Workers -> 0 .. Len(log)]
  /\ \A w \in Workers : pos[w] <= sent[w]
  /\ stage \in [Workers -> {"recv", "exec", "gone"}]
  /\ regs \in [Workers -> [1 .. kind.commands -> 0 .. Len(log)]]
  /\ replies \in [Workers -> SUBSET (1 .. Len(log))]

\* A command finds, in every register it names, the object of the DRef it was
\* called with: registers are reused as soon as the kill command is sent, while
\* workers lag behind by any number of commands and by different ones
\* (DeallocReg, AllocateReg, MainLoop).
OperandsMatch ==
  \A w \in Workers :
    stage[w] = "exec" => \A d \in log[pos[w]].args : regs[w][log[d].reg] = d

\* Worker 0 takes the host array its copy command came with: the arrays travel
\* in a queue of their own, beside the commands (AppendHostTensor,
\* GetTensorFromHost).
HostArraysMatch ==
  Runs(0, {"copy"}) => popped < pushed /\ log[pos[0]].host = popped + 1

\* When the controller reads or writes a register of a worker thread in place,
\* the thread runs no command and has none left to run, and the register holds
\* the object of the DRef asked for (DebugGetFromRemote, DebugSetRegister).
PeekExclusive ==
  mpc = "peek" =>
    /\ Pending(Command.target) = {} /\ stage[Command.target] # "exec"
    /\ regs[Command.target][log[Command.peek].reg] = Command.peek

\* The reply the controller takes answers the command it has just sent: the
\* checks of SyncWorker on the reply's action and worker never fail.
RepliesMatch ==
  \A w \in Workers : \A i \in replies[w] :
    i = Len(log) /\ w = Command.target /\ mpc \in {"send", "reply"}

\* No write to a worker's pipe fails (Pipe::Write).
WritesSucceed == mpc # "failed"

\* An operation that was begun returns: no pipe stays full, no collective waits
\* for ever, and the reply comes (BroadcastPacked, SyncWorker).
OperationReturns == mpc = "send" ~> mpc \in {"idle", "done"}

\* The destructor of the session returns: every thread runs what is queued for
\* it, reaches the shutdown command and can be joined (~ThreadedSessionObj, Kill).
DestroyReturns == mpc = "join" ~> mpc = "done"
=============================================================================
