----------------------------- MODULE DiscoProofs -----------------------------
(***************************************************************************)
(* Proofs about Disco, for every number of workers, every pipe and every   *)
(* kind of session: a command finds the objects of the DRefs it was called *)
(* with, whichever registers were reused meanwhile; worker 0 takes the     *)
(* host array a copy came with; a reply answers the command just sent; and *)
(* the controller looks at a register only while its worker is at rest.    *)
(*                                                                         *)
(* The argument: a DRef stands for its register from the command that made *)
(* it up to the next command that sets the register.  Whatever the client  *)
(* holds stands up to the end of the log, so what a command names stands   *)
(* up to that command; and a worker's register holds the object that       *)
(* stands for it in the part of the log the worker has executed.           *)
(***************************************************************************)
EXTENDS Disco, TLAPS

Maker(i) == log[i].op \in {"func", "call"}
Writer(i) == log[i].op \in {"func", "call", "kill"}

\* DRef d still names what its register holds after the first n commands.
Stands(d, n) ==
  /\ d \in 1 .. n /\ Maker(d)
  /\ \A j \in d + 1 .. n : Writer(j) => log[j].reg # log[d].reg

\* The DRefs a command names, and how far a worker has executed the log.
Names(e) == e.args \cup ({e.peek} \ {0})
Done(w) == IF stage[w] = "exec" THEN pos[w] - 1 ELSE pos[w]

\* A worker executes a command that was sent to it.
WorkInv ==
  \A w \in Workers : stage[w] = "exec" => pos[w] \in 1 .. Len(log) /\ w \in log[pos[w]].to

\* What a command names stands up to it, and what sets a register goes to all.
LogInv ==
  \A i \in 1 .. Len(log) :
    /\ \A d \in Names(log[i]) : Stands(d, i - 1)
    /\ Writer(i) => log[i].to = Workers /\ log[i].reg \in 1 .. kind.commands

\* What the client holds stands, and no register has two uses.
LiveInv ==
  /\ \A d \in live : Stands(d, Len(log)) /\ log[d].reg \in (1 .. regCount - 1) \ freeRegs
  /\ \A c, d \in live : c # d => log[c].reg # log[d].reg
  /\ mpc = "send" /\ Writer(Len(log)) =>
       /\ Command.reg \in (1 .. regCount - 1) \ freeRegs
       /\ \A d \in live : log[d].reg # Command.reg

\* A register holds the object that stands for it.
RegsInv ==
  \A w \in Workers : stage[w] # "gone" =>
    \A d \in 1 .. Len(log) : Stands(d, Done(w)) => regs[w][log[d].reg] = d

\* Where the controller is says what its command is.
PhaseInv ==
  /\ mpc \in {"send", "reply", "peek"} => Len(log) > 0
  /\ mpc \in {"send", "reply", "peek"} /\ Command.op \in {"sync", "debug"} => open
  /\ mpc \in {"reply", "peek"} => Command.op \in {"sync", "debug"}
  /\ mpc = "peek" => Command.peek # 0
  /\ mpc \in {"failed", "join", "done"} => ~ open

\* A worker leaves only because it was told to.
ClosedInv ==
  /\ \A w \in Workers : stage[w] = "gone" => ~ open
  /\ \A i \in 1 .. Len(log) : log[i].op \in {"shutdown", "destroy"} => ~ open

\* The worker that is asked has answered, unless it is the command under way.
AnsweredInv ==
  \A i \in 1 .. Len(log) : log[i].op \in {"sync", "debug"} =>
    /\ log[i].target \in Workers
    /\ (i = Len(log) /\ mpc \in {"send", "reply"}) \/ i <= Done(log[i].target)

\* A reply on its way answers the command under way.
RepliesInv ==
  \A w \in Workers : \A i \in replies[w] :
    /\ i = Len(log) /\ w = Command.target /\ mpc \in {"send", "reply"}
    /\ Command.op \in {"sync", "debug"}
    /\ pos[w] = i /\ stage[w] # "exec"

ReplyInv == PhaseInv /\ ClosedInv /\ AnsweredInv /\ RepliesInv

\* The copies are numbered in order, and worker 0 has taken the arrays of those
\* it has executed.
Copies == {i \in 1 .. Len(log) : log[i].op = "copy"}
HostInv ==
  /\ \A i \in Copies : log[i].host \in 1 .. pushed /\ log[i].to = Workers
  /\ \A i, j \in Copies : i < j => log[i].host < log[j].host
  /\ \A h \in 1 .. pushed : \E i \in Copies : log[i].host = h
  /\ \A i \in Copies : (i <= Done(0)) <=> (log[i].host <= popped)
  /\ popped <= pushed

Inv == TypeOK /\ WorkInv /\ LogInv /\ LiveInv /\ RegsInv /\ ReplyInv /\ HostInv
-----------------------------------------------------------------------------
(* The log grows at its end. *)

\* What appending to a sequence leaves: the log only grows.
LEMMA Extend ==
  ASSUME NEW S, NEW s \in Seq(S), NEW e \in S
  PROVE  /\ Append(s, e) \in Seq(S)
         /\ Len(Append(s, e)) = Len(s) + 1
         /\ Len(s) \in Nat
         /\ \A i \in 1 .. Len(s) : Append(s, e)[i] = s[i] /\ s[i] \in S
         /\ Append(s, e)[Len(s) + 1] = e
OBVIOUS

\* A command without operands is a command.
LEMMA PlainType ==
  ASSUME NEW op \in Ops
  PROVE  Plain(op) \in Commands
BY DEF Plain, Commands

\* The bound of a session on its commands is a number.
LEMMA KindType ==
  ASSUME TypeOK
  PROVE  kind.commands \in Nat
BY DiscoAssumption DEF TypeOK

\* What the operations of the client have in common: the command they issue
\* names what the client holds and sets a register nothing else uses.
Fresh(e) ==
  /\ e \in Commands /\ Issue(e)
  /\ Names(e) \subseteq live /\ live' \subseteq live
  /\ regCount' \in Nat \ {0} /\ freeRegs' \subseteq 1 .. regCount' - 1
  /\ \A d \in live' : log[d].reg \in (1 .. regCount' - 1) \ freeRegs'
  /\ e.op \in {"func", "call", "kill"} =>
       /\ e.to = Workers /\ e.reg \in 1 .. kind.commands
       /\ e.reg \in (1 .. regCount' - 1) \ freeRegs'
       /\ \A d \in live' : log[d].reg # e.reg
  /\ e.to # Workers => e.target \in Workers
  /\ e.op \in {"sync", "debug"} => open /\ e.target \in Workers
  /\ e.op \in {"shutdown", "destroy"} => open' = FALSE
  /\ e.op \notin {"shutdown", "destroy"} => open' = open
  /\ e.op = "copy" => e.to = Workers /\ e.host = pushed + 1 /\ pushed' = pushed + 1
  /\ e.op # "copy" => pushed' = pushed

\* A register that is allocated is not in use.
LEMMA AllocateFresh ==
  ASSUME TypeOK, LiveInv, NEW r \in 1 .. kind.commands, Allocate(r)
  PROVE  /\ regCount' \in Nat \ {0} /\ freeRegs' \subseteq 1 .. regCount' - 1
         /\ r \in (1 .. regCount' - 1) \ freeRegs'
         /\ \A d \in live : log[d].reg \in (1 .. regCount' - 1) \ freeRegs' /\ log[d].reg # r
<1>1. regCount \in Nat \ {0} /\ freeRegs \subseteq 1 .. regCount - 1
  BY DEF TypeOK
<1>2. \A d \in live : log[d].reg \in (1 .. regCount - 1) \ freeRegs
  BY DEF LiveInv
<1>3. CASE freeRegs = {}
  BY <1>1, <1>2, <1>3 DEF Allocate
<1>4. CASE freeRegs # {}
  BY <1>1, <1>2, <1>4, Zenon DEF Allocate
<1> QED
  BY <1>3, <1>4

\* A function or a call sets a register that was allocated for it.
LEMMA CallFresh ==
  ASSUME TypeOK, LiveInv, NEW r \in 1 .. kind.commands, Allocate(r),
         NEW e, e \in Commands, Use(e), UNCHANGED <<live, pushed>>,
         e.op \in {"func", "call"}, e.to = Workers, e.reg = r, Names(e) \subseteq live
  PROVE  Fresh(e)
<1>1. /\ regCount' \in Nat \ {0} /\ freeRegs' \subseteq 1 .. regCount' - 1
      /\ r \in (1 .. regCount' - 1) \ freeRegs'
      /\ \A d \in live : log[d].reg \in (1 .. regCount' - 1) \ freeRegs' /\ log[d].reg # r
  BY AllocateFresh
<1>2. Issue(e) /\ open' = open
  BY DEF Use
<1> QED
  BY <1>1, <1>2, Zenon DEF Fresh

\* A command that sets no register leaves the registers as they are.
LEMMA OtherFresh ==
  ASSUME TypeOK, LiveInv, NEW e, e \in Commands, Issue(e),
         UNCHANGED <<live, regCount, freeRegs>>,
         Names(e) \subseteq live,
         e.op \notin {"func", "call", "kill"},
         e.to # Workers => e.target \in Workers,
         e.op \in {"sync", "debug"} => open /\ e.target \in Workers,
         e.op \in {"shutdown", "destroy"} => open' = FALSE,
         e.op \notin {"shutdown", "destroy"} => open' = open,
         e.op = "copy" => e.to = Workers /\ e.host = pushed + 1 /\ pushed' = pushed + 1,
         e.op # "copy" => pushed' = pushed
  PROVE  Fresh(e)
<1>1. regCount \in Nat \ {0} /\ freeRegs \subseteq 1 .. regCount - 1
  BY DEF TypeOK
<1>2. \A d \in live : log[d].reg \in (1 .. regCount - 1) \ freeRegs
  BY DEF LiveInv
<1> QED
  BY <1>1, <1>2 DEF Fresh

\* Every operation of the client but a call that throws issues such a command.
LEMMA ClientFresh ==
  ASSUME TypeOK, LogInv, LiveInv, Client
  PROVE  CallUnsupported \/ \E e : Fresh(e)
<1>0. /\ live \subseteq Nat \ {0} /\ log \in Seq(Commands) /\ pushed \in Nat
      /\ live \subseteq 1 .. Len(log)
  BY DEF TypeOK
<1>1. CASE GetGlobalFunc
  <2>1. PICK r \in 1 .. kind.commands :
          Allocate(r) /\ Use([Plain("func") EXCEPT !.reg = r]) /\ UNCHANGED <<live, pushed>>
    BY <1>1 DEF GetGlobalFunc
  <2> DEFINE e == [Plain("func") EXCEPT !.reg = r]
  <2>2. e \in Commands /\ e.op = "func" /\ e.to = Workers /\ e.reg = r /\ Names(e) = {}
    <3>1. e.args = {} /\ e.peek = 0 /\ e.op = "func" /\ e.to = Workers /\ e.reg = r
      BY DEF Plain
    <3>2. Plain("func") \in Commands /\ r \in Nat
      BY PlainType, KindType DEF Ops
    <3>3. e \in Commands
      BY <3>2 DEF Commands
    <3> QED
      BY <3>1, <3>3 DEF Names
  <2>3. Use(e)
    BY <2>1
  <2> HIDE DEF e
  <2> QED
    BY <2>1, <2>2, <2>3, CallFresh
<1>2. CASE \E args \in SUBSET live, c \in BOOLEAN : CallWithPacked(args, c)
  <2>1. PICK args \in SUBSET live, c \in BOOLEAN : CallWithPacked(args, c)
    BY <1>2
  <2> DEFINE f(r) == [Plain("call") EXCEPT !.reg = r, !.args = args, !.collective = c]
  <2>2. PICK r \in 1 .. kind.commands :
          Allocate(r) /\ Use(f(r)) /\ UNCHANGED <<live, pushed>>
    BY <2>1, Zenon DEF CallWithPacked
  <2> DEFINE e == f(r)
  <2>3. e \in Commands /\ e.op = "call" /\ e.to = Workers /\ e.reg = r /\ Names(e) = args
    <3>1. e.args = args /\ e.peek = 0 /\ e.op = "call" /\ e.to = Workers /\ e.reg = r
      BY DEF Plain
    <3>2. Plain("call") \in Commands /\ r \in Nat /\ args \in SUBSET (Nat \ {0})
      BY <1>0, PlainType, KindType DEF Ops
    <3>3. e \in Commands
      BY <3>2, Zenon DEF Commands
    <3> QED
      BY <3>1, <3>3 DEF Names
  <2>4. Use(e)
    BY <2>2
  <2> HIDE DEF e
  <2> QED
    BY <2>2, <2>3, <2>4, CallFresh
<1>3. CASE \E d \in live : CopyWorker0(d)
  <2>1. PICK d \in live : CopyWorker0(d)
    BY <1>3
  <2> DEFINE e == [Plain("copy") EXCEPT !.args = {d}, !.host = pushed + 1]
  <2>2. /\ e \in Commands /\ e.op = "copy" /\ e.to = Workers /\ e.host = pushed + 1
        /\ Names(e) = {d}
    <3>1. /\ e.args = {d} /\ e.peek = 0 /\ e.op = "copy" /\ e.to = Workers
          /\ e.host = pushed + 1
      BY DEF Plain
    <3>2. Plain("copy") \in Commands /\ {d} \in SUBSET (Nat \ {0}) /\ pushed + 1 \in Nat
      BY <1>0, PlainType DEF Ops
    <3>3. e \in Commands
      BY <3>2, Zenon DEF Commands
    <3> QED
      BY <3>1, <3>3 DEF Names
  <2>3. Issue(e) /\ UNCHANGED <<live, regCount, freeRegs, open>> /\ pushed' = pushed + 1
    BY <2>1 DEF CopyWorker0, Use
  <2> HIDE DEF e
  <2> QED
    BY <2>2, <2>3, OtherFresh, Zenon
<1>4. CASE \E w \in Workers : SyncWorker(w)
  <2>1. PICK w \in Workers : SyncWorker(w)
    BY <1>4
  <2> DEFINE e == [Plain("sync") EXCEPT !.target = w]
  <2>2. e \in Commands /\ e.op = "sync" /\ e.to = Workers /\ e.target = w /\ Names(e) = {}
    BY <1>0, Zenon DEF Plain, Commands, Ops, Names, Workers
  <2>3. Issue(e) /\ open /\ UNCHANGED <<live, regCount, freeRegs, open, pushed>>
    BY <2>1 DEF SyncWorker, Use
  <2> HIDE DEF e
  <2> QED
    BY <2>2, <2>3, OtherFresh
<1>5. CASE \E w \in Workers, d \in live : Debug(w, d)
  <2>1. PICK w \in Workers, d \in live : Debug(w, d)
    BY <1>5
  <2> DEFINE e == IF IsThread(w) THEN [Plain("sync") EXCEPT !.target = w, !.peek = d]
                  ELSE [Plain("debug") EXCEPT !.target = w, !.args = {d}, !.to = {w}]
  <2>2. e \in Commands /\ e.op \in {"sync", "debug"} /\ e.target = w /\ Names(e) = {d}
    <3>0. Plain("sync") \in Commands /\ Plain("debug") \in Commands /\ d \in Nat \ {0}
      BY <1>0, PlainType DEF Ops
    <3>1. [Plain("sync") EXCEPT !.target = w, !.peek = d] \in Commands
      BY <3>0, Zenon DEF Commands
    <3>2. [Plain("debug") EXCEPT !.target = w, !.args = {d}, !.to = {w}] \in Commands
      BY <3>0, Zenon DEF Commands
    <3>3. e.op \in {"sync", "debug"} /\ e.target = w
      BY DEF Plain
    <3>4. Names(e) = {d}
      BY <1>0 DEF Plain, Names
    <3> QED
      BY <3>1, <3>2, <3>3, <3>4
  <2>3. Issue(e) /\ open /\ UNCHANGED <<live, regCount, freeRegs, open, pushed>>
    BY <2>1 DEF Debug, Use
  <2> HIDE DEF e
  <2> QED
    BY <2>2, <2>3, OtherFresh
<1>6. CASE \E d \in live : DeallocReg(d)
  <2>1. PICK d \in live : DeallocReg(d)
    BY <1>6
  <2> DEFINE e == Kill(d)
  <2>2. d \in 1 .. Len(log) /\ Writer(d) /\ log[d] \in Commands
    BY <1>0 DEF LiveInv, Stands, Maker, Writer
  <2>3. log[d].reg \in 1 .. kind.commands /\ log[d].reg \in Nat
    BY <2>2 DEF LogInv, Commands
  <2>4. /\ e \in Commands /\ e.op = "kill" /\ e.to = Workers /\ e.reg = log[d].reg
        /\ Names(e) = {}
    BY <2>3, Zenon DEF Kill, Plain, Commands, Ops, Names
  <2>5. Issue(e) /\ live' = live \ {d} /\ UNCHANGED <<regCount, freeRegs, open, pushed>>
    BY <2>1 DEF DeallocReg
  <2>6. /\ regCount \in Nat \ {0} /\ freeRegs \subseteq 1 .. regCount - 1
        /\ \A c \in live : log[c].reg \in (1 .. regCount - 1) \ freeRegs
        /\ \A c \in live : c # d => log[c].reg # log[d].reg
    BY DEF TypeOK, LiveInv
  <2> HIDE DEF e
  <2>7. Fresh(e)
    BY <2>3, <2>4, <2>5, <2>6 DEF Fresh
  <2> QED
    BY <2>7
<1>7. CASE Shutdown
  <2>1. Plain("shutdown") \in Commands
    BY PlainType DEF Ops
  <2>2. /\ Plain("shutdown").op = "shutdown" /\ Plain("shutdown").to = Workers
        /\ Names(Plain("shutdown")) = {}
    BY DEF Plain, Names
  <2>3. /\ Issue(Plain("shutdown")) /\ UNCHANGED <<live, regCount, freeRegs, pushed>>
        /\ open' = FALSE
    BY <1>7 DEF Shutdown
  <2> QED
    BY <2>1, <2>2, <2>3, OtherFresh, Zenon
<1>8. CASE Destroy
  <2>1. Plain("destroy") \in Commands
    BY PlainType DEF Ops
  <2>2. /\ Plain("destroy").op = "destroy" /\ Plain("destroy").to = Workers
        /\ Names(Plain("destroy")) = {}
    BY DEF Plain, Names
  <2>3. /\ Issue(Plain("destroy")) /\ UNCHANGED <<live, regCount, freeRegs, pushed>>
        /\ open' = FALSE
    BY <1>8 DEF Destroy
  <2> QED
    BY <2>1, <2>2, <2>3, OtherFresh, Zenon
<1> QED
  BY <1>1, <1>2, <1>3, <1>4, <1>5, <1>6, <1>7, <1>8, Zenon DEF Client
-----------------------------------------------------------------------------
(* A new command is issued. *)

\* What the log says of the commands before the new one is unchanged.
LEMMA IssueLog ==
  ASSUME TypeOK, NEW e, Fresh(e)
  PROVE  /\ Len(log) \in Nat /\ log' \in Seq(Commands) /\ Len(log') = Len(log) + 1
         /\ \A i \in 1 .. Len(log) : log'[i] = log[i]
         /\ log'[Len(log) + 1] = e
         /\ Command' = e
         /\ mpc = "idle" /\ mpc' = "send"
         /\ UNCHANGED <<kind, sent, pos, stage, regs, popped, replies>>
<1>1. log \in Seq(Commands) /\ e \in Commands /\ log' = Append(log, e)
  BY DEF TypeOK, Fresh, Issue
<1>2. /\ Append(log, e) \in Seq(Commands)
      /\ Len(Append(log, e)) = Len(log) + 1
      /\ Len(log) \in Nat
      /\ \A i \in 1 .. Len(log) : Append(log, e)[i] = log[i]
      /\ Append(log, e)[Len(log) + 1] = e
  BY <1>1, Extend
<1>3. Command' = log'[Len(log')]
  BY DEF Command
<1> QED
  BY <1>1, <1>2, <1>3, Zenon DEF Fresh, Issue, workers

\* A DRef stands in the first n commands whatever is issued after them.
LEMMA IssueStands ==
  ASSUME TypeOK, NEW e, Fresh(e)
  PROVE  \A d \in Int, n \in Int : n <= Len(log) => (Stands(d, n)' <=> Stands(d, n))
<1>1. Len(log) \in Nat /\ \A i \in 1 .. Len(log) : log'[i] = log[i]
  BY IssueLog
<1> SUFFICES ASSUME NEW d \in Int, NEW n \in Int, n <= Len(log)
             PROVE  Stands(d, n)' <=> Stands(d, n)
  OBVIOUS
<1>2. \A i \in 1 .. n : log'[i] = log[i]
  BY <1>1
<1>3. \A i \in 1 .. n : (Maker(i)' <=> Maker(i)) /\ (Writer(i)' <=> Writer(i))
  BY <1>2 DEF Maker, Writer
<1>4. CASE d \in 1 .. n
  <2>1. d + 1 .. n \subseteq 1 .. n
    BY <1>4
  <2> QED
    BY <1>2, <1>3, <1>4, <2>1, Zenon DEF Stands
<1>5. CASE d \notin 1 .. n
  BY <1>5 DEF Stands
<1> QED
  BY <1>4, <1>5

\* Issuing a command keeps the types.
LEMMA IssueTypeOK ==
  ASSUME TypeOK, NEW e, Fresh(e)
  PROVE  TypeOK'
<1>1. /\ Len(log) \in Nat /\ log' \in Seq(Commands) /\ Len(log') = Len(log) + 1
      /\ mpc' = "send" /\ UNCHANGED <<kind, sent, pos, stage, regs, popped, replies>>
  BY IssueLog
<1>2. /\ live' \subseteq live
      /\ regCount' \in Nat \ {0} /\ freeRegs' \subseteq 1 .. regCount' - 1
  BY Zenon DEF Fresh
<1>9. pushed' \in Nat
  BY SMTT(60) DEF Fresh, TypeOK
<1>10. open' \in BOOLEAN
  BY Zenon DEF Fresh, TypeOK
<1>3. next' \in 0 .. NumWorkers
  BY DiscoAssumption DEF Fresh, Issue, Workers
<1>4. 0 .. Len(log) \subseteq 0 .. Len(log') /\ 1 .. Len(log) \subseteq 1 .. Len(log')
  BY <1>1
<1>5. sent \in [Workers -> 0 .. Len(log')] /\ pos \in [Workers -> 0 .. Len(log')]
  BY <1>4 DEF TypeOK
<1>6. regs \in [Workers -> [1 .. kind.commands -> 0 .. Len(log')]]
  <2>1. regs \in [Workers -> [1 .. kind.commands -> 0 .. Len(log)]]
    BY DEF TypeOK
  <2>2. \A w \in Workers : regs[w] \in [1 .. kind.commands -> 0 .. Len(log')]
    BY <2>1, <1>4
  <2> QED
    BY <2>1, <2>2
<1>7. replies \in [Workers -> SUBSET (1 .. Len(log'))]
  BY <1>4 DEF TypeOK
<1>8. live' \subseteq 1 .. Len(log')
  BY <1>2, <1>4, Zenon DEF TypeOK
<1> QED
  BY <1>1, <1>2, <1>3, <1>5, <1>6, <1>7, <1>8, <1>9, <1>10, Zenon DEF TypeOK

\* Issuing a command (BroadcastPacked) preserves the invariant.
LEMMA IssueInv ==
  ASSUME Inv, NEW e, Fresh(e)
  PROVE  Inv'
<1>0. TypeOK /\ WorkInv /\ LogInv /\ LiveInv /\ RegsInv /\ ReplyInv /\ HostInv
  BY DEF Inv
<1>1. /\ Len(log) \in Nat /\ Len(log') = Len(log) + 1
      /\ \A i \in 1 .. Len(log) : log'[i] = log[i]
      /\ log'[Len(log) + 1] = e /\ Command' = e
      /\ mpc = "idle" /\ mpc' = "send"
      /\ UNCHANGED <<kind, sent, pos, stage, regs, popped, replies>>
  BY <1>0, IssueLog
<1>2. \A d \in Int, n \in Int : n <= Len(log) => (Stands(d, n)' <=> Stands(d, n))
  BY <1>0, IssueStands
<1>3. /\ \A w \in Workers : pos[w] \in Nat /\ pos[w] <= Len(log)
      /\ live \subseteq 1 .. Len(log)
  BY <1>0 DEF TypeOK
<1>4. TypeOK'
  BY <1>0, IssueTypeOK
<1>5. WorkInv'
  BY <1>0, <1>1 DEF WorkInv
<1>6. LogInv'
  <2> SUFFICES ASSUME NEW i \in 1 .. Len(log) + 1
               PROVE  /\ \A d \in Names(log'[i]) : Stands(d, i - 1)'
                      /\ Writer(i)' => log'[i].to = Workers /\ log'[i].reg \in 1 .. kind.commands
    BY <1>1, Zenon DEF LogInv, Names, Stands
  <2>1. CASE i \in 1 .. Len(log)
    <3>1. log'[i] = log[i] /\ i - 1 \in Int /\ i - 1 <= Len(log)
      BY <1>1, <2>1
    <3>2. \A d \in Names(log[i]) : Stands(d, i - 1) /\ d \in Int
      BY <1>0, <2>1 DEF LogInv, Stands
    <3>3. Writer(i)' => log[i].to = Workers /\ log[i].reg \in 1 .. kind.commands
      BY <1>0, <2>1, <3>1 DEF LogInv, Writer
    <3> QED
      BY <1>2, <3>1, <3>2, <3>3
  <2>2. CASE i = Len(log) + 1
    <3>1. log'[i] = e /\ i - 1 = Len(log)
      BY <1>1, <2>2
    <3>0. Names(e) \subseteq live
      BY DEF Fresh
    <3>2. \A d \in Names(e) : Stands(d, Len(log)) /\ d \in Int
      <4>1. \A d \in live : Stands(d, Len(log))
        BY <1>0, Zenon DEF LiveInv
      <4>2. \A d \in live : d \in Int
        BY <1>1, <1>3
      <4> QED
        BY <3>0, <4>1, <4>2, Zenon
    <3>3. Writer(i)' => e.to = Workers /\ e.reg \in 1 .. kind.commands
      BY <3>1 DEF Fresh, Writer
    <3>4. \A d \in Names(e) : Stands(d, i - 1)'
      <4>1. i - 1 \in Int /\ i - 1 <= Len(log)
        BY <1>1, <3>1
      <4>2. \A d \in Names(e) : d \in Int /\ Stands(d, i - 1)
        BY <3>1, <3>2
      <4> QED
        BY <1>2, <4>1, <4>2
    <3> QED
      BY <3>1, <3>3, <3>4
  <2> QED
    BY <1>1, <2>1, <2>2
<1>7. LiveInv'
  <2>0. PICK n \in Nat : n = Len(log)
    BY <1>1, Zenon
  <2>1. \A d \in live' : d \in live /\ d \in 1 .. n /\ log'[d] = log[d] /\ Stands(d, n)'
    BY <1>0, <1>1, <1>2, <1>3, <2>0 DEF Fresh, LiveInv
  <2>2. \A d \in live' : e.op \in {"func", "call", "kill"} => log[d].reg # e.reg
    BY DEF Fresh
  <2>3. \A d \in live' : Stands(d, n + 1)'
    <3> SUFFICES ASSUME NEW d \in live' PROVE Stands(d, n + 1)'
      OBVIOUS
    <3>1. Stands(d, n)' /\ d \in 1 .. n /\ log'[d] = log[d]
      BY <2>1
    <3>2. Writer(n + 1)' => log'[n + 1].reg # log'[d].reg
      BY <1>1, <2>0, <2>2, <3>1 DEF Writer
    <3> QED
      BY <3>1, <3>2 DEF Stands
  <2>4. \A d \in live' : log'[d].reg \in (1 .. regCount' - 1) \ freeRegs'
    BY <2>1 DEF Fresh
  <2>5. \A c, d \in live' : c # d => log'[c].reg # log'[d].reg
    BY <1>0, <2>1, Zenon DEF LiveInv
  <2>6. Writer(n + 1)' =>
          /\ e.reg \in (1 .. regCount' - 1) \ freeRegs'
          /\ \A d \in live' : log'[d].reg # e.reg
    BY <1>1, <2>0, <2>1 DEF Fresh, Writer
  <2>7. Len(log') = n + 1
    BY <1>1, <2>0, Zenon
  <2> QED
    BY <1>1, <2>3, <2>4, <2>5, <2>6, <2>7 DEF LiveInv
<1>8. RegsInv'
  <2> SUFFICES ASSUME NEW w \in Workers, stage[w] # "gone",
                      NEW d \in 1 .. Len(log'), Stands(d, Done(w))'
               PROVE  regs[w][log'[d].reg] = d
    BY <1>1 DEF RegsInv
  <2>0. PICK n \in Int : n = Done(w)
    BY <1>3 DEF Done
  <2>1. Done(w)' = n /\ n <= Len(log)
    BY <1>1, <1>3, <2>0 DEF Done
  <2>2. Stands(d, n)'
    BY <2>1 DEF Stands, Maker, Writer
  <2>3. Stands(d, n) /\ d \in 1 .. Len(log)
    BY <1>1, <1>2, <2>1, <2>2 DEF Stands
  <2> QED
    BY <1>0, <1>1, <2>0, <2>3, Zenon DEF RegsInv
<1>9. ReplyInv'
  <2>1. \A w \in Workers : replies[w] = {}
    BY <1>0, <1>1 DEF ReplyInv, RepliesInv, TypeOK
  <2>2. \A w \in Workers : Done(w)' = Done(w)
    BY <1>1, Zenon DEF Done
  <2>3. \A w \in Workers : stage'[w] = "gone" => ~ open'
    BY <1>0, <1>1, Zenon DEF ReplyInv, ClosedInv, Fresh
  <2>4. \A i \in 1 .. Len(log') : log'[i].op \in {"shutdown", "destroy"} => ~ open'
    BY <1>0, <1>1 DEF ReplyInv, ClosedInv, Fresh
  <2>5. \A i \in 1 .. Len(log') : log'[i].op \in {"sync", "debug"} =>
          /\ log'[i].target \in Workers
          /\ i = Len(log') \/ i <= Done(log[i].target)'
    <3> SUFFICES ASSUME NEW i \in 1 .. Len(log'), log'[i].op \in {"sync", "debug"}
                 PROVE  /\ log'[i].target \in Workers
                        /\ i = Len(log') \/ i <= Done(log[i].target)'
      BY Zenon
    <3>1. CASE i = Len(log) + 1
      BY <1>1, <3>1, Zenon DEF Fresh
    <3>2. CASE i \in 1 .. Len(log)
      <4>1. log'[i] = log[i] /\ log[i].target \in Workers /\ i <= Done(log[i].target)
        BY <1>0, <1>1, <3>2 DEF ReplyInv, AnsweredInv
      <4>2. PICK v \in Workers : v = log[i].target
        BY <4>1
      <4>3. i <= Done(v)'
        BY <2>2, <4>1, <4>2, Zenon
      <4> QED
        BY <4>1, <4>2, <4>3 DEF Done
    <3> QED
      BY <1>1, <3>1, <3>2
  <2>6. e.op \in {"sync", "debug"} => open'
    BY DEF Fresh
  <2> QED
    <3>1. PhaseInv'
      BY <1>1, <2>6 DEF ReplyInv, PhaseInv, Command
    <3>2. ClosedInv'
      BY <2>3, <2>4 DEF ReplyInv, ClosedInv
    <3>3. AnsweredInv'
      BY <1>1, <2>5 DEF ReplyInv, AnsweredInv, Done
    <3>4. RepliesInv'
      BY <1>1, <2>1 DEF ReplyInv, RepliesInv, Command
    <3> QED
      BY <3>1, <3>2, <3>3, <3>4 DEF ReplyInv
<1>10. HostInv'
  <2>1. Done(0)' = Done(0) /\ Done(0) \in Int /\ Done(0) <= Len(log)
    <3>1. 0 \in Workers
      BY DiscoAssumption, SMTT(60) DEF Workers
    <3> QED
      BY <1>1, <1>3, <3>1 DEF Done
  <2>2. Copies \subseteq 1 .. Len(log) /\ pushed \in Nat /\ popped \in Nat
    BY <1>0, Zenon DEF Copies, TypeOK
  <2>3. CASE e.op = "copy"
    <3>1. Copies' = Copies \cup {Len(log) + 1}
      BY <1>1, <2>3 DEF Copies
    <3>2. pushed' = pushed + 1 /\ e.host = pushed + 1 /\ e.to = Workers
      BY <2>3 DEF Fresh
    <3>3. \A i \in Copies : log'[i] = log[i]
      BY <1>1, <2>2
    <3>4. \A h \in 1 .. pushed' : \E i \in Copies' : log'[i].host = h
      <4> SUFFICES ASSUME NEW h \in 1 .. pushed + 1 PROVE \E i \in Copies' : log'[i].host = h
        BY <3>2
      <4>1. CASE h = pushed + 1
        BY <1>1, <3>1, <3>2, <4>1
      <4>2. CASE h \in 1 .. pushed
        <5>1. PICK i \in Copies : log[i].host = h
          BY <1>0, <4>2 DEF HostInv
        <5> QED
          BY <3>1, <3>3, <5>1
      <4> QED
        BY <2>2, <4>1, <4>2
    <3>5. \A i \in Copies' : log'[i].host \in 1 .. pushed' /\ log'[i].to = Workers
      <4>1. \A i \in Copies : log'[i].host \in 1 .. pushed + 1 /\ log'[i].to = Workers
        BY <1>0, <2>2, <3>3 DEF HostInv
      <4>2. pushed + 1 \in 1 .. pushed + 1
        BY <2>2
      <4> QED
        BY <1>1, <3>1, <3>2, <4>1, <4>2
    <3>6. \A i, j \in Copies' : i < j => log'[i].host < log'[j].host
      <4>1. \A i \in Copies : /\ i \in Int /\ i < Len(log) + 1
                              /\ log'[i].host \in Int /\ log'[i].host < pushed + 1
        BY <1>0, <1>1, <2>2, <3>3 DEF HostInv
      <4>2. \A i, j \in Copies : i < j => log'[i].host < log'[j].host
        BY <1>0, <3>3 DEF HostInv
      <4>3. log'[Len(log) + 1].host = pushed + 1
        BY <1>1, <3>2
      <4> QED
        BY <1>1, <2>2, <3>1, <4>1, <4>2, <4>3
    <3>7. \A i \in Copies' : (i <= Done(0)) <=> (log'[i].host <= popped)
      <4>1. \A i \in Copies : (i <= Done(0)) <=> (log'[i].host <= popped)
        BY <1>0, <3>3 DEF HostInv
      <4>2. ~ (Len(log) + 1 <= Done(0)) /\ ~ (pushed + 1 <= popped)
        BY <1>0, <1>1, <2>1, <2>2 DEF HostInv
      <4> QED
        BY <1>1, <3>1, <3>2, <4>1, <4>2
    <3> QED
      BY <1>0, <1>1, <2>1, <2>2, <3>2, <3>4, <3>5, <3>6, <3>7 DEF HostInv
  <2>4. CASE e.op # "copy"
    <3>1. Copies' = Copies /\ \A i \in Copies : log'[i] = log[i]
      BY <1>1, <2>4 DEF Copies
    <3>2. pushed' = pushed
      BY <2>4 DEF Fresh
    <3> QED
      BY <1>0, <1>1, <2>1, <3>1, <3>2 DEF HostInv
  <2> QED
    BY <2>3, <2>4
<1> QED
  BY <1>4, <1>5, <1>6, <1>7, <1>8, <1>9, <1>10 DEF Inv
-----------------------------------------------------------------------------
(* A worker takes a command and executes it. *)

\* Where a worker is in the log.
LEMMA WorkerFacts ==
  ASSUME TypeOK, NEW w \in Workers
  PROVE  /\ pos[w] \in Nat /\ sent[w] \in Nat /\ pos[w] <= sent[w] /\ sent[w] <= Len(log)
         /\ Len(log) \in Nat /\ Done(w) \in Int /\ Done(w) <= pos[w]
         /\ stage[w] \in {"recv", "exec", "gone"}
<1>1. Len(log) \in Nat
  BY DEF TypeOK
<1>2. /\ pos[w] \in 0 .. Len(log) /\ sent[w] \in 0 .. Len(log) /\ pos[w] <= sent[w]
      /\ stage[w] \in {"recv", "exec", "gone"}
  BY Zenon DEF TypeOK
<1> QED
  BY <1>1, <1>2 DEF Done

\* What depends on the log and on what the client holds is left alone.
LEMMA SameLog ==
  ASSUME UNCHANGED <<kind, log>>
  PROVE  /\ \A d, n : Stands(d, n)' <=> Stands(d, n)
         /\ LogInv => LogInv'
         /\ Copies' = Copies
BY DEF Stands, Maker, Writer, LogInv, Names, Copies

\* What the client holds is left alone.
LEMMA SameLive ==
  ASSUME UNCHANGED <<log, live, regCount, freeRegs, mpc>>, LiveInv
  PROVE  LiveInv'
BY DEF LiveInv, Stands, Maker, Writer, Command

\* A worker receiving a command (DequeueNextPacket) preserves the invariant.
LEMMA RecvInv ==
  ASSUME Inv, NEW w \in Workers, Recv(w)
  PROVE  Inv'
<1>0. TypeOK /\ WorkInv /\ LogInv /\ LiveInv /\ RegsInv /\ ReplyInv /\ HostInv
  BY DEF Inv
<1>1. PICK i \in Pending(w) : /\ \A j \in Pending(w) : i <= j
                             /\ pos' = [pos EXCEPT ![w] = i]
  BY Zenon DEF Recv
<1>2. /\ stage[w] = "recv" /\ stage' = [stage EXCEPT ![w] = "exec"]
      /\ UNCHANGED <<kind, log, live, regCount, freeRegs, pushed, open, mpc, next>>
      /\ UNCHANGED <<sent, regs, popped, replies>>
  BY DEF Recv, Leave, session, control
<1>3. /\ pos[w] \in Nat /\ sent[w] \in Nat /\ sent[w] <= Len(log) /\ Len(log) \in Nat
  BY <1>0, WorkerFacts
<1>4. i \in pos[w] + 1 .. sent[w] /\ w \in log[i].to
  BY <1>1 DEF Pending
<1>5. \A j \in pos[w] + 1 .. i - 1 : w \notin log[j].to
  BY <1>1, <1>3, <1>4, SMTT(60) DEF Pending
<1>6. /\ pos'[w] = i /\ stage'[w] = "exec" /\ Done(w)' = i - 1 /\ Done(w) = pos[w]
      /\ \A v \in Workers \ {w} : pos'[v] = pos[v] /\ stage'[v] = stage[v] /\ Done(v)' = Done(v)
  BY <1>0, <1>1, <1>2 DEF TypeOK, Done
<1>7. TypeOK'
  <2>1. pos' \in [Workers -> 0 .. Len(log)] /\ \A v \in Workers : pos'[v] <= sent[v]
    BY <1>0, <1>1, <1>3, <1>4 DEF TypeOK
  <2>2. stage' \in [Workers -> {"recv", "exec", "gone"}]
    BY <1>0, <1>2, Zenon DEF TypeOK
  <2> QED
    BY <1>0, <1>2, <2>1, <2>2, Zenon DEF TypeOK
<1>8. WorkInv'
  BY <1>0, <1>2, <1>3, <1>4, <1>6 DEF WorkInv
<1>9. LogInv' /\ LiveInv'
  BY <1>0, <1>2, SameLog, SameLive
<1>10. RegsInv'
  <2> SUFFICES ASSUME NEW v \in Workers, stage'[v] # "gone", NEW d \in 1 .. Len(log),
                      NEW n, n = Done(v)', Stands(d, n)
               PROVE  regs[v][log[d].reg] = d
    BY <1>2, Zenon DEF RegsInv, Stands, Maker, Writer
  <2>1. CASE v = w
    <3>1. n = i - 1 /\ d \in 1 .. n /\ Writer(d)
      BY <1>6, <2>1, Zenon DEF Stands, Maker, Writer
    <3>2. w \in log[d].to
      BY <1>0, <3>1, Zenon DEF LogInv
    <3>3. d <= pos[w]
      BY <1>3, <1>4, <1>5, <3>1, <3>2, SMTT(60)
    <3>4. Stands(d, pos[w])
      BY <1>3, <1>4, <3>1, <3>3, SMTT(60) DEF Stands
    <3> QED
      BY <1>0, <1>2, <1>6, <2>1, <3>4, Zenon DEF RegsInv
  <2>2. CASE v # w
    BY <1>0, <1>6, <2>2 DEF RegsInv
  <2> QED
    BY <2>1, <2>2, Zenon
<1>11. ReplyInv'
  <2>1. replies[w] = {}
    <3>1. \A j \in replies[w] : pos[w] = Len(log)
      BY <1>0, Zenon DEF ReplyInv, RepliesInv
    <3> QED
      BY <1>3, <1>4, <3>1
  <2>2. \A v \in Workers : Done(v)' \in Int /\ Done(v) \in Int /\ Done(v) <= Done(v)'
    BY <1>0, <1>3, <1>4, <1>6, WorkerFacts, SMTT(60)
  <2>3. \A v \in Workers : \A j \in replies'[v] : pos'[v] = pos[v] /\ stage'[v] = stage[v]
    BY <1>2, <1>6, <2>1
  <2>4. \A v \in Workers : stage'[v] = "gone" => stage[v] = "gone"
    BY <1>6, Zenon
  <2>5. \A j \in 1 .. Len(log) : log[j].op \in {"sync", "debug"} =>
          /\ log[j].target \in Workers
          /\ (j = Len(log) /\ mpc \in {"send", "reply"}) \/ j <= Done(log[j].target)'
    <3> SUFFICES ASSUME NEW j \in 1 .. Len(log), log[j].op \in {"sync", "debug"},
                        ~ (j = Len(log) /\ mpc \in {"send", "reply"})
                 PROVE  log[j].target \in Workers /\ j <= Done(log[j].target)'
      BY <1>0, Zenon DEF ReplyInv, AnsweredInv
    <3>1. log[j].target \in Workers /\ j <= Done(log[j].target)
      BY <1>0 DEF ReplyInv, AnsweredInv
    <3>2. PICK v \in Workers : v = log[j].target
      BY <3>1
    <3>3. j <= Done(v)'
      BY <2>2, <3>1, <3>2, SMTT(60)
    <3> QED
      BY <1>2, <3>1, <3>2, <3>3 DEF Done
  <2> QED
    <3>1. PhaseInv'
      BY <1>0, <1>2 DEF ReplyInv, PhaseInv, Command
    <3>2. ClosedInv'
      BY <1>0, <1>2, <2>4, Zenon DEF ReplyInv, ClosedInv
    <3>3. AnsweredInv'
      BY <1>2, <2>5, Zenon DEF ReplyInv, AnsweredInv, Done
    <3>4. RepliesInv'
      BY <1>0, <1>2, <2>3 DEF ReplyInv, RepliesInv, Command
    <3> QED
      BY <3>1, <3>2, <3>3, <3>4, Zenon DEF ReplyInv
<1>12. HostInv'
  <2>1. \A j \in Copies : (j <= Done(0)') <=> (j <= Done(0))
    <3> SUFFICES ASSUME w = 0, NEW j \in Copies PROVE (j <= i - 1) <=> (j <= pos[w])
      BY <1>6, DiscoAssumption DEF Workers
    <3>1. w \in log[j].to /\ j \in 1 .. Len(log)
      BY <1>0, Zenon DEF HostInv, Copies
    <3> QED
      BY <1>3, <1>4, <1>5, <3>1
  <2> QED
    BY <1>0, <1>2, <2>1, SameLog DEF HostInv
<1> QED
  BY <1>7, <1>8, <1>9, <1>10, <1>11, <1>12 DEF Inv

\* A worker that has executed its command is past it, and nothing else moved.
Executed(w) ==
  /\ stage[w] = "exec" /\ stage'[w] # "exec"
  /\ stage' \in [Workers -> {"recv", "exec", "gone"}]
  /\ \A v \in Workers \ {w} : stage'[v] = stage[v]
  /\ UNCHANGED <<kind, log, live, regCount, freeRegs, pushed, open, mpc, next>>
  /\ UNCHANGED <<sent, pos>>

\* How far the workers are once one has executed its command.
LEMMA ExecFacts ==
  ASSUME TypeOK, WorkInv, NEW w \in Workers, Executed(w)
  PROVE  /\ Done(w) = pos[w] - 1 /\ Done(w)' = pos[w]
         /\ \A v \in Workers \ {w} : Done(v)' = Done(v)
         /\ \A v \in Workers : Done(v) \in Int /\ Done(v)' \in Int /\ Done(v) <= Done(v)'
         /\ pos[w] \in 1 .. Len(log) /\ w \in log[pos[w]].to /\ Len(log) \in Nat
         /\ log[pos[w]] \in Commands
<1>1. pos[w] \in 1 .. Len(log) /\ w \in log[pos[w]].to
  BY DEF WorkInv, Executed
<1>2. Done(w) = pos[w] - 1 /\ Done(w)' = pos[w] /\ \A v \in Workers \ {w} : Done(v)' = Done(v)
  BY Zenon DEF Executed, Done
<1>3. Len(log) \in Nat /\ log[pos[w]] \in Commands
  BY <1>1, SMTT(60) DEF TypeOK
<1>4. \A v \in Workers : Done(v) \in Int
  BY WorkerFacts
<1> QED
  BY <1>1, <1>2, <1>3, <1>4, SMTT(60)

\* What every execution preserves.
LEMMA ExecCommon ==
  ASSUME Inv, NEW w \in Workers, Executed(w)
  PROVE  /\ WorkInv' /\ LogInv' /\ LiveInv'
         /\ \A j \in 1 .. Len(log) : log[j].op \in {"sync", "debug"} =>
              /\ log[j].target \in Workers
              /\ (j = Len(log) /\ mpc \in {"send", "reply"}) \/ j <= Done(log[j].target)'
<1>0. TypeOK /\ WorkInv /\ LogInv /\ LiveInv /\ ReplyInv
  BY Zenon DEF Inv
<1>1. WorkInv'
  BY <1>0 DEF WorkInv, Executed
<1>2. LogInv' /\ LiveInv'
  BY <1>0, SameLog, SameLive, Zenon DEF Executed
<1>3. ASSUME NEW j \in 1 .. Len(log), log[j].op \in {"sync", "debug"},
             ~ (j = Len(log) /\ mpc \in {"send", "reply"})
      PROVE  j <= Done(log[j].target)'
  <2>1. log[j].target \in Workers /\ j <= Done(log[j].target)
    BY <1>0, <1>3 DEF ReplyInv, AnsweredInv
  <2>2. PICK v \in Workers : v = log[j].target
    BY <2>1, Zenon
  <2>3. j <= Done(v)'
    BY <1>0, <2>1, <2>2, ExecFacts
  <2> QED
    BY <2>2, <2>3 DEF Done, Executed
<1>4. \A j \in 1 .. Len(log) : log[j].op \in {"sync", "debug"} => log[j].target \in Workers
  BY <1>0 DEF ReplyInv, AnsweredInv
<1> QED
  BY <1>1, <1>2, <1>3, <1>4, Zenon

\* A command that sets no register leaves every register with what stands for it.
LEMMA ExecRegs ==
  ASSUME Inv, NEW w \in Workers, Executed(w), regs' = regs, ~ Maker(pos[w])
  PROVE  RegsInv'
<1>0. TypeOK /\ WorkInv /\ RegsInv
  BY Zenon DEF Inv
<1> SUFFICES ASSUME NEW v \in Workers, stage'[v] # "gone", NEW d \in 1 .. Len(log),
                    NEW n, n = Done(v)', Stands(d, n)
             PROVE  regs[v][log[d].reg] = d
  BY ZenonT(60) DEF RegsInv, Stands, Maker, Writer, Executed
<1>1. CASE v = w
  <2>1. n = pos[w] /\ Done(w) = pos[w] - 1 /\ pos[w] \in 1 .. Len(log)
    BY <1>0, <1>1, ExecFacts, Zenon
  <2>2. d # pos[w]
    BY Zenon DEF Stands
  <2>3. Stands(d, pos[w] - 1)
    BY <2>1, <2>2, SMTT(60) DEF Stands
  <2> QED
    BY <1>0, <1>1, <2>1, <2>3, Zenon DEF RegsInv, Executed
<1>2. CASE v # w
  BY <1>0, <1>2, ExecFacts, SMTT(60) DEF RegsInv, Executed
<1> QED
  BY <1>1, <1>2

\* No reply was sent, and the worker leaves only when the session is closed.
LEMMA ExecReplies ==
  ASSUME Inv, NEW w \in Workers, Executed(w), replies' = replies,
         stage'[w] = "gone" => ~ open
  PROVE  ReplyInv'
<1>0. TypeOK /\ WorkInv /\ ReplyInv
  BY Zenon DEF Inv
<1>1. \A v \in Workers : stage'[v] = "gone" => ~ open
  BY <1>0, Zenon DEF ReplyInv, ClosedInv, Executed
<1>2. \A v \in Workers : \A j \in replies[v] : stage'[v] # "exec"
  BY <1>0 DEF ReplyInv, RepliesInv, Executed
<1>3. \A j \in 1 .. Len(log) : log[j].op \in {"sync", "debug"} =>
        /\ log[j].target \in Workers
        /\ (j = Len(log) /\ mpc \in {"send", "reply"}) \/ j <= Done(log[j].target)'
  BY ExecCommon, Zenon
<1> QED
  <2>1. PhaseInv'
    BY <1>0, Zenon DEF Executed, ReplyInv, PhaseInv, Command
  <2>2. ClosedInv'
    BY <1>0, <1>1, Zenon DEF Executed, ReplyInv, ClosedInv
  <2>3. AnsweredInv'
    BY <1>3, Zenon DEF Executed, ReplyInv, AnsweredInv, Done
  <2>4. RepliesInv'
    BY <1>0, <1>2 DEF Executed, ReplyInv, RepliesInv, Command
  <2> QED
    BY <2>1, <2>2, <2>3, <2>4 DEF ReplyInv

\* A command that is no copy takes no host array.
LEMMA ExecHost ==
  ASSUME Inv, NEW w \in Workers, Executed(w), popped' = popped,
         log[pos[w]].op # "copy" \/ w # 0
  PROVE  HostInv'
<1>0. TypeOK /\ WorkInv /\ HostInv
  BY DEF Inv
<1>1. \A j \in Copies : (j <= Done(0)') <=> (j <= Done(0))
  <2>1. CASE w = 0
    <3>1. pos[0] \notin Copies /\ \A j \in Copies : j \in Int
      BY <2>1, SMTT(60) DEF Copies
    <3>2. Done(0)' = pos[0] /\ Done(0) = pos[0] - 1 /\ pos[0] \in Int
      BY <1>0, <2>1, ExecFacts
    <3>3. \A j \in Copies : j # pos[0]
      BY <3>1, Zenon
    <3> QED
      BY <3>1, <3>2, <3>3
  <2>2. CASE w # 0
    <3>1. 0 \in Workers
      BY DiscoAssumption DEF Workers
    <3> QED
      BY <1>0, <2>2, <3>1, ExecFacts
  <2> QED
    BY <2>1, <2>2, Zenon
<1> QED
  BY <1>0, <1>1, SameLog DEF HostInv, Executed

\* Worker 0 finds the host array its copy came with.
LEMMA HostOfCopy ==
  ASSUME TypeOK, WorkInv, HostInv, Runs(0, {"copy"})
  PROVE  popped < pushed /\ log[pos[0]].host = popped + 1 /\ pos[0] \in Copies
<1>1. 0 \in Workers
  BY DiscoAssumption, SMTT(60) DEF Workers
<1>2. pos[0] \in Copies /\ Done(0) = pos[0] - 1 /\ pos[0] \in Nat
  BY <1>1, SMTT(60) DEF WorkInv, Runs, Copies, Done, TypeOK
<1>3. /\ log[pos[0]].host \in 1 .. pushed /\ ~ (log[pos[0]].host <= popped)
      /\ pushed \in Nat /\ popped \in Nat
  BY <1>2 DEF HostInv, TypeOK
<1>4. popped + 1 \in 1 .. pushed
  BY <1>3, SMTT(60)
<1>5. PICK j \in Copies : log[j].host = popped + 1
  BY <1>4, Zenon DEF HostInv
<1>6. j \in Nat /\ ~ (j <= Done(0))
  BY <1>3, <1>5, SMTT(60) DEF HostInv, Copies
<1>7. ~ (pos[0] < j)
  BY <1>2, <1>3, <1>5 DEF HostInv
<1> QED
  BY <1>2, <1>3, <1>4, <1>5, <1>6, <1>7

\* A worker executing a command (MainLoop) preserves the invariant.
LEMMA ExecuteInv ==
  ASSUME Inv, NEW w \in Workers,
         ExecSet(w) \/ ExecCopy(w) \/ ExecReply(w) \/ ExecShutdown(w)
  PROVE  Inv'
<1>0. TypeOK /\ WorkInv /\ LogInv /\ LiveInv /\ RegsInv /\ ReplyInv /\ HostInv
  BY DEF Inv
<1>1. Executed(w)
  <2>1. stage \in [Workers -> {"recv", "exec", "gone"}] /\ stage[w] = "exec"
    BY <1>0, Zenon DEF TypeOK, ExecSet, ExecCopy, ExecReply, ExecShutdown, Runs
  <2>2. \E s \in {"recv", "gone"} : stage' = [stage EXCEPT ![w] = s]
    BY Zenon DEF ExecSet, ExecCopy, ExecReply, ExecShutdown, Leave
  <2>3. /\ UNCHANGED <<kind, log, live, regCount, freeRegs, pushed, open, mpc, next>>
        /\ UNCHANGED <<sent, pos>>
    BY Zenon DEF ExecSet, ExecCopy, ExecReply, ExecShutdown, session, control
  <2> QED
    BY <2>1, <2>2, <2>3, Zenon DEF Executed
<1>2. WorkInv' /\ LogInv' /\ LiveInv'
  BY <1>1, ExecCommon, Zenon
<1>3. pos[w] \in 1 .. Len(log) /\ Len(log) \in Nat /\ w \in log[pos[w]].to
  BY <1>0, <1>1, ExecFacts, Zenon
<1>4. ASSUME regs' \in [Workers -> [1 .. kind.commands -> 0 .. Len(log)]], popped' \in Nat,
             replies' \in [Workers -> SUBSET (1 .. Len(log))]
      PROVE  TypeOK'
  BY <1>0, <1>1, <1>4, Zenon DEF TypeOK, Executed
<1>t. /\ regs \in [Workers -> [1 .. kind.commands -> 0 .. Len(log)]] /\ popped \in Nat
      /\ replies \in [Workers -> SUBSET (1 .. Len(log))]
  BY <1>0, Zenon DEF TypeOK
<1>5. CASE ExecSet(w)
  <2> DEFINE r == log[pos[w]].reg
             x == IF Runs(w, {"kill"}) THEN 0 ELSE pos[w]
  <2>1. /\ Writer(pos[w]) /\ regs' = [regs EXCEPT ![w][r] = x] /\ UNCHANGED <<popped, replies>>
        /\ stage'[w] = "recv"
    BY <1>0, <1>5, Zenon DEF ExecSet, Runs, Writer, Leave, TypeOK
  <2>2. r \in 1 .. kind.commands
    BY <1>0, <1>3, <2>1, Zenon DEF LogInv
  <2>3. x \in 0 .. Len(log) /\ (Maker(pos[w]) => x = pos[w])
    BY <1>3 DEF Runs, Maker
  <2>4. regs \in [Workers -> [1 .. kind.commands -> 0 .. Len(log)]]
    BY <1>0, Zenon DEF TypeOK
  <2> HIDE DEF x, r
  <2>5. /\ regs' \in [Workers -> [1 .. kind.commands -> 0 .. Len(log)]]
        /\ regs'[w][r] = x
        /\ \A q \in 1 .. kind.commands : q # r => regs'[w][q] = regs[w][q]
        /\ \A v \in Workers \ {w} : regs'[v] = regs[v]
    BY <2>1, <2>2, <2>3, <2>4, Zenon
  <2>6. TypeOK'
    BY <1>4, <1>t, <2>1, <2>5
  <2>7. ReplyInv'
    BY <1>1, <2>1, ExecReplies
  <2>8. HostInv'
    BY <1>1, <2>1, ExecHost DEF Writer
  <2>9. RegsInv'
    <3> SUFFICES ASSUME NEW v \in Workers, stage'[v] # "gone", NEW d \in 1 .. Len(log),
                        NEW n, n = Done(v)', Stands(d, n)
                 PROVE  regs'[v][log[d].reg] = d
      BY <1>1, Zenon DEF RegsInv, Stands, Maker, Writer, Executed
    <3>1. CASE v = w
      <4>1. n = pos[w] /\ Done(w) = pos[w] - 1
        BY <1>0, <1>1, <3>1, ExecFacts, Zenon
      <4>2. CASE d = pos[w]
        BY <2>3, <2>5, <3>1, <4>2, Zenon DEF Stands, r
      <4>3. CASE d # pos[w]
        <5>1. Stands(d, pos[w] - 1)
          BY <1>3, <4>1, <4>3, SMTT(60) DEF Stands
        <5>2. log[d].reg # r
          BY <1>3, <2>1, <4>1, <4>3, SMTT(60) DEF Stands, r
        <5>3. log[d].reg \in 1 .. kind.commands
          BY <1>0, Zenon DEF LogInv, Stands, Maker, Writer
        <5>4. regs[w][log[d].reg] = d
          BY <1>0, <1>1, <4>1, <5>1, Zenon DEF RegsInv, Executed
        <5> QED
          BY <2>5, <3>1, <5>2, <5>3, <5>4, Zenon
      <4> QED
        BY <4>2, <4>3
    <3>2. CASE v # w
      <4>1. n = Done(v) /\ stage[v] # "gone" /\ regs'[v] = regs[v]
        BY <1>0, <1>1, <2>5, <3>2, ExecFacts DEF Executed
      <4> QED
        BY <1>0, <4>1, ZenonT(60) DEF RegsInv
    <3> QED
      BY <3>1, <3>2, Zenon
  <2> QED
    BY <1>2, <2>6, <2>7, <2>8, <2>9, Zenon DEF Inv
<1>6. CASE ExecCopy(w)
  <2>1. /\ log[pos[w]].op = "copy" /\ UNCHANGED <<regs, replies>> /\ stage'[w] = "recv"
        /\ popped' = IF w = 0 THEN popped + 1 ELSE popped
    BY <1>0, <1>6, Zenon DEF ExecCopy, Runs, Leave, TypeOK
  <2>2. TypeOK'
    BY <1>4, <1>t, <2>1, SMTT(60)
  <2>3. RegsInv'
    BY <1>1, <2>1, ExecRegs, Zenon DEF Maker
  <2>4. ReplyInv'
    BY <1>1, <2>1, ExecReplies
  <2>5. HostInv'
    <3>1. CASE w # 0
      BY <1>1, <2>1, <3>1, ExecHost, Zenon
    <3>2. CASE w = 0
      <4>1. popped < pushed /\ log[pos[0]].host = popped + 1 /\ pos[0] \in Copies
        BY <1>0, <1>6, <3>2, HostOfCopy, Zenon DEF ExecCopy
      <4>2. Done(0) = pos[0] - 1 /\ Done(0)' = pos[0] /\ pos[0] \in Nat
        BY <1>0, <1>1, <1>3, <3>2, ExecFacts
      <4>3. popped \in Nat /\ pushed \in Nat /\ \A j \in Copies : j \in Nat /\ log[j].host \in Nat
        BY <1>0, SMTT(60) DEF TypeOK, HostInv, Copies
      <4>4. \A j \in Copies : (j <= pos[0]) <=> (log[j].host <= popped + 1)
        <5> SUFFICES ASSUME NEW j \in Copies
                     PROVE  (j <= pos[0]) <=> (log[j].host <= popped + 1)
          BY Zenon
        <5>1. CASE j < pos[0]
          BY <1>0, <4>1, <4>2, <4>3, <5>1, SMTT(60) DEF HostInv
        <5>2. CASE j = pos[0]
          BY <4>1, <4>2, <4>3, <5>2, SMTT(60)
        <5>3. CASE pos[0] < j
          <6>1. log[pos[0]].host < log[j].host
            BY <1>0, <4>1, <5>3, Zenon DEF HostInv
          <6> QED
            BY <4>1, <4>2, <4>3, <5>3, <6>1, SMTT(60)
        <5> QED
          BY <4>2, <4>3, <5>1, <5>2, <5>3, SMTT(60)
      <4>5. popped' = popped + 1 /\ pushed' = pushed /\ log' = log /\ Copies' = Copies
        BY <1>1, <2>1, <3>2, SameLog DEF Executed
      <4> QED
        BY <1>0, <4>1, <4>2, <4>3, <4>4, <4>5, SMTT(60) DEF HostInv
    <3> QED
      BY <3>1, <3>2, Zenon
  <2> QED
    BY <1>2, <2>2, <2>3, <2>4, <2>5, Zenon DEF Inv
<1>7. CASE ExecReply(w)
  <2>1. /\ log[pos[w]].op \in {"sync", "debug"} /\ UNCHANGED <<regs, popped>>
        /\ stage'[w] = "recv"
        /\ replies' = [replies EXCEPT ![w] = IF Replies(w) THEN @ \cup {pos[w]} ELSE @]
    BY <1>0, <1>7, Zenon DEF ExecReply, Runs, Leave, TypeOK
  <2>2. TypeOK'
    <3>1. replies' \in [Workers -> SUBSET (1 .. Len(log))]
      BY <1>0, <1>3, <2>1, Zenon DEF TypeOK
    <3> QED
      BY <1>4, <1>t, <2>1, <3>1
  <2>3. RegsInv'
    BY <1>1, <2>1, ExecRegs, Zenon DEF Maker
  <2>4. HostInv'
    BY <1>1, <2>1, ExecHost
  <2>5. CASE ~ Replies(w)
    <3>1. replies' = replies
      BY <1>0, <2>1, <2>5, Zenon DEF TypeOK
    <3>2. ReplyInv'
      BY <1>1, <2>1, <3>1, ExecReplies, Zenon
    <3> QED
      BY <1>2, <2>2, <2>3, <2>4, <3>2, Zenon DEF Inv
  <2>6. CASE Replies(w)
    <3>1. w = log[pos[w]].target
      BY <2>6 DEF Replies
    <3>2. pos[w] = Len(log) /\ mpc \in {"send", "reply"}
      <4>1. ~ (pos[w] <= Done(w))
        BY <1>0, <1>1, <1>3, ExecFacts, SMTT(60)
      <4> QED
        BY <1>0, <1>3, <2>1, <3>1, <4>1, Zenon DEF ReplyInv, AnsweredInv
    <3>3. \A v \in Workers : \A j \in replies'[v] : j \in replies[v] \/ (v = w /\ j = pos[w])
      BY <1>0, <2>1, Zenon DEF TypeOK
    <3>4. \A v \in Workers : \A j \in replies'[v] :
            /\ j = Len(log) /\ v = Command.target /\ mpc \in {"send", "reply"}
            /\ Command.op \in {"sync", "debug"}
            /\ pos[v] = j /\ stage'[v] # "exec"
      BY <1>0, <1>1, <2>1, <3>1, <3>2, <3>3 DEF ReplyInv, RepliesInv, Command, Executed
    <3>5. \A v \in Workers : stage'[v] = "gone" => ~ open
      BY <1>0, <1>1, <2>1, Zenon DEF ReplyInv, ClosedInv, Executed
    <3>6. \A j \in 1 .. Len(log) : log[j].op \in {"sync", "debug"} =>
            /\ log[j].target \in Workers
            /\ (j = Len(log) /\ mpc \in {"send", "reply"}) \/ j <= Done(log[j].target)'
      BY <1>1, ExecCommon
    <3>7. ReplyInv'
      <4>1. PhaseInv'
        BY <1>0, <1>1, Zenon DEF Executed, ReplyInv, PhaseInv, Command
      <4>2. ClosedInv'
        BY <1>0, <1>1, <3>5, Zenon DEF Executed, ReplyInv, ClosedInv
      <4>3. AnsweredInv'
        BY <1>1, <3>6, Zenon DEF Executed, ReplyInv, AnsweredInv, Done
      <4>4. RepliesInv'
        BY <1>1, <3>4, Zenon DEF Executed, ReplyInv, RepliesInv, Command
      <4> QED
        BY <4>1, <4>2, <4>3, <4>4, Zenon DEF ReplyInv
    <3> QED
      BY <1>2, <2>2, <2>3, <2>4, <3>7 DEF Inv
  <2> QED
    BY <2>5, <2>6, Zenon
<1>8. CASE ExecShutdown(w)
  <2>1. /\ log[pos[w]].op \in {"shutdown", "destroy"} /\ UNCHANGED <<regs, popped, replies>>
    BY <1>8, Zenon DEF ExecShutdown, Runs
  <2>2. TypeOK'
    BY <1>4, <1>t, <2>1, Zenon
  <2>3. RegsInv'
    BY <1>1, <2>1, ExecRegs, Zenon DEF Maker
  <2>4. HostInv'
    BY <1>1, <2>1, ExecHost, Zenon
  <2>5. ~ open
    BY <1>0, <1>3, <2>1, Zenon DEF ReplyInv, ClosedInv
  <2>6. ReplyInv'
    BY <1>1, <2>1, <2>5, ExecReplies, Zenon
  <2> QED
    BY <1>2, <2>2, <2>3, <2>4, <2>6 DEF Inv
<1> QED
  BY <1>5, <1>6, <1>7, <1>8
-----------------------------------------------------------------------------
(* The controller goes on with its command. *)

\* Nothing the workers have moves; the controller's command ends, or goes on.
LEMMA SameWork ==
  ASSUME Inv, UNCHANGED <<kind, log, pushed, open, pos, stage, regs, popped>>
  PROVE  WorkInv' /\ LogInv' /\ RegsInv' /\ HostInv'
<1>0. WorkInv /\ LogInv /\ RegsInv /\ HostInv
  BY Zenon DEF Inv
<1>1. WorkInv' /\ LogInv'
  BY <1>0, SameLog, Zenon DEF WorkInv
<1>2. RegsInv'
  BY <1>0, ZenonT(60) DEF RegsInv, Stands, Maker, Writer, Done
<1>3. HostInv'
  BY <1>0 DEF HostInv, Copies, Done
<1> QED
  BY <1>1, <1>2, <1>3

\* Handing a command to one more worker preserves the invariant.
LEMMA SendInv ==
  ASSUME Inv, NEW w \in Workers, SendThread(w) \/ SendProcess(w)
  PROVE  Inv'
<1>0. TypeOK /\ LiveInv /\ ReplyInv
  BY DEF Inv
<1>1. /\ mpc = "send" /\ next = w
      /\ UNCHANGED <<kind, log, live, regCount, freeRegs, pushed, open>>
      /\ UNCHANGED <<pos, stage, regs, popped, replies>>
  BY Zenon DEF SendThread, SendProcess, session, workers
<1>2. WorkInv' /\ LogInv' /\ RegsInv' /\ HostInv'
  BY <1>1, SameWork, Zenon
<1>3. \/ sent' = [sent EXCEPT ![w] = Len(log)] /\ next' = next + 1 /\ mpc' = mpc
      \/ stage[w] = "gone" /\ mpc' = "failed" /\ UNCHANGED <<next, sent>>
  BY Zenon DEF SendThread, SendProcess
<1>4. TypeOK'
  <2>1. /\ sent \in [Workers -> 0 .. Len(log)] /\ pos \in [Workers -> 0 .. Len(log)]
        /\ \A v \in Workers : pos[v] <= sent[v]
        /\ Len(log) \in 0 .. Len(log)
    BY <1>0, SMTT(60) DEF TypeOK
  <2>2. sent' \in [Workers -> 0 .. Len(log)] /\ \A v \in Workers : pos[v] <= sent'[v]
    BY <1>3, <2>1, SMTT(60)
  <2>3. next' \in 0 .. NumWorkers
    BY <1>0, <1>1, <1>3, DiscoAssumption, SMTT(60) DEF TypeOK, Workers
  <2>4. mpc' \in {"send", "failed"}
    BY <1>1, <1>3
  <2> QED
    BY <1>0, <1>1, <2>2, <2>3, <2>4 DEF TypeOK
<1>5. LiveInv'
  <2>1. mpc' = "send" => mpc = "send"
    BY <1>1
  <2> QED
    BY <1>0, <1>1, <2>1 DEF LiveInv, Stands, Maker, Writer, Command
<1>6. ReplyInv'
  <2>1. CASE mpc' = mpc
    <3>1. PhaseInv'
      BY <1>0, <1>1, <2>1, Zenon DEF ReplyInv, PhaseInv, Command
    <3>2. ClosedInv'
      BY <1>0, <1>1, <2>1, Zenon DEF ReplyInv, ClosedInv
    <3>3. AnsweredInv'
      BY <1>0, <1>1, <2>1, Zenon DEF ReplyInv, AnsweredInv, Done
    <3>4. RepliesInv'
      BY <1>0, <1>1, <2>1, Zenon DEF ReplyInv, RepliesInv, Command
    <3> QED
      BY <3>1, <3>2, <3>3, <3>4, Zenon DEF ReplyInv
  <2>2. CASE stage[w] = "gone" /\ mpc' = "failed"
    <3>1. ~ open
      BY <1>0, <2>2 DEF ReplyInv, ClosedInv
    <3>2. Command.op \notin {"sync", "debug"} /\ Len(log) > 0
      BY <1>0, <1>1, <3>1, Zenon DEF ReplyInv, PhaseInv
    <3>3. \A v \in Workers : replies[v] = {}
      BY <1>0, <3>2, Zenon DEF ReplyInv, RepliesInv, TypeOK
    <3>4. \A j \in 1 .. Len(log) : log[j].op \in {"sync", "debug"} =>
            log[j].target \in Workers /\ j <= Done(log[j].target)
      BY <1>0, <3>2 DEF ReplyInv, AnsweredInv, Command
    <3> QED
      <4>1. PhaseInv'
        BY <1>1, <2>2, <3>1, Zenon DEF ReplyInv, PhaseInv, Command
      <4>2. ClosedInv'
        BY <1>0, <1>1, Zenon DEF ReplyInv, ClosedInv
      <4>3. AnsweredInv'
        BY <1>1, <3>4, Zenon DEF ReplyInv, AnsweredInv, Done
      <4>4. RepliesInv'
        BY <1>1, <3>3, Zenon DEF ReplyInv, RepliesInv, Command
      <4> QED
        BY <4>1, <4>2, <4>3, <4>4 DEF ReplyInv
  <2> QED
    BY <1>3, <2>1, <2>2
<1> QED
  BY <1>2, <1>4, <1>5, <1>6 DEF Inv

\* The end of a broadcast or of a send preserves the invariant.
LEMMA SentInv ==
  ASSUME Inv, Sent
  PROVE  Inv'
<1>0. TypeOK /\ LogInv /\ LiveInv /\ ReplyInv
  BY DEF Inv
<1>1. /\ mpc = "send" /\ mpc' \in {"reply", "join", "idle"}
      /\ (mpc' = "reply") <=> (Command.op \in {"sync", "debug"})
      /\ (mpc' = "join") => (Command.op = "destroy")
      /\ UNCHANGED <<kind, log, regCount, pushed, open, next>>
      /\ UNCHANGED <<sent, pos, stage, regs, popped, replies>>
      /\ live' = IF Command.op \in {"func", "call"} THEN live \cup {Len(log)} ELSE live
      /\ freeRegs' = IF Command.op = "kill" THEN freeRegs \cup {Command.reg} ELSE freeRegs
  BY Zenon DEF Sent, workers
<1>2. WorkInv' /\ LogInv' /\ RegsInv' /\ HostInv'
  BY <1>1, SameWork, Zenon
<1>3. Len(log) \in Nat /\ Len(log) > 0 /\ Len(log) \in 1 .. Len(log)
  BY <1>0, <1>1, SMTT(60) DEF TypeOK, ReplyInv, PhaseInv
<1>4. Writer(Len(log)) => /\ Command.reg \in (1 .. regCount - 1) \ freeRegs
                          /\ \A d \in live : log[d].reg # Command.reg
  BY <1>0, <1>1, Zenon DEF LiveInv
<1>5. TypeOK'
  <2>1. live' \subseteq 1 .. Len(log)
    BY <1>0, <1>1, <1>3, Zenon DEF TypeOK
  <2>2. freeRegs' \subseteq 1 .. regCount - 1
    BY <1>0, <1>1, <1>4, Zenon DEF TypeOK, Writer, Command
  <2> QED
    BY <1>0, <1>1, <2>1, <2>2, Zenon DEF TypeOK
<1>6. LiveInv'
  <2>1. \A d \in live' : Stands(d, Len(log))
    BY <1>0, <1>1, <1>3, SMTT(60) DEF LiveInv, Stands, Maker, Command
  <2>2. \A d \in live' : log[d].reg \in (1 .. regCount - 1) \ freeRegs'
    <3>1. \A d \in live : log[d].reg \in (1 .. regCount - 1) \ freeRegs
      BY <1>0, Zenon DEF LiveInv
    <3>2. CASE Command.op = "kill"
      BY <1>1, <1>4, <3>1, <3>2, Zenon DEF Writer, Command
    <3>3. CASE Command.op \in {"func", "call"}
      BY <1>1, <1>4, <3>1, <3>3, Zenon DEF Writer, Command
    <3>4. CASE Command.op \notin {"func", "call", "kill"}
      BY <1>1, <3>1, <3>4, Zenon
    <3> QED
      BY <3>2, <3>3, <3>4, Zenon
  <2>3. \A c, d \in live' : c # d => log[c].reg # log[d].reg
    BY <1>0, <1>1, <1>4 DEF LiveInv, Writer, Command
  <2> QED
    BY <1>1, <2>1, <2>2, <2>3, ZenonT(60) DEF LiveInv, Stands, Maker, Writer
<1>7. ReplyInv'
  <2>1. CASE mpc' = "reply"
    <3>1. PhaseInv'
      BY <1>0, <1>1, <2>1, Zenon DEF ReplyInv, PhaseInv, Command
    <3>2. ClosedInv'
      BY <1>0, <1>1, <2>1, Zenon DEF ReplyInv, ClosedInv
    <3>3. AnsweredInv'
      BY <1>0, <1>1, <2>1, Zenon DEF ReplyInv, AnsweredInv, Done
    <3>4. RepliesInv'
      BY <1>0, <1>1, <2>1, Zenon DEF ReplyInv, RepliesInv, Command
    <3> QED
      BY <3>1, <3>2, <3>3, <3>4, Zenon DEF ReplyInv
  <2>2. CASE mpc' # "reply"
    <3>1. Command.op \notin {"sync", "debug"}
      BY <1>1, <2>2, Zenon
    <3>2. \A v \in Workers : replies[v] = {}
      BY <1>0, <3>1 DEF ReplyInv, RepliesInv, TypeOK
    <3>3. \A j \in 1 .. Len(log) : log[j].op \in {"sync", "debug"} =>
            log[j].target \in Workers /\ j <= Done(log[j].target)
      BY <1>0, <3>1, Zenon DEF ReplyInv, AnsweredInv, Command
    <3>4. mpc' = "join" => ~ open
      BY <1>0, <1>1, <1>3, Zenon DEF ReplyInv, ClosedInv, Command
    <3> QED
      <4>1. PhaseInv'
        BY <1>0, <1>1, <2>2, <3>4, Zenon DEF ReplyInv, PhaseInv, Command
      <4>2. ClosedInv'
        BY <1>0, <1>1, Zenon DEF ReplyInv, ClosedInv
      <4>3. AnsweredInv'
        BY <1>1, <3>3, Zenon DEF ReplyInv, AnsweredInv, Done
      <4>4. RepliesInv'
        BY <1>1, <3>2 DEF ReplyInv, RepliesInv, Command
      <4> QED
        BY <4>1, <4>2, <4>3, <4>4 DEF ReplyInv
  <2> QED
    BY <2>1, <2>2
<1> QED
  BY <1>2, <1>5, <1>6, <1>7 DEF Inv

\* Taking a reply (RecvReplyPacked) preserves the invariant.
LEMMA RecvReplyInv ==
  ASSUME Inv, NEW w \in Workers, RecvReply(w)
  PROVE  Inv'
<1>0. TypeOK /\ LiveInv /\ ReplyInv
  BY Zenon DEF Inv
<1>1. PICK i \in replies[w] : replies' = [replies EXCEPT ![w] = @ \ {i}]
  BY Zenon DEF RecvReply
<1>2. /\ mpc = "reply" /\ w = Command.target
      /\ mpc' = IF Command.peek # 0 THEN "peek" ELSE "idle"
      /\ UNCHANGED <<kind, log, live, regCount, freeRegs, pushed, open>>
      /\ UNCHANGED <<next, sent, pos, stage, regs, popped>>
  BY Zenon DEF RecvReply, session
<1>3. WorkInv' /\ LogInv' /\ RegsInv' /\ HostInv'
  BY <1>2, SameWork
<1>4. TypeOK'
  <2>1. replies' \in [Workers -> SUBSET (1 .. Len(log))]
    BY <1>0, <1>1, Zenon DEF TypeOK
  <2> QED
    BY <1>0, <1>2, <2>1, Zenon DEF TypeOK
<1>5. LiveInv'
  BY <1>0, <1>2, ZenonT(60) DEF LiveInv, Stands, Maker, Writer, Command
<1>6. ReplyInv'
  <2>1. /\ i = Len(log) /\ pos[w] = i /\ stage[w] # "exec" /\ Command.op \in {"sync", "debug"}
        /\ Len(log) \in Nat /\ Len(log) > 0
    BY <1>0, <1>1, <1>2, SMTT(60) DEF ReplyInv, PhaseInv, RepliesInv, TypeOK
  <2>2. \A v \in Workers : replies'[v] = {}
    <3>1. \A v \in Workers : \A j \in replies[v] : j = i /\ v = w
      BY <1>0, <1>2, <2>1, Zenon DEF ReplyInv, RepliesInv
    <3> QED
      BY <1>0, <1>1, <3>1, Zenon DEF TypeOK
  <2>3. \A j \in 1 .. Len(log) : log[j].op \in {"sync", "debug"} =>
          log[j].target \in Workers /\ j <= Done(log[j].target)
    <3> SUFFICES ASSUME NEW j \in 1 .. Len(log), log[j].op \in {"sync", "debug"}
                 PROVE  log[j].target \in Workers /\ j <= Done(log[j].target)
      BY Zenon
    <3>1. CASE j = Len(log)
      <4>1. log[j].target = w
        BY <1>2, <3>1, Zenon DEF Command
      <4>2. Done(w) = pos[w]
        BY <2>1, Zenon DEF Done
      <4>3. j <= Done(w)
        BY <2>1, <3>1, <4>2
      <4> QED
        BY <4>1, <4>3, Zenon
    <3>2. CASE j # Len(log)
      BY <1>0, <3>2, Zenon DEF ReplyInv, AnsweredInv
    <3> QED
      BY <3>1, <3>2, Zenon
  <2> QED
    <3>1. PhaseInv'
      BY <1>0, <1>2, <2>1, Zenon DEF ReplyInv, PhaseInv, Command
    <3>2. ClosedInv'
      BY <1>0, <1>2, Zenon DEF ReplyInv, ClosedInv
    <3>3. AnsweredInv'
      BY <1>2, <2>3, Zenon DEF ReplyInv, AnsweredInv, Done
    <3>4. RepliesInv'
      BY <2>2, Zenon DEF ReplyInv, RepliesInv, Command
    <3> QED
      BY <3>1, <3>2, <3>3, <3>4, Zenon DEF ReplyInv
<1> QED
  BY <1>3, <1>4, <1>5, <1>6 DEF Inv

\* Looking at a worker's register (DebugGetFromRemote) preserves the invariant.
LEMMA PeekInv ==
  ASSUME Inv, Peek
  PROVE  Inv'
<1>0. TypeOK /\ LiveInv /\ ReplyInv
  BY DEF Inv
<1>1. /\ mpc = "peek" /\ mpc' = "idle"
      /\ UNCHANGED <<kind, log, live, regCount, freeRegs, pushed, open>>
      /\ UNCHANGED <<next, sent, pos, stage, regs, popped, replies>>
  BY Zenon DEF Peek, session, workers
<1>2. WorkInv' /\ LogInv' /\ RegsInv' /\ HostInv'
  BY <1>1, SameWork, Zenon
<1>3. TypeOK'
  BY <1>0, <1>1, Zenon DEF TypeOK
<1>4. LiveInv'
  BY <1>0, <1>1, ZenonT(60) DEF LiveInv, Stands, Maker, Writer, Command
<1>5. ReplyInv'
  <2>1. PhaseInv'
    BY <1>0, <1>1, Zenon DEF ReplyInv, PhaseInv, Command
  <2>2. ClosedInv'
    BY <1>0, <1>1, Zenon DEF ReplyInv, ClosedInv
  <2>3. AnsweredInv'
    BY <1>0, <1>1, Zenon DEF ReplyInv, AnsweredInv, Done
  <2>4. RepliesInv'
    BY <1>0, <1>1 DEF ReplyInv, RepliesInv, Command
  <2> QED
    BY <2>1, <2>2, <2>3, <2>4 DEF ReplyInv
<1> QED
  BY <1>2, <1>3, <1>4, <1>5 DEF Inv

\* Joining the workers when the session ends preserves the invariant.
LEMMA JoinInv ==
  ASSUME Inv, Join
  PROVE  Inv'
<1>0. TypeOK /\ WorkInv /\ LogInv /\ LiveInv /\ ReplyInv /\ HostInv
  BY Zenon DEF Inv
<1>1. /\ mpc = "join" /\ mpc' = "done" /\ stage' = [v \in Workers |-> "gone"]
      /\ \A v \in Workers : IsThread(v) => stage[v] = "gone"
      /\ UNCHANGED <<kind, log, live, regCount, freeRegs, pushed, open>>
      /\ UNCHANGED <<next, sent, pos, regs, popped, replies>>
  BY Zenon DEF Join, session
<1>2. TypeOK'
  BY <1>0, <1>1, Zenon DEF TypeOK
<1>3. WorkInv' /\ RegsInv'
  BY <1>1, Zenon DEF WorkInv, RegsInv
<1>4. LogInv'
  BY <1>0, <1>1, SameLog, Zenon
<1>5. LiveInv'
  BY <1>0, <1>1, ZenonT(60) DEF LiveInv, Stands, Maker, Writer, Command
<1>6. ~ open
  BY <1>0, <1>1, Zenon DEF ReplyInv, PhaseInv
<1>7. ReplyInv'
  <2>1. \A v \in Workers : /\ Done(v)' = pos[v] /\ Done(v) \in Int
                            /\ Done(v) <= pos[v] /\ pos[v] \in Nat
    BY <1>0, <1>1, WorkerFacts, Zenon DEF Done
  <2>2. \A j \in 1 .. Len(log) : log[j].op \in {"sync", "debug"} =>
          log[j].target \in Workers /\ j <= pos[log[j].target]
    <3> SUFFICES ASSUME NEW j \in 1 .. Len(log), log[j].op \in {"sync", "debug"}
                 PROVE  log[j].target \in Workers /\ j <= pos[log[j].target]
      BY Zenon
    <3>1. mpc \notin {"send", "reply"}
      BY <1>1
    <3>2. log[j].target \in Workers /\ j <= Done(log[j].target)
      BY <1>0, <3>1, Zenon DEF ReplyInv, AnsweredInv
    <3>3. PICK v \in Workers : v = log[j].target /\ j <= Done(v)
      BY <3>2, Zenon
    <3>4. j <= pos[v]
      BY <2>1, <3>3
    <3> QED
      BY <3>3, <3>4, Zenon
  <2>3. \A v \in Workers : replies[v] = {}
    BY <1>0, <1>1, Zenon DEF ReplyInv, RepliesInv, TypeOK
  <2> QED
    <3>1. PhaseInv'
      BY <1>1, <1>6, Zenon DEF ReplyInv, PhaseInv, Command
    <3>2. ClosedInv'
      BY <1>1, <1>6, Zenon DEF ReplyInv, ClosedInv
    <3>3. AnsweredInv'
      BY <1>1, <2>2, Zenon DEF ReplyInv, AnsweredInv, Done
    <3>4. RepliesInv'
      BY <1>1, <2>3, Zenon DEF ReplyInv, RepliesInv, Command
    <3> QED
      BY <3>1, <3>2, <3>3, <3>4 DEF ReplyInv
<1>8. HostInv'
  <2>1. 0 \in Workers
    BY DiscoAssumption DEF Workers
  <2>2. stage[0] = "gone" /\ stage'[0] = "gone"
    BY <1>1, <2>1 DEF IsThread
  <2> QED
    BY <1>0, <1>1, <2>2 DEF HostInv, Copies, Done
<1> QED
  BY <1>2, <1>3, <1>4, <1>5, <1>7, <1>8 DEF Inv

\* A call that throws with its register allocated preserves the invariant.
LEMMA UnsupportedInv ==
  ASSUME Inv, CallUnsupported
  PROVE  Inv'
<1>0. TypeOK /\ LiveInv /\ ReplyInv
  BY DEF Inv
<1>1. PICK r \in 1 .. kind.commands : Allocate(r)
  BY Zenon DEF CallUnsupported
<1>2. /\ mpc = "idle" /\ UNCHANGED <<kind, log, live, pushed, open, mpc, next>>
      /\ UNCHANGED <<sent, pos, stage, regs, popped, replies>>
  BY Zenon DEF CallUnsupported, control, workers
<1>3. /\ regCount' \in Nat \ {0} /\ freeRegs' \subseteq 1 .. regCount' - 1
      /\ \A d \in live : log[d].reg \in (1 .. regCount' - 1) \ freeRegs'
  BY <1>0, <1>1, AllocateFresh, Zenon
<1>4. WorkInv' /\ LogInv' /\ RegsInv' /\ HostInv'
  BY <1>2, SameWork, Zenon
<1>5. TypeOK'
  BY <1>0, <1>2, <1>3, Zenon DEF TypeOK
<1>6. LiveInv'
  BY <1>0, <1>2, <1>3 DEF LiveInv, Stands, Maker, Writer
<1>7. ReplyInv'
  <2>1. PhaseInv'
    BY <1>0, <1>2 DEF ReplyInv, PhaseInv, Command
  <2>2. ClosedInv'
    BY <1>0, <1>2, Zenon DEF ReplyInv, ClosedInv
  <2>3. AnsweredInv'
    BY <1>0, <1>2, Zenon DEF ReplyInv, AnsweredInv, Done
  <2>4. RepliesInv'
    BY <1>0, <1>2 DEF ReplyInv, RepliesInv, Command
  <2> QED
    BY <2>1, <2>2, <2>3, <2>4 DEF ReplyInv
<1> QED
  BY <1>4, <1>5, <1>6, <1>7, Zenon DEF Inv
-----------------------------------------------------------------------------
\* A new session satisfies the invariant.
LEMMA InitInv ==
  ASSUME Init
  PROVE  Inv
<1>1. /\ kind \in Sessions /\ log = <<>> /\ Len(log) = 0 /\ live = {} /\ mpc = "idle" /\ open
      /\ \A w \in Workers : pos[w] = 0 /\ stage[w] = "recv" /\ replies[w] = {}
      /\ pushed = 0 /\ popped = 0
  BY Zenon DEF Init
<1>2. kind.commands \in Nat
  BY <1>1, DiscoAssumption, Zenon
<1>3. TypeOK
  BY <1>2, DiscoAssumption, SMTT(60) DEF Init, TypeOK
<1>4. WorkInv /\ LogInv /\ LiveInv /\ RegsInv
  BY <1>1 DEF WorkInv, LogInv, LiveInv, RegsInv
<1>5. ReplyInv
  <2>1. PhaseInv
    BY <1>1, Zenon DEF ReplyInv, PhaseInv, Command
  <2>2. ClosedInv
    BY <1>1, SMTT(60) DEF ReplyInv, ClosedInv
  <2>3. AnsweredInv
    BY <1>1, SMTT(60) DEF ReplyInv, AnsweredInv, Done
  <2>4. RepliesInv
    BY <1>1, Zenon DEF ReplyInv, RepliesInv, Command
  <2> QED
    BY <2>1, <2>2, <2>3, <2>4, Zenon DEF ReplyInv
<1>6. HostInv
  BY <1>1 DEF HostInv, Copies
<1> QED
  BY <1>3, <1>4, <1>5, <1>6, Zenon DEF Inv

\* Every step preserves the invariant.
LEMMA StepInv ==
  ASSUME Inv, [Next]_vars
  PROVE  Inv'
<1>1. CASE Client
  <2>1. CallUnsupported \/ \E e : Fresh(e)
    BY <1>1, ClientFresh DEF Inv
  <2> QED
    BY <2>1, UnsupportedInv, IssueInv
<1>2. CASE Controller
  BY <1>2, SendInv, SentInv, RecvReplyInv, PeekInv, JoinInv, Zenon DEF Controller
<1>3. ASSUME NEW w \in Workers, Worker(w) PROVE Inv'
  BY <1>3, RecvInv, ExecuteInv, Zenon DEF Worker
<1>4. CASE UNCHANGED vars
  <2>1. /\ UNCHANGED <<kind, log, live, regCount, freeRegs, pushed, open, mpc, next>>
        /\ UNCHANGED <<sent, pos, stage, regs, popped, replies>>
    BY <1>4, Zenon DEF vars, session, control, workers
  <2>2. WorkInv' /\ LogInv' /\ RegsInv' /\ HostInv'
    BY <2>1, SameWork, Zenon
  <2>3. TypeOK'
    BY <2>1 DEF Inv, TypeOK
  <2>4. LiveInv'
    BY <2>1, SameLive DEF Inv
  <2>5. ReplyInv'
    <3>1. PhaseInv'
      BY <2>1, Zenon DEF Inv, ReplyInv, PhaseInv, Command
    <3>2. ClosedInv'
      BY <2>1, Zenon DEF Inv, ReplyInv, ClosedInv
    <3>3. AnsweredInv'
      BY <2>1, Zenon DEF Inv, ReplyInv, AnsweredInv, Done
    <3>4. RepliesInv'
      BY <2>1 DEF Inv, ReplyInv, RepliesInv, Command
    <3> QED
      BY <3>1, <3>2, <3>3, <3>4, Zenon DEF ReplyInv
  <2> QED
    BY <2>2, <2>3, <2>4, <2>5, Zenon DEF Inv
<1> QED
  BY <1>1, <1>2, <1>3, <1>4, Zenon DEF Next

\* The inductive invariant holds in every state of a session.
THEOREM DiscoInvariant == Safety => []Inv
<1>1. Init => Inv
  BY InitInv
<1>2. Inv /\ [Next]_vars => Inv'
  BY StepInv
<1> QED
  BY <1>1, <1>2, PTL DEF Safety

\* A command finds the object of every DRef it names, on every worker, however
\* far the workers lag behind and however often a register was reused
\* (AllocateReg, DeallocReg, MainLoop).
THEOREM DiscoOperandsMatch == Safety => []OperandsMatch
<1>1. Inv => OperandsMatch
  <2> SUFFICES ASSUME Inv, NEW w \in Workers, stage[w] = "exec", NEW d \in log[pos[w]].args
               PROVE  regs[w][log[d].reg] = d
    BY Zenon DEF OperandsMatch
  <2>1. pos[w] \in 1 .. Len(log) /\ Done(w) = pos[w] - 1 /\ Len(log) \in Nat
    BY SMTT(60) DEF Inv, WorkInv, Done, TypeOK
  <2>2. Stands(d, pos[w] - 1)
    BY <2>1, Zenon DEF Inv, LogInv, Names
  <2>3. d \in 1 .. Len(log)
    BY <2>1, <2>2, SMTT(60) DEF Stands
  <2> QED
    BY <2>1, <2>2, <2>3, Zenon DEF Inv, RegsInv
<1> QED
  BY <1>1, DiscoInvariant, PTL

\* Worker 0 takes the host array its copy command came with (AppendHostTensor,
\* GetTensorFromHost).
THEOREM DiscoHostArraysMatch == Safety => []HostArraysMatch
<1>1. Inv => HostArraysMatch
  BY HostOfCopy, Zenon DEF Inv, HostArraysMatch
<1> QED
  BY <1>1, DiscoInvariant, PTL

\* A reply answers the command that was just sent (SyncWorker).
THEOREM DiscoRepliesMatch == Safety => []RepliesMatch
<1>1. Inv => RepliesMatch
  BY Zenon DEF Inv, ReplyInv, RepliesInv, RepliesMatch
<1> QED
  BY <1>1, DiscoInvariant, PTL

\* The controller looks at a register of a worker thread only while the thread
\* is at rest, and finds the object asked for (DebugGetFromRemote).
THEOREM DiscoPeekExclusive == Safety => []PeekExclusive
<1>1. Inv => PeekExclusive
  <2> SUFFICES ASSUME Inv, mpc = "peek"
               PROVE  /\ Pending(Command.target) = {} /\ stage[Command.target] # "exec"
                      /\ regs[Command.target][log[Command.peek].reg] = Command.peek
    BY DEF PeekExclusive
  <2>0. TypeOK /\ LogInv /\ RegsInv /\ ReplyInv
    BY Zenon DEF Inv
  <2>1. Len(log) \in Nat /\ Len(log) \in 1 .. Len(log) /\ Command.peek # 0 /\ open
    BY <2>0, SMTT(60) DEF ReplyInv, PhaseInv, TypeOK
  <2>2. PICK w \in Workers : w = Command.target /\ Len(log) <= Done(w)
    BY <2>0, <2>1, Zenon DEF ReplyInv, PhaseInv, AnsweredInv, Command
  <2>3. pos[w] = Len(log) /\ stage[w] # "exec" /\ Done(w) = Len(log)
    BY <2>0, <2>1, <2>2, WorkerFacts, SMTT(60) DEF Done
  <2>4. Pending(w) = {}
    BY <2>0, <2>1, <2>3, WorkerFacts DEF Pending
  <2>5. stage[w] # "gone"
    BY <2>0, <2>1 DEF ReplyInv, ClosedInv
  <2>6. Command.peek \in Names(log[Len(log)])
    BY <2>1, Zenon DEF Names, Command
  <2>7. Stands(Command.peek, Len(log) - 1)
    BY <2>0, <2>1, <2>6, Zenon DEF LogInv
  <2>8. ~ Writer(Len(log))
    BY <2>0, Zenon DEF ReplyInv, PhaseInv, Writer, Command
  <2>9. Stands(Command.peek, Len(log)) /\ Command.peek \in 1 .. Len(log)
    BY <2>1, <2>7, <2>8 DEF Stands
  <2> QED
    BY <2>0, <2>2, <2>3, <2>4, <2>5, <2>9, Zenon DEF RegsInv
<1> QED
  BY <1>1, DiscoInvariant, PTL
\* A session stays well formed: a free register is one that was counted, no worker
\* is ahead of what was sent to it, and no register or reply names a command that
\* was not issued.
THEOREM DiscoTypes == Safety => []TypeOK
<1>1. Inv => TypeOK
  BY Zenon DEF Inv
<1> QED
  BY <1>1, DiscoInvariant, PTL
=============================================================================
