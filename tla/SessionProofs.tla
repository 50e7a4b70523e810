--------------------------- MODULE SessionProofs ---------------------------
(***************************************************************************)
(* Proofs about the main loops and the debug stub (modules Session and     *)
(* DebugServer), for every number of debuggers, size of program, slice,    *)
(* number of packets on the way and commands in the queue.                 *)
(***************************************************************************)
EXTENDS MCSession, FiniteSetTheorems, TLAPS

USE SessionAssumption, StubAssumption DEF SessionAssumption, StubAssumption

Stub == [client : Clients \cup {NoClient}, halted : BOOLEAN, breakpoints : SUBSET Words,
         skip : BOOLEAN, rx : Seq(Requests)]
Target == [pc : Words, lid : {"open", "shut"}, cycles : Nat \cup {Uncounted}]

StubTyped ==
  /\ stub \in Stub /\ (stub.client = NoClient => stub.rx = <<>>)
  /\ machine \in Target
  /\ link \in [Clients -> {"away", "knocking", "open", "shut"}]
  /\ sent \in [Clients -> Seq(Requests)]
  /\ stops \in [Clients -> Nat]
  /\ view \in [Clients -> {"stopped", "running"}]
-----------------------------------------------------------------------------
(* The machine. *)

(* Time passes, where it is counted.                                       *)
LEMMA LaterTyped ==
  ASSUME NEW t \in Nat \cup {Uncounted}, NEW n \in Nat
  PROVE  /\ Later(t, n) \in Nat \cup {Uncounted}
         /\ t \in Nat => Later(t, n) = t + n
  BY DEF Later, Uncounted

(* An instruction keeps the type of the target,                            *)
LEMMA StepTyped ==
  ASSUME NEW m \in Target, NEW cost \in Costs
  PROVE  /\ Stepped(m, cost) \in Target
         /\ m.cycles \in Nat => Stepped(m, cost).cycles = m.cycles + cost
<1>1. (m.pc + 1) % Size \in Words
  BY DEF Target, Words
<1>2. cost \in Nat
  BY DEF Costs
<1>3. /\ Later(m.cycles, cost) \in Nat \cup {Uncounted}
      /\ m.cycles \in Nat => Later(m.cycles, cost) = m.cycles + cost
  BY <1>2, LaterTyped DEF Target
<1> QED
  BY <1>1, <1>3 DEF Target, Stepped

(* a run of them, which takes what was asked for or goes over it by less   *)
(* than the last,                                                          *)
LEMMA RunTyped ==
  ASSUME NEW m \in Target, NEW n \in Nat, NEW next \in Run(m, n)
  PROVE  /\ next \in Target
         /\ m.cycles \in Nat =>
              /\ next.cycles \in Nat
              /\ next.cycles >= m.cycles + n /\ next.cycles <= m.cycles + n + (Longest - 1)
<1>1. CASE n = 0
  <2>1. next = m
    BY <1>1 DEF Run
  <2> QED
    BY <1>1, <2>1 DEF Target
<1>2. CASE n # 0
  <2>1. PICK r \in [k : 1 .. n, before : 0 .. n - 1, last : Costs] :
          /\ r.before + r.last >= n
          /\ next = [m EXCEPT !.pc = (@ + r.k) % Size, !.cycles = Later(@, r.before + r.last)]
    BY <1>2 DEF Run
  <2> DEFINE t == r.before + r.last
  <2>2. t \in Nat /\ t >= n /\ t <= n + (Longest - 1)
    BY <2>1 DEF Costs
  <2>3. (m.pc + r.k) % Size \in Words
    BY <2>1 DEF Target, Words
  <2>4. next = [m EXCEPT !.pc = (@ + r.k) % Size, !.cycles = Later(@, t)]
    BY <2>1
  <2> HIDE DEF t
  <2>5. /\ Later(m.cycles, t) \in Nat \cup {Uncounted}
        /\ m.cycles \in Nat => Later(m.cycles, t) = m.cycles + t
    BY <2>2, LaterTyped DEF Target
  <2>6. next \in Target /\ next.cycles = Later(m.cycles, t)
    BY <2>3, <2>4, <2>5 DEF Target
  <2> QED
    BY <2>2, <2>5, <2>6
<1> QED
  BY <1>1, <1>2

(* and a command of the user.                                              *)
LEMMA MovesTyped ==
  ASSUME NEW command, machine \in Target, stored \in {"open", "shut"}, Moves(command, machine')
  PROVE  machine' \in Target
<1>1. CASE command = "step"
  BY <1>1, StepTyped DEF Moves
<1>2. CASE command = "reset"
  <2>1. 0 \in Words
    BY DEF Words
  <2> QED
    BY <1>2, <2>1 DEF Moves, Target
<1>3. CASE command = "load"
  BY <1>3 DEF Moves, Target
<1>4. CASE command \in {"open", "close"}
  BY <1>4 DEF Moves, Target
<1>5. CASE command \notin {"step", "reset", "load", "open", "close"}
  BY <1>5 DEF Moves
<1> QED
  BY <1>1, <1>2, <1>3, <1>4, <1>5

(* The lid stops nothing. *)
LEMMA LidMoves ==
  ASSUME NEW command, machine \in Target, command \notin {"step", "reset", "load"},
         Moves(command, machine')
  PROVE  machine'.pc = machine.pc /\ machine'.cycles = machine.cycles
  BY DEF Moves, Target
-----------------------------------------------------------------------------
(* The stub. *)

(* The head and the tail of a queue.                                       *)
LEMMA Heads ==
  ASSUME NEW q \in Seq(Requests), q # <<>>
  PROVE  Head(q) \in Requests /\ Tail(q) \in Seq(Requests) /\ Head(q) = q[1]
         /\ Len(Tail(q)) = Len(q) - 1 /\ \A i \in 1 .. Len(q) - 1 : Tail(q)[i] = q[i + 1]
  OBVIOUS

(* What is left when a request is taken.                                   *)
LEMMA TakenTyped ==
  ASSUME stub \in Stub, stub.rx # <<>>
  PROVE  /\ Taken \in Stub /\ Taken.rx = Tail(stub.rx)
         /\ Taken.client = stub.client /\ Taken.halted = stub.halted
         /\ Taken.breakpoints = stub.breakpoints /\ Taken.skip = stub.skip
  BY Heads DEF Stub, Taken

(* What handling one item does, by the kind of the item.                   *)
LEMMA Items ==
  ASSUME StubTyped, stub.rx # <<>>, Handle(Head(stub.rx)), NEW kind, kind = Head(stub.rx).kind
  PROVE  /\ stub.client \in Clients /\ stub.rx # <<>>
         /\ kind \in {"continue", "step", "interrupt", "detach", "insert", "remove"}
         /\ kind = "continue" => Resume
         /\ kind = "step" => SingleStep
         /\ kind = "interrupt" => Interrupt
         /\ kind = "detach" => Detach(stub)
         /\ kind \in {"insert", "remove"} => \E set \in SUBSET Words : HandleBreakpoint(set)
<1> DEFINE r == Head(stub.rx)
<1>1. stub.rx # <<>> /\ stub.client \in Clients /\ r \in Requests
  BY Heads DEF StubTyped, Stub
<1>2. r.kind \in {"continue", "step", "interrupt", "detach", "insert", "remove"}
  BY <1>1 DEF Requests
<1>3. Handle(r)
  OBVIOUS
<1>4. r.kind \in {"insert", "remove"} => r.address \in Words
  BY <1>1 DEF Requests
<1>5. stub.breakpoints \in SUBSET Words
  BY DEF StubTyped, Stub
<1> HIDE DEF r
<1>6. r.kind = "insert" => HandleBreakpoint(stub.breakpoints \cup {r.address})
  BY <1>3 DEF Handle
<1>7. r.kind = "remove" => HandleBreakpoint(stub.breakpoints \ {r.address})
  BY <1>3 DEF Handle
<1>8. /\ stub.breakpoints \ {r.address} \in SUBSET Words
      /\ r.kind = "insert" => stub.breakpoints \cup {r.address} \in SUBSET Words
  BY <1>4, <1>5
<1>9. r.kind \in {"insert", "remove"} => \E set \in SUBSET Words : HandleBreakpoint(set)
  BY <1>6, <1>7, <1>8, Zenon
<1>10. /\ r.kind = "continue" => Resume
       /\ r.kind = "step" => SingleStep
       /\ r.kind = "interrupt" => Interrupt
       /\ r.kind = "detach" => Detach(stub)
  BY <1>3 DEF Handle
<1> QED
  BY <1>1, <1>2, <1>9, <1>10 DEF r

(* A connection that is lost: b is the stub that had it.                   *)
LEMMA LeftTyped ==
  ASSUME NEW b \in Stub
  PROVE  /\ Left(b) \in Stub /\ Left(b).client = NoClient /\ Left(b).rx = <<>>
         /\ Left(b).skip = b.skip /\ ~Left(b).halted
<1>1. <<>> \in Seq(Requests)
  OBVIOUS
<1> QED
  BY <1>1 DEF Left, Stub

(* What is under way with it goes too.                                     *)
LEMMA ForgetTyped ==
  ASSUME StubTyped, NEW d \in Clients, Forget(d)
  PROVE  /\ link' \in [Clients -> {"away", "knocking", "open", "shut"}]
         /\ sent' \in [Clients -> Seq(Requests)]
         /\ stops' \in [Clients -> Nat] /\ view' \in [Clients -> {"stopped", "running"}]
         /\ sent'[d] = <<>> /\ stops'[d] = 0 /\ view'[d] = "stopped"
         /\ \A c \in Clients : c # d =>
              sent'[c] = sent[c] /\ stops'[c] = stops[c] /\ view'[c] = view[c]
<1>1. <<>> \in Seq(Requests)
  OBVIOUS
<1> QED
  BY <1>1 DEF Forget, StubTyped

(* What is left of the stub and the machine when a write fails.            *)
LEMMA CutOffs ==
  ASSUME StubTyped, stub.rx # <<>>, HandleCutOff(Head(stub.rx))
  PROVE  /\ stub.client \in Clients /\ Forget(stub.client)
         /\ stub' \in Stub /\ stub'.client = NoClient /\ stub'.rx = <<>>
         /\ machine' = machine \/ \E cost \in Costs : machine' = Stepped(machine, cost)
         /\ \/ fresh' = TRUE /\ stub'.skip = TRUE
            \/ fresh' = FALSE
            \/ fresh' = fresh /\ stub'.skip = stub.skip
<1> DEFINE r == Head(stub.rx)
           b == Left(stub)
<1>1. stub \in Stub /\ stub.client \in Clients /\ r \in Requests
  BY Heads DEF StubTyped, Stub
<1>2. /\ r.kind \in {"continue", "step", "interrupt", "detach", "insert", "remove"}
      /\ r.kind = "insert" => r.address \in Words
  BY <1>1 DEF Requests
<1>3. b \in Stub /\ b.client = NoClient /\ b.rx = <<>> /\ b.skip = stub.skip
  BY <1>1, LeftTyped
<1>4. Forget(stub.client)
  BY DEF HandleCutOff, CutOff
<1> HIDE DEF r
<1>5. CASE r.kind = "continue"
  <2>1. stub' = [b EXCEPT !.skip = TRUE] /\ fresh' = TRUE /\ machine' = machine
    BY <1>5 DEF HandleCutOff, r
  <2> HIDE DEF b
  <2> QED
    BY <1>1, <1>3, <1>4, <2>1 DEF Stub
<1>6. CASE r.kind = "step"
  <2>1. stub' = b /\ fresh' = FALSE /\ \E cost \in Costs : machine' = Stepped(machine, cost)
    BY <1>6 DEF HandleCutOff, r
  <2> HIDE DEF b
  <2> QED
    BY <1>1, <1>3, <1>4, <2>1
<1>7. CASE r.kind \in {"interrupt", "detach", "remove"}
  <2>1. stub' = b /\ fresh' = fresh /\ machine' = machine
    BY <1>7 DEF HandleCutOff, r
  <2> HIDE DEF b
  <2> QED
    BY <1>1, <1>3, <1>4, <2>1
<1>8. CASE r.kind = "insert"
  <2>1. /\ fresh' = fresh /\ machine' = machine
        /\ \E set \in {{}, {r.address}} : stub' = [b EXCEPT !.breakpoints = set]
    BY <1>8 DEF HandleCutOff, r
  <2> HIDE DEF b
  <2>2. PICK set \in SUBSET Words : stub' = [b EXCEPT !.breakpoints = set]
    BY <1>2, <1>8, <2>1
  <2>3. stub' \in Stub /\ stub'.client = NoClient /\ stub'.rx = <<>> /\ stub'.skip = b.skip
    BY <1>3, <2>2 DEF Stub
  <2> QED
    BY <1>1, <1>3, <1>4, <2>1, <2>3
<1> QED
  BY <1>2, <1>5, <1>6, <1>7, <1>8
-----------------------------------------------------------------------------
(* Requests to resume. *)
IsResume(r) == r.kind \in {"continue", "step"}
Asks(q) == \E i \in 1 .. Len(q) : IsResume(q[i])
Once(q) == \A i, j \in 1 .. Len(q) : IsResume(q[i]) /\ IsResume(q[j]) => i = j

(* Nobody asks in an empty queue.                                          *)
LEMMA NobodyAsks == ~Asks(<<>>) /\ Once(<<>>)
  BY DEF Asks, Once

(* Who asks in the tail of a queue,                                        *)
LEMMA AsksTail ==
  ASSUME NEW q \in Seq(Requests), q # <<>>, Once(q)
  PROVE  /\ Once(Tail(q))
         /\ Asks(Tail(q)) => Asks(q)
         /\ ~IsResume(Head(q)) /\ Asks(q) => Asks(Tail(q))
         /\ IsResume(Head(q)) => Asks(q) /\ ~Asks(Tail(q))
<1> DEFINE t == Tail(q)
<1>1. Head(q) = q[1] /\ Len(t) = Len(q) - 1 /\ Len(q) \in Nat \ {0}
      /\ \A i \in 1 .. Len(q) - 1 : t[i] = q[i + 1]
  BY Heads
<1> HIDE DEF t
<1>2. \A i \in 1 .. Len(t) : i + 1 \in 1 .. Len(q) /\ t[i] = q[i + 1] /\ i + 1 # 1
  BY <1>1
<1>3. 1 \in 1 .. Len(q)
  BY <1>1
<1>4. Once(t)
  <2> SUFFICES ASSUME NEW i \in 1 .. Len(t), NEW j \in 1 .. Len(t), IsResume(t[i]), IsResume(t[j])
               PROVE  i = j
    BY DEF Once
  <2>1. i + 1 = j + 1
    BY <1>2 DEF Once
  <2> QED
    BY <1>1, <2>1
<1>5. Asks(t) => Asks(q)
  BY <1>2 DEF Asks
<1>6. IsResume(Head(q)) => Asks(q) /\ ~Asks(t)
  BY <1>1, <1>2, <1>3 DEF Asks, Once
<1>7. ~IsResume(Head(q)) /\ Asks(q) => Asks(t)
  <2> SUFFICES ASSUME ~IsResume(q[1]), NEW i \in 1 .. Len(q), IsResume(q[i]) PROVE Asks(t)
    BY <1>1 DEF Asks
  <2>1. i - 1 \in 1 .. Len(t) /\ t[i - 1] = q[i]
    BY <1>1
  <2> QED
    BY <2>1 DEF Asks
<1> QED
  BY <1>4, <1>5, <1>6, <1>7 DEF t

(* and in a longer one.                                                    *)
LEMMA AsksAppend ==
  ASSUME NEW q \in Seq(Requests), NEW r \in Requests, Once(q), ~(Asks(q) /\ IsResume(r))
  PROVE  Once(Append(q, r)) /\ (Asks(Append(q, r)) <=> Asks(q) \/ IsResume(r))
<1> DEFINE t == Append(q, r)
<1>1. Len(q) \in Nat /\ Len(t) = Len(q) + 1 /\ t[Len(q) + 1] = r
      /\ \A i \in 1 .. Len(q) : t[i] = q[i]
  OBVIOUS
<1> HIDE DEF t
<1>2. \A i \in 1 .. Len(t) : i \in 1 .. Len(q) \/ i = Len(q) + 1
  BY <1>1
<1>3. \A i \in 1 .. Len(q) : i \in 1 .. Len(t)
  BY <1>1
<1>4. Len(q) + 1 \in 1 .. Len(t)
  BY <1>1
<1>5. Asks(t) <=> Asks(q) \/ IsResume(r)
  BY <1>1, <1>2, <1>3, <1>4 DEF Asks
<1>6. Once(t)
  BY <1>1, <1>2 DEF Once, Asks
<1> QED
  BY <1>5, <1>6 DEF t
-----------------------------------------------------------------------------
(* A debugger's idea of its target agrees with the stub's: while the       *)
(* client believes it runs there is one resume on the way, or the target   *)
(* runs, or one stop reply is on the way, and otherwise none of them.      *)
Rx(c) == IF stub.client = c THEN stub.rx ELSE <<>>
Quiet(c) == stub.client = c => stub.halted

Lock(c) ==
  /\ Once(Rx(c)) /\ Once(sent[c]) /\ ~(Asks(Rx(c)) /\ Asks(sent[c]))
  /\ Asks(Rx(c)) \/ Asks(sent[c]) => view[c] = "running" /\ stops[c] = 0 /\ Quiet(c)
  /\ stops[c] # 0 => stops[c] = 1 /\ view[c] = "running" /\ Quiet(c)
  /\ ~Quiet(c) => view[c] = "running"
  /\ view[c] = "running" => Asks(Rx(c)) \/ Asks(sent[c]) \/ stops[c] # 0 \/ ~Quiet(c)

(* A target that runs is let off its breakpoint once after each resume.    *)
LetOff ==
  /\ fresh => stub.skip
  /\ stub.client # NoClient /\ ~stub.halted /\ stub.skip => fresh

StubInv == StubTyped /\ (\A c \in Clients : Lock(c)) /\ LetOff

(* A client whose packets are left alone stays in agreement.               *)
LEMMA LockStays ==
  ASSUME NEW c, Lock(c), Rx(c)' = Rx(c), Quiet(c)' <=> Quiet(c),
         sent'[c] = sent[c], stops'[c] = stops[c], view'[c] = view[c]
  PROVE  Lock(c)'
  BY DEF Lock

(* A connection lost keeps the invariant of the stub,                      *)
LEMMA ForgetKeeps ==
  ASSUME StubInv, NEW d \in Clients, Forget(d), stub.client \in {NoClient, d},
         stub' \in Stub, stub'.client = NoClient, stub'.rx = <<>>, machine' \in Target,
         fresh' => stub'.skip
  PROVE  StubInv'
<1>1. StubTyped /\ LetOff /\ \A c \in Clients : Lock(c)
  BY DEF StubInv
<1>2. StubTyped'
  BY <1>1, ForgetTyped DEF StubTyped
<1>3. LetOff'
  BY DEF LetOff
<1>4. ASSUME NEW c \in Clients PROVE Lock(c)'
  <2>1. Rx(c)' = <<>> /\ Quiet(c)'
    BY DEF Rx, Quiet
  <2>2. CASE c = d
    <3>1. sent'[c] = <<>> /\ stops'[c] = 0 /\ view'[c] = "stopped"
      BY <1>1, <2>2, ForgetTyped
    <3> QED
      BY <2>1, <3>1, NobodyAsks DEF Lock
  <2>3. CASE c # d
    <3>1. sent'[c] = sent[c] /\ stops'[c] = stops[c] /\ view'[c] = view[c]
      BY <1>1, <2>3, ForgetTyped
    <3>2. Rx(c) = <<>> /\ Quiet(c)
      BY <2>3 DEF Rx, Quiet
    <3> QED
      BY <1>1, <2>1, <3>1, <3>2, LockStays
  <2> QED
    BY <2>2, <2>3
<1> QED
  BY <1>2, <1>3, <1>4 DEF StubInv

(* a detach,                                                               *)
LEMMA DetachKeeps ==
  ASSUME StubInv, NEW b \in Stub, b.client \in Clients, b.skip = stub.skip, Detach(b),
         stub.client \in {NoClient, b.client}
  PROVE  StubInv'
<1>1. stub' = Left(b) /\ Forget(b.client) /\ UNCHANGED <<machine, fresh>>
  BY DEF Detach
<1>2. stub' \in Stub /\ stub'.client = NoClient /\ stub'.rx = <<>> /\ stub'.skip = stub.skip
  BY <1>1, LeftTyped
<1>3. machine' \in Target /\ (fresh' => stub'.skip)
  BY <1>1, <1>2 DEF StubInv, StubTyped, LetOff
<1> QED
  BY <1>1, <1>2, <1>3, ForgetKeeps

(* a write that fails,                                                     *)
LEMMA CutOffKeeps ==
  ASSUME StubInv, stub.rx # <<>>, HandleCutOff(Head(stub.rx))
  PROVE  StubInv'
<1>1. StubTyped /\ (fresh => stub.skip)
  BY DEF StubInv, LetOff
<1>2. /\ stub.client \in Clients /\ Forget(stub.client)
      /\ stub' \in Stub /\ stub'.client = NoClient /\ stub'.rx = <<>>
      /\ machine' = machine \/ \E cost \in Costs : machine' = Stepped(machine, cost)
      /\ \/ fresh' = TRUE /\ stub'.skip = TRUE
         \/ fresh' = FALSE
         \/ fresh' = fresh /\ stub'.skip = stub.skip
  BY <1>1, CutOffs
<1>3. machine' \in Target
  BY <1>1, <1>2, StepTyped DEF StubTyped
<1>4. fresh' => stub'.skip
  BY <1>1, <1>2
<1> QED
  BY <1>2, <1>3, <1>4, ForgetKeeps

(* the reading of a socket,                                                *)
LEMMA ReadKeeps ==
  ASSUME StubInv, stub.rx = <<>>, NEW b, b = stub \/ (~Attached /\ \E c \in AtTheDoor : b = Accepted(c)), Read(b)
  PROVE  StubInv' /\ UNCHANGED machine
<1>1. StubTyped /\ LetOff /\ \A c \in Clients : Lock(c)
  BY DEF StubInv
<1>2. /\ b \in Stub /\ b.skip = stub.skip /\ stub.client \in {NoClient, b.client}
      /\ b = stub \/ (b.halted /\ stub.client = NoClient)
  <2>1. CASE b = stub
    BY <1>1, <2>1 DEF StubTyped
  <2>2. ASSUME ~Attached, NEW c \in AtTheDoor, b = Accepted(c)
        PROVE  b \in Stub /\ b.skip = stub.skip /\ stub.client = NoClient /\ b.halted
    BY <1>1, <2>2 DEF Accepted, AtTheDoor, Attached, StubTyped, Stub
  <2> QED
    BY <2>1, <2>2
<1>3. CASE b.client = NoClient
  <2>1. UNCHANGED stubVars
    BY <1>3 DEF Read
  <2> QED
    BY <1>1, <2>1, LockStays DEF stubVars, StubInv, StubTyped, LetOff, Rx, Quiet
<1>4. CASE b.client # NoClient /\ link[b.client] = "shut"
  <2>1. Detach(b) /\ b.client \in Clients
    BY <1>2, <1>4 DEF Read, Stub
  <2> QED
    BY <1>2, <2>1, DetachKeeps DEF Detach
<1>5. CASE b.client # NoClient /\ link[b.client] # "shut"
  <2> DEFINE d == b.client
  <2>1. d \in Clients /\ sent[d] \in Seq(Requests) /\ <<>> \in Seq(Requests)
    BY <1>1, <1>2, <1>5 DEF Stub, StubTyped
  <2>2. /\ stub' = [b EXCEPT !.rx = sent[d]]
        /\ sent' = [sent EXCEPT ![d] = <<>>]
        /\ link' = [link EXCEPT ![d] = "open"]
        /\ UNCHANGED <<machine, stops, view, fresh>>
    BY <1>5 DEF Read
  <2>3. /\ stub' \in Stub /\ stub'.client = d /\ stub'.rx = sent[d] /\ stub'.skip = stub.skip
        /\ stub'.halted = b.halted
    BY <1>2, <2>1, <2>2 DEF Stub
  <2>4. StubTyped'
    <3>1. sent' \in [Clients -> Seq(Requests)] /\ link' \in [Clients -> {"away", "knocking", "open", "shut"}]
      BY <1>1, <2>1, <2>2 DEF StubTyped
    <3> QED
      BY <1>1, <1>5, <2>2, <2>3, <3>1 DEF StubTyped
  <2>5. LetOff'
    BY <1>1, <1>2, <1>5, <2>2, <2>3 DEF LetOff
  <2>6. ASSUME NEW c \in Clients PROVE Lock(c)'
    <3>1. CASE c = d
      <4>1. Rx(c)' = sent[c] /\ sent'[c] = <<>> /\ stops'[c] = stops[c] /\ view'[c] = view[c]
        BY <1>1, <2>1, <2>2, <2>3, <3>1 DEF Rx, StubTyped
      <4>2. Quiet(c)' <=> Quiet(c)
        BY <1>2, <2>1, <2>3, <3>1 DEF Quiet
      <4>3. Rx(c) = <<>>
        BY DEF Rx
      <4> QED
        BY <1>1, <4>1, <4>2, <4>3, NobodyAsks DEF Lock
    <3>2. CASE c # d
      <4>1. Rx(c) = <<>> /\ Rx(c)' = <<>> /\ Quiet(c) /\ Quiet(c)'
        BY <1>2, <2>3, <3>2 DEF Rx, Quiet
      <4>2. sent'[c] = sent[c] /\ stops'[c] = stops[c] /\ view'[c] = view[c]
        BY <1>1, <2>2, <3>2 DEF StubTyped
      <4> QED
        BY <1>1, <4>1, <4>2, LockStays
    <3> QED
      BY <3>1, <3>2
  <2> QED
    BY <2>2, <2>4, <2>5, <2>6 DEF StubInv
<1> QED
  BY <1>3, <1>4, <1>5

(* a pump,                                                                 *)
LEMMA PumpKeeps ==
  ASSUME StubInv, stub.rx = <<>>, Pump
  PROVE  StubInv' /\ UNCHANGED machine
<1>1. CASE Attached \/ AtTheDoor = {}
  BY <1>1, ReadKeeps DEF Pump
<1>2. CASE ~(Attached \/ AtTheDoor = {})
  <2>1. PICK c \in AtTheDoor : Read(Accepted(c))
    BY <1>2 DEF Pump
  <2> QED
    BY <1>2, <2>1, ReadKeeps
<1> QED
  BY <1>1, <1>2

(* The item read is one of the client's; h and n say what becomes of the   *)
(* target and of the stop replies.                                         *)
LEMMA TakingKeeps ==
  ASSUME StubInv, stub.client \in Clients, stub' \in Stub, stub'.client = stub.client,
         stub.rx # <<>>, stub'.rx = Tail(stub.rx), UNCHANGED <<link, sent, view>>,
         machine' \in Target, LetOff',
         \/ IsResume(Head(stub.rx)) /\ ~stub'.halted /\ stops' = stops
         \/ IsResume(Head(stub.rx)) /\ stub'.halted = stub.halted
              /\ stops' = [stops EXCEPT ![stub.client] = @ + 1]
         \/ ~IsResume(Head(stub.rx)) /\ stub'.halted
              /\ stops' = IF stub.halted THEN stops ELSE [stops EXCEPT ![stub.client] = @ + 1]
         \/ ~IsResume(Head(stub.rx)) /\ stub'.halted = stub.halted /\ stops' = stops
  PROVE  StubInv'
<1>1. StubTyped /\ LetOff /\ \A c \in Clients : Lock(c)
  BY DEF StubInv
<1> DEFINE d == stub.client
<1>2. stops' \in [Clients -> Nat] /\ (stops' = stops \/ stops' = [stops EXCEPT ![d] = stops[d] + 1])
  BY <1>1 DEF StubTyped
<1>3. stub.rx \in Seq(Requests) /\ Tail(stub.rx) \in Seq(Requests)
  BY <1>1, Heads DEF StubTyped, Stub
<1>4. StubTyped'
  BY <1>1, <1>2 DEF StubTyped
<1>5. ASSUME NEW c \in Clients, c # d PROVE Lock(c)'
  <2>1. Rx(c) = <<>> /\ Rx(c)' = <<>> /\ Quiet(c) /\ Quiet(c)'
    BY <1>5 DEF Rx, Quiet
  <2>2. sent'[c] = sent[c] /\ stops'[c] = stops[c] /\ view'[c] = view[c]
    BY <1>1, <1>2, <1>5 DEF StubTyped
  <2> QED
    BY <1>1, <2>1, <2>2, LockStays
<1>6. Lock(d)'
  <2>1. Rx(d) = stub.rx /\ Rx(d)' = Tail(stub.rx) /\ (Quiet(d) <=> stub.halted)
        /\ (Quiet(d)' <=> stub'.halted)
    BY DEF Rx, Quiet
  <2>2. Once(stub.rx)
    BY <1>1, <2>1 DEF Lock
  <2>3. /\ Once(Tail(stub.rx))
        /\ Asks(Tail(stub.rx)) => Asks(stub.rx)
        /\ IsResume(Head(stub.rx)) => Asks(stub.rx) /\ ~Asks(Tail(stub.rx))
    BY <1>3, <2>2, AsksTail
  <2>4. sent'[d] = sent[d] /\ view'[d] = view[d] /\ stops[d] \in Nat
    BY <1>1 DEF StubTyped
  <2>5. CASE IsResume(Head(stub.rx))
    <3>1. /\ ~Asks(sent[d]) /\ view[d] = "running" /\ stops[d] = 0 /\ stub.halted
          /\ ~Asks(Tail(stub.rx)) /\ Once(sent[d])
      BY <1>1, <2>1, <2>3, <2>5 DEF Lock
    <3>2. \/ stops'[d] = 0 /\ ~stub'.halted
          \/ stops'[d] = 1 /\ stub'.halted
      <4>1. CASE ~stub'.halted /\ stops' = stops
        BY <3>1, <4>1
      <4>2. CASE stub'.halted = stub.halted /\ stops' = [stops EXCEPT ![d] = @ + 1]
        BY <1>1, <3>1, <4>2 DEF StubTyped
      <4> QED
        BY <2>5, <4>1, <4>2
    <3> QED
      BY <2>1, <2>3, <2>4, <3>1, <3>2 DEF Lock
  <2>6. CASE ~IsResume(Head(stub.rx)) /\ stub.halted
    <3>1. stops'[d] = stops[d] /\ stub'.halted
      BY <2>6
    <3>2. Asks(stub.rx) <=> Asks(Tail(stub.rx))
      BY <1>3, <2>2, <2>6, AsksTail
    <3> QED
      BY <1>1, <2>1, <2>3, <2>4, <2>6, <3>1, <3>2 DEF Lock
  <2>7. CASE ~IsResume(Head(stub.rx)) /\ ~stub.halted
    <3>1. view[d] = "running" /\ stops[d] = 0 /\ ~Asks(stub.rx) /\ ~Asks(sent[d]) /\ Once(sent[d])
      BY <1>1, <2>1, <2>7 DEF Lock
    <3>2. \/ stops'[d] = 0 /\ ~stub'.halted
          \/ stops'[d] = 1 /\ stub'.halted
      BY <1>1, <2>7, <3>1 DEF StubTyped
    <3> QED
      BY <2>1, <2>3, <2>4, <3>1, <3>2 DEF Lock
  <2> QED
    BY <2>5, <2>6, <2>7
<1> QED
  BY <1>4, <1>5, <1>6 DEF StubInv

(* and an item of what it has read.                                        *)
LEMMA HandleKeeps ==
  ASSUME StubInv, stub.rx # <<>>, Handle(Head(stub.rx))
  PROVE  StubInv'
<1>1. StubTyped /\ LetOff /\ \A c \in Clients : Lock(c)
  BY DEF StubInv
<1> DEFINE kind == Head(stub.rx).kind
<1>2. /\ stub.client \in Clients /\ stub.rx # <<>>
      /\ kind \in {"continue", "step", "interrupt", "detach", "insert", "remove"}
      /\ kind = "continue" => Resume
      /\ kind = "step" => SingleStep
      /\ kind = "interrupt" => Interrupt
      /\ kind = "detach" => Detach(stub)
      /\ kind \in {"insert", "remove"} => \E set \in SUBSET Words : HandleBreakpoint(set)
  BY <1>1, Items
<1>3. /\ Taken \in Stub /\ Taken.rx = Tail(stub.rx) /\ Taken.client = stub.client
      /\ Taken.halted = stub.halted /\ Taken.breakpoints = stub.breakpoints
      /\ Taken.skip = stub.skip
  BY <1>1, <1>2, TakenTyped DEF StubTyped
<1>4. IsResume(Head(stub.rx)) <=> kind \in {"continue", "step"}
  BY DEF IsResume
<1>5. kind \in {"continue", "step"} => stub.halted
  <2>1. Rx(stub.client) = stub.rx /\ (Quiet(stub.client) <=> stub.halted)
    BY DEF Rx, Quiet
  <2>2. stub.rx \in Seq(Requests) /\ Once(stub.rx)
    BY <1>1, <1>2, <2>1 DEF StubTyped, Stub, Lock
  <2>3. IsResume(Head(stub.rx)) => Asks(stub.rx)
    BY <1>2, <2>2, AsksTail
  <2> QED
    BY <1>1, <1>2, <1>4, <2>1, <2>3 DEF Lock
<1> HIDE DEF kind
<1>6. CASE kind = "continue"
  <2>1. /\ stub' = [Taken EXCEPT !.halted = FALSE, !.skip = TRUE] /\ fresh' = TRUE
        /\ UNCHANGED <<machine, link, sent, stops, view>>
    BY <1>2, <1>6 DEF Resume
  <2>2. /\ stub' \in Stub /\ stub'.client = stub.client /\ stub'.rx = Tail(stub.rx)
        /\ stub'.skip = TRUE
    BY <1>3, <2>1 DEF Stub
  <2>3. LetOff'
    BY <2>1, <2>2 DEF LetOff
  <2>4. stub'.halted = FALSE
    BY <1>3, <2>1 DEF Stub
  <2> QED
    BY <1>1, <1>2, <1>4, <1>6, <2>1, <2>2, <2>3, <2>4, TakingKeeps DEF StubTyped
<1>7. CASE kind = "step"
  <2>1. /\ stub' = Taken /\ fresh' = FALSE
        /\ \E cost \in Costs : machine' = Stepped(machine, cost)
        /\ stops' = [stops EXCEPT ![stub.client] = @ + 1]
        /\ UNCHANGED <<link, sent, view>>
    BY <1>2, <1>7 DEF SingleStep
  <2>2. machine' \in Target
    BY <1>1, <2>1, StepTyped DEF StubTyped
  <2>3. LetOff'
    BY <1>3, <1>5, <1>7, <2>1 DEF LetOff
  <2> QED
    BY <1>2, <1>3, <1>4, <1>7, <2>1, <2>2, <2>3, TakingKeeps
<1>8. CASE kind = "interrupt"
  <2>1. /\ stub' = [Taken EXCEPT !.halted = TRUE]
        /\ stops' = IF stub.halted THEN stops ELSE [stops EXCEPT ![stub.client] = @ + 1]
        /\ UNCHANGED <<machine, link, sent, view, fresh>>
    BY <1>2, <1>8 DEF Interrupt
  <2>2. /\ stub' \in Stub /\ stub'.client = stub.client /\ stub'.rx = Tail(stub.rx)
        /\ stub'.halted = TRUE /\ stub'.skip = stub.skip
    BY <1>3, <2>1 DEF Stub
  <2>3. LetOff'
    BY <1>1, <2>1, <2>2 DEF LetOff
  <2> QED
    BY <1>1, <1>2, <1>4, <1>8, <2>1, <2>2, <2>3, TakingKeeps DEF StubTyped
<1>9. CASE kind = "detach"
  BY <1>1, <1>2, <1>9, DetachKeeps DEF StubTyped
<1>10. CASE kind \in {"insert", "remove"}
  <2>1. PICK set \in SUBSET Words : HandleBreakpoint(set)
    BY <1>2, <1>10
  <2>2. /\ stub' = [Taken EXCEPT !.breakpoints = set]
        /\ UNCHANGED <<machine, link, sent, stops, view, fresh>>
    BY <2>1 DEF HandleBreakpoint
  <2>3. /\ stub' \in Stub /\ stub'.client = stub.client /\ stub'.rx = Tail(stub.rx)
        /\ stub'.halted = stub.halted /\ stub'.skip = stub.skip
    BY <1>3, <2>2 DEF Stub
  <2>4. LetOff'
    BY <1>1, <2>2, <2>3 DEF LetOff
  <2> QED
    BY <1>1, <1>2, <1>4, <1>10, <2>2, <2>3, <2>4, TakingKeeps DEF StubTyped
<1> QED
  BY <1>2, <1>6, <1>7, <1>8, <1>9, <1>10

(* or it is cut off.                                                       *)
LEMMA ItemKeeps ==
  ASSUME StubInv, ServiceItem
  PROVE  StubInv'
  BY HandleKeeps, CutOffKeeps DEF ServiceItem

(* A breakpoint stops a running target; an instruction ends the letting    *)
(* off.                                                                    *)
LEMMA SliceKeeps ==
  ASSUME StubInv, stub.client # NoClient, ~stub.halted,
         \/ StopAtBreakpoint \/ StopCutOff
         \/ \E cost \in Costs : RunInstruction(cost)
  PROVE  StubInv'
<1>1. StubTyped /\ LetOff /\ \A c \in Clients : Lock(c)
  BY DEF StubInv
<1>2. PICK d \in Clients : d = stub.client
  BY <1>1 DEF StubTyped, Stub
<1>3. CASE StopAtBreakpoint
  <2>1. /\ stub' = [stub EXCEPT !.halted = TRUE]
        /\ stops' = [stops EXCEPT ![d] = stops[d] + 1]
        /\ UNCHANGED <<machine, link, sent, view, fresh>>
    BY <1>1, <1>2, <1>3 DEF StopAtBreakpoint, StubTyped
  <2>2. /\ stub' \in Stub /\ stub'.client = d /\ stub'.rx = stub.rx /\ stub'.halted = TRUE
        /\ stub'.skip = stub.skip
    BY <1>1, <1>2, <2>1 DEF StubTyped, Stub
  <2>3. StubTyped'
    BY <1>1, <1>2, <2>1, <2>2 DEF StubTyped
  <2>4. LetOff'
    BY <1>1, <2>1, <2>2 DEF LetOff
  <2>5. ASSUME NEW c \in Clients, c # d PROVE Lock(c)'
    <3>1. Rx(c) = <<>> /\ Rx(c)' = <<>> /\ Quiet(c) /\ Quiet(c)'
      BY <1>2, <2>2, <2>5 DEF Rx, Quiet
    <3>2. sent'[c] = sent[c] /\ stops'[c] = stops[c] /\ view'[c] = view[c]
      BY <1>1, <1>2, <2>1, <2>5 DEF StubTyped
    <3> QED
      BY <1>1, <3>1, <3>2, LockStays
  <2>6. Lock(d)'
    <3>1. Rx(d)' = Rx(d) /\ Quiet(d)' /\ ~Quiet(d)
      BY <1>2, <2>2 DEF Rx, Quiet
    <3>2. Once(Rx(d)) /\ Once(sent[d]) /\ view[d] = "running" /\ stops[d] = 0 /\ ~Asks(Rx(d)) /\ ~Asks(sent[d])
      BY <1>1, <1>2, <3>1 DEF Lock
    <3>3. sent'[d] = sent[d] /\ view'[d] = view[d] /\ stops'[d] = 1
      BY <1>1, <1>2, <2>1, <3>2 DEF StubTyped
    <3> QED
      BY <1>1, <1>2, <3>1, <3>2, <3>3 DEF Lock
  <2>7. \A c \in Clients : Lock(c)'
    BY <2>5, <2>6, Zenon
  <2> QED
    BY <2>3, <2>4, <2>7 DEF StubInv
<1>4. ASSUME NEW cost \in Costs, RunInstruction(cost) PROVE StubInv'
  <2>1. /\ stub' = [stub EXCEPT !.skip = FALSE] /\ machine' = Stepped(machine, cost)
        /\ fresh' = FALSE /\ UNCHANGED <<link, sent, stops, view>>
    BY <1>4 DEF RunInstruction
  <2>2. /\ stub' \in Stub /\ stub'.client = d /\ stub'.rx = stub.rx /\ (stub'.halted <=> stub.halted)
        /\ stub'.skip = FALSE
    BY <1>1, <1>2, <2>1 DEF StubTyped, Stub
  <2>3. StubTyped'
    BY <1>1, <2>1, <2>2, StepTyped DEF StubTyped
  <2>4. LetOff'
    BY <2>1, <2>2 DEF LetOff
  <2>5. \A c \in Clients : Lock(c)'
    <3> SUFFICES ASSUME NEW c \in Clients PROVE Lock(c)'
      OBVIOUS
    <3>1. Rx(c)' = Rx(c) /\ (Quiet(c)' <=> Quiet(c))
      BY <1>2, <2>2 DEF Rx, Quiet
    <3> QED
      BY <1>1, <2>1, <3>1, LockStays
  <2> QED
    BY <2>3, <2>4, <2>5 DEF StubInv
<1>5. CASE StopCutOff
  <2>1. Forget(d) /\ stub' = Left(stub) /\ UNCHANGED <<machine, fresh>>
    BY <1>2, <1>5 DEF StopCutOff, CutOff
  <2>2. stub' \in Stub /\ stub'.client = NoClient /\ stub'.rx = <<>> /\ stub'.skip = stub.skip
    BY <1>1, <2>1, LeftTyped DEF StubTyped
  <2>3. machine' \in Target /\ (fresh' => stub'.skip)
    BY <1>1, <2>1, <2>2 DEF StubTyped, LetOff
  <2> QED
    BY <1>2, <2>1, <2>2, <2>3, ForgetKeeps
<1> QED
  BY <1>3, <1>4, <1>5

(* Whatever the debuggers do.                                              *)
LEMMA ClientsKeep ==
  ASSUME StubInv, ClientNext
  PROVE  StubInv' /\ UNCHANGED <<stub, machine>>
<1>1. StubTyped /\ LetOff /\ \A c \in Clients : Lock(c)
  BY DEF StubInv
<1>2. PICK c \in Clients : \/ Knock(c)
                           \/ \E request \in Requests : Send(c, request)
                           \/ Receive(c)
                           \/ HangUp(c)
  BY DEF ClientNext
<1>3. UNCHANGED <<stub, machine, fresh>>
  BY <1>2 DEF Knock, Send, Receive, HangUp
<1>4. /\ LetOff'
      /\ \A d \in Clients : Rx(d)' = Rx(d) /\ (Quiet(d)' <=> Quiet(d))
  BY <1>1, <1>3 DEF LetOff, Rx, Quiet
<1>5. CASE Knock(c) \/ HangUp(c)
  <2>1. link' \in [Clients -> {"away", "knocking", "open", "shut"}] /\ UNCHANGED <<sent, stops, view>>
    BY <1>1, <1>5 DEF Knock, HangUp, StubTyped
  <2>2. StubTyped'
    BY <1>1, <1>3, <2>1 DEF StubTyped
  <2> QED
    BY <1>1, <1>3, <1>4, <2>1, <2>2, LockStays DEF StubInv
<1>6. ASSUME NEW request \in Requests, Send(c, request) PROVE StubInv'
  <2>1. /\ sent' = [sent EXCEPT ![c] = Append(sent[c], request)]
        /\ view' = IF IsResume(request) THEN [view EXCEPT ![c] = "running"] ELSE view
        /\ UNCHANGED <<link, stops>>
    BY <1>6 DEF Send, IsResume
  <2>2. sent[c] \in Seq(Requests) /\ Append(sent[c], request) \in Seq(Requests)
    BY <1>1 DEF StubTyped
  <2>3. StubTyped'
    BY <1>1, <1>3, <2>1, <2>2 DEF StubTyped
  <2>4. ASSUME NEW d \in Clients, d # c PROVE Lock(d)'
    <3>1. sent'[d] = sent[d] /\ view'[d] = view[d] /\ stops'[d] = stops[d]
      BY <1>1, <2>1, <2>4 DEF StubTyped
    <3> QED
      BY <1>1, <1>4, <3>1, LockStays
  <2>5. Lock(c)'
    <3>1. sent'[c] = Append(sent[c], request) /\ stops'[c] = stops[c]
      BY <1>1, <2>1 DEF StubTyped
    <3>2. CASE IsResume(request)
      <4>1. view[c] = "stopped"
        BY <1>6, <3>2 DEF Send, Legal, IsResume
      <4>2. ~Asks(Rx(c)) /\ ~Asks(sent[c]) /\ stops[c] = 0 /\ Quiet(c) /\ Once(Rx(c)) /\ Once(sent[c])
        BY <1>1, <4>1 DEF Lock
      <4>3. view'[c] = "running"
        BY <1>1, <2>1, <3>2 DEF StubTyped
      <4>4. Once(sent'[c]) /\ Asks(sent'[c])
        BY <2>2, <3>1, <3>2, <4>2, AsksAppend
      <4> QED
        BY <1>4, <3>1, <4>2, <4>3, <4>4 DEF Lock
    <3>3. CASE ~IsResume(request)
      <4>1. view' = view
        BY <2>1, <3>3
      <4>2. Once(sent[c])
        BY <1>1 DEF Lock
      <4>3. Once(sent'[c]) /\ (Asks(sent'[c]) <=> Asks(sent[c]))
        BY <2>2, <3>1, <3>3, <4>2, AsksAppend
      <4> QED
        BY <1>1, <1>4, <3>1, <4>1, <4>3 DEF Lock
    <3> QED
      BY <3>2, <3>3
  <2> QED
    BY <1>4, <2>3, <2>4, <2>5 DEF StubInv
<1>7. CASE Receive(c)
  <2>1. /\ stops[c] > 0 /\ stops' = [stops EXCEPT ![c] = stops[c] - 1]
        /\ view' = [view EXCEPT ![c] = "stopped"]
        /\ UNCHANGED <<link, sent>>
    BY <1>7 DEF Receive
  <2>2. stops[c] = 1 /\ Quiet(c) /\ ~Asks(Rx(c)) /\ ~Asks(sent[c]) /\ Once(Rx(c)) /\ Once(sent[c])
    <3>1. stops[c] \in Nat
      BY <1>1 DEF StubTyped
    <3>2. stops[c] # 0
      BY <2>1, <3>1
    <3> QED
      BY <1>1, <3>2 DEF Lock
  <2>3. StubTyped'
    BY <1>1, <1>3, <2>1, <2>2 DEF StubTyped
  <2>4. ASSUME NEW d \in Clients, d # c PROVE Lock(d)'
    <3>1. sent'[d] = sent[d] /\ view'[d] = view[d] /\ stops'[d] = stops[d]
      BY <1>1, <2>1, <2>4 DEF StubTyped
    <3> QED
      BY <1>1, <1>4, <3>1, LockStays
  <2>5. Lock(c)'
    <3>1. stops'[c] = 0 /\ sent'[c] = sent[c] /\ view'[c] = "stopped"
      BY <1>1, <2>1, <2>2 DEF StubTyped
    <3> QED
      BY <1>4, <2>2, <3>1 DEF Lock
  <2>6. \A d \in Clients : Lock(d)'
    BY <2>4, <2>5, Zenon
  <2> QED
    BY <1>3, <1>4, <2>3, <2>6 DEF StubInv
<1> QED
  BY <1>2, <1>3, <1>5, <1>6, <1>7
-----------------------------------------------------------------------------
(* The loops. *)

Placed ==
  /\ mode \in {"window", "budget", "control"} /\ wait \in BOOLEAN
  /\ budget \in 0 .. Slice /\ mark \in Nat \cup {Uncounted} /\ done \in Nat /\ chunks \in Nat
  /\ stored \in {"open", "shut"}
  /\ mode # "window" => loop \in {"pump", "service", "slice", "free", "ended"}

(* What was read is handled before anything else is done: the next read    *)
(* replaces nothing.                                                       *)
Served == loop # "service" => stub.rx = <<>>

(* A slice is run for a client whose target runs.                          *)
Slicing == loop = "slice" => stub.client # NoClient /\ ~stub.halted

(* Until a client has attached nobody is served, and nothing runs.         *)
Untouched ==
  wait /\ ~met =>
    /\ stub.client = NoClient /\ ~seen /\ loop \notin {"service", "slice"}
    /\ mode # "control" => machine.pc = 0

(* What is counted and what was run differ by what the slices of           *)
(* run_headless went over; between the pump and the end of an iteration    *)
(* that is so of the cycles at the pump.                                   *)
Excess == (Longest - 1) * chunks
Paid(cycles) == done <= cycles /\ cycles <= done + Excess
Account ==
  mode = "budget" =>
    /\ machine.cycles \in Nat
    /\ loop \in {"pump", "ended"} => Paid(machine.cycles)
    /\ loop = "ended" => done >= Cycles
    /\ loop \in {"service", "slice", "free"} =>
         mark \in Nat /\ mark <= machine.cycles /\ Paid(mark)

IInv == StubInv /\ Placed /\ Served /\ Slicing /\ Untouched /\ Account

(* No client, no command, the machine at its first cycle.                  *)
LEMMA Starts == Init => IInv
<1> SUFFICES ASSUME Init PROVE IInv
  OBVIOUS
<1>1. stub = [client |-> NoClient, halted |-> FALSE, breakpoints |-> {}, skip |-> FALSE,
              rx |-> <<>>]
  BY DEF Init, StubInit
<1>2. /\ stub \in Stub /\ stub.client = NoClient /\ stub.rx = <<>>
      /\ sent \in [Clients -> Seq(Requests)] /\ \A c \in Clients : sent[c] = <<>>
  BY <1>1 DEF Stub, Init, StubInit
<1>3. machine \in Target /\ machine.pc = 0
      /\ machine.cycles = IF mode = "budget" THEN 0 ELSE Uncounted
  BY DEF Init, Target, Words
<1>4. StubTyped
  BY <1>2, <1>3 DEF Init, StubInit, StubTyped
<1>5. ASSUME NEW c \in Clients PROVE Lock(c)
  <2>1. Rx(c) = <<>> /\ Quiet(c) /\ sent[c] = <<>> /\ stops[c] = 0 /\ view[c] = "stopped"
    BY <1>2 DEF Rx, Quiet, Init, StubInit
  <2> QED
    BY <2>1, NobodyAsks DEF Lock
<1>6. LetOff
  BY <1>2 DEF LetOff, Init, StubInit
<1>7. Placed /\ Slicing /\ Served
  BY <1>2 DEF Init, Placed, Slicing, Served
<1>8. Untouched /\ Account
  <2>1. chunks = 0 /\ done = 0 /\ (mode = "budget" => loop = "pump")
    BY DEF Init
  <2>2. Excess = 0
    BY <2>1 DEF Excess
  <2> QED
    BY <1>2, <1>3, <2>1, <2>2 DEF Init, Untouched, Account, Paid
<1> QED
  BY <1>4, <1>5, <1>6, <1>7, <1>8 DEF StubInv, IInv

(* The stub is as it was, and the machine may have moved.                  *)
LEMMA StubStays ==
  ASSUME StubInv, UNCHANGED <<stub, link, sent, stops, view, fresh>>, machine' \in Target
  PROVE  StubInv'
  BY LockStays DEF StubInv, StubTyped, LetOff, Rx, Quiet

(* A step of the stub moves the target's clock on, if it moves it.         *)
LEMMA ClockOn ==
  ASSUME machine \in Target,
         machine' = machine \/ \E cost \in Costs : machine' = Stepped(machine, cost)
  PROVE  machine.cycles \in Nat => machine'.cycles \in Nat /\ machine.cycles <= machine'.cycles
<1>1. CASE machine' = machine
  BY <1>1
<1>2. ASSUME NEW cost \in Costs, machine' = Stepped(machine, cost)
      PROVE  machine.cycles \in Nat => machine'.cycles \in Nat /\ machine.cycles <= machine'.cycles
  <2>1. cost \in Nat /\ (machine.cycles \in Nat => machine'.cycles = machine.cycles + cost)
    BY <1>2, StepTyped DEF Costs
  <2> QED
    BY <2>1
<1> QED
  BY <1>1, <1>2

(* What is attached, and where the loop goes on, after the stub has run.   *)
LEMMA OnwardTo ==
  ASSUME stub' \in Stub, stub'.client = NoClient => stub'.rx = <<>>, loop' = Onward(stub')
  PROVE  /\ loop' \in {"service", "slice", "free"}
         /\ loop' = "slice" => stub'.client # NoClient /\ ~stub'.halted
         /\ loop' = "service" => stub'.client # NoClient
         /\ Served'
<1>1. stub'.halted \in BOOLEAN
  BY DEF Stub
<1> QED
  BY <1>1 DEF Onward, Served

(* A command of the user keeps the invariant,                              *)
LEMMA CommandKeeps ==
  ASSUME IInv, HandleCommand
  PROVE  IInv'
<1>1. StubInv /\ machine \in Target
  BY DEF IInv, StubInv, StubTyped
<1>2. /\ UNCHANGED <<stub, link, sent, stops, view, fresh, mode, wait>>
      /\ UNCHANGED <<loop, budget, seen, mark, done, met, chunks>> /\ loop = "commands"
      /\ stored \in {"open", "shut"} /\ Stores(Head(queue), stored')
  BY DEF HandleCommand, IInv, Placed
<1>3. DebuggerActive => machine' = machine
  BY DEF HandleCommand
<1>4. machine' \in Target
  BY <1>1, <1>2, <1>3, MovesTyped DEF HandleCommand
<1>5. StubInv'
  BY <1>1, <1>2, <1>4, StubStays
<1>6. Untouched'
  BY <1>2, <1>3 DEF IInv, Untouched, DebuggerActive, Waiting
<1>7. mode = "window"
  BY <1>2 DEF IInv, Placed
<1>8. stored' \in {"open", "shut"}
  BY <1>1, <1>2 DEF Stores, Target
<1>9. Placed' /\ Slicing' /\ Served' /\ Account'
  BY <1>2, <1>7, <1>8 DEF IInv, Placed, Slicing, Served, Account
<1> QED
  BY <1>5, <1>6, <1>9 DEF IInv

(* a pump of the loop,                                                     *)
LEMMA PumpStubKeeps ==
  ASSUME IInv, PumpStub
  PROVE  IInv' /\ UNCHANGED machine
<1>1. StubInv' /\ UNCHANGED machine
  BY PumpKeeps DEF IInv, Served, PumpStub
<1>2. stub' \in Stub /\ (stub'.client = NoClient => stub'.rx = <<>>) /\ machine \in Target
  BY <1>1 DEF IInv, StubInv, StubTyped
<1>3. /\ loop' \in {"service", "slice", "free"}
      /\ loop' = "slice" => stub'.client # NoClient /\ ~stub'.halted
      /\ loop' = "service" => stub'.client # NoClient
      /\ Served'
  BY <1>2, OnwardTo DEF PumpStub
<1>4. mark' = machine.cycles /\ loop = "pump" /\ UNCHANGED <<mode, wait, seen, done, chunks, stored>>
  BY DEF PumpStub, uiVars
<1>5. budget' \in 0 .. Slice
  <2>1. budget' = Offer /\ (mode = "budget" => done < Cycles) /\ done \in Nat /\ budget \in 0 .. Slice
    BY DEF PumpStub, IInv, Placed
  <2> QED
    BY <2>1 DEF Offer, Least
<1>6. Placed' /\ Slicing'
  BY <1>2, <1>3, <1>4, <1>5 DEF IInv, Placed, Slicing, Target
<1>7. Account'
  <2>1. Excess' = Excess
    BY <1>4 DEF Excess
  <2> QED
    BY <1>1, <1>3, <1>4, <2>1 DEF IInv, Account, Paid
<1>8. ~met' => ~met /\ stub.client = NoClient /\ AtTheDoor = {}
  BY DEF PumpStub, Attached
<1>9. ~met' => stub' = stub
  BY <1>8 DEF PumpStub, Pump, Read, stubVars
<1>10. Untouched'
  BY <1>1, <1>3, <1>4, <1>8, <1>9 DEF IInv, Untouched
<1> QED
  BY <1>1, <1>3, <1>6, <1>7, <1>10 DEF IInv

(* What the machine does while a request is served,                        *)
LEMMA ServiceMoves ==
  ASSUME StubTyped, ServiceItem
  PROVE  machine' = machine \/ \E cost \in Costs : machine' = Stepped(machine, cost)
<1>1. stub.rx # <<>>
  BY DEF ServiceItem
<1>2. CASE Handle(Head(stub.rx))
  BY <1>1, <1>2, Items DEF Resume, SingleStep, Interrupt, Detach, HandleBreakpoint
<1>3. CASE HandleCutOff(Head(stub.rx))
  BY <1>1, <1>3, CutOffs
<1> QED
  BY <1>2, <1>3 DEF ServiceItem

(* a request it serves,                                                    *)
LEMMA ServiceKeeps ==
  ASSUME IInv, Service
  PROVE  IInv'
<1>1. StubInv'
  BY ItemKeeps DEF IInv, Service
<1>2. stub' \in Stub /\ (stub'.client = NoClient => stub'.rx = <<>>)
  BY <1>1 DEF StubInv, StubTyped
<1>3. /\ loop' \in {"service", "slice", "free"}
      /\ loop' = "slice" => stub'.client # NoClient /\ ~stub'.halted
      /\ Served'
  BY <1>2, OnwardTo DEF Service
<1>4. loop = "service" /\ UNCHANGED <<mode, wait, budget, seen, mark, done, met, chunks, stored>>
  BY DEF Service, uiVars
<1>5. Placed' /\ Slicing'
  BY <1>3, <1>4 DEF IInv, Placed, Slicing
<1>6. Untouched'
  BY <1>3, <1>4 DEF IInv, Untouched
<1>7. machine' = machine \/ \E cost \in Costs : machine' = Stepped(machine, cost)
  BY ServiceMoves DEF IInv, StubInv, Service
<1>8. machine.cycles \in Nat => machine'.cycles \in Nat /\ machine.cycles <= machine'.cycles
  BY <1>7, ClockOn DEF IInv, StubInv, StubTyped
<1>9. Account'
  <2>1. Excess' = Excess
    BY <1>4 DEF Excess
  <2> QED
    BY <1>3, <1>4, <1>8, <2>1 DEF IInv, Account, Paid
<1> QED
  BY <1>1, <1>3, <1>5, <1>6, <1>9 DEF IInv

(* a slice of a resumed target,                                            *)
LEMMA RunSliceKeeps ==
  ASSUME IInv, RunSlice
  PROVE  IInv'
<1>1. /\ loop = "slice" /\ loop' \in {"slice", "free"}
      /\ UNCHANGED <<mode, wait, seen, mark, done, met, chunks, stored>>
  BY DEF RunSlice, uiVars
<1>2. stub.client # NoClient /\ ~stub.halted
  BY <1>1 DEF IInv, Slicing
<1>3. \/ UNCHANGED stubVars /\ loop' = "free"
      \/ (StopAtBreakpoint \/ StopCutOff) /\ loop' = "free"
      \/ \E cost \in Costs : RunInstruction(cost)
  BY DEF RunSlice
<1>4. StubInv'
  <2>1. CASE UNCHANGED stubVars
    BY <2>1, StubStays DEF stubVars, IInv, StubInv, StubTyped
  <2> QED
    BY <1>2, <1>3, <2>1, SliceKeeps DEF IInv
<1>5. budget' \in 0 .. Slice
  <2>1. budget' = budget \/ \E cost \in Costs : budget' = budget - Least(budget, cost)
    BY DEF RunSlice
  <2> QED
    BY <2>1 DEF Least, Costs, IInv, Placed
<1>6. Slicing' /\ Served'
  <2>1. stub \in Stub /\ stub.rx = <<>>
    BY <1>1 DEF IInv, StubInv, StubTyped, Served
  <2>2. CASE UNCHANGED stubVars /\ loop' = "free"
    BY <2>1, <2>2 DEF Slicing, Served, stubVars
  <2>3. CASE (StopAtBreakpoint \/ StopCutOff) /\ loop' = "free"
    <3>1. stub'.rx = <<>>
      BY <2>1, <2>3, LeftTyped DEF StopAtBreakpoint, StopCutOff, Stub
    <3> QED
      BY <2>3, <3>1 DEF Slicing, Served
  <2>4. ASSUME NEW cost \in Costs, RunInstruction(cost) PROVE Slicing' /\ Served'
    <3>1. stub'.rx = <<>> /\ stub'.client = stub.client /\ stub'.halted = stub.halted
      BY <2>1, <2>4 DEF RunInstruction, Stub
    <3> QED
      BY <1>2, <3>1 DEF Slicing, Served
  <2> QED
    BY <1>3, <2>2, <2>3, <2>4
<1>7. Placed' /\ Untouched'
  BY <1>1, <1>5 DEF IInv, Placed, Untouched
<1>8. machine.cycles \in Nat => machine'.cycles \in Nat /\ machine.cycles <= machine'.cycles
  <2>1. machine' = machine \/ \E cost \in Costs : machine' = Stepped(machine, cost)
    BY <1>3 DEF stubVars, StopAtBreakpoint, StopCutOff, RunInstruction
  <2> QED
    BY <2>1, ClockOn DEF IInv, StubInv, StubTyped
<1>9. Account'
  <2>1. Excess' = Excess
    BY <1>1 DEF Excess
  <2> QED
    BY <1>1, <1>8, <2>1 DEF IInv, Account, Paid
<1> QED
  BY <1>4, <1>6, <1>7, <1>9 DEF IInv

(* the worker's own slice,                                                 *)
LEMMA WindowKeeps ==
  ASSUME IInv, WindowRuns
  PROVE  IInv' /\ (Attached => UNCHANGED machine)
<1>1. StubInv /\ machine \in Target
  BY DEF IInv, StubInv, StubTyped
<1>2. /\ UNCHANGED <<stub, link, sent, stops, view, fresh, mode, wait, done, met, chunks, stored>>
      /\ mode = "window" /\ loop' = "publish" /\ budget' = 0 /\ mark' = 0
      /\ seen' = (seen \/ stub.client # NoClient)
  BY DEF WindowRuns, SeenNow, Attached, uiVars
<1>3. HandsOff => machine' = machine
  BY DEF WindowRuns
<1>4. machine' = machine \/ machine' \in Run(machine, Slice)
  BY DEF WindowRuns
<1>5. machine' \in Target
  BY <1>1, <1>4, RunTyped
<1>6. StubInv'
  BY <1>1, <1>2, <1>5, StubStays
<1>7. Untouched'
  BY <1>2, <1>3 DEF IInv, Untouched, HandsOff, SeenNow, Attached
<1>8. Placed' /\ Slicing' /\ Served' /\ Account'
  <2>1. stub.rx = <<>>
    BY DEF WindowRuns, IInv, Served
  <2> QED
    BY <1>2, <2>1 DEF IInv, Placed, Slicing, Served, Account
<1> QED
  BY <1>3, <1>6, <1>7, <1>8 DEF IInv, HandsOff

(* One slice more.                                                         *)
LEMMA Products ==
  ASSUME NEW a \in Nat \ {0}, NEW b \in Nat
  PROVE  (a - 1) * b \in Nat /\ (a - 1) * (b + 1) = (a - 1) * b + (a - 1)
  OBVIOUS

(* that of --cycles,                                                       *)
LEMMA BudgetKeeps ==
  ASSUME IInv, BudgetRuns
  PROVE  IInv' /\ (Attached => UNCHANGED machine)
<1> DEFINE pumped == done + (machine.cycles - mark)
           left == Cycles - pumped
           n == IF left < 0 THEN Slice ELSE Least(Slice, left)
<1>1. StubInv /\ machine \in Target
  BY DEF IInv, StubInv, StubTyped
<1>2. loop = "free" /\ mode = "budget"
  BY DEF BudgetRuns
<1>3. /\ machine.cycles \in Nat /\ mark \in Nat /\ mark <= machine.cycles /\ done \in Nat
      /\ chunks \in Nat /\ Paid(mark)
  BY <1>2 DEF IInv, Account, Placed
<1>4. Excess \in Nat /\ (chunks' = chunks => Excess' = Excess)
      /\ (chunks' = chunks + 1 => Excess' = Excess + (Longest - 1))
  BY <1>3, Products DEF Excess
<1>5. pumped \in Nat /\ pumped <= machine.cycles /\ machine.cycles <= pumped + Excess
  BY <1>3, <1>4 DEF Paid
<1>6. /\ UNCHANGED <<stub, link, sent, stops, view, fresh, mode, wait, met, stored>>
      /\ seen' = (seen \/ stub.client # NoClient)
      /\ loop' = (IF done' < Cycles THEN "pump" ELSE "ended") /\ budget' = 0 /\ mark' = 0
  BY DEF BudgetRuns, SeenNow, Attached, uiVars
<1>7. \/ /\ done' = pumped /\ UNCHANGED <<machine, chunks>>
      \/ /\ ~HandsOff /\ machine' \in Run(machine, n)
         /\ done' = pumped + n /\ chunks' = chunks + 1
  BY DEF BudgetRuns
<1> HIDE DEF pumped
<1>8. n \in Nat
  BY <1>5 DEF Least
<1> HIDE DEF left, n
<1>9. /\ machine' \in Target /\ machine'.cycles \in Nat /\ done' \in Nat /\ chunks' \in Nat
      /\ Paid(machine.cycles)'
  <2>1. CASE done' = pumped /\ UNCHANGED <<machine, chunks>>
    BY <1>1, <1>3, <1>4, <1>5, <2>1 DEF Paid
  <2>2. CASE machine' \in Run(machine, n) /\ done' = pumped + n /\ chunks' = chunks + 1
    <3>1. /\ machine' \in Target /\ machine'.cycles \in Nat
          /\ machine'.cycles >= machine.cycles + n
          /\ machine'.cycles <= machine.cycles + n + (Longest - 1)
      BY <1>1, <1>3, <1>8, <2>2, RunTyped
    <3> QED
      BY <1>3, <1>4, <1>5, <1>8, <2>2, <3>1 DEF Paid
  <2> QED
    BY <1>7, <2>1, <2>2
<1>10. StubInv'
  BY <1>1, <1>6, <1>9, StubStays
<1>11. HandsOff => machine' = machine
  BY <1>7
<1>12. Untouched'
  BY <1>6, <1>11 DEF IInv, Untouched, HandsOff, SeenNow, Attached
<1>13. Placed' /\ Slicing' /\ Served'
  <2>1. stub.rx = <<>>
    BY <1>2 DEF IInv, Served
  <2> QED
    BY <1>2, <1>6, <1>9, <2>1 DEF IInv, Placed, Slicing, Served
<1>14. Account'
  BY <1>2, <1>6, <1>9 DEF Account
<1> QED
  BY <1>10, <1>11, <1>12, <1>13, <1>14 DEF IInv, HandsOff

(* What the port may do: n is at least one and the machine keeps its type; *)
(* with a debugger attached only the lid moves.                            *)
LEMMA ControlKeeps ==
  ASSUME IInv, ControlRuns
  PROVE  IInv' /\ (Attached => machine'.pc = machine.pc /\ machine'.cycles = machine.cycles)
<1>1. StubInv /\ machine \in Target /\ stored \in {"open", "shut"}
  BY DEF IInv, StubInv, StubTyped, Placed
<1>2. /\ UNCHANGED <<stub, link, sent, stops, view, fresh, mode, wait, seen, done, met, chunks>>
      /\ mode = "control" /\ loop' = "pump" /\ budget' = 0 /\ mark' = 0
  BY DEF ControlRuns
<1>3. /\ machine' \in Target
      /\ Attached => machine'.pc = machine.pc /\ machine'.cycles = machine.cycles
  <2>1. CASE UNCHANGED machine
    BY <1>1, <2>1
  <2>2. ASSUME NEW command \in PortCommands, PortCommand(command)
        PROVE  /\ machine' \in Target
               /\ Attached => machine'.pc = machine.pc /\ machine'.cycles = machine.cycles
    <3>1. CASE command \in {"advance", "reset", "load"} /\ Attached
      BY <1>1, <2>2, <3>1 DEF PortCommand
    <3>2. CASE command = "advance" /\ ~Attached
      <4>1. PICK n \in 1 .. Slice : machine' \in Run(machine, n)
        BY <2>2, <3>2 DEF PortCommand
      <4> QED
        BY <1>1, <3>2, <4>1, RunTyped
    <3>3. CASE command # "advance" /\ ~(command \in {"reset", "load"} /\ Attached)
      <4>1. Moves(command, machine')
        BY <2>2, <3>3 DEF PortCommand
      <4>2. Attached => command \in {"open", "close", "save"}
        BY <3>3 DEF PortCommands
      <4> QED
        BY <1>1, <4>1, <4>2, MovesTyped, LidMoves
    <3> QED
      BY <3>1, <3>2, <3>3
  <2> QED
    BY <2>1, <2>2 DEF ControlRuns
<1>4. StubInv'
  BY <1>1, <1>2, <1>3, StubStays
<1>6. stored' \in {"open", "shut"}
  <2>1. stored' = stored \/ \E command \in PortCommands : Stores(command, stored')
    BY DEF ControlRuns, PortCommand
  <2> QED
    BY <1>1, <2>1 DEF Stores, Target
<1>5. Placed' /\ Slicing' /\ Served' /\ Account' /\ Untouched'
  <2>1. stub.rx = <<>>
    BY DEF ControlRuns, IInv, Served
  <2> QED
    BY <1>2, <1>6, <2>1 DEF IInv, Placed, Slicing, Served, Account, Untouched
<1> QED
  BY <1>3, <1>4, <1>5 DEF IInv

(* Steps that leave stub and machine alone.                                *)
LEMMA OthersKeep ==
  ASSUME IInv, CommandsHandled \/ Publish \/ Ended \/ UserNext \/ UNCHANGED vars
  PROVE  IInv' /\ UNCHANGED stubVars
<1>1. UNCHANGED <<stubVars, mode, wait, seen, mark, done, met, chunks, stored>>
  BY DEF CommandsHandled, Publish, Ended, UserNext, SendCommand, OpenDisc, PickDisc,
         vars, loopVars, uiVars
<1>2. \/ UNCHANGED <<loop, budget>>
      \/ loop = "commands" /\ loop' = "pump" /\ budget' \in 0 .. Slice
      \/ loop = "publish" /\ loop' = "commands" /\ UNCHANGED budget
  BY DEF CommandsHandled, Publish, Ended, UserNext, SendCommand, OpenDisc, PickDisc,
         vars, loopVars
<1>3. StubInv'
  BY <1>1, StubStays DEF stubVars, IInv, StubInv, StubTyped
<1>4. Placed' /\ Slicing' /\ Served' /\ Untouched'
  BY <1>1, <1>2 DEF stubVars, IInv, Placed, Slicing, Served, Untouched
<1>5. Account'
  <2>1. Excess' = Excess
    BY <1>1 DEF Excess
  <2>2. mode = "budget" => loop' = loop
    BY <1>2 DEF IInv, Placed
  <2> QED
    BY <1>1, <2>1, <2>2 DEF stubVars, IInv, Account, Paid
<1> QED
  BY <1>1, <1>3, <1>4, <1>5 DEF IInv

(* and whatever a debugger does.                                           *)
LEMMA DebuggersKeep ==
  ASSUME IInv, DebuggerNext
  PROVE  IInv' /\ UNCHANGED <<stub, machine>>
<1>1. StubInv' /\ UNCHANGED <<stub, machine>>
  BY ClientsKeep DEF IInv, DebuggerNext
<1>2. UNCHANGED <<mode, wait, loop, budget, seen, mark, done, met, chunks, stored>>
  BY DEF DebuggerNext, loopVars, uiVars
<1>3. Placed' /\ Slicing' /\ Served' /\ Untouched'
  BY <1>1, <1>2 DEF IInv, Placed, Slicing, Served, Untouched
<1>4. Account'
  BY <1>1, <1>2 DEF IInv, Account, Paid, Excess
<1> QED
  BY <1>1, <1>3, <1>4 DEF IInv

(* Every step keeps it,                                                    *)
LEMMA StepKeeps == IInv /\ [Next]_vars => IInv'
<1> SUFFICES ASSUME IInv, [Next]_vars PROVE IInv'
  OBVIOUS
<1>1. CASE CommandsHandled \/ Publish \/ Ended \/ UserNext \/ UNCHANGED vars
  BY <1>1, OthersKeep
<1>2. CASE LoopNext /\ ~CommandsHandled /\ ~Publish
  BY <1>2, CommandKeeps, PumpStubKeeps, ServiceKeeps, RunSliceKeeps, WindowKeeps, BudgetKeeps,
     ControlKeeps DEF LoopNext
<1>3. CASE DebuggerNext
  BY <1>3, DebuggersKeep
<1> QED
  BY <1>1, <1>2, <1>3 DEF Next
-----------------------------------------------------------------------------
(* The theorems. *)

(* and every behaviour.                                                    *)
LEMMA Always == Spec => []IInv
  BY Starts, StepKeeps, PTL DEF Spec

(* --cycles is spent on what the machine ran, whoever ran it: nothing is   *)
(* counted that was not run, each slice run_headless runs itself goes over *)
(* by less than an instruction, and the program does not leave early.      *)
THEOREM CyclesSpent == Spec => []BudgetSpent
<1>1. IInv => BudgetSpent
  <2> SUFFICES ASSUME IInv, mode = "budget", loop \in {"pump", "ended"}
               PROVE  /\ done <= machine.cycles /\ machine.cycles <= done + (Longest - 1) * chunks
                      /\ loop = "ended" => machine.cycles >= Cycles
    BY DEF BudgetSpent
  <2>1. machine.cycles \in Nat /\ Paid(machine.cycles) /\ done \in Nat
        /\ (loop = "ended" => done >= Cycles)
    BY DEF IInv, Account, Placed
  <2> QED
    BY <2>1 DEF Paid, Excess
<1> QED
  BY <1>1, Always, PTL

(* With --wait-debugger nothing runs before a client has attached (window  *)
(* and --cycles).                                                          *)
THEOREM WaitIsKept == Spec => []WaitHolds
<1>1. IInv => WaitHolds
  BY DEF IInv, Untouched, WaitHolds
<1> QED
  BY <1>1, Always, PTL

(* A client that believes its target stopped and has nothing on the way    *)
(* has a halted stub: no loop and no command moves the machine.            *)
LEMMA SettledIsHalted ==
  ASSUME IInv, NEW c \in Clients, Settled(c)
  PROVE  Attached /\ stub.client = c /\ stub.halted /\ stub.rx = <<>>
<1>1. stub.client = c /\ view[c] = "stopped" /\ stub.rx \o sent[c] = <<>>
      /\ c # NoClient
  BY DEF Settled, Underway
<1>2. Lock(c) /\ stub.rx \in Seq(Requests) /\ sent[c] \in Seq(Requests)
  BY DEF IInv, StubInv, StubTyped, Stub
<1>3. stub.rx = <<>>
  BY <1>1, <1>2
<1> QED
  BY <1>1, <1>2, <1>3 DEF Lock, Quiet, Attached

(* A target its debugger believes stopped is not moved (pump in psx-debug, the
   loops of emu.rs and main.rs). *)
THEOREM TargetUndisturbed == Spec => Undisturbed
<1> DEFINE Still == \A c \in Clients : Settled(c) =>
                      machine'.pc = machine.pc /\ machine'.cycles = machine.cycles
<1>1. IInv /\ [Next]_vars => [Still]_vars
  <2> SUFFICES ASSUME IInv, Next, NEW c \in Clients, Settled(c)
               PROVE  machine'.pc = machine.pc /\ machine'.cycles = machine.cycles
    OBVIOUS
  <2>1. Attached /\ stub.halted /\ stub.rx = <<>>
    BY SettledIsHalted
  <2>2. CASE HandleCommand
    BY <2>1, <2>2 DEF HandleCommand, DebuggerActive
  <2>3. CASE CommandsHandled \/ Publish \/ Ended \/ UserNext
    BY <2>3, OthersKeep DEF stubVars
  <2>4. CASE PumpStub
    BY <2>4, PumpStubKeeps
  <2>5. ~Service /\ ~RunSlice
    BY <2>1 DEF Service, ServiceItem, RunSlice, IInv, Slicing
  <2>6. CASE WindowRuns \/ BudgetRuns \/ ControlRuns
    BY <2>1, <2>6, WindowKeeps, BudgetKeeps, ControlKeeps
  <2>7. CASE DebuggerNext
    BY <2>7, DebuggersKeep
  <2> QED
    BY <2>2, <2>3, <2>4, <2>5, <2>6, <2>7 DEF Next, LoopNext
<1> QED
  BY <1>1, Always, PTL DEF Spec, Undisturbed

(* No instruction with a breakpoint is run over, and a resume gets off its own
   (run_slice in psx-debug). *)
THEOREM BreakpointsDoHold == Spec => BreakpointsHold
<1> DEFINE Held == loop = "slice" =>
                     /\ stub'.halted /\ ~stub.halted => ~fresh
                     /\ machine'.cycles # machine.cycles \/ machine'.pc # machine.pc =>
                          fresh \/ machine.pc \notin stub.breakpoints
<1>1. IInv /\ [Next]_vars => [Held]_vars
  <2> SUFFICES ASSUME IInv, Next, loop = "slice"
               PROVE  /\ stub'.halted /\ ~stub.halted => ~fresh
                      /\ machine'.cycles # machine.cycles \/ machine'.pc # machine.pc =>
                           fresh \/ machine.pc \notin stub.breakpoints
    OBVIOUS
  <2>1. stub \in Stub /\ LetOff /\ stub.client # NoClient /\ ~stub.halted
    BY DEF IInv, StubInv, StubTyped, Slicing
  <2>2. CASE UNCHANGED <<stub, machine>>
    BY <2>2
  <2>3. CASE StopAtBreakpoint
    BY <2>1, <2>3 DEF StopAtBreakpoint, OnBreakpoint, LetOff
  <2>9. CASE StopCutOff
    BY <2>1, <2>9, LeftTyped DEF StopCutOff
  <2>4. CASE \E cost \in Costs : RunInstruction(cost)
    BY <2>1, <2>4 DEF RunInstruction, OnBreakpoint, LetOff, Stub
  <2>5. RunSlice => \/ UNCHANGED stubVars \/ StopAtBreakpoint \/ StopCutOff
                    \/ \E cost \in Costs : RunInstruction(cost)
    BY DEF RunSlice
  <2>6. ~HandleCommand /\ ~PumpStub /\ ~Service /\ ~WindowRuns /\ ~BudgetRuns /\ ~ControlRuns
    BY DEF HandleCommand, PumpStub, Service, WindowRuns, BudgetRuns, ControlRuns
  <2>7. CommandsHandled \/ Publish \/ Ended \/ UserNext => UNCHANGED stubVars
    BY OthersKeep
  <2>8. DebuggerNext => UNCHANGED <<stub, machine>>
    BY DebuggersKeep
  <2> QED
    BY <2>2, <2>3, <2>4, <2>5, <2>6, <2>7, <2>8, <2>9 DEF Next, LoopNext, stubVars
<1> QED
  BY <1>1, Always, PTL DEF Spec, BreakpointsHold
-----------------------------------------------------------------------------
(* What a client has on the way, counted. *)

(* Of two queues of which one asks, one request is a resume.               *)
LEMMA Counted ==
  ASSUME NEW p \in Seq(Requests), NEW q \in Seq(Requests), Once(p), Once(q),
         ~(Asks(p) /\ Asks(q)),
         NEW R, R = {i \in DOMAIN (p \o q) : IsResume((p \o q)[i])}
  PROVE  Cardinality(R) = IF Asks(p) \/ Asks(q) THEN 1 ELSE 0
<1> DEFINE m == Len(p)
           n == Len(q)
<1>1. /\ m \in Nat /\ n \in Nat /\ DOMAIN (p \o q) = 1 .. m + n
      /\ \A i \in 1 .. m : (p \o q)[i] = p[i]
      /\ \A i \in m + 1 .. m + n : (p \o q)[i] = q[i - m]
  OBVIOUS
<1>2. \A i \in R : \/ i \in 1 .. m /\ IsResume(p[i])
                   \/ i - m \in 1 .. n /\ i \in Nat /\ IsResume(q[i - m])
  <2> SUFFICES ASSUME NEW i \in R PROVE \/ i \in 1 .. m /\ IsResume(p[i])
                                        \/ i - m \in 1 .. n /\ i \in Nat /\ IsResume(q[i - m])
    OBVIOUS
  <2>1. i \in 1 .. m + n /\ IsResume((p \o q)[i])
    BY <1>1
  <2>2. CASE i \in 1 .. m
    BY <1>1, <2>1, <2>2
  <2>3. CASE i \in m + 1 .. m + n
    BY <1>1, <2>1, <2>3
  <2> QED
    BY <1>1, <2>1, <2>2, <2>3
<1>3. \A i \in 1 .. m : IsResume(p[i]) => i \in R
  BY <1>1
<1>4. \A i \in 1 .. n : IsResume(q[i]) => m + i \in R
  <2> SUFFICES ASSUME NEW i \in 1 .. n, IsResume(q[i]) PROVE m + i \in R
    OBVIOUS
  <2>1. m + i \in m + 1 .. m + n /\ (m + i) - m = i /\ m + i \in 1 .. m + n
    BY <1>1
  <2> QED
    BY <1>1, <2>1
<1> HIDE DEF m, n
<1>5. CASE ~(Asks(p) \/ Asks(q))
  <2>1. R = {}
    BY <1>2, <1>5 DEF Asks, m, n
  <2> QED
    BY <1>5, <2>1, FS_EmptySet
<1>6. ASSUME NEW a \in R, \A b \in R : b = a PROVE Cardinality(R) = 1
  <2>1. R = {a}
    BY <1>6
  <2> QED
    BY <2>1, FS_Singleton
<1>7. CASE Asks(p)
  <2>1. PICK a \in 1 .. m : IsResume(p[a])
    BY <1>7 DEF Asks, m
  <2>2. \A b \in R : b = a
    BY <1>2, <1>7, <2>1 DEF Asks, Once, m, n
  <2>3. Cardinality(R) = 1
    BY <1>3, <1>6, <2>1, <2>2
  <2> QED
    BY <1>7, <2>3
<1>8. CASE Asks(q)
  <2>1. PICK a \in 1 .. n : IsResume(q[a])
    BY <1>8 DEF Asks, n
  <2>2. \A b \in R : b - m = a /\ b \in Nat
    BY <1>2, <1>8, <2>1 DEF Asks, Once, m, n
  <2>5. m \in Nat /\ a \in Nat
    BY <1>1, <2>1 DEF m, n
  <2>3. ASSUME NEW b \in R PROVE b = m + a
    <3>1. b - m = a /\ b \in Nat
      BY <2>2
    <3> QED
      BY ONLY <2>5, <3>1
  <2>4. Cardinality(R) = 1
    BY <1>4, <1>6, <2>1, <2>3
  <2> QED
    BY <1>8, <2>4
<1> QED
  BY <1>5, <1>7, <1>8

(* What is under way, as a sequence.                                       *)
LEMMA Unpacked ==
  ASSUME StubTyped, NEW c \in Clients
  PROVE  /\ Underway(c) = Rx(c) \o sent[c] /\ Rx(c) \in Seq(Requests) /\ sent[c] \in Seq(Requests)
         /\ Len(Underway(c)) = Len(Rx(c)) + Len(sent[c])
<1>1. sent[c] \in Seq(Requests) /\ stub.rx \in Seq(Requests)
  BY DEF StubTyped, Stub
<1>2. CASE stub.client = c
  BY <1>1, <1>2 DEF Underway, Rx
<1>3. CASE stub.client # c
  <2>1. Underway(c) = sent[c] /\ Rx(c) = <<>>
    BY <1>3 DEF Underway, Rx
  <2>2. <<>> \in Seq(Requests) /\ <<>> \o sent[c] = sent[c] /\ Len(<<>>) = 0 /\ Len(sent[c]) \in Nat
    BY <1>1
  <2> QED
    BY <1>1, <2>1, <2>2
<1> QED
  BY <1>2, <1>3

(* Clients and stub agree.                                                 *)
LEMMA Agreement == IInv => InLockstep
<1> SUFFICES ASSUME IInv, NEW c \in Clients
             PROVE  Resumes(c) + stops[c] + (IF stub.client = c /\ ~stub.halted THEN 1 ELSE 0)
                      = (IF view[c] = "running" THEN 1 ELSE 0)
  BY DEF InLockstep
<1>1. Lock(c) /\ StubTyped
  BY DEF IInv, StubInv
<1>2. Resumes(c) = IF Asks(Rx(c)) \/ Asks(sent[c]) THEN 1 ELSE 0
  <2> DEFINE R == {i \in DOMAIN Underway(c) : IsResume(Underway(c)[i])}
  <2>1. Underway(c) = Rx(c) \o sent[c] /\ Rx(c) \in Seq(Requests) /\ sent[c] \in Seq(Requests)
    BY <1>1, Unpacked
  <2>2. Once(Rx(c)) /\ Once(sent[c]) /\ ~(Asks(Rx(c)) /\ Asks(sent[c]))
    BY <1>1 DEF Lock
  <2>3. R = {i \in DOMAIN (Rx(c) \o sent[c]) : IsResume((Rx(c) \o sent[c])[i])}
    BY <2>1
  <2>4. Resumes(c) = Cardinality(R)
    BY DEF Resumes, IsResume
  <2> QED
    BY ONLY <2>1, <2>2, <2>3, <2>4, Counted
<1>3. stops[c] \in {0, 1}
  <2>1. stops[c] \in Nat
    BY <1>1 DEF StubTyped
  <2> QED
    BY <1>1, <2>1 DEF Lock
<1>4. (stub.client = c /\ ~stub.halted) <=> ~Quiet(c)
  BY DEF Quiet
<1>5. CASE Asks(Rx(c)) \/ Asks(sent[c])
  <2>1. view[c] = "running" /\ stops[c] = 0 /\ Quiet(c)
    BY <1>1, <1>5 DEF Lock
  <2> QED
    BY <1>2, <1>4, <1>5, <2>1
<1>6. CASE ~(Asks(Rx(c)) \/ Asks(sent[c])) /\ stops[c] = 1
  <2>1. view[c] = "running" /\ Quiet(c)
    BY <1>1, <1>6 DEF Lock
  <2> QED
    BY <1>2, <1>4, <1>6, <2>1
<1>7. CASE ~(Asks(Rx(c)) \/ Asks(sent[c])) /\ stops[c] = 0
  <2>1. (view[c] = "running") <=> ~Quiet(c)
    BY <1>1, <1>7 DEF Lock
  <2> QED
    BY <1>2, <1>4, <1>7, <2>1
<1> QED
  BY <1>3, <1>5, <1>6, <1>7
-----------------------------------------------------------------------------
(* What else the variables are.                                            *)
Within == \A c \in Clients : Len(Rx(c)) + Len(sent[c]) <= SendBound
Panel ==
  /\ mode \in Modes /\ wait \in Waits
  /\ loop \in {"commands", "pump", "service", "slice", "free", "publish", "ended"}
  /\ seen \in BOOLEAN /\ running \in BOOLEAN /\ picker \in BOOLEAN /\ met \in BOOLEAN
  /\ shown \in BOOLEAN /\ fresh \in BOOLEAN
  /\ queue \in Seq(Commands) /\ Len(queue) <= QueueBound

(* The loop's own variables keep their types,                              *)
LEMMA PanelKeeps == ASSUME StubTyped, Panel, [Next]_vars PROVE Panel'
<1>1. UNCHANGED <<mode, wait>>
  BY DEF Next, LoopNext, Ended, DebuggerNext, UserNext, HandleCommand, CommandsHandled, Publish,
     PumpStub, Service, RunSlice, WindowRuns, BudgetRuns, ControlRuns,
     SendCommand, OpenDisc, PickDisc, vars
<1>2. \/ UNCHANGED <<queue, picker>>
      \/ UNCHANGED picker /\ queue # <<>> /\ queue' = Tail(queue)
      \/ /\ picker' \in BOOLEAN /\ Len(queue) < QueueBound
         /\ \E command \in Commands : queue' = Append(queue, command)
  BY DEF Next, LoopNext, Ended, DebuggerNext, UserNext, HandleCommand, CommandsHandled, Publish,
     PumpStub, Service, RunSlice, WindowRuns, BudgetRuns, ControlRuns,
     SendCommand, OpenDisc, PickDisc, vars, uiVars, Panel, Commands
<1>3. queue' \in Seq(Commands) /\ Len(queue') <= QueueBound /\ picker' \in BOOLEAN
  <2>1. queue \in Seq(Commands) /\ Len(queue) <= QueueBound /\ picker \in BOOLEAN
    BY DEF Panel
  <2>2. CASE UNCHANGED <<queue, picker>>
    BY <2>1, <2>2
  <2>3. CASE UNCHANGED picker /\ queue # <<>> /\ queue' = Tail(queue)
    BY <2>1, <2>3
  <2>4. CASE /\ picker' \in BOOLEAN /\ Len(queue) < QueueBound
             /\ \E command \in Commands : queue' = Append(queue, command)
    BY <2>1, <2>4
  <2> QED
    BY <1>2, <2>2, <2>3, <2>4
<1>4. loop' \in {"commands", "pump", "service", "slice", "free", "publish", "ended"}
  BY DEF Next, LoopNext, Ended, DebuggerNext, UserNext, HandleCommand, CommandsHandled, Publish,
     PumpStub, Service, RunSlice, WindowRuns, BudgetRuns, ControlRuns, Onward,
     SendCommand, OpenDisc, PickDisc, vars, loopVars, Panel
<1>5. seen' \in BOOLEAN /\ running' \in BOOLEAN /\ met' \in BOOLEAN /\ shown' \in BOOLEAN
  BY DEF Next, LoopNext, Ended, DebuggerNext, UserNext, HandleCommand, CommandsHandled, Publish,
     PumpStub, Service, RunSlice, WindowRuns, BudgetRuns, ControlRuns, SeenNow, DebuggerActive,
     Waiting, Attached, SendCommand, OpenDisc, PickDisc, vars, loopVars, uiVars, Panel
<1>6. fresh' \in {TRUE, FALSE, fresh}
  <2>1. Pump => fresh' = fresh
    BY DEF Pump, Read, Detach, stubVars
  <2>2. ServiceItem => fresh' \in {TRUE, FALSE, fresh}
    BY Items, CutOffs DEF ServiceItem, Resume, SingleStep, Interrupt, Detach, HandleBreakpoint
  <2>3. RunSlice => fresh' \in {TRUE, FALSE, fresh}
    BY DEF RunSlice, StopAtBreakpoint, StopCutOff, RunInstruction, stubVars
  <2>4. ClientNext => fresh' = fresh
    BY DEF ClientNext, Knock, Send, Receive, HangUp
  <2> QED
    BY <2>1, <2>2, <2>3, <2>4
    DEF Next, LoopNext, Ended, DebuggerNext, UserNext, HandleCommand, CommandsHandled, Publish,
     PumpStub, Service, WindowRuns, BudgetRuns, ControlRuns,
     SendCommand, OpenDisc, PickDisc, vars, stubVars
<1> QED
  BY <1>1, <1>3, <1>4, <1>5, <1>6 DEF Panel

(* an iteration stays within its budget,                                   *)
LEMMA WithinKeeps == ASSUME IInv, Within, [Next]_vars PROVE Within'
<1>1. /\ StubTyped /\ \A c \in Clients : /\ Rx(c) \in Seq(Requests) /\ sent[c] \in Seq(Requests)
                                      /\ Len(Rx(c)) \in Nat /\ Len(sent[c]) \in Nat
  BY Unpacked DEF IInv, StubInv
<1>3. CASE UNCHANGED <<stub, sent>>
  BY <1>3 DEF Within, Rx
<1>2. ASSUME NEW d \in Clients, Forget(d), stub'.client = NoClient PROVE Within'
  <2>1. \A c \in Clients : Rx(c)' = <<>> /\ sent'[c] \in {<<>>, sent[c]}
    BY <1>1, <1>2, ForgetTyped DEF Rx
  <2> QED
    BY <1>1, <2>1 DEF Within
<1>4. ASSUME NEW b \in Stub, b.client \in Clients, Detach(b) PROVE Within'
  BY <1>2, <1>4, LeftTyped DEF Detach
<1>5. ASSUME NEW b \in Stub, stub.rx = <<>>, stub.client \in {NoClient, b.client}, Read(b) PROVE Within'
  <2>1. CASE b.client = NoClient
    BY <1>3, <1>5, <2>1 DEF Read, stubVars
  <2>2. CASE b.client # NoClient /\ link[b.client] = "shut"
    BY <1>4, <1>5, <2>2 DEF Read, Stub
  <2>3. CASE b.client # NoClient /\ link[b.client] # "shut"
    <3> DEFINE d == b.client
    <3>1. /\ d \in Clients /\ stub' = [b EXCEPT !.rx = sent[d]] /\ sent' = [sent EXCEPT ![d] = <<>>]
      BY <1>5, <2>3 DEF Read, Stub
    <3>2. stub'.client = d /\ stub'.rx = sent[d]
      BY <1>1, <1>5, <3>1 DEF Stub, StubTyped
    <3>3. Rx(d)' = sent[d] /\ sent'[d] = <<>>
      BY <1>1, <3>1, <3>2 DEF Rx, StubTyped
    <3>4. ASSUME NEW c \in Clients, c # d PROVE Rx(c)' = <<>> /\ sent'[c] = sent[c]
      BY <1>1, <3>1, <3>2, <3>4 DEF Rx, StubTyped
    <3> QED
      BY <1>1, <3>3, <3>4 DEF Within
  <2> QED
    BY <2>1, <2>2, <2>3
<1>6. CASE PumpStub
  <2>1. stub.rx = <<>> /\ Pump /\ stub \in Stub
    BY <1>1, <1>6 DEF PumpStub, IInv, Served, StubTyped
  <2>2. CASE Attached \/ AtTheDoor = {}
    BY <1>5, <2>1, <2>2 DEF Pump
  <2>3. CASE ~(Attached \/ AtTheDoor = {})
    <3>1. PICK c \in AtTheDoor : Read(Accepted(c))
      BY <2>1, <2>3 DEF Pump
    <3>2. Accepted(c) \in Stub /\ stub.client = NoClient
      BY <2>1, <2>3 DEF Accepted, AtTheDoor, Attached, Stub
    <3> QED
      BY <1>5, <2>1, <3>1, <3>2
  <2> QED
    BY <2>2, <2>3
<1>7. CASE Service
  <2>1. /\ ServiceItem /\ stub.client \in Clients /\ stub.rx # <<>> /\ stub \in Stub
    BY <1>1, <1>7 DEF Service, ServiceItem, StubTyped, Stub
  <2>4. CASE HandleCutOff(Head(stub.rx))
    BY <1>1, <1>2, <2>1, <2>4, CutOffs
  <2>2. Handle(Head(stub.rx)) =>
          \/ Detach(stub)
          \/ stub'.client = stub.client /\ stub'.rx = Tail(stub.rx) /\ sent' = sent
    <3>1. Taken \in Stub /\ Taken.rx = Tail(stub.rx) /\ Taken.client = stub.client
      BY <2>1, TakenTyped
    <3> QED
      BY <1>1, <2>1, <3>1, Items DEF Resume, SingleStep, Interrupt, HandleBreakpoint, Stub
  <2>3. CASE stub'.client = stub.client /\ stub'.rx = Tail(stub.rx) /\ sent' = sent
    <3>1. stub.rx \in Seq(Requests) /\ Len(Tail(stub.rx)) = Len(stub.rx) - 1 /\ Len(stub.rx) \in Nat
      BY <2>1, Heads DEF Stub
    <3>2. \A c \in Clients : \/ Rx(c) = stub.rx /\ Rx(c)' = Tail(stub.rx)
                           \/ Rx(c)' = Rx(c)
      BY <2>3 DEF Rx
    <3> QED
      BY <1>1, <2>3, <3>1, <3>2 DEF Within
  <2> QED
    BY <1>4, <2>1, <2>2, <2>3, <2>4 DEF ServiceItem
<1>8. CASE RunSlice
  <2>1. CASE StopCutOff
    <3>1. loop = "slice"
      BY <1>8 DEF RunSlice
    <3>2. stub.client \in Clients /\ Forget(stub.client) /\ stub'.client = NoClient
      BY <1>1, <2>1, <3>1, LeftTyped DEF StopCutOff, CutOff, IInv, Slicing, StubTyped, Stub
    <3> QED
      BY <1>2, <3>2
  <2>2. CASE ~StopCutOff
    <3>1. stub'.client = stub.client /\ stub'.rx = stub.rx /\ sent' = sent
      BY <1>1, <1>8, <2>2 DEF RunSlice, StopAtBreakpoint, RunInstruction, stubVars, StubTyped, Stub
    <3> QED
      BY <3>1 DEF Within, Rx
  <2> QED
    BY <2>1, <2>2
<1>9. CASE DebuggerNext
  <2>1. PICK c \in Clients : \/ Knock(c)
                             \/ \E request \in Requests : Send(c, request)
                             \/ Receive(c)
                             \/ HangUp(c)
    BY <1>9 DEF DebuggerNext, ClientNext
  <2>2. CASE Knock(c) \/ Receive(c) \/ HangUp(c)
    BY <1>3, <2>2 DEF Knock, Receive, HangUp
  <2>3. ASSUME NEW request \in Requests, Send(c, request) PROVE Within'
    <3>1. /\ Len(Rx(c)) + Len(sent[c]) < SendBound /\ stub' = stub
          /\ sent' = [sent EXCEPT ![c] = Append(sent[c], request)]
      BY <1>1, <2>3, Unpacked DEF Send
    <3>2. Len(Append(sent[c], request)) = Len(sent[c]) + 1
      BY <1>1
    <3>3. Len(Rx(c)) + Len(sent'[c]) <= SendBound
      BY <1>1, <3>1, <3>2 DEF StubTyped
    <3>4. \A d \in Clients : Rx(d)' = Rx(d) /\ (d = c \/ sent'[d] = sent[d])
      BY <1>1, <3>1 DEF Rx, StubTyped
    <3> QED
      BY <3>3, <3>4 DEF Within
  <2> QED
    BY <2>1, <2>2, <2>3
<1>10. \/ UNCHANGED <<stub, sent>> \/ PumpStub \/ Service \/ RunSlice \/ DebuggerNext
  BY DEF Next, LoopNext, Ended, UserNext, HandleCommand, CommandsHandled, Publish,
     WindowRuns, BudgetRuns, ControlRuns, SendCommand, OpenDisc, PickDisc, vars, stubVars
<1> QED
  BY <1>3, <1>6, <1>7, <1>8, <1>9, <1>10

(* from the start,                                                         *)
LEMMA PanelStarts == Init => Within /\ Panel
<1> SUFFICES ASSUME Init PROVE Within /\ Panel
  OBVIOUS
<1>1. stub.rx = <<>> /\ \A c \in Clients : sent[c] = <<>>
  BY DEF Init, StubInit
<1>2. Within
  <2> SUFFICES ASSUME NEW c \in Clients PROVE Len(Rx(c)) + Len(sent[c]) <= SendBound
    BY DEF Within
  <2>1. Rx(c) = <<>> /\ sent[c] = <<>>
    BY <1>1 DEF Rx
  <2>2. Len(<<>>) + Len(<<>>) <= SendBound
    OBVIOUS
  <2> QED
    BY <2>1, <2>2
<1>3. queue = <<>> /\ running \in BOOLEAN /\ seen = FALSE /\ met = FALSE /\ picker = FALSE
      /\ shown = FALSE /\ fresh = FALSE
  BY DEF Init, StubInit
<1>4. Panel
  <2>1. <<>> \in Seq(Commands) /\ Len(<<>>) <= QueueBound
    OBVIOUS
  <2>2. mode \in Modes /\ wait \in Waits /\ loop \in {"commands", "pump"}
    BY DEF Init
  <2> QED
    BY <1>3, <2>1, <2>2 DEF Panel
<1> QED
  BY <1>2, <1>4

(* A debugger's idea of its target and the stub's agree, however           *)
(* interrupts, breakpoints, steps and attaches cross; and every part has   *)
(* its type.                                                               *)
THEOREM AgreesWithClients == Spec => []MovesTogether
<1>1. Init => IInv /\ Within /\ Panel
  BY Starts, PanelStarts
<1>2. IInv /\ Within /\ Panel /\ [Next]_vars => (IInv /\ Within /\ Panel)'
  <2> SUFFICES ASSUME IInv, Within, Panel, [Next]_vars
               PROVE  (IInv /\ Within /\ Panel)'
    OBVIOUS
  <2>1. IInv' /\ StubTyped
    BY StepKeeps DEF IInv, StubInv
  <2> QED
    BY <2>1, WithinKeeps, PanelKeeps
<1>3. IInv /\ Within /\ Panel => TypeOK
  <2> SUFFICES ASSUME IInv, Within, Panel PROVE TypeOK
    OBVIOUS
  <2>1. StubTyped
    BY DEF IInv, StubInv
  <2>2. \A c \in Clients : sent[c] \in Seq(Requests) /\ Len(sent[c]) <= SendBound
    <3> SUFFICES ASSUME NEW c \in Clients PROVE sent[c] \in Seq(Requests) /\ Len(sent[c]) <= SendBound
      OBVIOUS
    <3>1. /\ Rx(c) \in Seq(Requests) /\ sent[c] \in Seq(Requests)
          /\ Len(Rx(c)) \in Nat /\ Len(sent[c]) \in Nat
      BY <2>1, Unpacked
    <3> QED
      BY <3>1 DEF Within
  <2>3. stops \in [Clients -> 0 .. 1]
    <3>1. \A c \in Clients : stops[c] = 0 \/ stops[c] = 1
      BY DEF IInv, StubInv, Lock
    <3> QED
      BY <2>1, <3>1 DEF StubTyped
  <2>4. {seen, running, picker, met} \subseteq BOOLEAN /\ fresh \in BOOLEAN /\ shown \in BOOLEAN
    BY DEF Panel
  <2>5. /\ stub \in [client : Clients \cup {NoClient}, halted : BOOLEAN,
                     breakpoints : SUBSET Words, skip : BOOLEAN, rx : Seq(Requests)]
        /\ machine \in [pc : Words, lid : {"open", "shut"}, cycles : Nat \cup {Uncounted}]
        /\ link \in [Clients -> {"away", "knocking", "open", "shut"}]
        /\ view \in [Clients -> {"stopped", "running"}]
    BY <2>1 DEF StubTyped, Stub, Target
  <2>6. /\ mode \in Modes /\ wait \in Waits
        /\ loop \in {"commands", "pump", "service", "slice", "free", "publish", "ended"}
        /\ queue \in Seq(Commands) /\ Len(queue) <= QueueBound
        /\ budget \in 0 .. Slice /\ mark \in Nat \cup {Uncounted} /\ {done, chunks} \subseteq Nat
        /\ stored \in {"open", "shut"}
    BY DEF Panel, IInv, Placed
  <2> QED
    BY <2>2, <2>3, <2>4, <2>5, <2>6 DEF TypeOK
<1>4. IInv /\ Within /\ Panel => MovesTogether
  BY <1>3, Agreement DEF MovesTogether
<1> QED
  BY <1>1, <1>2, <1>4, PTL DEF Spec
=============================================================================
