--------------------------------- MODULE Cpu --------------------------------
(***************************************************************************)
(* The processor (psx-core/src/cpu/mod.rs, cop0.rs): delayed branches and  *)
(* loads, and the exceptions, interrupts and COP0 breakpoints that may     *)
(* come in between.                                                        *)
(*                                                                         *)
(* A program is a sequence of abstract instructions and an address its     *)
(* index; the kernel's two handlers, which are not part of the repository, *)
(* are short programs at the two vectors.  A register holds a word of two  *)
(* halves, or a return address; k is the register reserved to handlers.    *)
(* Every access to the bus is kept in a log, and what a load returns       *)
(* depends on what has been accessed before, as it does for a device.      *)
(***************************************************************************)
EXTENDS Integers, Sequences, SequencesExt

CONSTANTS
  Programs,    (* the programs considered                                  *)
  Interrupts,  (* bound: interrupts taken                                  *)
  Breaks       (* the settings of the breakpoint registers considered      *)

Registers == {"zero", "a", "b", "k"}
NoLoad == [reg |-> "zero", value |-> 0]
NoBreak == [kind |-> "off", at |-> 0, level |-> "kernel", trap |-> FALSE]

VARIABLES
  program,
  cpu,     (* the Cpu and its Cop0                                         *)
  log,     (* what the program did to the bus, the geometry engine and the *)
           (* kernel                                                       *)
  left     (* interrupts that may still come                               *)

vars == <<program, cpu, log, left>>
-----------------------------------------------------------------------------
(* Programs. *)

Nop == [op |-> "alu", rd |-> "zero", rs |-> "zero", rt |-> "zero"]
Vector == 100
DebugVector == 200
Kernel == [pc \in Vector .. Vector + 4 \cup DebugVector .. DebugVector + 3 |->
  CASE pc \in {Vector, DebugVector} -> [op |-> "epc", rd |-> "k"]
    [] pc = Vector + 1 -> Nop
    [] pc = Vector + 2 -> [op |-> "serve"]
    [] pc = DebugVector + 1 -> [op |-> "disarm"]
    [] pc \in {Vector + 3, DebugVector + 2} -> [op |-> "jump", rs |-> "k"]
    [] OTHER -> [op |-> "rfe"]]

Fetch(pc) == IF pc \in DOMAIN program THEN program[pc]
             ELSE IF pc \in DOMAIN Kernel THEN Kernel[pc] ELSE Nop

Branches == {"branch", "link"}
Loads == {"load", "left", "right"}
Reads(i) == CASE i.op \in {"alu", "store"} -> {i.rs, i.rt}
              [] i.op \in {"load", "left", "right", "branch"} -> {i.rs}
              [] OTHER -> {}
IsSlot(p, n) == n - 1 \in DOMAIN p /\ p[n - 1].op \in Branches
Following(p, n) == {n + 1} \cup (IF IsSlot(p, n) THEN {p[n - 1].to} ELSE {})

(* What a compiler may emit: no slot holds a branch or a trap, and nobody  *)
(* reads what the instruction before loaded.                               *)
Conforming(p) ==
  /\ \A n \in DOMAIN p : IsSlot(p, n) => p[n].op \notin Branches \cup {"trap"}
  /\ p[Len(p)].op \notin Branches
  /\ \A n \in DOMAIN p : \A m \in Following(p, n) \cap DOMAIN p :
       p[n].op \in Loads /\ p[n].rd # "zero" => p[n].rd \notin Reads(p[m])

(* The instructions a program is made of; k is the kernel's.               *)
Free == Registers \ {"k"}
Instructions ==
  [op : {"alu"}, rd : Free, rs : Free, rt : Free]
    \cup [op : Loads, rd : Free, rs : Free] \cup [op : {"store"}, rs : Free, rt : Free]
    \cup [op : {"branch"}, rs : Free, to : Nat] \cup [op : {"link"}, rd : Free, to : Nat]
    \cup [op : {"trap", "gte"}] \cup [op : {"status"}, ie : BOOLEAN, isolated : BOOLEAN]

(* What the constants are.  The programs branch forwards and are short     *)
(* enough to lie before the vectors; nobody sets a breakpoint in the       *)
(* kernel's handlers.                                                      *)
CpuAssumption ==
  /\ Interrupts \in Nat
  /\ \A p \in Programs : Conforming(p) =>
       /\ p \in Seq(Instructions) /\ Len(p) \in 1 .. Vector - 3
       /\ \A n \in DOMAIN p : p[n].op \in Branches => p[n].to \in n + 1 .. Len(p) + 1
  /\ \A break \in Breaks :
       /\ break \in [kind : {"off", "code", "data"}, at : Nat, level : {"kernel", "user"},
                     trap : BOOLEAN]
       /\ break.kind = "code" /\ break.level = "kernel" => break.at \notin DOMAIN Kernel
-----------------------------------------------------------------------------
Init ==
  /\ program \in {p \in Programs : Conforming(p)}
  /\ \E break \in Breaks :
       cpu = [regs |-> [r \in Registers |-> IF r = "zero" THEN 0 ELSE 1],
              pc |-> 1, next |-> 2, current |-> 1,
              pending |-> NoLoad, written |-> "zero", slot |-> FALSE, branch |-> FALSE,
              sr |-> <<[ie |-> TRUE, user |-> TRUE], [ie |-> TRUE, user |-> FALSE],
                       [ie |-> FALSE, user |-> FALSE]>>,
              isolated |-> FALSE, cause |-> "none", bd |-> FALSE, epc |-> 0, break |-> break]
  /\ log = <<>>
  /\ left = Interrupts

(* set_reg, set_load: c is the cpu within an instruction. *)
SetReg(c, r, v) ==
  [c EXCEPT !.written = r, !.regs = [c.regs EXCEPT ![r] = IF r = "zero" THEN 0 ELSE v]]
SetLoad(c, r, v) == IF r = "zero" THEN c ELSE [c EXCEPT !.pending = [reg |-> r, value |-> v]]

(* Mutated form of Push: the branch before the slot is not done again. *)
PushInSlot(c, cause) ==
  [c EXCEPT !.sr = <<[ie |-> FALSE, user |-> FALSE], c.sr[1], c.sr[2]>>,
            !.cause = cause, !.bd = c.slot, !.epc = c.current]
(* push_exception *)
Push(c, cause) ==
  [c EXCEPT !.sr = <<[ie |-> FALSE, user |-> FALSE], c.sr[1], c.sr[2]>>,
            !.cause = cause, !.bd = c.slot,
            !.epc = IF c.slot THEN c.current - 1 ELSE c.current]

(* exception, debug_break: the same, at vectors of their own. *)
Enter(c, cause, vector) == [Push(c, cause) EXCEPT !.pc = vector, !.next = vector + 1]
Exception(c, cause) == Enter(c, cause, Vector)
DebugBreak(c) == Enter(c, "break", DebugVector)

Popped(sr) == <<sr[2], sr[3], sr[3]>>

(* debug_enabled, armed, code_break and data_break; a hit sets status bits *)
(* nobody here reads, and traps if DCIC.TR says so.                        *)
BreaksAt(c, kind, at) ==
  /\ c.break.kind = kind /\ c.break.at = at /\ c.break.trap
  /\ (c.break.level = "user") = c.sr[1].user

(* load_chain_value *)
Chained(c, r, inflight) == IF inflight.reg = r /\ r # "zero" THEN inflight.value ELSE c.regs[r]
MergeLeft(cur, w) == 2 * (w \div 2) + (cur % 2)
MergeRight(cur, w) == 2 * ((cur % 4) \div 2) + (w % 2)

Address(c, i) == c.regs[i.rs] % 4
Input(address, trace) == (address + Len(trace) + 1) % 4
Access(kind, address, value) == <<kind, address, value>>

(* execute: what instruction i makes of the cpu c, and what it adds to the *)
(* log, which was trace before.                                            *)
ExecuteLoad(c, i, inflight, trace) ==
  LET word == Input(Address(c, i), trace)
      cur == Chained(c, i.rd, inflight)
  IN SetLoad(c, i.rd, CASE i.op = "load" -> word
                        [] i.op = "left" -> MergeLeft(cur, word)
                        [] i.op = "right" -> MergeRight(cur, word))

ExecuteBranch(c, i) ==
  CASE i.op = "branch" ->
         [c EXCEPT !.branch = TRUE, !.next = IF c.regs[i.rs] # 0 THEN i.to ELSE c.next]
    [] i.op = "link" -> [SetReg(c, i.rd, c.next) EXCEPT !.branch = TRUE, !.next = i.to]
    [] i.op = "jump" -> [c EXCEPT !.branch = TRUE, !.next = c.regs[i.rs]]

(* op_cop0; what the handlers do with it. *)
ExecuteCop0(c, i) ==
  CASE i.op = "status" -> [c EXCEPT !.isolated = i.isolated,
                                     !.sr = <<[ie |-> i.ie, user |-> c.sr[1].user], c.sr[2], c.sr[3]>>]
    [] i.op = "rfe" -> [c EXCEPT !.sr = Popped(c.sr)]
    [] i.op = "epc" -> SetLoad(c, i.rd, c.epc)
    [] i.op = "disarm" -> [c EXCEPT !.break = NoBreak]
    [] i.op = "serve" -> IF c.cause = "trap" THEN SetReg(c, "k", c.regs["k"] + 1) ELSE c

WatchHit(c, i) == i.op \in Loads \cup {"store"} /\ BreaksAt(c, "data", Address(c, i))

Execute(c, i, inflight, trace) ==
  IF WatchHit(c, i) THEN DebugBreak(c)
  ELSE CASE i.op = "alu" -> SetReg(c, i.rd, (c.regs[i.rs] + c.regs[i.rt]) % 4)
         [] i.op \in Loads -> ExecuteLoad(c, i, inflight, trace)
         [] i.op \in Branches \cup {"jump"} -> ExecuteBranch(c, i)
         [] i.op = "trap" -> Exception(c, "trap")
         [] i.op \in {"store", "gte"} -> c
         [] OTHER -> ExecuteCop0(c, i)

Logged(c, i) ==
  IF WatchHit(c, i) THEN <<>>
  ELSE CASE i.op \in Loads -> <<Access("load", Address(c, i), 0)>>
         [] i.op = "store" /\ ~c.isolated -> <<Access("store", Address(c, i), c.regs[i.rt])>>
         [] i.op = "gte" -> <<Access("gte", 0, 0)>>
         [] i.op = "serve" /\ c.cause = "trap" -> <<Access("trap", 0, 0)>>
         [] OTHER -> <<>>

(* Mutated form of Landed: a load overwrites what its delay slot wrote. *)
LandedAnyway(c, inflight) ==
  IF inflight.reg = "zero" THEN c
  ELSE [c EXCEPT !.regs = [c.regs EXCEPT ![inflight.reg] = inflight.value]]
(* The load in flight lands, unless the instruction wrote its register. *)
Landed(c, inflight) ==
  IF inflight.reg \in {"zero", c.written} THEN c
  ELSE [c EXCEPT !.regs = [c.regs EXCEPT ![inflight.reg] = inflight.value]]

Sampled == [cpu EXCEPT !.current = cpu.pc, !.slot = cpu.branch, !.branch = FALSE]
Ended == cpu.pc = Len(program) + 2

TakeInterrupt ==
  /\ ~Ended /\ left > 0
  /\ cpu.sr[1].ie
  /\ cpu' = Exception(Sampled, "interrupt")
  /\ left' = left - 1
  /\ UNCHANGED <<program, log>>

CodeBreak ==
  /\ ~Ended
  /\ BreaksAt(cpu, "code", cpu.pc)
  /\ cpu' = DebugBreak(Sampled)
  /\ UNCHANGED <<program, log, left>>

RunInstruction ==
  LET s == Sampled
      i == Fetch(s.pc)
      c == [s EXCEPT !.pc = s.next, !.next = s.next + 1, !.pending = NoLoad, !.written = "zero"]
  IN /\ ~Ended
     /\ ~BreaksAt(cpu, "code", cpu.pc)
     /\ cpu' = Landed(Execute(c, i, s.pending, log), s.pending)
     /\ log' = log \o Logged(c, i)
     /\ UNCHANGED <<program, left>>

Next == TakeInterrupt \/ CodeBreak \/ RunInstruction

Spec == Init /\ [][Next]_vars
-----------------------------------------------------------------------------
(* The reference: a machine without pipeline, interrupts or breakpoints.   *)
(* A branch and its slot are one step, a load is done when it is executed, *)
(* a trap is served by the instruction that raises it.                     *)

Put(s, r, v) == IF r = "zero" THEN s ELSE [s EXCEPT !.regs = [s.regs EXCEPT ![r] = v]]

Simple(s, i) ==
  LET at == s.regs[i.rs] % 4
      word == Input(at, s.log)
      logged(kind, value) == [s EXCEPT !.log = Append(s.log, Access(kind, at, value))]
  IN CASE i.op = "alu" -> Put(s, i.rd, (s.regs[i.rs] + s.regs[i.rt]) % 4)
       [] i.op = "load" -> Put(logged("load", 0), i.rd, word)
       [] i.op = "left" -> Put(logged("load", 0), i.rd, MergeLeft(s.regs[i.rd], word))
       [] i.op = "right" -> Put(logged("load", 0), i.rd, MergeRight(s.regs[i.rd], word))
       [] i.op = "store" -> IF s.isolated THEN s ELSE logged("store", s.regs[i.rt])

Plain(s, i) ==
  CASE i.op \in Loads \cup {"alu", "store"} -> Simple(s, i)
    [] i.op \in {"trap", "gte"} -> [s EXCEPT !.log = Append(s.log, Access(i.op, 0, 0))]
    [] i.op = "status" -> [s EXCEPT !.ie = i.ie, !.isolated = i.isolated]

Taken(s, i) == i.op = "link" \/ s.regs[i.rs] # 0
Linked(s, i) == IF i.op = "link" THEN Put(s, i.rd, s.pc + 2) ELSE s
RefStep(p, s) ==
  LET i == p[s.pc]
  IN IF s.pc \notin DOMAIN p THEN s
     ELSE IF i.op \in Branches
          THEN [Plain(Linked(s, i), p[s.pc + 1])
                  EXCEPT !.pc = IF Taken(s, i) THEN i.to ELSE s.pc + 2]
          ELSE [Plain(s, i) EXCEPT !.pc = s.pc + 1]

PowerOn == [regs |-> [r \in Registers |-> IF r = "zero" THEN 0 ELSE 1],
            pc |-> 1, log |-> <<>>, ie |-> TRUE, isolated |-> FALSE]
(* A program that only branches forwards is through after as many steps as *)
(* it has instructions.                                                    *)
Run(p) ==
  LET run[n \in 0 .. Len(p)] == IF n = 0 THEN PowerOn ELSE RefStep(p, run[n - 1]) IN run
Reference == Run(program)[Len(program)]
-----------------------------------------------------------------------------
TypeOK ==
  /\ cpu.regs \in [Registers -> Nat] /\ cpu.regs["zero"] = 0
  /\ cpu.pending.reg \in Registers /\ cpu.pending.value \in Nat
  /\ {cpu.slot, cpu.branch, cpu.bd, cpu.isolated} \subseteq BOOLEAN
  /\ Len(cpu.sr) = 3 /\ \A n \in 1 .. 3 : cpu.sr[n] \in [ie : BOOLEAN, user : BOOLEAN]
  /\ left \in 0 .. Interrupts

(* Whatever interrupts, traps and breakpoints come in between, a program   *)
(* that keeps to the rules of its pipeline does to the bus, the geometry   *)
(* engine and the kernel what the plain machine does: each access once,    *)
(* in order, with the same operands.                                       *)
Precise == IsPrefix(log, Reference.log)

(* And it ends with the same registers, in the mode and with the interrupt *)
(* enable it ran with.                                                     *)
Transparent ==
  Ended =>
    /\ log = Reference.log
    /\ \A r \in Registers \ {"k"} : cpu.regs[r] = Reference.regs[r]
    /\ cpu.sr[1] = [ie |-> Reference.ie, user |-> TRUE]
    /\ cpu.sr[2] = [ie |-> TRUE, user |-> FALSE]
=============================================================================
