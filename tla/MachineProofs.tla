---------------------------- MODULE MachineProofs ----------------------------
(***************************************************************************)
(* Proofs about the processor (Cpu, as MCHardware composes it), for every  *)
(* set of programs that keep to the rules of the pipeline, every number of *)
(* interrupts and every setting of the breakpoint registers; about the     *)
(* macroblock decoder (Mdec), for every size of a block, number of blocks  *)
(* to a macroblock and length of command; and about the main loop that     *)
(* drives the machine (Machine).                                           *)
(***************************************************************************)
EXTENDS MCHardware, Induction, SequenceTheorems, TLAPS

Modes == [ie : BOOLEAN, user : BOOLEAN]
Landing == [reg : Core!Registers, value : Nat]
BreakSettings ==
  [kind : {"off", "code", "data"}, at : Nat, level : {"kernel", "user"}, trap : BOOLEAN]
Processor ==
  [regs : [Core!Registers -> Nat], pc : Nat, next : Nat, current : Nat, pending : Landing,
   written : Core!Registers, slot : BOOLEAN, branch : BOOLEAN,
   sr : Modes \X Modes \X Modes,
   isolated : BOOLEAN, cause : {"none", "interrupt", "trap", "break"}, bd : BOOLEAN,
   epc : Int, break : BreakSettings]
Grounded(c) == c.regs["zero"] = 0
Traces == Seq({"load", "store", "gte", "trap"} \X Nat \X Nat)
Plainly == [regs : [Core!Registers -> Nat], pc : Nat, log : Traces, ie : BOOLEAN, isolated : BOOLEAN]
-----------------------------------------------------------------------------
(* What the primitives of the processor change.                            *)

(* What writing a register does,                                           *)
LEMMA SetRegGives ==
  ASSUME NEW c \in Processor, Grounded(c), NEW r \in Core!Registers, NEW v \in Nat
  PROVE  LET d == Core!SetReg(c, r, v) IN
    /\ d \in Processor /\ Grounded(d) /\ d.written = r
    /\ \A q \in Core!Registers : d.regs[q] = IF q = r /\ r # "zero" THEN v ELSE c.regs[q]
    /\ d.pc = c.pc /\ d.next = c.next /\ d.current = c.current /\ d.pending = c.pending
    /\ d.slot = c.slot /\ d.branch = c.branch /\ d.sr = c.sr /\ d.isolated = c.isolated
    /\ d.cause = c.cause /\ d.epc = c.epc /\ d.break = c.break
<1> DEFINE w == IF r = "zero" THEN 0 ELSE v
           regs == [c.regs EXCEPT ![r] = w]
           d == [c EXCEPT !.written = r, !.regs = regs]
<1>1. c.regs \in [Core!Registers -> Nat] /\ c.regs["zero"] = 0 /\ w \in Nat
  BY DEF Processor, Grounded
<1>2. "zero" \in Core!Registers
  BY DEF Core!Registers
<1>3. /\ regs \in [Core!Registers -> Nat] /\ regs["zero"] = 0
      /\ \A q \in Core!Registers : regs[q] = IF q = r /\ r # "zero" THEN v ELSE c.regs[q]
  BY <1>1, <1>2
<1> HIDE DEF w, regs
<1>4. /\ d \in Processor /\ d.regs = regs /\ d.written = r
      /\ d.pc = c.pc /\ d.next = c.next /\ d.current = c.current /\ d.pending = c.pending
      /\ d.slot = c.slot /\ d.branch = c.branch /\ d.sr = c.sr /\ d.isolated = c.isolated
      /\ d.cause = c.cause /\ d.epc = c.epc /\ d.break = c.break
  BY <1>3 DEF Processor
<1>5. Core!SetReg(c, r, v) = d
  BY DEF Core!SetReg, w, regs
<1> HIDE DEF d
<1> QED
  BY <1>3, <1>4, <1>5 DEF Grounded

(* the landing of a load,                                                  *)
LEMMA LandedGives ==
  ASSUME NEW c \in Processor, Grounded(c), NEW load \in Landing
  PROVE  LET d == Core!Landed(c, load) IN
    /\ d \in Processor /\ Grounded(d)
    /\ \A q \in Core!Registers :
         d.regs[q] = IF q = load.reg /\ q \notin {"zero", c.written} THEN load.value ELSE c.regs[q]
    /\ d.pc = c.pc /\ d.next = c.next /\ d.current = c.current /\ d.pending = c.pending
    /\ d.slot = c.slot /\ d.branch = c.branch /\ d.sr = c.sr /\ d.isolated = c.isolated
    /\ d.cause = c.cause /\ d.epc = c.epc /\ d.break = c.break
<1>1. c.regs \in [Core!Registers -> Nat] /\ c.regs["zero"] = 0
      /\ load.reg \in Core!Registers /\ load.value \in Nat
  BY DEF Processor, Grounded, Landing
<1>2. CASE load.reg \in {"zero", c.written}
  BY <1>2 DEF Core!Landed
<1>3. CASE load.reg \notin {"zero", c.written}
  <2> DEFINE regs == [c.regs EXCEPT ![load.reg] = load.value]
             d == [c EXCEPT !.regs = regs]
  <2>1. /\ regs \in [Core!Registers -> Nat] /\ regs["zero"] = 0
        /\ \A q \in Core!Registers :
             regs[q] = IF q = load.reg /\ q \notin {"zero", c.written} THEN load.value ELSE c.regs[q]
    BY <1>1, <1>3 DEF Core!Registers
  <2> HIDE DEF regs
  <2>2. /\ d \in Processor /\ d.regs = regs
        /\ d.pc = c.pc /\ d.next = c.next /\ d.current = c.current /\ d.pending = c.pending
        /\ d.slot = c.slot /\ d.branch = c.branch /\ d.sr = c.sr /\ d.isolated = c.isolated
        /\ d.cause = c.cause /\ d.epc = c.epc /\ d.break = c.break
    BY <2>1 DEF Processor
  <2>3. Core!Landed(c, load) = d
    BY <1>3 DEF Core!Landed, regs
  <2> HIDE DEF d
  <2> QED
    BY <2>1, <2>2, <2>3 DEF Grounded
<1> QED
  BY <1>2, <1>3

(* putting one into its delay slot,                                        *)
LEMMA SetLoadGives ==
  ASSUME NEW c \in Processor, Grounded(c), NEW r \in Core!Registers, NEW v \in Nat
  PROVE  LET d == Core!SetLoad(c, r, v) IN
    /\ d \in Processor /\ Grounded(d) /\ d.written = c.written /\ d.regs = c.regs
    /\ d.pending = IF r = "zero" THEN c.pending ELSE [reg |-> r, value |-> v]
    /\ d.pc = c.pc /\ d.next = c.next /\ d.current = c.current
    /\ d.slot = c.slot /\ d.branch = c.branch /\ d.sr = c.sr /\ d.isolated = c.isolated
    /\ d.cause = c.cause /\ d.epc = c.epc /\ d.break = c.break
<1> DEFINE load == [reg |-> r, value |-> v]
           d == [c EXCEPT !.pending = load]
<1>1. load \in Landing
  BY DEF Landing
<1> HIDE DEF load
<1>2. /\ d \in Processor /\ d.pending = load /\ d.written = c.written /\ d.regs = c.regs
      /\ d.pc = c.pc /\ d.next = c.next /\ d.current = c.current
      /\ d.slot = c.slot /\ d.branch = c.branch /\ d.sr = c.sr /\ d.isolated = c.isolated
      /\ d.cause = c.cause /\ d.epc = c.epc /\ d.break = c.break
  BY <1>1 DEF Processor
<1>3. Core!SetLoad(c, r, v) = IF r = "zero" THEN c ELSE d
  BY DEF Core!SetLoad, load
<1> HIDE DEF d
<1> QED
  BY <1>2, <1>3 DEF Grounded, load

(* The status stack in a handler. *)
Entered(sr) == <<[ie |-> FALSE, user |-> FALSE], sr[1], sr[2]>>

Entering(c, cause, vector, d) ==
  /\ d \in Processor /\ Grounded(d) /\ d.written = c.written /\ d.regs = c.regs
  /\ d.pending = c.pending /\ d.pc = vector /\ d.next = vector + 1 /\ d.branch = c.branch
  /\ d.sr = Entered(c.sr) /\ d.isolated = c.isolated /\ d.cause = cause /\ d.break = c.break
  /\ d.epc = IF c.slot THEN c.current - 1 ELSE c.current

(* and entering a handler.                                                 *)
LEMMA EnterGives ==
  ASSUME NEW c \in Processor, Grounded(c), NEW cause \in {"interrupt", "trap", "break"},
         NEW vector \in Nat
  PROVE  Entering(c, cause, vector, Core!Enter(c, cause, vector))
<1> DEFINE sr == <<[ie |-> FALSE, user |-> FALSE], c.sr[1], c.sr[2]>>
           epc == IF c.slot THEN c.current - 1 ELSE c.current
           e == [c EXCEPT !.sr = sr, !.cause = cause, !.bd = c.slot, !.epc = epc]
           after == vector + 1
           d == [e EXCEPT !.pc = vector, !.next = after]
<1>1. sr \in Modes \X Modes \X Modes
  <2>1. c.sr \in Modes \X Modes \X Modes /\ [ie |-> FALSE, user |-> FALSE] \in Modes
    BY DEF Processor, Modes
  <2> QED
    BY <2>1
<1>2. epc \in Int /\ c.slot \in BOOLEAN /\ after \in Nat
  BY DEF Processor
<1> HIDE DEF sr, epc, after
<1>3. /\ e \in Processor /\ e.written = c.written /\ e.regs = c.regs
      /\ e.pending = c.pending /\ e.branch = c.branch /\ e.sr = sr
      /\ e.isolated = c.isolated /\ e.cause = cause /\ e.break = c.break /\ e.epc = epc
  BY <1>1, <1>2 DEF Processor
<1>4. Core!Push(c, cause) = e
  BY DEF Core!Push, sr, epc
<1> HIDE DEF e
<1>5. /\ d \in Processor /\ d.written = e.written /\ d.regs = e.regs
      /\ d.pending = e.pending /\ d.branch = e.branch /\ d.sr = e.sr /\ d.pc = vector
      /\ d.next = after
      /\ d.isolated = e.isolated /\ d.cause = e.cause /\ d.break = e.break /\ d.epc = e.epc
  BY <1>2, <1>3 DEF Processor
<1>6. Core!Enter(c, cause, vector) = d
  BY <1>4 DEF Core!Enter, after
<1> HIDE DEF d
<1> QED
  BY <1>3, <1>5, <1>6 DEF Grounded, sr, epc, after, Entered, Entering
-----------------------------------------------------------------------------
(* An instruction with no delay slot of its own, against the plain machine.*)

(* What a register will hold when the load in flight has landed.           *)
Settled(c, load, r) == IF load.reg = r /\ r # "zero" THEN load.value ELSE c.regs[r]

Simples == {i \in Core!Instructions : i.op \notin Core!Branches \cup {"trap"}}

(* The two machines agree before the instruction: c has begun it with load *)
(* in flight.                                                              *)
Prepared(c, load, s, i) ==
  /\ c \in Processor /\ Grounded(c) /\ c.pending = Core!NoLoad /\ c.written = "zero"
  /\ load \in Landing /\ s \in Plainly /\ Grounded(s)
  /\ \A r \in Core!Free : Settled(c, load, r) = s.regs[r]
  /\ c.isolated = s.isolated /\ c.sr[1] = [ie |-> s.ie, user |-> TRUE]
  /\ load.reg = "zero" \/ load.reg \notin Core!Reads(i)

(* And after it.                                                           *)
Agreed(c, d, s, t, i) ==
  /\ d \in Processor /\ Grounded(d) /\ t \in Plainly /\ Grounded(t)
  /\ \A r \in Core!Free : Settled(d, d.pending, r) = t.regs[r]
  /\ d.pending.reg = "zero" \/ (i.op \in Core!Loads /\ d.pending.reg = i.rd)
  /\ d.pc = c.pc /\ d.next = c.next /\ d.branch = c.branch /\ d.break = c.break
  /\ d.isolated = t.isolated /\ d.sr[1] = [ie |-> t.ie, user |-> TRUE] /\ d.sr[2] = c.sr[2]
  /\ t.pc = s.pc /\ t.log = s.log \o Core!Logged(c, i)

(* The operands an instruction has.                                        *)
LEMMA Fields ==
  ASSUME NEW i \in Core!Instructions
  PROVE  /\ i.op \in {"alu", "load", "left", "right", "store", "branch", "link", "trap", "gte", "status"}
         /\ i.op \in {"alu", "load", "left", "right", "link"} => i.rd \in Core!Free
         /\ i.op \in {"alu", "load", "left", "right", "store", "branch"} => i.rs \in Core!Free
         /\ i.op \in {"alu", "store"} => i.rt \in Core!Free
         /\ i.op \in {"branch", "link"} => i.to \in Nat
         /\ i.op = "status" => i.ie \in BOOLEAN /\ i.isolated \in BOOLEAN
BY DEF Core!Instructions, Core!Loads

(* What an instruction reads has landed.                                   *)
LEMMA ReadsSettled ==
  ASSUME NEW c, NEW load, NEW s, NEW i, Prepared(c, load, s, i),
         NEW r \in Core!Reads(i) \cap Core!Free
  PROVE  c.regs[r] = s.regs[r]
BY DEF Prepared, Settled

(* What writing a register does to the plain machine,                      *)
LEMMA PutGives ==
  ASSUME NEW s \in Plainly, Grounded(s), NEW r \in Core!Registers, NEW v \in Nat
  PROVE  LET t == Core!Put(s, r, v) IN
    /\ t \in Plainly /\ Grounded(t) /\ t.pc = s.pc /\ t.log = s.log /\ t.ie = s.ie
    /\ t.isolated = s.isolated
    /\ \A q \in Core!Registers : t.regs[q] = IF q = r /\ r # "zero" THEN v ELSE s.regs[q]
<1> DEFINE regs == [s.regs EXCEPT ![r] = v]
           t == [s EXCEPT !.regs = regs]
<1>1. s.regs \in [Core!Registers -> Nat] /\ s.regs["zero"] = 0
  BY DEF Plainly, Grounded
<1>2. r # "zero" =>
      /\ regs \in [Core!Registers -> Nat] /\ regs["zero"] = 0
      /\ \A q \in Core!Registers : regs[q] = IF q = r /\ r # "zero" THEN v ELSE s.regs[q]
  BY <1>1 DEF Core!Registers
<1> HIDE DEF regs
<1>3. r # "zero" => /\ t \in Plainly /\ t.regs = regs /\ t.pc = s.pc /\ t.log = s.log /\ t.ie = s.ie
                   /\ t.isolated = s.isolated
  BY <1>2 DEF Plainly
<1>4. Core!Put(s, r, v) = IF r = "zero" THEN s ELSE t
  BY DEF Core!Put, regs
<1> HIDE DEF t
<1> QED
  BY <1>1, <1>2, <1>3, <1>4 DEF Grounded

(* and an access to the bus.                                               *)
LEMMA LogGives ==
  ASSUME NEW s \in Plainly, Grounded(s), NEW kind \in {"load", "store", "gte", "trap"},
         NEW at \in Nat, NEW value \in Nat
  PROVE  LET t == [s EXCEPT !.log = Append(s.log, Core!Access(kind, at, value))] IN
    /\ t \in Plainly /\ Grounded(t) /\ t.pc = s.pc /\ t.ie = s.ie
    /\ t.isolated = s.isolated /\ t.regs = s.regs
    /\ t.log = s.log \o <<Core!Access(kind, at, value)>>
<1> DEFINE a == Core!Access(kind, at, value)
           log == Append(s.log, a)
           t == [s EXCEPT !.log = log]
<1>1. s.log \in Traces /\ a \in {"load", "store", "gte", "trap"} \X Nat \X Nat
  BY DEF Plainly, Core!Access
<1> HIDE DEF a
<1>2. log \in Traces /\ log = s.log \o <<a>>
  BY <1>1 DEF Traces
<1> HIDE DEF log
<1>3. t \in Plainly /\ t.pc = s.pc /\ t.ie = s.ie /\ t.isolated = s.isolated /\ t.regs = s.regs
      /\ t.log = log
  BY <1>2 DEF Plainly
<1> QED
  BY <1>2, <1>3 DEF Grounded, a, log

(* An arithmetic instruction does the same on both machines,               *)
LEMMA AluAgrees ==
  ASSUME NEW c, NEW load, NEW s, NEW i \in Core!Instructions, Prepared(c, load, s, i),
         i.op = "alu", ~Core!WatchHit(c, i)
  PROVE  Agreed(c, Core!Landed(Core!Execute(c, i, load, s.log), load), s, Core!Plain(s, i), i)
<1> DEFINE v == (c.regs[i.rs] + c.regs[i.rt]) % 4
           e == Core!SetReg(c, i.rd, v)
           d == Core!Landed(e, load)
           t == Core!Put(s, i.rd, v)
<1>1. i.rd \in Core!Free /\ i.rs \in Core!Free /\ i.rt \in Core!Free
  BY Fields
<1>2. i.rs \in Core!Reads(i) /\ i.rt \in Core!Reads(i)
  BY DEF Core!Reads
<1>3. c.regs[i.rs] = s.regs[i.rs] /\ c.regs[i.rt] = s.regs[i.rt]
  BY <1>1, <1>2, ReadsSettled
<1>4. \A r \in Core!Free : r \in Core!Registers /\ r # "k"
  BY DEF Core!Free
<1>4r. i.rd \in Core!Registers
  BY <1>1, <1>4
<1>5. c.regs \in [Core!Registers -> Nat] /\ c \in Processor /\ Grounded(c) /\ load \in Landing
      /\ s \in Plainly /\ Grounded(s)
  BY DEF Prepared, Processor
<1>6. v \in Nat
  BY <1>1, <1>4, <1>5
<1>7. Core!Execute(c, i, load, s.log) = e /\ Core!Logged(c, i) = <<>>
  BY DEF Core!Execute, Core!Logged, Core!Loads, Core!Branches
<1>8. Core!Plain(s, i) = t
  BY <1>3 DEF Core!Plain, Core!Simple
<1> HIDE DEF v
<1>9. /\ e \in Processor /\ Grounded(e) /\ e.written = i.rd
      /\ \A q \in Core!Registers : e.regs[q] = IF q = i.rd /\ i.rd # "zero" THEN v ELSE c.regs[q]
      /\ e.pc = c.pc /\ e.next = c.next /\ e.pending = c.pending
      /\ e.branch = c.branch /\ e.sr = c.sr /\ e.isolated = c.isolated /\ e.break = c.break
  <2>1. c \in Processor /\ Grounded(c) /\ i.rd \in Core!Registers /\ v \in Nat
    BY <1>4r, <1>5, <1>6
  <2> QED
    BY ONLY <2>1, SetRegGives
<1>10. /\ t \in Plainly /\ Grounded(t) /\ t.pc = s.pc /\ t.log = s.log /\ t.ie = s.ie
       /\ t.isolated = s.isolated
       /\ \A q \in Core!Registers : t.regs[q] = IF q = i.rd /\ i.rd # "zero" THEN v ELSE s.regs[q]
  BY <1>4r, <1>5, <1>6, PutGives, ZenonT(40)
<1> HIDE DEF e, t
<1>11. /\ d \in Processor /\ Grounded(d)
       /\ \A q \in Core!Registers :
            d.regs[q] = IF q = load.reg /\ q \notin {"zero", e.written} THEN load.value ELSE e.regs[q]
       /\ d.pc = e.pc /\ d.next = e.next /\ d.pending = e.pending
       /\ d.branch = e.branch /\ d.sr = e.sr /\ d.isolated = e.isolated /\ d.break = e.break
  BY <1>5, <1>9, LandedGives
<1> HIDE DEF d
<1>12. d.pending = Core!NoLoad
  BY <1>9, <1>11 DEF Prepared
<1>13. ASSUME NEW r \in Core!Free PROVE Settled(d, d.pending, r) = t.regs[r]
  <2>1. d.regs[r] = t.regs[r]
    BY <1>4, <1>9, <1>10, <1>11 DEF Prepared, Settled
  <2> QED
    BY <2>1, <1>12 DEF Settled, Core!NoLoad
<1>14. s.log = s.log \o <<>>
  BY <1>5 DEF Plainly, Traces
<1>15. d.pending.reg = "zero"
  BY <1>12 DEF Core!NoLoad
<1>16. c.isolated = s.isolated /\ c.sr[1] = [ie |-> s.ie, user |-> TRUE]
  BY DEF Prepared
<1>17. Agreed(c, d, s, t, i)
  <2>1. d.isolated = t.isolated /\ d.sr[1] = [ie |-> t.ie, user |-> TRUE] /\ d.sr[2] = c.sr[2]
    BY ONLY <1>9, <1>10, <1>11, <1>16
  <2>2. d.pc = c.pc /\ d.next = c.next /\ d.branch = c.branch /\ d.break = c.break
    BY ONLY <1>9, <1>11
  <2>3. t.pc = s.pc /\ t.log = s.log \o Core!Logged(c, i)
    BY ONLY <1>7, <1>10, <1>14
  <2> QED
    BY ONLY <2>1, <2>2, <2>3, <1>10, <1>11, <1>13, <1>15 DEF Agreed
<1> QED
  BY ONLY <1>7, <1>8, <1>17 DEF d

(* a load,                                                                 *)
LEMMA LoadAgrees ==
  ASSUME NEW c, NEW load, NEW s, NEW i \in Core!Instructions, Prepared(c, load, s, i),
         i.op \in Core!Loads, ~Core!WatchHit(c, i)
  PROVE  Agreed(c, Core!Landed(Core!Execute(c, i, load, s.log), load), s, Core!Plain(s, i), i)
<1> DEFINE at == s.regs[i.rs] % 4
           word == Core!Input(at, s.log)
           v == CASE i.op = "load" -> word
                  [] i.op = "left" -> Core!MergeLeft(s.regs[i.rd], word)
                  [] i.op = "right" -> Core!MergeRight(s.regs[i.rd], word)
           e == Core!SetLoad(c, i.rd, v)
           d == Core!Landed(e, load)
           l == [s EXCEPT !.log = Append(s.log, Core!Access("load", at, 0))]
           t == Core!Put(l, i.rd, v)
<1>1. i.rd \in Core!Free /\ i.rs \in Core!Free /\ i.op \in {"load", "left", "right"}
  BY Fields DEF Core!Loads
<1>2. i.rs \in Core!Reads(i)
  BY <1>1 DEF Core!Reads
<1>3. c.regs[i.rs] = s.regs[i.rs]
  BY <1>1, <1>2, ReadsSettled
<1>4. \A r \in Core!Free : r \in Core!Registers /\ r # "k"
  BY DEF Core!Free
<1>4r. i.rd \in Core!Registers
  BY <1>1, <1>4
<1>5. c.regs \in [Core!Registers -> Nat] /\ c \in Processor /\ Grounded(c) /\ load \in Landing
      /\ s \in Plainly /\ Grounded(s) /\ s.regs \in [Core!Registers -> Nat]
      /\ Len(s.log) \in Nat
  BY DEF Prepared, Processor, Plainly, Traces
<1>6. at \in Nat /\ word \in Nat /\ v \in Nat
  <2>1. at \in Nat
    BY <1>1, <1>4, <1>5
  <2>2. word \in Nat
    BY <2>1, <1>5 DEF Core!Input
  <2> HIDE DEF word
  <2>3. s.regs[i.rd] \in Nat
    BY <1>1, <1>4, <1>5
  <2>4. Core!MergeLeft(s.regs[i.rd], word) \in Nat /\ Core!MergeRight(s.regs[i.rd], word) \in Nat
    BY <2>2, <2>3 DEF Core!MergeLeft, Core!MergeRight
  <2> QED
    BY <2>1, <2>2, <2>4, <1>1
<1>7. /\ Core!Execute(c, i, load, s.log) = e
      /\ Core!Logged(c, i) = <<Core!Access("load", at, 0)>>
  <2>1. Core!Address(c, i) = at
    BY <1>3 DEF Core!Address
  <2>2. Core!Chained(c, i.rd, load) = s.regs[i.rd]
    BY <1>1 DEF Core!Chained, Prepared, Settled
  <2>3. Core!Execute(c, i, load, s.log) = Core!ExecuteLoad(c, i, load, s.log)
    BY <1>1 DEF Core!Execute, Core!Loads, Core!Branches
  <2>4. Core!Logged(c, i) = <<Core!Access("load", at, 0)>>
    BY <2>1 DEF Core!Logged, Core!Loads
  <2> QED
    BY <2>1, <2>2, <2>3, <2>4 DEF Core!ExecuteLoad
<1>8. Core!Plain(s, i) = t
  BY <1>1 DEF Core!Plain, Core!Simple, Core!Loads
<1> HIDE DEF v, at
<1>9. /\ e \in Processor /\ Grounded(e) /\ e.written = c.written /\ e.regs = c.regs
      /\ e.pending = IF i.rd = "zero" THEN c.pending ELSE [reg |-> i.rd, value |-> v]
      /\ e.pc = c.pc /\ e.next = c.next
      /\ e.branch = c.branch /\ e.sr = c.sr /\ e.isolated = c.isolated /\ e.break = c.break
  BY <1>4r, <1>5, <1>6, SetLoadGives
<1>10. /\ l \in Plainly /\ Grounded(l) /\ l.pc = s.pc /\ l.ie = s.ie
       /\ l.isolated = s.isolated /\ l.regs = s.regs
       /\ l.log = s.log \o <<Core!Access("load", at, 0)>>
  <2>1. /\ "load" \in {"load", "store", "gte", "trap"} /\ 0 \in Nat /\ at \in Nat
        /\ s \in Plainly /\ Grounded(s)
    BY <1>5, <1>6
  <2> QED
    BY ONLY <2>1, LogGives
<1> HIDE DEF l
<1>11. /\ t \in Plainly /\ Grounded(t) /\ t.pc = l.pc /\ t.log = l.log /\ t.ie = l.ie
       /\ t.isolated = l.isolated
       /\ \A q \in Core!Registers : t.regs[q] = IF q = i.rd /\ i.rd # "zero" THEN v ELSE l.regs[q]
  BY <1>4r, <1>6, <1>10, PutGives
<1> HIDE DEF e, t
<1>12. /\ d \in Processor /\ Grounded(d)
       /\ \A q \in Core!Registers :
            d.regs[q] = IF q = load.reg /\ q \notin {"zero", e.written} THEN load.value ELSE e.regs[q]
       /\ d.pc = e.pc /\ d.next = e.next /\ d.pending = e.pending
       /\ d.branch = e.branch /\ d.sr = e.sr /\ d.isolated = e.isolated /\ d.break = e.break
  BY <1>5, <1>9, LandedGives
<1> HIDE DEF d
<1>13. c.written = "zero" /\ c.pending = Core!NoLoad
  BY DEF Prepared
<1>14. ASSUME NEW r \in Core!Free PROVE Settled(d, d.pending, r) = t.regs[r]
  <2>1. i.rd = "zero" => d.pending.reg = "zero"
    BY <1>9, <1>12, <1>13 DEF Core!NoLoad
  <2>2. i.rd # "zero" => d.pending.reg = i.rd /\ d.pending.value = v
    BY <1>9, <1>12
  <2>3. d.regs[r] = s.regs[r]
    BY <1>4, <1>9, <1>12, <1>13 DEF Prepared, Settled
  <2> QED
    BY <2>1, <2>2, <2>3, <1>4, <1>10, <1>11 DEF Settled
<1>15. d.pending.reg = "zero" \/ d.pending.reg = i.rd
  BY <1>9, <1>12, <1>13 DEF Core!NoLoad
<1> QED
  BY <1>7, <1>8, <1>9, <1>10, <1>11, <1>12, <1>14, <1>15 DEF Agreed, Prepared, d

(* An instruction that writes no register lets the load in flight land.    *)
LEMMA Untouched ==
  ASSUME NEW c, NEW load, NEW s, NEW i, Prepared(c, load, s, i),
         NEW e \in Processor, Grounded(e), e.regs = c.regs, e.written = "zero",
         e.pending = Core!NoLoad
  PROVE  LET d == Core!Landed(e, load) IN
    /\ d \in Processor /\ Grounded(d) /\ d.pending.reg = "zero"
    /\ \A r \in Core!Free : Settled(d, d.pending, r) = s.regs[r]
    /\ d.pc = e.pc /\ d.next = e.next /\ d.branch = e.branch /\ d.break = e.break
    /\ d.isolated = e.isolated /\ d.sr = e.sr
<1> DEFINE d == Core!Landed(e, load)
<1>1. load \in Landing /\ e \in Processor /\ Grounded(e)
  BY DEF Prepared
<1>2. /\ d \in Processor /\ Grounded(d)
      /\ \A q \in Core!Registers :
           d.regs[q] = IF q = load.reg /\ q \notin {"zero", e.written} THEN load.value ELSE e.regs[q]
      /\ d.pc = e.pc /\ d.next = e.next /\ d.pending = e.pending
      /\ d.branch = e.branch /\ d.sr = e.sr /\ d.isolated = e.isolated /\ d.break = e.break
  BY ONLY <1>1, LandedGives
<1> HIDE DEF d
<1>3. d.pending = Core!NoLoad
  BY <1>2
<1>4. d.pending.reg = "zero"
  BY <1>3 DEF Core!NoLoad
<1>5. ASSUME NEW r \in Core!Free PROVE Settled(d, d.pending, r) = s.regs[r]
  <2>1. r \in Core!Registers
    BY DEF Core!Free
  <2>2. d.regs[r] = s.regs[r]
    BY <1>2, <2>1 DEF Prepared, Settled
  <2> QED
    BY <2>2, <1>4 DEF Settled
<1> QED
  BY ONLY <1>2, <1>4, <1>5 DEF d

(* a store or a GTE command,                                               *)
LEMMA StoreAgrees ==
  ASSUME NEW c, NEW load, NEW s, NEW i \in Core!Instructions, Prepared(c, load, s, i),
         i.op \in {"store", "gte"}, ~Core!WatchHit(c, i)
  PROVE  Agreed(c, Core!Landed(Core!Execute(c, i, load, s.log), load), s, Core!Plain(s, i), i)
<1> DEFINE d == Core!Landed(c, load)
           t == Core!Plain(s, i)
<1>1. Core!Execute(c, i, load, s.log) = c
  BY DEF Core!Execute, Core!Loads, Core!Branches
<1>2. /\ c \in Processor /\ Grounded(c) /\ c.regs = c.regs /\ c.written = "zero"
      /\ c.pending = Core!NoLoad /\ c.isolated = s.isolated
      /\ c.sr[1] = [ie |-> s.ie, user |-> TRUE] /\ s \in Plainly /\ Grounded(s)
  BY DEF Prepared
<1>3. /\ d \in Processor /\ Grounded(d) /\ d.pending.reg = "zero"
      /\ \A r \in Core!Free : Settled(d, d.pending, r) = s.regs[r]
      /\ d.pc = c.pc /\ d.next = c.next /\ d.branch = c.branch /\ d.break = c.break
      /\ d.isolated = c.isolated /\ d.sr = c.sr
  BY ONLY <1>2, Prepared(c, load, s, i), Untouched
<1> HIDE DEF d
<1>4. /\ t \in Plainly /\ Grounded(t) /\ t.pc = s.pc /\ t.ie = s.ie
      /\ t.isolated = s.isolated /\ t.regs = s.regs /\ t.log = s.log \o Core!Logged(c, i)
  <2>1. CASE i.op = "gte"
    <3> DEFINE l == [s EXCEPT !.log = Append(s.log, Core!Access("gte", 0, 0))]
    <3>1. t = l /\ Core!Logged(c, i) = <<Core!Access("gte", 0, 0)>>
      BY <2>1 DEF Core!Plain, Core!Loads, Core!Logged
    <3>2. "gte" \in {"load", "store", "gte", "trap"} /\ 0 \in Nat
      OBVIOUS
    <3>3. /\ l \in Plainly /\ Grounded(l) /\ l.pc = s.pc /\ l.ie = s.ie
          /\ l.isolated = s.isolated /\ l.regs = s.regs
          /\ l.log = s.log \o <<Core!Access("gte", 0, 0)>>
      BY ONLY <3>2, <1>2, LogGives
    <3> HIDE DEF l, t
    <3> QED
      BY ONLY <3>1, <3>3
  <2>2. CASE i.op = "store"
    <3> DEFINE at == s.regs[i.rs] % 4
               value == s.regs[i.rt]
               l == [s EXCEPT !.log = Append(s.log, Core!Access("store", at, value))]
    <3>1. i.rs \in Core!Free \cap Core!Reads(i) /\ i.rt \in Core!Free \cap Core!Reads(i)
      BY <2>2, Fields DEF Core!Reads
    <3>2. c.regs[i.rs] = s.regs[i.rs] /\ c.regs[i.rt] = s.regs[i.rt]
      BY <3>1, ReadsSettled
    <3>3. at \in Nat /\ value \in Nat
      BY <1>2, <3>1 DEF Plainly, Core!Free
    <3>4. t = IF s.isolated THEN s ELSE l
      BY <2>2 DEF Core!Plain, Core!Simple, Core!Loads
    <3>5. Core!Logged(c, i) = IF s.isolated THEN <<>> ELSE <<Core!Access("store", at, value)>>
      <4>1. Core!Address(c, i) = at
        BY <3>2 DEF Core!Address
      <4> QED
        BY <2>2, <1>2, <3>2, <4>1 DEF Core!Logged, Core!Loads
    <3> HIDE DEF at, value
    <3>6. "store" \in {"load", "store", "gte", "trap"}
      OBVIOUS
    <3>7. /\ l \in Plainly /\ Grounded(l) /\ l.pc = s.pc /\ l.ie = s.ie
          /\ l.isolated = s.isolated /\ l.regs = s.regs
          /\ l.log = s.log \o <<Core!Access("store", at, value)>>
      BY ONLY <3>6, <3>3, <1>2, LogGives
    <3> HIDE DEF l, t
    <3>8. s.log = s.log \o <<>>
      BY <1>2 DEF Plainly, Traces
    <3> QED
      BY ONLY <3>4, <3>5, <3>7, <3>8, <1>2
  <2> QED
    BY <2>1, <2>2
<1> HIDE DEF t
<1>5. Agreed(c, d, s, t, i)
  BY ONLY <1>2, <1>3, <1>4 DEF Agreed
<1> QED
  BY ONLY <1>1, <1>5 DEF d, t

(* and a write of SR.                                                      *)
LEMMA StatusAgrees ==
  ASSUME NEW c, NEW load, NEW s, NEW i \in Core!Instructions, Prepared(c, load, s, i),
         i.op = "status"
  PROVE  Agreed(c, Core!Landed(Core!Execute(c, i, load, s.log), load), s, Core!Plain(s, i), i)
<1> DEFINE sr == <<[ie |-> i.ie, user |-> c.sr[1].user], c.sr[2], c.sr[3]>>
           e == [c EXCEPT !.isolated = i.isolated, !.sr = sr]
           d == Core!Landed(e, load)
           t == [s EXCEPT !.ie = i.ie, !.isolated = i.isolated]
<1>1. /\ Core!Execute(c, i, load, s.log) = e /\ Core!Plain(s, i) = t
      /\ Core!Logged(c, i) = <<>>
  BY DEF Core!Execute, Core!Loads, Core!Branches, Core!ExecuteCop0, Core!Plain,
     Core!Logged,
         Core!WatchHit
<1>2. /\ c \in Processor /\ Grounded(c) /\ c.written = "zero"
      /\ c.pending = Core!NoLoad /\ s \in Plainly /\ Grounded(s)
      /\ c.sr[1] = [ie |-> s.ie, user |-> TRUE]
  BY DEF Prepared
<1>3. i.ie \in BOOLEAN /\ i.isolated \in BOOLEAN
  BY Fields
<1>4. sr \in Modes \X Modes \X Modes /\ sr[1] = [ie |-> i.ie, user |-> TRUE] /\ sr[2] = c.sr[2]
  <2>1. c.sr \in Modes \X Modes \X Modes
    BY <1>2 DEF Processor
  <2>2. sr[1] = [ie |-> i.ie, user |-> TRUE]
    BY <1>2
  <2>3. [ie |-> i.ie, user |-> TRUE] \in Modes
    BY <1>3 DEF Modes
  <2> QED
    BY <2>1, <2>2, <2>3
<1> HIDE DEF sr
<1>5. /\ e \in Processor /\ Grounded(e) /\ e.regs = c.regs /\ e.written = "zero"
      /\ e.pending = Core!NoLoad /\ e.isolated = i.isolated /\ e.sr = sr
      /\ e.pc = c.pc /\ e.next = c.next /\ e.branch = c.branch /\ e.break = c.break
  BY <1>2, <1>3, <1>4 DEF Processor, Grounded
<1> HIDE DEF e
<1>6. /\ d \in Processor /\ Grounded(d) /\ d.pending.reg = "zero"
      /\ \A r \in Core!Free : Settled(d, d.pending, r) = s.regs[r]
      /\ d.pc = e.pc /\ d.next = e.next /\ d.branch = e.branch /\ d.break = e.break
      /\ d.isolated = e.isolated /\ d.sr = e.sr
  BY ONLY <1>5, Prepared(c, load, s, i), Untouched
<1>7. /\ t \in Plainly /\ Grounded(t) /\ t.pc = s.pc /\ t.ie = i.ie
      /\ t.isolated = i.isolated /\ t.regs = s.regs /\ t.log = s.log
  BY <1>2, <1>3 DEF Plainly, Grounded
<1>8. s.log = s.log \o <<>>
  BY <1>2 DEF Plainly, Traces
<1> HIDE DEF d, t
<1>9. Agreed(c, d, s, t, i)
  BY ONLY <1>1, <1>4, <1>5, <1>6, <1>7, <1>8 DEF Agreed
<1> QED
  BY ONLY <1>1, <1>9 DEF d

(* So does every instruction but a branch and a trap.                      *)
LEMMA SimpleAgrees ==
  ASSUME NEW c, NEW load, NEW s, NEW i \in Simples, Prepared(c, load, s, i), ~Core!WatchHit(c, i)
  PROVE  Agreed(c, Core!Landed(Core!Execute(c, i, load, s.log), load), s, Core!Plain(s, i), i)
<1>1. i \in Core!Instructions /\ i.op \notin Core!Branches \cup {"trap"}
  BY DEF Simples
<1>2. i.op = "alu" \/ i.op \in Core!Loads \/ i.op \in {"store", "gte"} \/ i.op = "status"
  BY <1>1, Fields DEF Core!Loads, Core!Branches
<1>3. CASE i.op = "alu"
  BY <1>1, <1>3, AluAgrees
<1>4. CASE i.op \in Core!Loads
  BY <1>1, <1>4, LoadAgrees
<1>5. CASE i.op \in {"store", "gte"}
  BY <1>1, <1>5, StoreAgrees
<1>6. CASE i.op = "status"
  BY <1>1, <1>6, StatusAgrees
<1> QED
  BY <1>2, <1>3, <1>4, <1>5, <1>6

-----------------------------------------------------------------------------
(* What is known of a program that keeps to the rules.                     *)

Compiled(p) ==
  /\ Core!Conforming(p) /\ p \in Seq(Core!Instructions) /\ Len(p) \in 1 .. Core!Vector - 3
  /\ \A n \in DOMAIN p : p[n].op \in Core!Branches => p[n].to \in n + 1 .. Len(p) + 1

(* What a program may rely on its instructions to be.                      *)
LEMMA ProgramFacts ==
  ASSUME NEW p, Compiled(p)
  PROVE  /\ Len(p) \in 1 .. 97 /\ DOMAIN p = 1 .. Len(p)
         /\ \A n \in 1 .. Len(p) : p[n] \in Core!Instructions
         /\ \A n \in 1 .. Len(p) : p[n].op \in Core!Branches =>
              /\ n + 1 \in 1 .. Len(p) /\ p[n + 1] \in Simples
              /\ p[n].to \in n + 1 .. Len(p) + 1
         /\ \A n \in 1 .. Len(p) : p[n].op \in Core!Loads /\ p[n].rd # "zero" =>
              /\ n + 1 \in 1 .. Len(p) => p[n].rd \notin Core!Reads(p[n + 1])
              /\ n - 1 \in 1 .. Len(p) /\ p[n - 1].op \in Core!Branches
                   /\ p[n - 1].to \in 1 .. Len(p)
                   => p[n].rd \notin Core!Reads(p[p[n - 1].to])
<1>1. Len(p) \in 1 .. 97 /\ DOMAIN p = 1 .. Len(p)
      /\ \A n \in 1 .. Len(p) : p[n] \in Core!Instructions
  BY DEF Compiled, Core!Vector
<1>2. ASSUME NEW n \in 1 .. Len(p), p[n].op \in Core!Branches
      PROVE  /\ n + 1 \in 1 .. Len(p) /\ p[n + 1] \in Simples
             /\ p[n].to \in n + 1 .. Len(p) + 1
  <2>1. n # Len(p)
    BY <1>2 DEF Compiled, Core!Conforming
  <2>2. n + 1 \in 1 .. Len(p) /\ (n + 1) - 1 = n
    <3>1. Len(p) \in 1 .. 97
      BY <1>1
    <3>2. n \in 1 .. Len(p)
      OBVIOUS
    <3> QED
      BY ONLY <2>1, <3>1, <3>2
  <2>3. p[n + 1].op \notin Core!Branches \cup {"trap"}
    BY <2>2, <1>1, <1>2 DEF Compiled, Core!Conforming, Core!IsSlot
  <2> QED
    BY <1>1, <1>2, <2>2, <2>3 DEF Compiled, Simples
<1>3. ASSUME NEW n \in 1 .. Len(p), p[n].op \in Core!Loads, p[n].rd # "zero",
             NEW m \in Core!Following(p, n) \cap 1 .. Len(p)
      PROVE  p[n].rd \notin Core!Reads(p[m])
  BY <1>1, <1>3 DEF Compiled, Core!Conforming
<1>4. ASSUME NEW n \in 1 .. Len(p)
      PROVE  /\ n + 1 \in Core!Following(p, n)
             /\ n - 1 \in 1 .. Len(p) /\ p[n - 1].op \in Core!Branches
                  => p[n - 1].to \in Core!Following(p, n)
  BY <1>1 DEF Core!Following, Core!IsSlot
<1> QED
  BY <1>1, <1>2, <1>3, <1>4

(* A program and the handlers have no word in common.                      *)
LEMMA Apart ==
  ASSUME NEW N \in 1 .. 97
  PROVE  /\ N + 1 \notin 1 .. N /\ N + 1 \notin (100 .. 104) \cup (200 .. 203)
         /\ \A n \in (100 .. 104) \cup (200 .. 203) : n \notin 1 .. N
<1>1. N \in Int /\ 1 <= N /\ N <= 97
  OBVIOUS
<1>2. ASSUME NEW n \in (100 .. 104) \cup (200 .. 203) PROVE n \in Int /\ n >= 100
  OBVIOUS
<1>3. N + 1 \notin 1 .. N
  BY <1>1
<1>4. N + 1 \notin (100 .. 104) \cup (200 .. 203)
  BY <1>1
<1>5. ASSUME NEW n \in (100 .. 104) \cup (200 .. 203) PROVE n \notin 1 .. N
  BY <1>1, <1>2
<1> QED
  BY <1>3, <1>4, <1>5

(* What is at an address.                                                  *)
LEMMA Fetched ==
  ASSUME Compiled(cpuProgram)
  PROVE  /\ \A n \in 1 .. Len(cpuProgram) : Core!Fetch(n) = cpuProgram[n]
         /\ Core!Fetch(Len(cpuProgram) + 1) = Core!Nop
         /\ \A n \in DOMAIN Core!Kernel : Core!Fetch(n) = Core!Kernel[n]
<1>1. DOMAIN Core!Kernel = (100 .. 104) \cup (200 .. 203)
  BY DEF Core!Kernel, Core!Vector, Core!DebugVector
<1>2. Len(cpuProgram) \in 1 .. 97 /\ DOMAIN cpuProgram = 1 .. Len(cpuProgram)
  BY ProgramFacts
<1>3. ASSUME NEW n \in 1 .. Len(cpuProgram) PROVE Core!Fetch(n) = cpuProgram[n]
  BY <1>2 DEF Core!Fetch
<1>4. Core!Fetch(Len(cpuProgram) + 1) = Core!Nop
  <2>1. /\ Len(cpuProgram) + 1 \notin 1 .. Len(cpuProgram)
        /\ Len(cpuProgram) + 1 \notin (100 .. 104) \cup (200 .. 203)
    <3>1. Len(cpuProgram) \in 1 .. 97
      BY <1>2
    <3> QED
      BY ONLY <3>1, Apart, ZenonT(40)
  <2> QED
    BY <2>1, <1>1, <1>2 DEF Core!Fetch
<1>5. ASSUME NEW n \in DOMAIN Core!Kernel PROVE Core!Fetch(n) = Core!Kernel[n]
  <2>1. n \notin 1 .. Len(cpuProgram)
    <3>1. Len(cpuProgram) \in 1 .. 97 /\ n \in (100 .. 104) \cup (200 .. 203)
      BY <1>1, <1>2
    <3> QED
      BY ONLY <3>1, Apart
  <2> QED
    BY <2>1, <1>2 DEF Core!Fetch
<1> QED
  BY <1>3, <1>4, <1>5

(* The handlers, word by word.                                             *)
LEMMA KernelIs ==
  /\ Core!Kernel[100] = [op |-> "epc", rd |-> "k"] /\ Core!Kernel[200] = [op |-> "epc", rd |-> "k"]
  /\ Core!Kernel[101] = Core!Nop /\ Core!Kernel[102] = [op |-> "serve"]
  /\ Core!Kernel[103] = [op |-> "jump", rs |-> "k"] /\ Core!Kernel[104] = [op |-> "rfe"]
  /\ Core!Kernel[201] = [op |-> "disarm"] /\ Core!Kernel[202] = [op |-> "jump", rs |-> "k"]
  /\ Core!Kernel[203] = [op |-> "rfe"]
BY DEF Core!Kernel, Core!Vector, Core!DebugVector
-----------------------------------------------------------------------------
(* The plain machine.                                                      *)

(* Its course, for the program that runs.                                  *)
Course == Core!Run(cpuProgram)

(* The course of the plain machine is a function.                          *)
LEMMA RunExists ==
  ASSUME Len(cpuProgram) \in Nat
  PROVE  Course = [n \in 0 .. Len(cpuProgram) |->
                       IF n = 0 THEN Core!PowerOn ELSE Core!RefStep(cpuProgram, Course[n - 1])]
<1> DEFINE N == Len(cpuProgram)
           Begins(m, g) ==
             g = [n \in 0 .. m |-> IF n = 0 THEN Core!PowerOn ELSE Core!RefStep(cpuProgram, g[n - 1])]
           T == {m \in 0 .. N : \E g : Begins(m, g)}
<1>1. 0 \in T
  <2>1. Begins(0, [n \in 0 .. 0 |-> Core!PowerOn])
    OBVIOUS
  <2>2. 0 \in 0 .. N
    OBVIOUS
  <2> HIDE DEF Begins, N
  <2> QED
    BY <2>1, <2>2
<1>2. ASSUME NEW m \in 0 .. N, m < N, m \in T PROVE m + 1 \in T
  <2>1. PICK g : Begins(m, g)
    BY <1>2
  <2> DEFINE h == [n \in 0 .. m + 1 |-> IF n <= m THEN g[n] ELSE Core!RefStep(cpuProgram, g[m])]
  <2>2. \A n \in 0 .. m : g[n] = IF n = 0 THEN Core!PowerOn ELSE Core!RefStep(cpuProgram, g[n - 1])
    BY <2>1
  <2>3. ASSUME NEW n \in 0 .. m + 1
        PROVE  h[n] = IF n = 0 THEN Core!PowerOn ELSE Core!RefStep(cpuProgram, h[n - 1])
    <3>1. CASE n <= m
      BY <3>1, <2>2
    <3>2. CASE n = m + 1
      BY <3>2
    <3> QED
      BY <3>1, <3>2
  <2>4. h = [n \in 0 .. m + 1 |-> IF n = 0 THEN Core!PowerOn ELSE Core!RefStep(cpuProgram, h[n - 1])]
    <3>1. h = [n \in 0 .. m + 1 |-> h[n]]
      OBVIOUS
    <3> QED
      BY <3>1, <2>3
  <2>5. Begins(m + 1, h)
    BY <2>4
  <2>6. m + 1 \in 0 .. N
    BY <1>2
  <2> HIDE DEF Begins, N, h
  <2> QED
    BY <2>5, <2>6
<1>3. N \in T
  <2>1. N \in Nat
    OBVIOUS
  <2> HIDE DEF T, N
  <2>2. 0 .. N \subseteq T
    BY ONLY <2>1, <1>1, <1>2, UptoInduction
  <2> QED
    BY <2>1, <2>2
<1>4. \E g : Begins(N, g)
  BY <1>3
<1>5. Course = CHOOSE g : Begins(N, g)
  BY DEF Course, Core!Run
<1> QED
  BY <1>4, <1>5

Extends(l, m) ==
  /\ l \in Traces /\ m \in Traces /\ Len(l) <= Len(m)
  /\ \A k \in 1 .. Len(l) : l[k] = m[k]

(* Extending a trace is reflexive                                          *)
LEMMA ExtendsItself ==
  ASSUME NEW l \in Traces
  PROVE  Extends(l, l)
BY DEF Extends, Traces

(* and transitive,                                                         *)
LEMMA ExtendsFurther ==
  ASSUME NEW l, NEW m, NEW k, Extends(l, m), Extends(m, k)
  PROVE  Extends(l, k)
<1>1. Len(l) \in Nat /\ Len(m) \in Nat /\ Len(k) \in Nat
  BY DEF Extends, Traces
<1> QED
  BY <1>1 DEF Extends

(* and appending an access extends one.                                    *)
LEMMA ExtendsByAppending ==
  ASSUME NEW l \in Traces, NEW m \in Traces, NEW k, k = <<>> \/ \E a : k = <<a>>, m = l \o k
  PROVE  Extends(l, m)
<1>1. CASE k = <<>>
  <2>1. l \o <<>> = l
    BY DEF Traces
  <2> QED
    BY <1>1, <2>1, ExtendsItself
<1>2. CASE \E a : k = <<a>>
  <2>1. PICK a : k = <<a>>
    BY <1>2
  <2>2. m = Append(l, a)
    BY <2>1 DEF Traces
  <2>3. Len(m) = Len(l) + 1 /\ Len(l) \in Nat /\ \A n \in 1 .. Len(l) : m[n] = l[n]
    BY <2>2 DEF Traces
  <2> QED
    BY <2>3 DEF Extends
<1> QED
  BY <1>1, <1>2

(* An instruction makes one access at most.                                *)
LEMMA LogsAtMostOne ==
  ASSUME NEW c, NEW i
  PROVE  Core!Logged(c, i) = <<>> \/ \E a : Core!Logged(c, i) = <<a>>
BY DEF Core!Logged

(* A processor about to run as the plain machine does, for the asking.     *)
LEMMA PlainGives ==
  ASSUME NEW s \in Plainly, Grounded(s), NEW i \in Core!Instructions, i.op \notin Core!Branches
  PROVE  LET t == Core!Plain(s, i) IN
    t \in Plainly /\ Grounded(t) /\ t.pc = s.pc /\ Extends(s.log, t.log)
<1> DEFINE t == Core!Plain(s, i)
<1>0. s.log \in Traces
  BY DEF Plainly
<1>1. CASE i.op = "trap"
  <2> DEFINE l == [s EXCEPT !.log = Append(s.log, Core!Access("trap", 0, 0))]
  <2>1. t = l
    BY <1>1 DEF Core!Plain, Core!Loads
  <2>2. "trap" \in {"load", "store", "gte", "trap"} /\ 0 \in Nat
    OBVIOUS
  <2>3. /\ l \in Plainly /\ Grounded(l) /\ l.pc = s.pc
        /\ l.log = s.log \o <<Core!Access("trap", 0, 0)>>
    BY ONLY <2>2, s \in Plainly, Grounded(s), LogGives
  <2> HIDE DEF l, t
  <2>4. l.log \in Traces
    BY <2>3 DEF Plainly
  <2>5. Extends(s.log, l.log)
    BY <1>0, <2>3, <2>4, ExtendsByAppending
  <2> QED
    BY ONLY <2>1, <2>3, <2>5 DEF t
<1>2. CASE i.op # "trap"
  <2> DEFINE sr == << [ie |-> s.ie, user |-> TRUE], [ie |-> s.ie, user |-> TRUE],
                      [ie |-> s.ie, user |-> TRUE] >>
             c == [regs |-> s.regs, pc |-> 0, next |-> 0, current |-> 0, pending |-> Core!NoLoad,
                   written |-> "zero", slot |-> FALSE, branch |-> FALSE, sr |-> sr,
                   isolated |-> s.isolated, cause |-> "none", bd |-> FALSE, epc |-> 0,
                   break |-> Core!NoBreak]
             d == Core!Landed(Core!Execute(c, i, Core!NoLoad, s.log), Core!NoLoad)
  <2>1. Core!NoLoad \in Landing /\ Core!NoLoad.reg = "zero"
    BY DEF Core!NoLoad, Landing, Core!Registers
  <2>2. sr \in Modes \X Modes \X Modes /\ sr[1] = [ie |-> s.ie, user |-> TRUE]
    BY DEF Modes, Plainly
  <2>3. Core!NoBreak \in BreakSettings
    BY DEF Core!NoBreak, BreakSettings
  <2>4. s.regs \in [Core!Registers -> Nat] /\ s.isolated \in BOOLEAN /\ "zero" \in Core!Registers
    BY DEF Plainly, Core!Registers
  <2> HIDE DEF sr
  <2>5. c \in Processor /\ Grounded(c)
    BY <2>1, <2>2, <2>3, <2>4 DEF Processor, Grounded
  <2>6. /\ c.regs = s.regs /\ c.pending = Core!NoLoad /\ c.written = "zero"
        /\ c.isolated = s.isolated /\ c.sr = sr /\ c.break = Core!NoBreak
    OBVIOUS
  <2> HIDE DEF c
  <2>7. Prepared(c, Core!NoLoad, s, i)
    BY <2>1, <2>2, <2>5, <2>6 DEF Prepared, Settled
  <2>8. ~Core!WatchHit(c, i)
    BY <2>6 DEF Core!WatchHit, Core!BreaksAt, Core!NoBreak
  <2>9. i \in Simples
    BY <1>2 DEF Simples
  <2>10. Agreed(c, d, s, t, i)
    BY ONLY <2>7, <2>8, <2>9, SimpleAgrees
  <2> HIDE DEF d, t
  <2>11. t \in Plainly /\ Grounded(t) /\ t.pc = s.pc /\ t.log = s.log \o Core!Logged(c, i)
    BY <2>10 DEF Agreed
  <2>12. t.log \in Traces
    BY <2>11 DEF Plainly
  <2>13. Extends(s.log, t.log)
    BY <1>0, <2>11, <2>12, LogsAtMostOne, ExtendsByAppending
  <2> QED
    BY ONLY <2>11, <2>13 DEF t
<1> QED
  BY <1>1, <1>2

(* or, with a branch, to one further on.                                   *)
LEMMA RefStepGives ==
  ASSUME Compiled(cpuProgram), NEW s \in Plainly, Grounded(s), s.pc \in 1 .. Len(cpuProgram)
  PROVE  LET t == Core!RefStep(cpuProgram, s) IN
    /\ t \in Plainly /\ Grounded(t) /\ t.pc \in s.pc + 1 .. Len(cpuProgram) + 1
    /\ Extends(s.log, t.log)
<1> DEFINE i == cpuProgram[s.pc]
           t == Core!RefStep(cpuProgram, s)
           N == Len(cpuProgram)
<1>1. /\ N \in Nat /\ s.pc \in DOMAIN cpuProgram /\ s.pc \in 1 .. N
      /\ i \in Core!Instructions
  BY ProgramFacts
<1>2. CASE i.op \notin Core!Branches
  <2> DEFINE u == Core!Plain(s, i)
             after == s.pc + 1
  <2>1. t = [u EXCEPT !.pc = after]
    BY <1>1, <1>2 DEF Core!RefStep
  <2>2. u \in Plainly /\ Grounded(u) /\ u.pc = s.pc /\ Extends(s.log, u.log)
    BY ONLY <1>1, <1>2, s \in Plainly, Grounded(s), PlainGives
  <2>3. after \in Nat /\ after \in s.pc + 1 .. N + 1
    BY <1>1
  <2> HIDE DEF u, t, after
  <2>4. t \in Plainly /\ Grounded(t) /\ t.pc = after /\ t.log = u.log
    BY <2>1, <2>2, <2>3 DEF Plainly, Grounded
  <2> QED
    BY ONLY <2>2, <2>3, <2>4 DEF t, N
<1>3. CASE i.op \in Core!Branches
  <2> DEFINE j == cpuProgram[s.pc + 1]
             v == Core!Linked(s, i)
             u == Core!Plain(v, j)
             after == IF Core!Taken(s, i) THEN i.to ELSE s.pc + 2
  <2>1. t = [u EXCEPT !.pc = after]
    BY <1>1, <1>3 DEF Core!RefStep
  <2>2. s.pc + 1 \in 1 .. N /\ j \in Simples /\ i.to \in s.pc + 1 .. N + 1
    BY <1>1, <1>3, ProgramFacts
  <2>3. j \in Core!Instructions /\ j.op \notin Core!Branches
    BY <2>2 DEF Simples
  <2>4. v \in Plainly /\ Grounded(v) /\ v.log = s.log
    <3>1. CASE i.op = "link"
      <4>1. i.rd \in Core!Registers
        BY <1>1, <3>1, Fields DEF Core!Free
      <4>2. s.pc + 2 \in Nat
        BY <1>1
      <4>3. v = Core!Put(s, i.rd, s.pc + 2)
        BY <3>1 DEF Core!Linked
      <4> HIDE DEF v
      <4> QED
        BY ONLY <4>1, <4>2, <4>3, s \in Plainly, Grounded(s), PutGives
    <3>2. CASE i.op # "link"
      BY <3>2 DEF Core!Linked
    <3> QED
      BY <3>1, <3>2
  <2> HIDE DEF v
  <2>5. u \in Plainly /\ Grounded(u) /\ Extends(v.log, u.log)
    BY ONLY <2>3, <2>4, PlainGives
  <2>6. after \in Nat /\ after \in s.pc + 1 .. N + 1
    BY <1>1, <2>2
  <2> HIDE DEF u, t, after
  <2>7. t \in Plainly /\ Grounded(t) /\ t.pc = after /\ t.log = u.log
    BY <2>1, <2>5, <2>6 DEF Plainly, Grounded
  <2> QED
    BY ONLY <2>4, <2>5, <2>6, <2>7 DEF t, N
<1> QED
  BY <1>2, <1>3

(* It starts at the first word.                                            *)
LEMMA PowerOnGives ==
  Core!PowerOn \in Plainly /\ Grounded(Core!PowerOn) /\ Core!PowerOn.pc = 1
<1>1. [r \in Core!Registers |-> IF r = "zero" THEN 0 ELSE 1] \in [Core!Registers -> Nat]
  OBVIOUS
<1>2. <<>> \in Traces
  BY DEF Traces
<1>3. "zero" \in Core!Registers
  BY DEF Core!Registers
<1> QED
  BY <1>1, <1>2, <1>3 DEF Core!PowerOn, Plainly, Grounded

(* The course of the plain machine: it goes forwards, and is through after *)
(* as many steps as the program has instructions.                          *)
Onwards(n) ==
  LET s == Course[n] IN
  /\ s \in Plainly /\ Grounded(s) /\ s.pc \in 1 .. Len(cpuProgram) + 1
  /\ s.pc > n \/ s.pc = Len(cpuProgram) + 1

(* At every place of its course it is well typed and further on.           *)
LEMMA RunGives ==
  ASSUME Compiled(cpuProgram)
  PROVE  /\ \A n \in 0 .. Len(cpuProgram) : Onwards(n)
         /\ Course[0] = Core!PowerOn
         /\ \A n \in 0 .. Len(cpuProgram) :
              n < Len(cpuProgram) => Course[n + 1] = Core!RefStep(cpuProgram, Course[n])
<1> DEFINE N == Len(cpuProgram)
           T == {n \in 0 .. N : Onwards(n)}
<1>1. N \in 1 .. 97 /\ N \in Nat
  <2>1. N \in 1 .. 97
    BY ProgramFacts
  <2> QED
    BY <2>1
<1>2. Course = [n \in 0 .. N |->
                    IF n = 0 THEN Core!PowerOn ELSE Core!RefStep(cpuProgram, Course[n - 1])]
  BY <1>1, RunExists
<1> HIDE DEF N
<1>3. Course[0] = Core!PowerOn
  <2>1. 0 \in 0 .. N
    BY <1>1
  <2> QED
    BY <2>1, <1>2
<1>4. ASSUME NEW n \in 0 .. N, n < N PROVE Course[n + 1] = Core!RefStep(cpuProgram, Course[n])
  <2>1. n + 1 \in 0 .. N /\ n + 1 # 0 /\ (n + 1) - 1 = n
    BY <1>1, <1>4
  <2> QED
    BY <2>1, <1>2
<1>5. 0 \in T
  <2>1. 0 \in 0 .. N /\ 1 \in 1 .. N + 1 /\ 1 > 0
    BY <1>1
  <2> QED
    BY <2>1, <1>3, PowerOnGives DEF Onwards, N
<1>6. ASSUME NEW n \in 0 .. N, n < N, n \in T PROVE n + 1 \in T
  <2> DEFINE s == Course[n]
             t == Course[n + 1]
  <2>1. t = Core!RefStep(cpuProgram, s)
    BY <1>4, <1>6
  <2>2. s \in Plainly /\ Grounded(s) /\ s.pc \in 1 .. N + 1 /\ (s.pc > n \/ s.pc = N + 1)
    BY <1>6 DEF Onwards, N
  <2>3. n + 1 \in 0 .. N /\ n \in Nat
    BY <1>1, <1>6
  <2> HIDE DEF s, t
  <2>4. CASE s.pc = N + 1
    <3>1. s.pc \notin DOMAIN cpuProgram
      <4>1. DOMAIN cpuProgram = 1 .. N
        BY ProgramFacts DEF N
      <4>2. N + 1 \notin 1 .. N
        BY <1>1
      <4> QED
        BY <4>1, <4>2, <2>4
    <3>2. t = s
      BY <3>1, <2>1 DEF Core!RefStep
    <3> QED
      BY <2>2, <2>3, <2>4, <3>2 DEF Onwards, s, t, N
  <2>5. CASE s.pc # N + 1
    <3>1. s.pc \in 1 .. N /\ s.pc \in Int /\ s.pc > n
      BY <2>2, <2>5, <1>1
    <3>2. t \in Plainly /\ Grounded(t) /\ t.pc \in s.pc + 1 .. N + 1
      BY <2>1, <2>2, <3>1, RefStepGives DEF N
    <3>3. t.pc \in 1 .. N + 1 /\ t.pc > n + 1
      BY <3>1, <3>2, <2>3, <1>1
    <3> QED
      BY <2>3, <3>2, <3>3 DEF Onwards, t, N
  <2> QED
    BY <2>4, <2>5
<1>7. 0 .. N \subseteq T
  <2> HIDE DEF T
  <2> QED
    BY ONLY <1>1, <1>5, <1>6, UptoInduction
<1> QED
  BY <1>3, <1>4, <1>7 DEF N

(* What it has done it does not take back; at its end it stays.            *)
LEMMA RunExtends ==
  ASSUME Compiled(cpuProgram), NEW n \in 0 .. Len(cpuProgram)
  PROVE  /\ Extends(Course[n].log, Core!Reference.log)
         /\ Course[n].pc = Len(cpuProgram) + 1 => Core!Reference = Course[n]
<1> DEFINE N == Len(cpuProgram)
           Kept(m) == /\ Extends(Course[n].log, Course[m].log)
                      /\ Course[n].pc = N + 1 => Course[m] = Course[n]
           T == {m \in 0 .. N : m >= n => Kept(m)}
<1>1. N \in 1 .. 97 /\ N \in Nat /\ n \in 0 .. N
  <2>1. N \in 1 .. 97
    BY ProgramFacts
  <2> QED
    BY <2>1
<1>2. /\ \A m \in 0 .. N : Onwards(m)
      /\ \A m \in 0 .. N : m < N => Course[m + 1] = Core!RefStep(cpuProgram, Course[m])
  BY RunGives
<1>3. Kept(n)
  BY <1>1, <1>2, ExtendsItself DEF Onwards, Plainly
<1>p. \A m \in 0 .. N : Course[m] \in Plainly /\ Grounded(Course[m])
                        /\ Course[m].pc \in 1 .. N + 1 /\ Course[m].log \in Traces
  BY <1>2 DEF Onwards, Plainly
<1> HIDE DEF N
<1>4. 0 \in T
  <2>1. 0 \in 0 .. N /\ (0 >= n => n = 0)
    BY <1>1
  <2> QED
    BY <2>1, <1>3
<1>5. ASSUME NEW m \in 0 .. N, m < N, m \in T PROVE m + 1 \in T
  <2> DEFINE s == Course[m]
             t == Course[m + 1]
  <2>1. m + 1 \in 0 .. N /\ (m + 1 >= n => m + 1 = n \/ m >= n)
    BY <1>1, <1>5
  <2>2. CASE m >= n
    <3>1. Kept(m)
      BY <1>5, <2>2
    <3>2. t = Core!RefStep(cpuProgram, s)
      BY <1>2, <1>5
    <3>3. s \in Plainly /\ Grounded(s) /\ s.pc \in 1 .. N + 1 /\ s.log \in Traces
      BY <1>p, <1>5
    <3>4. CASE s.pc = N + 1
      <4>1. s.pc \notin DOMAIN cpuProgram
        <5>1. DOMAIN cpuProgram = 1 .. N
          BY ProgramFacts DEF N
        <5>2. N + 1 \notin 1 .. N
          BY <1>1
        <5> QED
          BY <5>1, <5>2, <3>4
      <4>2. t = s
        BY <3>2, <4>1 DEF Core!RefStep
      <4>3. Kept(m + 1)
        BY <3>1, <4>2
      <4> QED
        BY <4>3, <2>1
    <3>5. CASE s.pc # N + 1
      <4>1. s.pc \in 1 .. N
        BY <3>3, <3>5, <1>1
      <4>2. Extends(s.log, t.log)
        BY <3>2, <3>3, <4>1, RefStepGives DEF N
      <4>3. Extends(Course[n].log, t.log)
        BY <3>1, <4>2, ExtendsFurther
      <4>4. Course[n].pc # N + 1
        BY <3>1, <3>5
      <4>5. Kept(m + 1)
        BY <4>3, <4>4
      <4> QED
        BY <4>5, <2>1
    <3> QED
      BY <3>4, <3>5
  <2>3. CASE m + 1 = n
    BY <2>1, <2>3, <1>3
  <2>4. CASE ~(m + 1 >= n)
    BY <2>1, <2>4
  <2> QED
    BY <2>1, <2>2, <2>3, <2>4
<1>6. 0 .. N \subseteq T
  <2> HIDE DEF T
  <2> QED
    BY ONLY <1>1, <1>4, <1>5, UptoInduction
<1>7. Kept(N)
  <2>1. N \in 0 .. N /\ N >= n
    BY <1>1
  <2> QED
    BY <2>1, <1>6
<1> QED
  BY <1>7 DEF Core!Reference, Course, N
-----------------------------------------------------------------------------
(* The invariant: the processor stands where the plain machine s does.     *)

(* The register a link is about to write may have been written.            *)
Relinked(s, r) ==
  s.pc \in DOMAIN cpuProgram /\ cpuProgram[s.pc].op = "link" /\ cpuProgram[s.pc].rd = r
Alike(c, s) ==
  /\ \A r \in Core!Free : Settled(c, c.pending, r) = s.regs[r] \/ Relinked(s, r)
  /\ c.isolated = s.isolated

(* The modes of the program and of what called it.                         *)
Runs(mode, caller, s) ==
  mode = [ie |-> s.ie, user |-> TRUE] /\ caller = [ie |-> TRUE, user |-> FALSE]

(* Before an instruction of the program, or after the last.                *)
AtStep(c, s) ==
  /\ c.next = c.pc + 1 /\ ~c.branch
  /\ Alike(c, s) /\ Runs(c.sr[1], c.sr[2], s)
  /\ \/ c.pc = s.pc
     \/ s.pc = Len(cpuProgram) + 1 /\ c.pc = s.pc + 1 /\ c.pending.reg = "zero"
  /\ c.pending.reg # "k"
  /\ s.pc \in DOMAIN cpuProgram /\ c.pending.reg # "zero"
       => c.pending.reg \notin Core!Reads(cpuProgram[s.pc])

(* Between a branch and its slot.                                          *)
InSlot(c, s) ==
  LET i == cpuProgram[s.pc] IN
  /\ s.pc \in DOMAIN cpuProgram /\ i.op \in Core!Branches
  /\ c.pc = s.pc + 1 /\ c.branch
  /\ c.next = IF Core!Taken(s, i) THEN i.to ELSE s.pc + 2
  /\ c.pending.reg = "zero" /\ Runs(c.sr[1], c.sr[2], s) /\ c.isolated = s.isolated
  /\ \A r \in Core!Free : c.regs[r] = Core!Linked(s, i).regs[r]

(* In a handler that will return to the program: it fetches where to from  *)
(* EPC, has it in flight, has it in k, and is returning.                   *)
Fetching == {Core!Vector, Core!DebugVector}
Awaiting == {Core!Vector + 1, Core!DebugVector + 1}
Holding == {Core!Vector + 2, Core!Vector + 3, Core!DebugVector + 2}
Leaving == {Core!Vector + 4, Core!DebugVector + 3}
Trapped(c, s) == c.cause = "trap" => s.pc \in DOMAIN cpuProgram /\ cpuProgram[s.pc].op = "trap"
InHandler(c, s) ==
  /\ Alike(c, s) /\ c.sr[1] = [ie |-> FALSE, user |-> FALSE] /\ Runs(c.sr[2], c.sr[3], s)
  /\ c.next = IF c.pc \in Leaving THEN s.pc ELSE c.pc + 1
  /\ c.branch <=> c.pc \in Leaving
  /\ \/ c.pc \in Fetching /\ c.epc = s.pc /\ c.pending.reg # "k"
     \/ c.pc \in Awaiting /\ c.pending = [reg |-> "k", value |-> s.pc]
     \/ c.pc \in Holding /\ c.pending.reg = "zero" /\ c.regs["k"] = s.pc
     \/ c.pc \in Leaving /\ c.pending.reg = "zero"
  /\ c.pc \in Core!Vector .. Core!Vector + 2 => Trapped(c, s)

Follows(c, s) == AtStep(c, s) \/ InSlot(c, s) \/ InHandler(c, s)
Aligned == \E n \in 0 .. Len(cpuProgram) :
  cpuLog = Course[n].log /\ Follows(cpuCpu, Course[n])
Typed ==
  /\ cpuCpu \in Processor /\ Grounded(cpuCpu) /\ cpuCpu.break \in Breaks \cup {Core!NoBreak}
  /\ cpuLeft \in 0 .. Interrupts
CpuInv == Compiled(cpuProgram) /\ Typed /\ Aligned
-----------------------------------------------------------------------------
(* How an instruction begins, and where it may leave the two machines.     *)

Begun ==
  [Core!Sampled EXCEPT !.pc = Core!Sampled.next, !.next = Core!Sampled.next + 1,
                       !.pending = Core!NoLoad, !.written = "zero"]
Continues(d, l) ==
  /\ d \in Processor /\ Grounded(d) /\ d.break \in {cpuCpu.break, Core!NoBreak}
  /\ \E m \in 0 .. Len(cpuProgram) : l = Course[m].log /\ Follows(d, Course[m])

(* What a step looks at before it fetches,                                 *)
LEMMA SampledGives ==
  ASSUME cpuCpu \in Processor, Grounded(cpuCpu)
  PROVE  LET c == Core!Sampled IN
    /\ c \in Processor /\ Grounded(c) /\ c.regs = cpuCpu.regs /\ c.pc = cpuCpu.pc
    /\ c.next = cpuCpu.next /\ c.current = cpuCpu.pc /\ c.pending = cpuCpu.pending
    /\ c.slot = cpuCpu.branch /\ c.branch = FALSE /\ c.sr = cpuCpu.sr
    /\ c.isolated = cpuCpu.isolated /\ c.cause = cpuCpu.cause /\ c.epc = cpuCpu.epc
    /\ c.break = cpuCpu.break
BY DEF Core!Sampled, Processor, Grounded

(* and when it has.                                                        *)
LEMMA BegunGives ==
  ASSUME cpuCpu \in Processor, Grounded(cpuCpu)
  PROVE  /\ Begun \in Processor /\ Grounded(Begun) /\ Begun.regs = cpuCpu.regs
         /\ Begun.pc = cpuCpu.next /\ Begun.next = cpuCpu.next + 1 /\ Begun.current = cpuCpu.pc
         /\ Begun.pending = Core!NoLoad /\ Begun.written = "zero" /\ Begun.slot = cpuCpu.branch
         /\ Begun.branch = FALSE /\ Begun.sr = cpuCpu.sr /\ Begun.isolated = cpuCpu.isolated
         /\ Begun.cause = cpuCpu.cause /\ Begun.epc = cpuCpu.epc /\ Begun.break = cpuCpu.break
<1> DEFINE b == Core!Sampled
           after == b.next + 1
           c == [b EXCEPT !.pc = b.next, !.next = after, !.pending = Core!NoLoad, !.written = "zero"]
<1>1. Core!NoLoad \in Landing /\ "zero" \in Core!Registers
  BY DEF Core!NoLoad, Landing, Core!Registers
<1>2. /\ b \in Processor /\ Grounded(b) /\ b.regs = cpuCpu.regs
      /\ b.next = cpuCpu.next /\ b.current = cpuCpu.pc
      /\ b.slot = cpuCpu.branch /\ b.branch = FALSE /\ b.sr = cpuCpu.sr
      /\ b.isolated = cpuCpu.isolated /\ b.cause = cpuCpu.cause /\ b.epc = cpuCpu.epc
      /\ b.break = cpuCpu.break
  BY SampledGives
<1>3. Begun = c
  BY DEF Begun
<1> HIDE DEF b
<1>4. after \in Nat /\ b.next \in Nat
  BY <1>2 DEF Processor
<1> HIDE DEF after
<1>5. /\ c \in Processor /\ c.regs = b.regs /\ c.pc = b.next /\ c.next = after
      /\ c.current = b.current /\ c.pending = Core!NoLoad /\ c.written = "zero"
      /\ c.slot = b.slot /\ c.branch = b.branch /\ c.sr = b.sr /\ c.isolated = b.isolated
      /\ c.cause = b.cause /\ c.epc = b.epc /\ c.break = b.break
  BY <1>1, <1>2, <1>4 DEF Processor
<1> HIDE DEF c
<1> QED
  BY <1>2, <1>3, <1>5 DEF Grounded, after

(* At an instruction whose turn it is.                                     *)
OnTurn(c, s) == (AtStep(c, s) /\ c.pc = s.pc) \/ InSlot(c, s)

(* An exception in its turn leads into a handler that will come back.      *)
LEMMA EntersHandler ==
  ASSUME NEW c \in Processor, NEW s \in Plainly, Grounded(s), NEW d \in Processor, OnTurn(c, s),
         d.pc \in Fetching, d.next = d.pc + 1, d.branch = FALSE,
         d.sr = Entered(c.sr), d.isolated = c.isolated,
         d.epc = IF c.branch THEN c.pc - 1 ELSE c.pc,
         \A r \in Core!Free : Settled(d, d.pending, r) = Settled(c, c.pending, r),
         d.pending.reg # "k", Trapped(d, s)
  PROVE  InHandler(d, s)
<1>1. d.epc = s.pc
  <2>1. s.pc \in Nat
    BY DEF Plainly
  <2> QED
    BY <2>1 DEF OnTurn, AtStep, InSlot
<1>2. d.pc \notin Leaving
  BY DEF Fetching, Leaving, Core!Vector, Core!DebugVector
<1>3. Runs(c.sr[1], c.sr[2], s) /\ c.isolated = s.isolated
  BY DEF OnTurn, AtStep, InSlot, Alike
<1>4. /\ d.sr[1] = [ie |-> FALSE, user |-> FALSE] /\ d.sr[2] = c.sr[1]
      /\ d.sr[3] = c.sr[2]
  BY DEF Entered
<1>5. ASSUME NEW r \in Core!Free
      PROVE  Settled(c, c.pending, r) = s.regs[r] \/ Relinked(s, r)
  <2>1. CASE AtStep(c, s)
    BY <2>1 DEF AtStep, Alike
  <2>2. CASE InSlot(c, s)
    <3> DEFINE i == cpuProgram[s.pc]
    <3>1. c.pending.reg = "zero" /\ c.regs[r] = Core!Linked(s, i).regs[r]
          /\ s.pc \in DOMAIN cpuProgram
      BY <2>2 DEF InSlot
    <3>2. Settled(c, c.pending, r) = c.regs[r]
      BY <3>1 DEF Settled
    <3>3. CASE i.op = "link"
      <4>1. Core!Linked(s, i) = Core!Put(s, i.rd, s.pc + 2)
        BY <3>3 DEF Core!Linked
      <4>2. CASE i.rd = r
        BY <3>1, <3>3, <4>2 DEF Relinked
      <4>3. CASE i.rd # r
        <5>1. Core!Put(s, i.rd, s.pc + 2).regs[r] = s.regs[r]
          BY <4>3 DEF Core!Put, Plainly
        <5> QED
          BY <5>1, <4>1, <3>1, <3>2
      <4> QED
        BY <4>2, <4>3
    <3>4. CASE i.op # "link"
      BY <3>1, <3>2, <3>4 DEF Core!Linked
    <3> QED
      BY <3>3, <3>4
  <2> QED
    BY <2>1, <2>2 DEF OnTurn
<1>6. Alike(d, s)
  BY <1>3, <1>5 DEF Alike
<1> QED
  BY <1>1, <1>2, <1>3, <1>4, <1>6 DEF InHandler

(* An interrupt or a code breakpoint, before the instruction.              *)
LEMMA InterruptedAt ==
  ASSUME cpuCpu \in Processor, Grounded(cpuCpu), NEW s \in Plainly, Grounded(s),
         OnTurn(cpuCpu, s), NEW cause \in {"interrupt", "break"},
         NEW vector \in Fetching
  PROVE  LET d == Core!Enter(Core!Sampled, cause, vector) IN
    d \in Processor /\ Grounded(d) /\ d.break = cpuCpu.break /\ InHandler(d, s)
<1> DEFINE c == Core!Sampled
           d == Core!Enter(c, cause, vector)
<1>1. /\ c \in Processor /\ Grounded(c) /\ c.regs = cpuCpu.regs
      /\ c.current = cpuCpu.pc /\ c.pending = cpuCpu.pending
      /\ c.slot = cpuCpu.branch /\ c.branch = FALSE /\ c.sr = cpuCpu.sr
      /\ c.isolated = cpuCpu.isolated /\ c.break = cpuCpu.break
  BY SampledGives
<1>2. cause \in {"interrupt", "trap", "break"} /\ vector \in Nat
  BY DEF Fetching, Core!Vector, Core!DebugVector
<1> HIDE DEF c
<1>3. /\ d \in Processor /\ Grounded(d) /\ d.regs = c.regs
      /\ d.pending = c.pending /\ d.pc = vector /\ d.next = vector + 1 /\ d.branch = c.branch
      /\ d.sr = Entered(c.sr)
      /\ d.isolated = c.isolated /\ d.cause = cause /\ d.break = c.break
      /\ d.epc = IF c.slot THEN c.current - 1 ELSE c.current
  <2>1. c \in Processor /\ Grounded(c) /\ cause \in {"interrupt", "trap", "break"}
        /\ vector \in Nat
    BY <1>1, <1>2
  <2>2. Entering(c, cause, vector, d)
    BY ONLY <2>1, EnterGives
  <2> HIDE DEF d
  <2> QED
    BY <2>2 DEF Entering
<1> HIDE DEF d
<1>4. \A r \in Core!Free : Settled(d, d.pending, r) = Settled(cpuCpu, cpuCpu.pending, r)
  BY <1>1, <1>3 DEF Settled
<1>5. d.pending.reg # "k"
  BY <1>1, <1>3 DEF OnTurn, AtStep, InSlot
<1>6. Trapped(d, s)
  BY <1>3 DEF Trapped
<1>7. InHandler(d, s)
  BY <1>1, <1>3, <1>4, <1>5, <1>6, EntersHandler
<1> QED
  BY <1>1, <1>3, <1>7 DEF d, c

(* A trap or a data breakpoint, by the instruction: what was in flight     *)
(* lands.                                                                  *)
LEMMA InterruptedBy ==
  ASSUME cpuCpu \in Processor, Grounded(cpuCpu), NEW s \in Plainly, Grounded(s),
         OnTurn(cpuCpu, s), NEW cause \in {"trap", "break"}, NEW vector \in Fetching,
         cause = "trap" => s.pc \in DOMAIN cpuProgram /\ cpuProgram[s.pc].op = "trap"
  PROVE  LET d == Core!Landed(Core!Enter(Begun, cause, vector), cpuCpu.pending) IN
    d \in Processor /\ Grounded(d) /\ d.break = cpuCpu.break /\ InHandler(d, s)
<1> DEFINE e == Core!Enter(Begun, cause, vector)
           d == Core!Landed(e, cpuCpu.pending)
<1>1. /\ Begun \in Processor /\ Grounded(Begun) /\ Begun.regs = cpuCpu.regs
      /\ Begun.current = cpuCpu.pc
      /\ Begun.pending = Core!NoLoad /\ Begun.written = "zero" /\ Begun.slot = cpuCpu.branch
      /\ Begun.branch = FALSE /\ Begun.sr = cpuCpu.sr /\ Begun.isolated = cpuCpu.isolated
      /\ Begun.break = cpuCpu.break
  BY BegunGives
<1>2. cause \in {"interrupt", "trap", "break"} /\ vector \in Nat
  BY DEF Fetching, Core!Vector, Core!DebugVector
<1>3. /\ e \in Processor /\ Grounded(e) /\ e.regs = Begun.regs /\ e.written = Begun.written
      /\ e.pending = Begun.pending /\ e.pc = vector /\ e.next = vector + 1
      /\ e.branch = Begun.branch
      /\ e.sr = Entered(Begun.sr)
      /\ e.isolated = Begun.isolated /\ e.cause = cause /\ e.break = Begun.break
      /\ e.epc = IF Begun.slot THEN Begun.current - 1 ELSE Begun.current
  <2>1. Begun \in Processor /\ Grounded(Begun) /\ cause \in {"interrupt", "trap", "break"}
        /\ vector \in Nat
    BY <1>1, <1>2
  <2>2. Entering(Begun, cause, vector, e)
    BY ONLY <2>1, EnterGives
  <2> HIDE DEF e
  <2> QED
    BY <2>2 DEF Entering
<1> HIDE DEF e
<1>4. cpuCpu.pending \in Landing
  BY DEF Processor
<1>5. /\ d \in Processor /\ Grounded(d)
      /\ \A q \in Core!Registers :
           d.regs[q] = IF q = cpuCpu.pending.reg /\ q \notin {"zero", e.written}
                       THEN cpuCpu.pending.value ELSE e.regs[q]
      /\ d.pc = e.pc /\ d.next = e.next /\ d.pending = e.pending
      /\ d.branch = e.branch /\ d.sr = e.sr /\ d.isolated = e.isolated
      /\ d.cause = e.cause /\ d.epc = e.epc /\ d.break = e.break
  BY ONLY <1>3, <1>4, LandedGives
<1> HIDE DEF d
<1>6. d.pending.reg = "zero"
  BY <1>1, <1>3, <1>5 DEF Core!NoLoad
<1>7. ASSUME NEW r \in Core!Free
      PROVE  Settled(d, d.pending, r) = Settled(cpuCpu, cpuCpu.pending, r)
  <2>1. r \in Core!Registers
    BY DEF Core!Free
  <2> QED
    BY <2>1, <1>1, <1>3, <1>5, <1>6 DEF Settled
<1>8. Trapped(d, s)
  BY <1>3, <1>5 DEF Trapped
<1>9. /\ d.pc \in Fetching /\ d.next = d.pc + 1 /\ d.branch = FALSE
      /\ d.sr = Entered(cpuCpu.sr)
      /\ d.isolated = cpuCpu.isolated
      /\ d.epc = IF cpuCpu.branch THEN cpuCpu.pc - 1 ELSE cpuCpu.pc
      /\ d.pending.reg # "k"
  BY <1>1, <1>3, <1>5, <1>6
<1>10. InHandler(d, s)
  BY <1>5, <1>7, <1>8, <1>9, EntersHandler
<1> QED
  BY <1>1, <1>3, <1>5, <1>10 DEF d, e
-----------------------------------------------------------------------------
(* The steps of the program.                                               *)

(* The next place of the course.                                           *)
LEMMA Advances ==
  ASSUME Compiled(cpuProgram), NEW n \in 0 .. Len(cpuProgram),
         Course[n].pc \in 1 .. Len(cpuProgram)
  PROVE  n + 1 \in 0 .. Len(cpuProgram) /\ Course[n + 1] = Core!RefStep(cpuProgram, Course[n])
<1> DEFINE N == Len(cpuProgram)
           at == Course[n].pc
<1>1. Onwards(n) /\ (n < N => Course[n + 1] = Core!RefStep(cpuProgram, Course[n]))
  BY RunGives
<1>2. at > n \/ at = N + 1
  BY <1>1 DEF Onwards
<1>3. N \in 1 .. 97
  BY ProgramFacts
<1>4. at \in 1 .. N /\ n \in 0 .. N
  OBVIOUS
<1> HIDE DEF N, at
<1>5. n < N /\ n + 1 \in 0 .. N
  BY ONLY <1>2, <1>3, <1>4
<1> QED
  BY <1>1, <1>5 DEF N

(* An instruction that agrees leaves the processor at the next place.      *)
LEMMA Continued ==
  ASSUME cpuCpu \in Processor, Grounded(cpuCpu), NEW d, NEW s, NEW t,
         NEW i \in Core!Instructions, Agreed(Begun, d, s, t, i),
         NEW u, u.regs = t.regs, u.ie = t.ie, u.isolated = t.isolated,
         cpuCpu.sr[2] = [ie |-> TRUE, user |-> FALSE],
         \/ cpuCpu.next = u.pc
         \/ u.pc = Len(cpuProgram) + 1 /\ cpuCpu.next = u.pc + 1 /\ d.pending.reg = "zero",
         u.pc \in DOMAIN cpuProgram /\ d.pending.reg # "zero"
           => d.pending.reg \notin Core!Reads(cpuProgram[u.pc])
  PROVE  AtStep(d, u) /\ d \in Processor /\ Grounded(d) /\ d.break = cpuCpu.break
<1>1. /\ Begun.pc = cpuCpu.next /\ Begun.next = cpuCpu.next + 1 /\ Begun.branch = FALSE
      /\ Begun.sr = cpuCpu.sr /\ Begun.break = cpuCpu.break
  BY BegunGives
<1>2. /\ d \in Processor /\ Grounded(d)
      /\ \A r \in Core!Free : Settled(d, d.pending, r) = t.regs[r]
      /\ d.pending.reg = "zero" \/ (i.op \in Core!Loads /\ d.pending.reg = i.rd)
      /\ d.pc = Begun.pc /\ d.next = Begun.next /\ d.branch = Begun.branch
      /\ d.break = Begun.break /\ d.isolated = t.isolated
      /\ d.sr[1] = [ie |-> t.ie, user |-> TRUE] /\ d.sr[2] = Begun.sr[2]
  BY DEF Agreed
<1>3. d.pending.reg # "k"
  <2>1. i.op \in Core!Loads => i.rd \in Core!Free
    BY Fields DEF Core!Loads
  <2>2. "k" \notin Core!Free
    BY DEF Core!Free
  <2> QED
    BY <2>1, <2>2, <1>2
<1>4. Alike(d, u)
  BY <1>2 DEF Alike
<1>5. Runs(d.sr[1], d.sr[2], u)
  BY <1>1, <1>2 DEF Runs
<1>6. d.pc = cpuCpu.next /\ d.next = d.pc + 1 /\ ~d.branch
  BY <1>1, <1>2
<1> QED
  BY <1>1, <1>2, <1>3, <1>4, <1>5, <1>6 DEF AtStep

(* A processor at a step is prepared for its instruction.                  *)
LEMMA Prepares ==
  ASSUME Compiled(cpuProgram), cpuCpu \in Processor, Grounded(cpuCpu),
         NEW s \in Plainly, Grounded(s), AtStep(cpuCpu, s), NEW i,
         s.pc \in DOMAIN cpuProgram => i = cpuProgram[s.pc] /\ i \in Simples,
         s.pc \notin DOMAIN cpuProgram => i = Core!Nop
  PROVE  Prepared(Begun, cpuCpu.pending, s, i)
<1>1. /\ Begun \in Processor /\ Grounded(Begun) /\ Begun.regs = cpuCpu.regs
      /\ Begun.pending = Core!NoLoad /\ Begun.written = "zero"
      /\ Begun.sr = cpuCpu.sr /\ Begun.isolated = cpuCpu.isolated
  BY BegunGives
<1>2. cpuCpu.pending \in Landing
  BY DEF Processor
<1>3. ASSUME NEW r \in Core!Free PROVE Settled(Begun, cpuCpu.pending, r) = s.regs[r]
  <2>1. ~Relinked(s, r)
    BY DEF Relinked, Simples, Core!Branches
  <2> QED
    BY <2>1, <1>1 DEF AtStep, Alike, Settled
<1>4. Begun.isolated = s.isolated /\ Begun.sr[1] = [ie |-> s.ie, user |-> TRUE]
  BY <1>1 DEF AtStep, Alike, Runs
<1>5. cpuCpu.pending.reg = "zero" \/ cpuCpu.pending.reg \notin Core!Reads(i)
  <2>1. CASE s.pc \in DOMAIN cpuProgram
    BY <2>1 DEF AtStep
  <2>2. CASE s.pc \notin DOMAIN cpuProgram
    <3>1. Core!Reads(Core!Nop) = {"zero"}
      BY DEF Core!Reads, Core!Nop
    <3> QED
      BY <2>2, <3>1
  <2> QED
    BY <2>1, <2>2
<1> QED
  BY <1>1, <1>2, <1>3, <1>4, <1>5 DEF Prepared

(* A step that is no branch leads to the next place,                       *)
LEMMA SimpleStep ==
  ASSUME Compiled(cpuProgram), cpuCpu \in Processor, Grounded(cpuCpu),
         NEW n \in 0 .. Len(cpuProgram), AtStep(cpuCpu, Course[n]),
         cpuCpu.pc = Course[n].pc, cpuCpu.pc \in 1 .. Len(cpuProgram),
         cpuProgram[cpuCpu.pc] \in Simples, ~Core!WatchHit(Begun, cpuProgram[cpuCpu.pc])
  PROVE  LET i == cpuProgram[cpuCpu.pc]
             d == Core!Landed(Core!Execute(Begun, i, cpuCpu.pending, Course[n].log),
                              cpuCpu.pending)
         IN Continues(d, Course[n].log \o Core!Logged(Begun, i))
<1> DEFINE s == Course[n]
           i == cpuProgram[s.pc]
           d == Core!Landed(Core!Execute(Begun, i, cpuCpu.pending, s.log), cpuCpu.pending)
           t == Core!Plain(s, i)
           u == Course[n + 1]
           after == s.pc + 1
<1>1. s \in Plainly /\ Grounded(s)
  BY RunGives DEF Onwards
<1>2. n + 1 \in 0 .. Len(cpuProgram) /\ u = Core!RefStep(cpuProgram, s)
  BY Advances
<1>3. s.pc \in DOMAIN cpuProgram /\ i \in Simples /\ i \in Core!Instructions
      /\ i.op \notin Core!Branches
  BY ProgramFacts DEF Simples
<1>4. u = [t EXCEPT !.pc = after]
  BY <1>2, <1>3 DEF Core!RefStep
<1>5. Prepared(Begun, cpuCpu.pending, s, i)
  BY <1>1, <1>3, Prepares
<1>6. Agreed(Begun, d, s, t, i)
  BY <1>3, <1>5, SimpleAgrees
<1>7. t \in Plainly /\ t.log = s.log \o Core!Logged(Begun, i)
      /\ (d.pending.reg = "zero" \/ (i.op \in Core!Loads /\ d.pending.reg = i.rd))
  BY <1>6 DEF Agreed
<1>8. s.pc \in Nat /\ cpuCpu.next = after /\ cpuCpu.sr[2] = [ie |-> TRUE, user |-> FALSE]
  BY <1>1 DEF AtStep, Runs, Plainly
<1>9. /\ u.regs = t.regs /\ u.ie = t.ie /\ u.isolated = t.isolated /\ u.log = t.log
      /\ u.pc = after
  <2> HIDE DEF t, u, after
  <2> QED
    BY <1>4, <1>7 DEF Plainly
<1>10. u.pc \in DOMAIN cpuProgram /\ d.pending.reg # "zero"
         => d.pending.reg \notin Core!Reads(cpuProgram[u.pc])
  <2> HIDE DEF t, u, d
  <2>1. after \in 1 .. Len(cpuProgram) /\ i.op \in Core!Loads /\ i.rd # "zero"
          => i.rd \notin Core!Reads(cpuProgram[after])
    BY <1>3, ProgramFacts
  <2>2. DOMAIN cpuProgram = 1 .. Len(cpuProgram)
    BY ProgramFacts
  <2> QED
    BY <2>1, <2>2, <1>7, <1>9
<1> HIDE DEF t, u, after
<1>11. AtStep(d, u) /\ d \in Processor /\ Grounded(d) /\ d.break = cpuCpu.break
  <2> HIDE DEF d, s, i
  <2> QED
    BY <1>3, <1>6, <1>8, <1>9, <1>10, Continued
<1>12. s.log \o Core!Logged(Begun, i) = u.log
  BY <1>7, <1>9
<1> HIDE DEF d, s
<1>13. Continues(d, s.log \o Core!Logged(Begun, i))
  BY <1>2, <1>11, <1>12 DEF Continues, Follows, u
<1> QED
  BY <1>13 DEF d, s

(* Past the program's end: one instruction that does nothing.              *)
LEMMA LastStep ==
  ASSUME Compiled(cpuProgram), cpuCpu \in Processor, Grounded(cpuCpu),
         NEW n \in 0 .. Len(cpuProgram), AtStep(cpuCpu, Course[n]),
         cpuCpu.pc = Course[n].pc, cpuCpu.pc = Len(cpuProgram) + 1
  PROVE  LET d == Core!Landed(Core!Execute(Begun, Core!Nop, cpuCpu.pending, Course[n].log),
                              cpuCpu.pending)
         IN Continues(d, Course[n].log \o Core!Logged(Begun, Core!Nop))
<1> DEFINE s == Course[n]
           i == Core!Nop
           d == Core!Landed(Core!Execute(Begun, i, cpuCpu.pending, s.log), cpuCpu.pending)
           t == Core!Plain(s, i)
<1>1. s \in Plainly /\ Grounded(s)
  BY RunGives DEF Onwards
<1>2. s.pc \notin DOMAIN cpuProgram
  <2>1. Len(cpuProgram) \in 1 .. 97 /\ DOMAIN cpuProgram = 1 .. Len(cpuProgram)
    BY ProgramFacts
  <2>2. Len(cpuProgram) + 1 \notin 1 .. Len(cpuProgram)
    BY <2>1, Apart
  <2> QED
    BY <2>1, <2>2
<1>3. i \in Simples /\ i \in Core!Instructions /\ i.op = "alu" /\ i.rd = "zero"
  BY DEF Simples, Core!Nop, Core!Instructions, Core!Free, Core!Registers, Core!Branches
<1>4. ~Core!WatchHit(Begun, i)
  BY <1>3 DEF Core!WatchHit, Core!Loads
<1>5. Prepared(Begun, cpuCpu.pending, s, i)
  BY <1>1, <1>2, Prepares
<1>6. Agreed(Begun, d, s, t, i)
  BY <1>3, <1>4, <1>5, SimpleAgrees
<1>7. t = s
  BY <1>3 DEF Core!Plain, Core!Simple, Core!Put
<1>8. d.pending.reg = "zero" /\ s.log = s.log \o Core!Logged(Begun, i)
  BY <1>3, <1>6, <1>7 DEF Agreed, Core!Loads
<1>9. s.pc = Len(cpuProgram) + 1 /\ cpuCpu.next = s.pc + 1
      /\ cpuCpu.sr[2] = [ie |-> TRUE, user |-> FALSE]
  BY DEF AtStep, Runs
<1> HIDE DEF d, t, s, i
<1>10. AtStep(d, s) /\ d \in Processor /\ Grounded(d) /\ d.break = cpuCpu.break
  BY <1>2, <1>3, <1>6, <1>7, <1>8, <1>9, Continued
<1>11. Continues(d, s.log \o Core!Logged(Begun, i))
  BY <1>8, <1>10 DEF Continues, Follows, s
<1> QED
  BY <1>11 DEF d, s, i

(* a slot to the target,                                                   *)
LEMMA SlotStep ==
  ASSUME Compiled(cpuProgram), cpuCpu \in Processor, Grounded(cpuCpu),
         NEW n \in 0 .. Len(cpuProgram), InSlot(cpuCpu, Course[n]),
         ~Core!WatchHit(Begun, cpuProgram[cpuCpu.pc])
  PROVE  LET i == cpuProgram[cpuCpu.pc]
             d == Core!Landed(Core!Execute(Begun, i, cpuCpu.pending, Course[n].log),
                              cpuCpu.pending)
         IN Continues(d, Course[n].log \o Core!Logged(Begun, i))
<1> DEFINE s == Course[n]
           b == cpuProgram[s.pc]
           i == cpuProgram[s.pc + 1]
           v == Core!Linked(s, b)
           d == Core!Landed(Core!Execute(Begun, i, cpuCpu.pending, s.log), cpuCpu.pending)
           t == Core!Plain(v, i)
           u == Course[n + 1]
           after == IF Core!Taken(s, b) THEN b.to ELSE s.pc + 2
<1>1. s \in Plainly /\ Grounded(s) /\ s.pc \in Nat
  BY RunGives DEF Onwards, Plainly
<1>2. /\ s.pc \in DOMAIN cpuProgram /\ b.op \in Core!Branches
      /\ cpuCpu.pc = s.pc + 1 /\ cpuCpu.next = after
      /\ cpuCpu.pending.reg = "zero" /\ Runs(cpuCpu.sr[1], cpuCpu.sr[2], s)
      /\ cpuCpu.isolated = s.isolated
      /\ \A r \in Core!Free : cpuCpu.regs[r] = v.regs[r]
  BY DEF InSlot
<1>3. s.pc \in 1 .. Len(cpuProgram) /\ DOMAIN cpuProgram = 1 .. Len(cpuProgram)
  BY <1>2, ProgramFacts
<1>4. /\ s.pc + 1 \in 1 .. Len(cpuProgram) /\ i \in Simples /\ b \in Core!Instructions
      /\ b.to \in s.pc + 1 .. Len(cpuProgram) + 1
  BY <1>2, <1>3, ProgramFacts
<1>5. n + 1 \in 0 .. Len(cpuProgram) /\ u = Core!RefStep(cpuProgram, s)
  BY <1>3, Advances
<1>6. u = [t EXCEPT !.pc = after]
  BY <1>2, <1>5 DEF Core!RefStep
<1>7. /\ v \in Plainly /\ Grounded(v) /\ v.log = s.log /\ v.ie = s.ie
      /\ v.isolated = s.isolated
  <2>1. CASE b.op = "link"
    <3>1. b.rd \in Core!Registers /\ s.pc + 2 \in Nat /\ s \in Plainly /\ Grounded(s)
      BY <1>1, <1>4, <2>1, Fields DEF Core!Free
    <3>2. v = Core!Put(s, b.rd, s.pc + 2)
      BY <2>1 DEF Core!Linked
    <3> HIDE DEF v, s, b
    <3> QED
      BY ONLY <3>1, <3>2, PutGives
  <2>2. CASE b.op # "link"
    BY <1>1, <2>2 DEF Core!Linked
  <2> QED
    BY <2>1, <2>2
<1> HIDE DEF v
<1>8. Prepared(Begun, cpuCpu.pending, v, i)
  <2>1. /\ Begun \in Processor /\ Grounded(Begun) /\ Begun.regs = cpuCpu.regs
        /\ Begun.pending = Core!NoLoad /\ Begun.written = "zero"
        /\ Begun.sr = cpuCpu.sr /\ Begun.isolated = cpuCpu.isolated
    BY BegunGives
  <2>2. cpuCpu.pending \in Landing
    BY DEF Processor
  <2>3. ASSUME NEW r \in Core!Free PROVE Settled(Begun, cpuCpu.pending, r) = v.regs[r]
    BY <1>2, <2>1 DEF Settled
  <2>4. Begun.isolated = v.isolated /\ Begun.sr[1] = [ie |-> v.ie, user |-> TRUE]
    BY <1>2, <1>7, <2>1 DEF Runs
  <2> QED
    BY <1>2, <1>7, <2>1, <2>2, <2>3, <2>4 DEF Prepared
<1>9. Agreed(Begun, d, v, t, i)
  <2>1. ~Core!WatchHit(Begun, i)
    BY <1>2
  <2>2. d = Core!Landed(Core!Execute(Begun, i, cpuCpu.pending, v.log), cpuCpu.pending)
    BY <1>7
  <2>3. Agreed(Begun, Core!Landed(Core!Execute(Begun, i, cpuCpu.pending, v.log), cpuCpu.pending),
               v, t, i)
    BY <1>4, <1>8, <2>1, SimpleAgrees
  <2> QED
    BY ONLY <2>2, <2>3
<1>10. t \in Plainly /\ t.log = s.log \o Core!Logged(Begun, i)
       /\ (d.pending.reg = "zero" \/ (i.op \in Core!Loads /\ d.pending.reg = i.rd))
  BY <1>7, <1>9 DEF Agreed
<1>11. after \in Nat /\ cpuCpu.sr[2] = [ie |-> TRUE, user |-> FALSE]
       /\ i \in Core!Instructions
  BY <1>1, <1>2, <1>4 DEF Runs, Simples
<1>12. /\ u.regs = t.regs /\ u.ie = t.ie /\ u.isolated = t.isolated /\ u.log = t.log
       /\ u.pc = after
  <2> HIDE DEF t, u, after
  <2> QED
    BY <1>6, <1>10, <1>11 DEF Plainly
<1>13. u.pc \in DOMAIN cpuProgram /\ d.pending.reg # "zero"
         => d.pending.reg \notin Core!Reads(cpuProgram[u.pc])
  <2> HIDE DEF t, u, d
  <2>1. i.op \in Core!Loads /\ i.rd # "zero" =>
          /\ (s.pc + 1) + 1 \in 1 .. Len(cpuProgram)
               => i.rd \notin Core!Reads(cpuProgram[(s.pc + 1) + 1])
          /\ (s.pc + 1) - 1 \in 1 .. Len(cpuProgram)
               /\ cpuProgram[(s.pc + 1) - 1].op \in Core!Branches
               /\ cpuProgram[(s.pc + 1) - 1].to \in 1 .. Len(cpuProgram)
               => i.rd \notin Core!Reads(cpuProgram[cpuProgram[(s.pc + 1) - 1].to])
    BY <1>4, ProgramFacts
  <2>2. (s.pc + 1) + 1 = s.pc + 2 /\ (s.pc + 1) - 1 = s.pc
    BY <1>1
  <2>3. i.op \in Core!Loads /\ i.rd # "zero" =>
          /\ s.pc + 2 \in 1 .. Len(cpuProgram) => i.rd \notin Core!Reads(cpuProgram[s.pc + 2])
          /\ b.to \in 1 .. Len(cpuProgram) => i.rd \notin Core!Reads(cpuProgram[b.to])
    BY <2>1, <2>2, <1>2, <1>3
  <2> HIDE DEF s, i, b
  <2> QED
    BY <2>3, <1>3, <1>10, <1>12
<1> HIDE DEF t, u, after
<1>14. AtStep(d, u) /\ d \in Processor /\ Grounded(d) /\ d.break = cpuCpu.break
  <2> HIDE DEF d, s, i, b
  <2> QED
    BY <1>2, <1>9, <1>11, <1>12, <1>13, Continued
<1>15. s.log \o Core!Logged(Begun, i) = u.log
  BY <1>10, <1>12
<1> HIDE DEF d, s
<1>16. Continues(d, s.log \o Core!Logged(Begun, i))
  BY <1>5, <1>14, <1>15 DEF Continues, Follows, u
<1>17. i = cpuProgram[cpuCpu.pc]
  BY <1>2
<1> HIDE DEF i
<1> QED
  BY <1>16, <1>17 DEF d, s

(* and a branch to its slot.                                               *)
LEMMA BranchStep ==
  ASSUME Compiled(cpuProgram), cpuCpu \in Processor, Grounded(cpuCpu),
         NEW s \in Plainly, Grounded(s), AtStep(cpuCpu, s), cpuCpu.pc = s.pc,
         s.pc \in 1 .. Len(cpuProgram), cpuProgram[s.pc].op \in Core!Branches
  PROVE  LET d == Core!Landed(Core!Execute(Begun, cpuProgram[s.pc], cpuCpu.pending, s.log),
                              cpuCpu.pending)
         IN /\ d \in Processor /\ Grounded(d) /\ d.break = cpuCpu.break /\ InSlot(d, s)
            /\ s.log = s.log \o Core!Logged(Begun, cpuProgram[s.pc])
<1> DEFINE i == cpuProgram[s.pc]
           v == Core!Linked(s, i)
           e == Core!ExecuteBranch(Begun, i)
           d == Core!Landed(e, cpuCpu.pending)
           to == IF Core!Taken(s, i) THEN i.to ELSE s.pc + 2
<1>1. /\ i \in Core!Instructions /\ i.op \in {"branch", "link"} /\ i.to \in Nat
      /\ s.pc \in DOMAIN cpuProgram /\ s.pc \in Nat /\ s.pc + 2 \in Nat
  BY ProgramFacts, Fields DEF Core!Branches
<1>2. /\ Begun \in Processor /\ Grounded(Begun) /\ Begun.regs = cpuCpu.regs
      /\ Begun.pc = cpuCpu.next /\ Begun.next = cpuCpu.next + 1
      /\ Begun.pending = Core!NoLoad /\ Begun.written = "zero"
      /\ Begun.sr = cpuCpu.sr /\ Begun.isolated = cpuCpu.isolated
      /\ Begun.break = cpuCpu.break
  BY BegunGives
<1>3. Begun.pc = s.pc + 1 /\ Begun.next = s.pc + 2
  BY <1>1, <1>2 DEF AtStep
<1>4. cpuCpu.pending \in Landing /\ Begun.regs \in [Core!Registers -> Nat]
      /\ s.regs \in [Core!Registers -> Nat] /\ s.regs["zero"] = 0
  BY <1>2 DEF Processor, Plainly, Grounded
<1>5. Core!Execute(Begun, i, cpuCpu.pending, s.log) = e /\ Core!Logged(Begun, i) = <<>>
  BY <1>1 DEF Core!Execute, Core!WatchHit, Core!Logged, Core!Loads, Core!Branches
<1>6. to \in Nat
  BY <1>1
<1>7. /\ e \in Processor /\ Grounded(e) /\ e.branch = TRUE /\ e.next = to
      /\ e.pc = Begun.pc /\ e.pending = Begun.pending /\ e.sr = Begun.sr
      /\ e.isolated = Begun.isolated /\ e.break = Begun.break
      /\ e.written = IF i.op = "link" THEN i.rd ELSE "zero"
      /\ \A q \in Core!Registers :
           e.regs[q] = IF i.op = "link" /\ q = i.rd /\ q # "zero" THEN s.pc + 2 ELSE Begun.regs[q]
  <2>1. CASE i.op = "branch"
    <3>1. i.rs \in Core!Reads(i) /\ i.rs \in Core!Free
      BY <1>1, <2>1, Fields DEF Core!Reads
    <3>2. cpuCpu.pending.reg # i.rs \/ i.rs = "zero"
      BY <1>1, <3>1 DEF AtStep
    <3>3. ~Relinked(s, i.rs)
      BY <2>1 DEF Relinked
    <3>4. Begun.regs[i.rs] = s.regs[i.rs]
      BY <3>1, <3>2, <3>3, <1>2 DEF AtStep, Alike, Settled
    <3>5. e = [Begun EXCEPT !.branch = TRUE, !.next = to]
      BY <2>1, <3>4, <1>3 DEF Core!ExecuteBranch, Core!Taken
    <3> HIDE DEF e, to
    <3>6. /\ e \in Processor /\ e.regs = Begun.regs /\ e.branch = TRUE /\ e.next = to
          /\ e.pc = Begun.pc /\ e.pending = Begun.pending /\ e.sr = Begun.sr
          /\ e.isolated = Begun.isolated /\ e.break = Begun.break /\ e.written = Begun.written
      BY <3>5, <1>2, <1>6 DEF Processor
    <3> QED
      BY <2>1, <3>6, <1>2 DEF Grounded
  <2>2. CASE i.op = "link"
    <3> DEFINE w == Core!SetReg(Begun, i.rd, Begun.next)
    <3>1. Begun \in Processor /\ Grounded(Begun) /\ i.rd \in Core!Registers /\ Begun.next \in Nat
      BY <1>1, <1>2, <1>3, <2>2, Fields DEF Core!Free
    <3>2. /\ w \in Processor /\ Grounded(w) /\ w.written = i.rd
          /\ \A q \in Core!Registers :
               w.regs[q] = IF q = i.rd /\ i.rd # "zero" THEN Begun.next ELSE Begun.regs[q]
          /\ w.pc = Begun.pc /\ w.pending = Begun.pending
          /\ w.sr = Begun.sr /\ w.isolated = Begun.isolated /\ w.break = Begun.break
      BY ONLY <3>1, SetRegGives
    <3>3. e = [w EXCEPT !.branch = TRUE, !.next = i.to] /\ to = i.to
      BY <2>2 DEF Core!ExecuteBranch, Core!Taken
    <3> HIDE DEF e, w, to
    <3>4. /\ e \in Processor /\ e.regs = w.regs /\ e.branch = TRUE /\ e.next = to
          /\ e.pc = w.pc /\ e.pending = w.pending /\ e.sr = w.sr
          /\ e.isolated = w.isolated /\ e.break = w.break /\ e.written = w.written
      BY <3>2, <3>3, <1>6 DEF Processor
    <3> QED
      BY <2>2, <3>2, <3>4, <1>3 DEF Grounded
  <2> QED
    BY <1>1, <2>1, <2>2
<1> HIDE DEF e, to
<1>8. /\ d \in Processor /\ Grounded(d)
      /\ \A q \in Core!Registers :
           d.regs[q] = IF q = cpuCpu.pending.reg /\ q \notin {"zero", e.written}
                       THEN cpuCpu.pending.value ELSE e.regs[q]
      /\ d.pc = e.pc /\ d.next = e.next /\ d.pending = e.pending
      /\ d.branch = e.branch /\ d.sr = e.sr /\ d.isolated = e.isolated
      /\ d.break = e.break
  BY ONLY <1>4, <1>7, LandedGives
<1> HIDE DEF d
<1>9. ASSUME NEW r \in Core!Free PROVE d.regs[r] = v.regs[r]
  <2>1. r \in Core!Registers /\ (i.op = "link" => i.rd \in Core!Registers)
    BY <1>1, Fields DEF Core!Free
  <2>2. v.regs[r] = IF i.op = "link" /\ r = i.rd /\ r # "zero" THEN s.pc + 2 ELSE s.regs[r]
    BY <1>4, <2>1 DEF Core!Linked, Core!Put
  <2>3. CASE i.op = "link" /\ r = i.rd
    <3>1. d.regs[r] = e.regs[r] /\ e.regs[r] = IF r # "zero" THEN s.pc + 2 ELSE Begun.regs[r]
      BY <2>1, <2>3, <1>7, <1>8
    <3>2. r = "zero" => Begun.regs[r] = s.regs[r]
      BY <1>2, <1>4 DEF Grounded
    <3> QED
      BY <2>2, <2>3, <3>1, <3>2
  <2>4. CASE ~(i.op = "link" /\ r = i.rd)
    <3>1. ~Relinked(s, r)
      BY <2>4 DEF Relinked
    <3>2. Settled(cpuCpu, cpuCpu.pending, r) = s.regs[r]
      BY <3>1 DEF AtStep, Alike
    <3>3. e.regs[r] = cpuCpu.regs[r] /\ (r # "zero" => r # e.written)
      BY <2>1, <2>4, <1>2, <1>7
    <3>4. d.regs[r] = s.regs[r]
      BY <2>1, <3>2, <3>3, <1>8 DEF Settled
    <3> QED
      BY <2>2, <2>4, <3>4
  <2> QED
    BY <2>3, <2>4
<1>10. /\ d.pc = s.pc + 1 /\ d.branch /\ d.next = to /\ d.pending.reg = "zero"
       /\ Runs(d.sr[1], d.sr[2], s) /\ d.isolated = s.isolated
  BY <1>2, <1>3, <1>7, <1>8 DEF AtStep, Alike, Core!NoLoad
<1>11. InSlot(d, s)
  BY <1>1, <1>9, <1>10 DEF InSlot, to
<1>12. s.log = s.log \o <<>>
  BY DEF Plainly, Traces
<1> QED
  BY <1>2, <1>5, <1>7, <1>8, <1>11, <1>12 DEF d
-----------------------------------------------------------------------------
(* The steps of the handlers.                                              *)

(* None of them touches a register of the program.                         *)
Aside(e) ==
  /\ e \in Processor /\ Grounded(e) /\ e.isolated = cpuCpu.isolated
  /\ \A r \in Core!Free : e.regs[r] = cpuCpu.regs[r]
  /\ e.written \in {"zero", "k"} /\ e.pending.reg \in {"zero", "k"}

(* What a load that lands in a handler changes.                            *)
LEMMA HandlerLands ==
  ASSUME cpuCpu \in Processor, Grounded(cpuCpu), NEW s, NEW e, Aside(e), Alike(cpuCpu, s)
  PROVE  LET d == Core!Landed(e, cpuCpu.pending) IN
    /\ d \in Processor /\ Grounded(d) /\ Alike(d, s)
    /\ d.regs["k"] = IF cpuCpu.pending.reg = "k" /\ e.written # "k"
                     THEN cpuCpu.pending.value ELSE e.regs["k"]
    /\ d.pc = e.pc /\ d.next = e.next /\ d.pending = e.pending
    /\ d.branch = e.branch /\ d.sr = e.sr /\ d.cause = e.cause /\ d.epc = e.epc
    /\ d.break = e.break
<1> DEFINE d == Core!Landed(e, cpuCpu.pending)
<1>1. cpuCpu.pending \in Landing /\ e \in Processor /\ Grounded(e)
  BY DEF Processor, Aside
<1>2. /\ d \in Processor /\ Grounded(d)
      /\ \A q \in Core!Registers :
           d.regs[q] = IF q = cpuCpu.pending.reg /\ q \notin {"zero", e.written}
                       THEN cpuCpu.pending.value ELSE e.regs[q]
      /\ d.pc = e.pc /\ d.next = e.next /\ d.pending = e.pending
      /\ d.branch = e.branch /\ d.sr = e.sr /\ d.isolated = e.isolated
      /\ d.cause = e.cause /\ d.epc = e.epc /\ d.break = e.break
  BY ONLY <1>1, LandedGives
<1> HIDE DEF d
<1>3. ASSUME NEW r \in Core!Free
      PROVE  Settled(d, d.pending, r) = Settled(cpuCpu, cpuCpu.pending, r)
  <2>1. r \in Core!Registers /\ r # "k"
    BY DEF Core!Free
  <2>2. Settled(d, d.pending, r) = d.regs[r]
    BY <2>1, <1>2 DEF Settled, Aside
  <2>3. d.regs[r] = Settled(cpuCpu, cpuCpu.pending, r)
    BY <2>1, <1>2 DEF Settled, Aside
  <2> QED
    BY <2>2, <2>3
<1>4. Alike(d, s)
  BY <1>2, <1>3 DEF Alike, Aside
<1>5. "k" \in Core!Registers
  BY DEF Core!Registers
<1> QED
  BY <1>2, <1>4, <1>5 DEF d

(* The words of the handlers, by what they do.                             *)
LEMMA HandlerPlaces ==
  /\ Fetching = {100, 200} /\ Awaiting = {101, 201} /\ Holding = {102, 103, 202}
  /\ Leaving = {104, 203} /\ Core!Vector = 100 /\ Core!DebugVector = 200
BY DEF Fetching, Awaiting, Holding, Leaving, Core!Vector, Core!DebugVector

HandlerState(c, s) ==
  /\ Alike(c, s) /\ c.sr[1] = [ie |-> FALSE, user |-> FALSE] /\ Runs(c.sr[2], c.sr[3], s)
  /\ c.pc \in {100, 101, 102, 103, 104, 200, 201, 202, 203}
  /\ c.next = IF c.pc \in {104, 203} THEN s.pc ELSE c.pc + 1
  /\ c.branch <=> c.pc \in {104, 203}
  /\ c.pc \in {100, 200} => c.epc = s.pc /\ c.pending.reg # "k"
  /\ c.pc \in {101, 201} => c.pending = [reg |-> "k", value |-> s.pc]
  /\ c.pc \in {102, 103, 202} => c.pending.reg = "zero" /\ c.regs["k"] = s.pc
  /\ c.pc \in {104, 203} => c.pending.reg = "zero"
  /\ c.pc \in {100, 101, 102} => Trapped(c, s)

(* What being in a handler comes to.                                       *)
LEMMA HandlerFacts ==
  ASSUME NEW c, NEW s, InHandler(c, s)
  PROVE  HandlerState(c, s)
<1>1. /\ c.next = IF c.pc \in {104, 203} THEN s.pc ELSE c.pc + 1
      /\ c.branch <=> c.pc \in {104, 203}
      /\ \/ c.pc \in {100, 200} /\ c.epc = s.pc /\ c.pending.reg # "k"
         \/ c.pc \in {101, 201} /\ c.pending = [reg |-> "k", value |-> s.pc]
         \/ c.pc \in {102, 103, 202} /\ c.pending.reg = "zero" /\ c.regs["k"] = s.pc
         \/ c.pc \in {104, 203} /\ c.pending.reg = "zero"
      /\ c.pc \in 100 .. 102 => Trapped(c, s)
  BY HandlerPlaces DEF InHandler
<1>2. Alike(c, s) /\ c.sr[1] = [ie |-> FALSE, user |-> FALSE] /\ Runs(c.sr[2], c.sr[3], s)
  BY DEF InHandler
<1> QED
  BY <1>1, <1>2 DEF HandlerState

(* In a handler the word fetched is the handler's.                         *)
LEMMA HandlerFetches ==
  ASSUME Compiled(cpuProgram), cpuCpu.pc \in {100, 101, 102, 103, 104, 200, 201, 202, 203}
  PROVE  Core!Fetch(cpuCpu.pc) = Core!Kernel[cpuCpu.pc]
<1>1. DOMAIN Core!Kernel = (100 .. 104) \cup (200 .. 203)
  BY DEF Core!Kernel, Core!Vector, Core!DebugVector
<1>2. cpuCpu.pc \in DOMAIN Core!Kernel
  BY <1>1
<1> QED
  BY <1>2, Fetched

(* Where a handler's instruction, e, leaves the processor.                 *)
Proceeds(s, u, e) ==
  /\ Aside(e) /\ e.sr = cpuCpu.sr /\ e.pc = cpuCpu.pc + 1
  /\ e.pc \in {101, 102, 103, 104, 201, 202, 203}
  /\ e.next = IF e.pc \in {104, 203} THEN u.pc ELSE e.pc + 1
  /\ e.branch <=> e.pc \in {104, 203}
  /\ e.pc \in {101, 201} => e.pending = [reg |-> "k", value |-> u.pc]
  /\ e.pc \in {102, 103, 104, 202, 203} => e.pending.reg = "zero"
  /\ e.pc \in {102, 103, 202} =>
       u.pc = IF cpuCpu.pending.reg = "k" /\ e.written # "k" THEN cpuCpu.pending.value
              ELSE e.regs["k"]
  /\ e.pc \in {101, 102} => e.cause = cpuCpu.cause /\ u = s
  /\ u.regs = s.regs /\ u.isolated = s.isolated /\ u.ie = s.ie
  /\ u = s \/ \A r \in Core!Free : ~Relinked(s, r)

(* A step of a handler leaves it where it will come back from,             *)
LEMMA StaysInHandler ==
  ASSUME cpuCpu \in Processor, Grounded(cpuCpu), NEW s, NEW u, InHandler(cpuCpu, s), NEW e,
         Proceeds(s, u, e)
  PROVE  LET d == Core!Landed(e, cpuCpu.pending) IN
    d \in Processor /\ Grounded(d) /\ d.break = e.break /\ InHandler(d, u)
<1> DEFINE d == Core!Landed(e, cpuCpu.pending)
<1>1. /\ Alike(cpuCpu, s) /\ cpuCpu.sr[1] = [ie |-> FALSE, user |-> FALSE]
      /\ Runs(cpuCpu.sr[2], cpuCpu.sr[3], s)
      /\ cpuCpu.pc \in {100, 101, 102} => Trapped(cpuCpu, s)
      /\ cpuCpu.pc \in {100, 101, 102, 103, 104, 200, 201, 202, 203}
  <2>1. HandlerState(cpuCpu, s)
    BY HandlerFacts
  <2> QED
    BY <2>1 DEF HandlerState
<1>2. /\ d \in Processor /\ Grounded(d) /\ Alike(d, s)
      /\ d.regs["k"] = IF cpuCpu.pending.reg = "k" /\ e.written # "k"
                       THEN cpuCpu.pending.value ELSE e.regs["k"]
      /\ d.pc = e.pc /\ d.next = e.next /\ d.pending = e.pending
      /\ d.branch = e.branch /\ d.sr = e.sr /\ d.cause = e.cause /\ d.epc = e.epc
      /\ d.break = e.break
  <2>1. Aside(e)
    BY DEF Proceeds
  <2> QED
    BY <2>1, <1>1, HandlerLands
<1> HIDE DEF d
<1>3. Alike(d, u)
  BY <1>2 DEF Alike, Proceeds
<1>4. Runs(d.sr[2], d.sr[3], u) /\ d.sr[1] = [ie |-> FALSE, user |-> FALSE]
  BY <1>1, <1>2 DEF Runs, Proceeds
<1>5. d.pc \in Core!Vector .. Core!Vector + 2 => Trapped(d, u)
  <2> SUFFICES ASSUME d.pc \in 100 .. 102 PROVE Trapped(d, u)
    BY HandlerPlaces
  <2>1. e.pc \in {101, 102} /\ cpuCpu.pc \in {100, 101}
    BY <1>1, <1>2 DEF Proceeds
  <2> QED
    BY <2>1, <1>1, <1>2 DEF Trapped, Proceeds
<1>6. d.pc \in Awaiting \cup Holding \cup Leaving
  BY <1>2, HandlerPlaces DEF Proceeds
<1>7. \/ d.pc \in Awaiting /\ d.pending = [reg |-> "k", value |-> u.pc]
      \/ d.pc \in Holding /\ d.pending.reg = "zero" /\ d.regs["k"] = u.pc
      \/ d.pc \in Leaving /\ d.pending.reg = "zero"
  BY <1>2, <1>6, HandlerPlaces DEF Proceeds
<1>8. (d.next = IF d.pc \in Leaving THEN u.pc ELSE d.pc + 1) /\ (d.branch <=> d.pc \in Leaving)
  BY <1>2, HandlerPlaces DEF Proceeds
<1>9. InHandler(d, u)
  BY <1>3, <1>4, <1>5, <1>7, <1>8 DEF InHandler
<1> QED
  BY <1>2, <1>9 DEF d

(* and so every one of its steps keeps the place of the program.           *)
LEMMA HandlerStep ==
  ASSUME Compiled(cpuProgram), cpuCpu \in Processor, Grounded(cpuCpu),
         NEW n \in 0 .. Len(cpuProgram), InHandler(cpuCpu, Course[n])
  PROVE  LET i == Core!Fetch(cpuCpu.pc)
             d == Core!Landed(Core!Execute(Begun, i, cpuCpu.pending, Course[n].log),
                              cpuCpu.pending)
         IN Continues(d, Course[n].log \o Core!Logged(Begun, i))
<1> DEFINE s == Course[n]
           i == Core!Fetch(cpuCpu.pc)
           e == Core!Execute(Begun, i, cpuCpu.pending, s.log)
           d == Core!Landed(e, cpuCpu.pending)
<1> SUFFICES Continues(d, s.log \o Core!Logged(Begun, i))
  OBVIOUS
<1>1. /\ Begun \in Processor /\ Grounded(Begun) /\ Begun.regs = cpuCpu.regs
      /\ Begun.pc = cpuCpu.next /\ Begun.next = cpuCpu.next + 1
      /\ Begun.pending = Core!NoLoad /\ Begun.written = "zero" /\ Begun.branch = FALSE
      /\ Begun.sr = cpuCpu.sr /\ Begun.isolated = cpuCpu.isolated
      /\ Begun.cause = cpuCpu.cause /\ Begun.epc = cpuCpu.epc /\ Begun.break = cpuCpu.break
  BY BegunGives
<1>2. /\ Alike(cpuCpu, s) /\ cpuCpu.sr[1] = [ie |-> FALSE, user |-> FALSE]
      /\ Runs(cpuCpu.sr[2], cpuCpu.sr[3], s)
      /\ cpuCpu.pc \in {100, 101, 102, 103, 104, 200, 201, 202, 203}
      /\ cpuCpu.next = IF cpuCpu.pc \in {104, 203} THEN s.pc ELSE cpuCpu.pc + 1
      /\ cpuCpu.branch <=> cpuCpu.pc \in {104, 203}
      /\ cpuCpu.pc \in {100, 200} => cpuCpu.epc = s.pc /\ cpuCpu.pending.reg # "k"
      /\ cpuCpu.pc \in {101, 201} => cpuCpu.pending = [reg |-> "k", value |-> s.pc]
      /\ cpuCpu.pc \in {102, 103, 202} => cpuCpu.pending.reg = "zero" /\ cpuCpu.regs["k"] = s.pc
      /\ cpuCpu.pc \in {104, 203} => cpuCpu.pending.reg = "zero"
      /\ cpuCpu.pc \in {100, 101, 102} => Trapped(cpuCpu, s)
  <2>1. HandlerState(cpuCpu, s)
    BY HandlerFacts
  <2> HIDE DEF s
  <2> QED
    BY <2>1 DEF HandlerState
<1>3. i = Core!Kernel[cpuCpu.pc]
  BY <1>2, HandlerFetches
<1>4. /\ s \in Plainly /\ Grounded(s) /\ s.pc \in Nat /\ s.log \o <<>> = s.log
      /\ n \in 0 .. Len(cpuProgram)
  BY RunGives DEF Onwards, Plainly, Traces
<1>5. "k" \in Core!Registers /\ "zero" \in Core!Registers
      /\ \A r \in Core!Free : r \in Core!Registers /\ r # "k"
  BY DEF Core!Registers, Core!Free
<1>6. Core!NoLoad.reg = "zero"
  BY DEF Core!NoLoad
<1>7. ASSUME Core!Logged(Begun, i) = <<>>, d \in Processor, Grounded(d),
             d.break \in {cpuCpu.break, Core!NoBreak}, Follows(d, s)
      PROVE  Continues(d, s.log \o Core!Logged(Begun, i))
  BY <1>4, <1>7 DEF Continues
<1>8. CASE cpuCpu.pc \in {100, 200}
  <2>1. i = [op |-> "epc", rd |-> "k"]
    BY <1>3, <1>8, KernelIs
  <2>2. e = Core!SetLoad(Begun, "k", s.pc) /\ Core!Logged(Begun, i) = <<>>
    <3>1. Begun.epc = s.pc
      BY <1>1, <1>2, <1>8
    <3>2. i.op = "epc" /\ i.rd = "k"
      BY <2>1
    <3> HIDE DEF i, s
    <3> QED
      BY <3>1, <3>2 DEF Core!Execute, Core!WatchHit, Core!Loads, Core!Branches,
         Core!ExecuteCop0,
         Core!Logged
  <2>3. Begun \in Processor /\ Grounded(Begun) /\ "k" \in Core!Registers /\ s.pc \in Nat
    BY <1>1, <1>4, <1>5
  <2> HIDE DEF e, s, i
  <2>4. /\ e \in Processor /\ Grounded(e) /\ e.written = Begun.written /\ e.regs = Begun.regs
        /\ e.pending = [reg |-> "k", value |-> s.pc]
        /\ e.pc = Begun.pc /\ e.next = Begun.next /\ e.branch = Begun.branch /\ e.sr = Begun.sr
        /\ e.isolated = Begun.isolated /\ e.cause = Begun.cause /\ e.break = Begun.break
    BY ONLY <2>2, <2>3, SetLoadGives
  <2>5. Aside(e)
    BY <1>1, <1>5, <2>4 DEF Aside
  <2>6. /\ e.pc = cpuCpu.pc + 1 /\ e.pc \in {101, 201} /\ e.next = e.pc + 1 /\ ~e.branch
        /\ e.sr = cpuCpu.sr /\ e.cause = cpuCpu.cause /\ e.break = cpuCpu.break
    BY <1>1, <1>2, <1>8, <2>4
  <2>7. InHandler(cpuCpu, s) /\ Proceeds(s, s, e)
    BY <1>2, <2>4, <2>5, <2>6 DEF s, Proceeds
  <2>8. d \in Processor /\ Grounded(d) /\ d.break = e.break /\ InHandler(d, s)
    BY <2>7, StaysInHandler
  <2>9. Follows(d, s)
    BY <2>8 DEF Follows
  <2> HIDE DEF d
  <2> QED
    BY ONLY <1>7, <2>2, <2>6, <2>8, <2>9
<1>9. CASE cpuCpu.pc = 101
  <2>1. i = Core!Nop
    BY <1>3, <1>9, KernelIs
  <2>2. e = Core!SetReg(Begun, "zero", (Begun.regs["zero"] + Begun.regs["zero"]) % 4)
        /\ Core!Logged(Begun, i) = <<>>
    <3>1. i.op = "alu" /\ i.rd = "zero" /\ i.rs = "zero" /\ i.rt = "zero"
      BY <2>1 DEF Core!Nop
    <3> HIDE DEF i, s
    <3> QED
      BY <3>1 DEF Core!Execute, Core!WatchHit, Core!Loads, Core!Branches, Core!Logged
  <2> DEFINE v == (Begun.regs["zero"] + Begun.regs["zero"]) % 4
  <2>3. Begun \in Processor /\ Grounded(Begun) /\ "zero" \in Core!Registers /\ v \in Nat
    BY <1>1, <1>5 DEF Grounded
  <2> HIDE DEF e, s, i, v
  <2>4. /\ e \in Processor /\ Grounded(e) /\ e.written = "zero"
        /\ \A q \in Core!Registers :
             e.regs[q] = IF q = "zero" /\ "zero" # "zero" THEN v ELSE Begun.regs[q]
        /\ e.pending = Begun.pending
        /\ e.pc = Begun.pc /\ e.next = Begun.next /\ e.branch = Begun.branch /\ e.sr = Begun.sr
        /\ e.isolated = Begun.isolated /\ e.cause = Begun.cause /\ e.break = Begun.break
    <3>1. e = Core!SetReg(Begun, "zero", v)
      BY <2>2 DEF v
    <3> QED
      BY ONLY <3>1, <2>3, SetRegGives, ZenonT(40)
  <2>5. Aside(e)
    BY <1>1, <1>5, <1>6, <2>4 DEF Aside
  <2>6. /\ e.pc = 102 /\ cpuCpu.pc + 1 = 102 /\ e.next = e.pc + 1 /\ ~e.branch
        /\ e.sr = cpuCpu.sr /\ e.cause = cpuCpu.cause /\ e.break = cpuCpu.break
        /\ cpuCpu.pending.reg = "k" /\ e.written # "k" /\ cpuCpu.pending.value = s.pc
        /\ e.pending.reg = "zero"
    BY <1>1, <1>2, <1>6, <1>9, <2>4
  <2>7. InHandler(cpuCpu, s) /\ Proceeds(s, s, e)
    BY <1>2, <2>4, <2>5, <2>6 DEF s, Proceeds
  <2>8. d \in Processor /\ Grounded(d) /\ d.break = e.break /\ InHandler(d, s)
    BY <2>7, StaysInHandler
  <2>9. Follows(d, s)
    BY <2>8 DEF Follows
  <2> HIDE DEF d
  <2> QED
    BY ONLY <1>7, <2>2, <2>6, <2>8, <2>9
<1>10. CASE cpuCpu.pc = 201
  <2>1. i = [op |-> "disarm"]
    BY <1>3, <1>10, KernelIs
  <2>2. e = [Begun EXCEPT !.break = Core!NoBreak] /\ Core!Logged(Begun, i) = <<>>
    <3>1. i.op = "disarm"
      BY <2>1
    <3> HIDE DEF i, s
    <3> QED
      BY <3>1 DEF Core!Execute, Core!WatchHit, Core!Loads, Core!Branches,
         Core!ExecuteCop0,
         Core!Logged
  <2>3. Core!NoBreak \in BreakSettings
    BY DEF Core!NoBreak, BreakSettings
  <2> HIDE DEF e, s, i
  <2>4. /\ e \in Processor /\ e.written = Begun.written /\ e.regs = Begun.regs
        /\ e.pending = Begun.pending
        /\ e.pc = Begun.pc /\ e.next = Begun.next /\ e.branch = Begun.branch /\ e.sr = Begun.sr
        /\ e.isolated = Begun.isolated /\ e.cause = Begun.cause /\ e.break = Core!NoBreak
    BY <1>1, <2>2, <2>3 DEF Processor
  <2>5. Aside(e)
    BY <1>1, <1>5, <1>6, <2>4 DEF Aside, Grounded
  <2>6. /\ e.pc = 202 /\ cpuCpu.pc + 1 = 202 /\ e.next = e.pc + 1 /\ ~e.branch
        /\ e.sr = cpuCpu.sr
        /\ cpuCpu.pending.reg = "k" /\ e.written # "k" /\ cpuCpu.pending.value = s.pc
        /\ e.pending.reg = "zero"
    BY <1>1, <1>2, <1>6, <1>10, <2>4
  <2>7. InHandler(cpuCpu, s) /\ Proceeds(s, s, e)
    BY <1>2, <2>4, <2>5, <2>6 DEF s, Proceeds
  <2>8. d \in Processor /\ Grounded(d) /\ d.break = e.break /\ InHandler(d, s)
    BY <2>7, StaysInHandler
  <2>9. Follows(d, s)
    BY <2>8 DEF Follows
  <2> HIDE DEF d
  <2> QED
    BY ONLY <1>7, <2>2, <2>4, <2>8, <2>9
<1>11. CASE cpuCpu.pc \in {103, 202}
  <2>1. i = [op |-> "jump", rs |-> "k"]
    BY <1>3, <1>11, KernelIs
  <2>2. e = [Begun EXCEPT !.branch = TRUE, !.next = s.pc] /\ Core!Logged(Begun, i) = <<>>
    <3>1. i.op = "jump" /\ i.rs = "k"
      BY <2>1
    <3>2. Begun.regs["k"] = s.pc
      BY <1>1, <1>2, <1>11
    <3> HIDE DEF i, s
    <3> QED
      BY <3>1, <3>2 DEF Core!Execute, Core!WatchHit, Core!Loads, Core!Branches,
         Core!ExecuteBranch, Core!Logged
  <2> HIDE DEF e, s, i
  <2>4. /\ e \in Processor /\ e.written = Begun.written /\ e.regs = Begun.regs
        /\ e.pending = Begun.pending
        /\ e.pc = Begun.pc /\ e.next = s.pc /\ e.branch = TRUE /\ e.sr = Begun.sr
        /\ e.isolated = Begun.isolated /\ e.break = Begun.break
    BY <1>1, <1>4, <2>2 DEF Processor
  <2>5. Aside(e)
    BY <1>1, <1>5, <1>6, <2>4 DEF Aside, Grounded
  <2>6. /\ e.pc = cpuCpu.pc + 1 /\ e.pc \in {104, 203}
        /\ e.sr = cpuCpu.sr /\ e.break = cpuCpu.break /\ e.pending.reg = "zero"
    BY <1>1, <1>2, <1>6, <1>11, <2>4
  <2>7. InHandler(cpuCpu, s) /\ Proceeds(s, s, e)
    BY <1>2, <2>4, <2>5, <2>6 DEF s, Proceeds
  <2>8. d \in Processor /\ Grounded(d) /\ d.break = e.break /\ InHandler(d, s)
    BY <2>7, StaysInHandler
  <2>9. Follows(d, s)
    BY <2>8 DEF Follows
  <2> HIDE DEF d
  <2> QED
    BY ONLY <1>7, <2>2, <2>6, <2>8, <2>9
<1>12. CASE cpuCpu.pc \in {104, 203}
  <2> DEFINE sr == <<Begun.sr[2], Begun.sr[3], Begun.sr[3]>>
  <2>1. i = [op |-> "rfe"]
    BY <1>3, <1>12, KernelIs
  <2>2. e = [Begun EXCEPT !.sr = sr] /\ Core!Logged(Begun, i) = <<>>
    <3>1. i.op = "rfe"
      BY <2>1
    <3> HIDE DEF i, s
    <3> QED
      BY <3>1 DEF Core!Execute, Core!WatchHit, Core!Loads, Core!Branches,
         Core!ExecuteCop0, Core!Logged, Core!Popped
  <2>3. sr \in Modes \X Modes \X Modes /\ sr[1] = Begun.sr[2] /\ sr[2] = Begun.sr[3]
    <3>1. Begun.sr \in Modes \X Modes \X Modes
      BY <1>1 DEF Processor
    <3> QED
      BY <3>1
  <2> HIDE DEF e, s, i, sr
  <2>4. /\ e \in Processor /\ e.written = Begun.written /\ e.regs = Begun.regs
        /\ e.pending = Begun.pending
        /\ e.pc = Begun.pc /\ e.next = Begun.next /\ e.branch = Begun.branch /\ e.sr = sr
        /\ e.isolated = Begun.isolated /\ e.break = Begun.break
    BY <1>1, <2>2, <2>3 DEF Processor
  <2>5. Aside(e)
    BY <1>1, <1>5, <1>6, <2>4 DEF Aside, Grounded
  <2>6. /\ d \in Processor /\ Grounded(d) /\ Alike(d, s)
        /\ d.pc = e.pc /\ d.next = e.next /\ d.pending = e.pending
        /\ d.branch = e.branch /\ d.sr = e.sr /\ d.break = e.break
    BY <1>2, <2>5, HandlerLands
  <2> HIDE DEF d
  <2>7. /\ d.pc = s.pc /\ d.next = d.pc + 1 /\ ~d.branch /\ d.pending.reg = "zero"
        /\ Runs(d.sr[1], d.sr[2], s) /\ d.break = cpuCpu.break
    BY <1>1, <1>2, <1>6, <1>12, <2>3, <2>4, <2>6
  <2>8. AtStep(d, s)
    BY <2>6, <2>7 DEF AtStep
  <2>9. Follows(d, s)
    BY <2>8 DEF Follows
  <2> QED
    BY ONLY <1>7, <2>2, <2>6, <2>7, <2>9
<1>13. CASE cpuCpu.pc = 102 /\ cpuCpu.cause # "trap"
  <2>1. i = [op |-> "serve"]
    BY <1>3, <1>13, KernelIs
  <2>2. e = Begun /\ Core!Logged(Begun, i) = <<>>
    <3>1. i.op = "serve" /\ Begun.cause # "trap"
      BY <2>1, <1>1, <1>13
    <3> HIDE DEF i, s
    <3> QED
      BY <3>1 DEF Core!Execute, Core!WatchHit, Core!Loads, Core!Branches,
         Core!ExecuteCop0, Core!Logged
  <2> HIDE DEF e, s, i
  <2>5. Aside(e)
    BY <1>1, <1>5, <1>6, <2>2 DEF Aside
  <2>6. /\ e.pc = 103 /\ cpuCpu.pc + 1 = 103 /\ e.next = e.pc + 1 /\ ~e.branch
        /\ e.sr = cpuCpu.sr /\ e.break = cpuCpu.break /\ e.pending.reg = "zero"
        /\ cpuCpu.pending.reg # "k" /\ e.regs["k"] = s.pc
    BY <1>1, <1>2, <1>6, <1>13, <2>2
  <2>7. InHandler(cpuCpu, s) /\ Proceeds(s, s, e)
    BY <1>2, <2>5, <2>6 DEF s, Proceeds
  <2>8. d \in Processor /\ Grounded(d) /\ d.break = e.break /\ InHandler(d, s)
    BY <2>7, StaysInHandler
  <2>9. Follows(d, s)
    BY <2>8 DEF Follows
  <2> HIDE DEF d
  <2> QED
    BY ONLY <1>7, <2>2, <2>6, <2>8, <2>9
<1>14. CASE cpuCpu.pc = 102 /\ cpuCpu.cause = "trap"
  <2> DEFINE u == Course[n + 1]
             t == Core!Plain(s, cpuProgram[s.pc])
             after == s.pc + 1
             l == [s EXCEPT !.log = Append(s.log, Core!Access("trap", 0, 0))]
  <2>1. i = [op |-> "serve"]
    BY <1>3, <1>14, KernelIs
  <2>2. e = Core!SetReg(Begun, "k", after)
        /\ Core!Logged(Begun, i) = <<Core!Access("trap", 0, 0)>>
    <3>1. i.op = "serve" /\ Begun.cause = "trap" /\ Begun.regs["k"] + 1 = after
      BY <2>1, <1>1, <1>2, <1>14
    <3> HIDE DEF i, s
    <3> QED
      BY <3>1 DEF Core!Execute, Core!WatchHit, Core!Loads, Core!Branches,
         Core!ExecuteCop0, Core!Logged
  <2>3. s.pc \in DOMAIN cpuProgram /\ cpuProgram[s.pc].op = "trap"
    BY <1>2, <1>14 DEF Trapped
  <2>4. n + 1 \in 0 .. Len(cpuProgram) /\ u = Core!RefStep(cpuProgram, s)
    <3>1. s.pc \in 1 .. Len(cpuProgram)
      BY <2>3, ProgramFacts
    <3> QED
      BY <3>1, Advances
  <2>5. t = l /\ u = [t EXCEPT !.pc = after]
    BY <2>3, <2>4 DEF Core!RefStep, Core!Plain, Core!Loads, Core!Branches
  <2>6. after \in Nat
    BY <1>4
  <2>7. /\ l \in Plainly /\ l.ie = s.ie /\ l.isolated = s.isolated /\ l.regs = s.regs
        /\ l.log = s.log \o <<Core!Access("trap", 0, 0)>>
    <3>1. "trap" \in {"load", "store", "gte", "trap"} /\ 0 \in Nat /\ s \in Plainly /\ Grounded(s)
      BY <1>4
    <3> HIDE DEF s
    <3> QED
      BY ONLY <3>1, LogGives, ZenonT(40)
  <2> HIDE DEF e, s, i, u, t, l, after
  <2>8. /\ u.regs = s.regs /\ u.ie = s.ie /\ u.isolated = s.isolated /\ u.pc = after
        /\ u.log = s.log \o Core!Logged(Begun, i)
    BY <2>2, <2>5, <2>6, <2>7 DEF Plainly
  <2>9. Begun \in Processor /\ Grounded(Begun) /\ "k" \in Core!Registers /\ after \in Nat
    BY <1>1, <1>5, <2>6
  <2>10. /\ e \in Processor /\ Grounded(e) /\ e.written = "k"
         /\ \A q \in Core!Registers :
              e.regs[q] = IF q = "k" /\ "k" # "zero" THEN after ELSE Begun.regs[q]
         /\ e.pending = Begun.pending
         /\ e.pc = Begun.pc /\ e.next = Begun.next /\ e.branch = Begun.branch /\ e.sr = Begun.sr
         /\ e.isolated = Begun.isolated /\ e.break = Begun.break
    <3> DEFINE k == "k"
    <3>1. e = Core!SetReg(Begun, k, after) /\ Begun \in Processor /\ Grounded(Begun)
          /\ k \in Core!Registers /\ after \in Nat
      BY <2>2, <2>9
    <3> HIDE DEF k
    <3>2. /\ e \in Processor /\ Grounded(e) /\ e.written = k
          /\ \A q \in Core!Registers :
               e.regs[q] = IF q = k /\ k # "zero" THEN after ELSE Begun.regs[q]
          /\ e.pending = Begun.pending
          /\ e.pc = Begun.pc /\ e.next = Begun.next /\ e.branch = Begun.branch /\ e.sr = Begun.sr
          /\ e.isolated = Begun.isolated /\ e.break = Begun.break
      BY ONLY <3>1, SetRegGives, ZenonT(40)
    <3> QED
      BY <3>2 DEF k
  <2>11. Aside(e)
    BY <1>1, <1>5, <1>6, <2>10 DEF Aside
  <2>12. /\ e.pc = 103 /\ cpuCpu.pc + 1 = 103 /\ e.next = e.pc + 1 /\ ~e.branch
         /\ e.sr = cpuCpu.sr /\ e.break = cpuCpu.break /\ e.pending.reg = "zero"
         /\ e.regs["k"] = u.pc
    BY <1>1, <1>2, <1>5, <1>6, <1>14, <2>8, <2>10
  <2>13. InHandler(cpuCpu, s) /\ \A r \in Core!Free : ~Relinked(s, r)
    BY <2>3 DEF s, Relinked
  <2>14. Proceeds(s, u, e)
    BY <1>2, <2>8, <2>10, <2>11, <2>12, <2>13 DEF Proceeds
  <2>15. d \in Processor /\ Grounded(d) /\ d.break = e.break /\ InHandler(d, u)
    BY <2>13, <2>14, StaysInHandler
  <2> HIDE DEF d
  <2>16. Follows(d, u) /\ d.break = cpuCpu.break
    BY <2>12, <2>15 DEF Follows
  <2> QED
    BY <2>4, <2>8, <2>15, <2>16 DEF Continues, u
<1> HIDE DEF s, i, d
<1> QED
  BY <1>2, <1>8, <1>9, <1>10, <1>11, <1>12, <1>13, <1>14
-----------------------------------------------------------------------------
(* The processor's three actions.                                          *)

(* A data breakpoint that hits leads into its handler,                     *)
LEMMA HitStep ==
  ASSUME cpuCpu \in Processor, Grounded(cpuCpu), NEW n \in 0 .. Len(cpuProgram),
         Compiled(cpuProgram), OnTurn(cpuCpu, Course[n]), NEW i, Core!WatchHit(Begun, i)
  PROVE  LET d == Core!Landed(Core!Execute(Begun, i, cpuCpu.pending, Course[n].log),
                              cpuCpu.pending)
         IN Continues(d, Course[n].log \o Core!Logged(Begun, i))
<1> DEFINE s == Course[n]
           d == Core!Landed(Core!Enter(Begun, "break", Core!DebugVector), cpuCpu.pending)
<1>1. s \in Plainly /\ Grounded(s) /\ s.log \o <<>> = s.log
  BY RunGives DEF Onwards, Plainly, Traces
<1>2. Core!DebugVector \in Fetching /\ "break" \in {"trap", "break"}
  BY DEF Fetching
<1>3. /\ Core!Execute(Begun, i, cpuCpu.pending, s.log)
           = Core!Enter(Begun, "break", Core!DebugVector)
      /\ Core!Logged(Begun, i) = <<>>
  BY DEF Core!Execute, Core!DebugBreak, Core!Logged
<1>4. OnTurn(cpuCpu, s)
  OBVIOUS
<1> HIDE DEF s
<1>5. d \in Processor /\ Grounded(d) /\ d.break = cpuCpu.break /\ InHandler(d, s)
  BY <1>1, <1>2, <1>4, InterruptedBy
<1> HIDE DEF d
<1>6. Continues(d, s.log)
  BY <1>5 DEF Continues, Follows, s
<1>7. Continues(Core!Landed(Core!Execute(Begun, i, cpuCpu.pending, s.log), cpuCpu.pending),
                s.log \o Core!Logged(Begun, i))
  BY <1>1, <1>3, <1>6 DEF d
<1> QED
  BY <1>7 DEF s

(* and so does a trap.                                                     *)
LEMMA TrapStep ==
  ASSUME cpuCpu \in Processor, Grounded(cpuCpu), NEW n \in 0 .. Len(cpuProgram),
         Compiled(cpuProgram), AtStep(cpuCpu, Course[n]), cpuCpu.pc = Course[n].pc,
         cpuCpu.pc \in DOMAIN cpuProgram, NEW i, i = cpuProgram[cpuCpu.pc],
         i.op = "trap"
  PROVE  LET d == Core!Landed(Core!Execute(Begun, i, cpuCpu.pending, Course[n].log),
                              cpuCpu.pending)
         IN Continues(d, Course[n].log \o Core!Logged(Begun, i))
<1> DEFINE s == Course[n]
           d == Core!Landed(Core!Enter(Begun, "trap", Core!Vector), cpuCpu.pending)
<1>1. s \in Plainly /\ Grounded(s) /\ s.log \o <<>> = s.log
  BY RunGives DEF Onwards, Plainly, Traces
<1>2. Core!Vector \in Fetching /\ "trap" \in {"trap", "break"}
  BY DEF Fetching
<1>3. /\ Core!Execute(Begun, i, cpuCpu.pending, s.log) = Core!Enter(Begun, "trap", Core!Vector)
      /\ Core!Logged(Begun, i) = <<>>
  BY DEF Core!Execute, Core!Exception, Core!Logged, Core!WatchHit, Core!Loads,
     Core!Branches
<1>4. OnTurn(cpuCpu, s) /\ s.pc \in DOMAIN cpuProgram /\ cpuProgram[s.pc].op = "trap"
  BY DEF OnTurn
<1> HIDE DEF s
<1>5. d \in Processor /\ Grounded(d) /\ d.break = cpuCpu.break /\ InHandler(d, s)
  BY <1>1, <1>2, <1>4, InterruptedBy
<1> HIDE DEF d
<1>6. Continues(d, s.log)
  BY <1>5 DEF Continues, Follows, s
<1>7. Continues(Core!Landed(Core!Execute(Begun, i, cpuCpu.pending, s.log), cpuCpu.pending),
                s.log \o Core!Logged(Begun, i))
  BY <1>1, <1>3, <1>6 DEF d
<1> QED
  BY <1>7 DEF s

(* A branch keeps its place until its slot is done.                        *)
LEMMA BranchContinues ==
  ASSUME cpuCpu \in Processor, Grounded(cpuCpu), NEW n \in 0 .. Len(cpuProgram),
         Compiled(cpuProgram), AtStep(cpuCpu, Course[n]), cpuCpu.pc = Course[n].pc,
         cpuCpu.pc \in 1 .. Len(cpuProgram), NEW i, i = cpuProgram[cpuCpu.pc],
         i.op \in Core!Branches
  PROVE  LET d == Core!Landed(Core!Execute(Begun, i, cpuCpu.pending, Course[n].log),
                              cpuCpu.pending)
         IN Continues(d, Course[n].log \o Core!Logged(Begun, i))
<1> DEFINE s == Course[n]
           d == Core!Landed(Core!Execute(Begun, i, cpuCpu.pending, s.log), cpuCpu.pending)
<1>1. s \in Plainly /\ Grounded(s)
  BY RunGives DEF Onwards
<1>2. AtStep(cpuCpu, s) /\ cpuCpu.pc = s.pc /\ s.pc \in 1 .. Len(cpuProgram)
      /\ i = cpuProgram[s.pc] /\ cpuProgram[s.pc].op \in Core!Branches
  OBVIOUS
<1> HIDE DEF s
<1>3. /\ d \in Processor /\ Grounded(d) /\ d.break = cpuCpu.break /\ InSlot(d, s)
      /\ s.log = s.log \o Core!Logged(Begun, i)
  BY <1>1, <1>2, BranchStep
<1> HIDE DEF d
<1>4. Continues(d, s.log \o Core!Logged(Begun, i))
  BY <1>3 DEF Continues, Follows, s
<1> QED
  BY <1>4 DEF d, s

LEMMA InstructionStep ==
  ASSUME Compiled(cpuProgram), cpuCpu \in Processor, Grounded(cpuCpu), ~Core!Ended,
         NEW n \in 0 .. Len(cpuProgram), Follows(cpuCpu, Course[n])
  PROVE  LET i == Core!Fetch(cpuCpu.pc)
             d == Core!Landed(Core!Execute(Begun, i, cpuCpu.pending, Course[n].log),
                              cpuCpu.pending)
         IN Continues(d, Course[n].log \o Core!Logged(Begun, i))
<1> DEFINE s == Course[n]
           i == Core!Fetch(cpuCpu.pc)
           N == Len(cpuProgram)
           Goal == Continues(Core!Landed(Core!Execute(Begun, i, cpuCpu.pending, s.log),
                                         cpuCpu.pending),
                             s.log \o Core!Logged(Begun, i))
<1> SUFFICES Goal
  OBVIOUS
<1>1. /\ N \in 1 .. 97 /\ DOMAIN cpuProgram = 1 .. N /\ s.pc \in 1 .. N + 1
      /\ \A m \in 1 .. N : Core!Fetch(m) = cpuProgram[m] /\ cpuProgram[m] \in Core!Instructions
      /\ Core!Fetch(N + 1) = Core!Nop
  BY ProgramFacts, Fetched, RunGives DEF Onwards
<1>2. CASE InHandler(cpuCpu, s)
  BY <1>2, HandlerStep
<1>3. CASE InSlot(cpuCpu, s)
  <2>1. CASE Core!WatchHit(Begun, i)
    BY <1>3, <2>1, HitStep DEF OnTurn
  <2>2. CASE ~Core!WatchHit(Begun, i)
    <3>1. cpuCpu.pc = s.pc + 1 /\ s.pc \in 1 .. N /\ cpuProgram[s.pc].op \in Core!Branches
      BY <1>1, <1>3 DEF InSlot
    <3>2. cpuCpu.pc \in 1 .. N
      BY <3>1, ProgramFacts
    <3>3. i = cpuProgram[cpuCpu.pc]
      BY <1>1, <3>2
    <3> HIDE DEF i
    <3> QED
      BY <1>3, <2>2, <3>3, SlotStep
  <2> QED
    BY <2>1, <2>2
<1>4. CASE AtStep(cpuCpu, s)
  <2>1. cpuCpu.pc = s.pc
    <3>1. cpuCpu.pc # N + 2
      BY DEF Core!Ended
    <3>2. s.pc = N + 1 => s.pc + 1 = N + 2
      BY <1>1
    <3> QED
      BY <3>1, <3>2, <1>4 DEF AtStep
  <2>2. CASE Core!WatchHit(Begun, i)
    BY <1>4, <2>1, <2>2, HitStep DEF OnTurn
  <2>3. CASE s.pc = N + 1
    <3>1. i = Core!Nop
      BY <1>1, <2>1, <2>3
    <3>2. cpuCpu.pc = Len(cpuProgram) + 1
      BY <2>1, <2>3
    <3> HIDE DEF i
    <3> QED
      BY <1>4, <2>1, <3>1, <3>2, LastStep
  <2>4. CASE s.pc # N + 1 /\ ~Core!WatchHit(Begun, i)
    <3>1. cpuCpu.pc \in 1 .. N /\ s.pc \in 1 .. N
      BY <1>1, <2>1, <2>4
    <3>2. i = cpuProgram[cpuCpu.pc] /\ i \in Core!Instructions
      BY <1>1, <3>1
    <3>3. cpuCpu.pc \in DOMAIN cpuProgram
      BY <1>1, <3>1
    <3> HIDE DEF i
    <3>4. CASE i.op = "trap"
      BY <1>4, <2>1, <3>2, <3>3, <3>4, TrapStep
    <3>5. CASE i.op \in Core!Branches
      BY <1>4, <2>1, <3>1, <3>2, <3>5, BranchContinues
    <3>6. CASE i.op \notin Core!Branches \cup {"trap"}
      <4>1. i \in Simples
        BY <3>2, <3>6 DEF Simples
      <4>2. cpuProgram[cpuCpu.pc] \in Simples /\ ~Core!WatchHit(Begun, cpuProgram[cpuCpu.pc])
        BY <2>4, <3>2, <4>1
      <4> QED
        BY <1>4, <2>1, <3>1, <3>2, <4>2, SimpleStep
    <3> QED
      BY <3>4, <3>5, <3>6
  <2> QED
    BY <2>2, <2>3, <2>4
<1> QED
  BY <1>2, <1>3, <1>4 DEF Follows

(* An interrupt or a code breakpoint comes only at a step or in a slot.    *)
LEMMA BreakStep ==
  ASSUME Compiled(cpuProgram), cpuCpu \in Processor, Grounded(cpuCpu), ~Core!Ended,
         NEW n \in 0 .. Len(cpuProgram), Follows(cpuCpu, Course[n]),
         ~InHandler(cpuCpu, Course[n]),
         NEW cause \in {"interrupt", "break"}, NEW vector \in Fetching
  PROVE  Continues(Core!Enter(Core!Sampled, cause, vector), Course[n].log)
<1> DEFINE s == Course[n]
           d == Core!Enter(Core!Sampled, cause, vector)
           N == Len(cpuProgram)
<1>1. s \in Plainly /\ Grounded(s) /\ s.pc \in 1 .. N + 1 /\ N \in 1 .. 97
  BY RunGives, ProgramFacts DEF Onwards
<1>2. OnTurn(cpuCpu, s)
  <2>1. cpuCpu.pc # N + 2
    BY DEF Core!Ended
  <2>2. s.pc = N + 1 => s.pc + 1 = N + 2
    BY <1>1
  <2> QED
    BY <2>1, <2>2 DEF Follows, OnTurn, AtStep
<1> HIDE DEF s
<1>3. d \in Processor /\ Grounded(d) /\ d.break = cpuCpu.break /\ InHandler(d, s)
  BY <1>1, <1>2, InterruptedAt
<1> HIDE DEF d
<1>4. Continues(d, s.log)
  BY <1>3 DEF Continues, Follows, s
<1> QED
  BY <1>4 DEF d, s
-----------------------------------------------------------------------------
(* The invariant is one. *)

(* The processor starts where the plain machine does.                      *)
LEMMA StartsAligned ==
  ASSUME Core!CpuAssumption, Core!Init
  PROVE  CpuInv
<1>1. Compiled(cpuProgram)
  BY DEF Core!Init, Core!CpuAssumption, Compiled
<1>2. PICK break \in Breaks :
        cpuCpu = [regs |-> [r \in Core!Registers |-> IF r = "zero" THEN 0 ELSE 1],
                  pc |-> 1, next |-> 2, current |-> 1,
                  pending |-> Core!NoLoad, written |-> "zero", slot |-> FALSE,
                  branch |-> FALSE,
                  sr |-> <<[ie |-> TRUE, user |-> TRUE], [ie |-> TRUE, user |-> FALSE],
                           [ie |-> FALSE, user |-> FALSE]>>,
                  isolated |-> FALSE, cause |-> "none", bd |-> FALSE, epc |-> 0,
                  break |-> break]
  BY DEF Core!Init
<1> DEFINE regs == [r \in Core!Registers |-> IF r = "zero" THEN 0 ELSE 1]
           sr == <<[ie |-> TRUE, user |-> TRUE], [ie |-> TRUE, user |-> FALSE],
                   [ie |-> FALSE, user |-> FALSE]>>
<1>3. regs \in [Core!Registers -> Nat] /\ regs["zero"] = 0 /\ "zero" \in Core!Registers
  BY DEF Core!Registers
<1>4. /\ sr \in Modes \X Modes \X Modes /\ sr[1] = [ie |-> TRUE, user |-> TRUE]
      /\ sr[2] = [ie |-> TRUE, user |-> FALSE]
  BY DEF Modes
<1>5. Core!NoLoad \in Landing /\ Core!NoLoad.reg = "zero"
  BY DEF Core!NoLoad, Landing, Core!Registers
<1>6. break \in BreakSettings
  BY DEF Core!CpuAssumption, BreakSettings
<1> HIDE DEF regs, sr
<1>7. cpuCpu = [regs |-> regs, pc |-> 1, next |-> 2, current |-> 1,
                pending |-> Core!NoLoad, written |-> "zero", slot |-> FALSE,
                branch |-> FALSE,
                sr |-> sr, isolated |-> FALSE, cause |-> "none", bd |-> FALSE,
                epc |-> 0,
                break |-> break]
  BY <1>2 DEF regs, sr
<1>8. cpuCpu \in Processor /\ Grounded(cpuCpu) /\ cpuCpu.break \in Breaks
  BY <1>3, <1>4, <1>5, <1>6, <1>7 DEF Processor, Grounded
<1>9. /\ Core!PowerOn.regs = regs /\ Core!PowerOn.pc = 1 /\ Core!PowerOn.log = <<>>
      /\ Core!PowerOn.ie = TRUE /\ Core!PowerOn.isolated = FALSE
  BY DEF Core!PowerOn, regs
<1>10. AtStep(cpuCpu, Core!PowerOn)
  <2>1. Alike(cpuCpu, Core!PowerOn)
    BY <1>5, <1>7, <1>9 DEF Alike, Settled
  <2>2. Runs(cpuCpu.sr[1], cpuCpu.sr[2], Core!PowerOn)
    BY <1>4, <1>7, <1>9 DEF Runs
  <2>3. /\ cpuCpu.next = cpuCpu.pc + 1 /\ ~cpuCpu.branch /\ cpuCpu.pc = Core!PowerOn.pc
        /\ cpuCpu.pending.reg = "zero"
    BY <1>5, <1>7, <1>9
  <2> QED
    BY <2>1, <2>2, <2>3 DEF AtStep
<1>11. Course[0] = Core!PowerOn /\ 0 \in 0 .. Len(cpuProgram)
  BY <1>1, RunGives, ProgramFacts
<1>12. cpuLog = <<>> /\ cpuLeft = Interrupts /\ Interrupts \in Nat
  BY DEF Core!Init, Core!CpuAssumption
<1>13. Aligned
  BY <1>9, <1>10, <1>11, <1>12 DEF Aligned, Follows
<1> QED
  BY <1>1, <1>8, <1>12, <1>13 DEF CpuInv, Typed

(* The plain machine runs a program that does not change.                  *)
LEMMA AlignedNext ==
  ASSUME cpuProgram' = cpuProgram,
         \E m \in 0 .. Len(cpuProgram) : cpuLog' = Course[m].log /\ Follows(cpuCpu',
         Course[m])
  PROVE  Aligned'
<1>1. Course' = Course
  BY DEF Course
<1>2. ASSUME NEW t, Alike(cpuCpu', t) PROVE Alike(cpuCpu, t)'
  BY <1>2 DEF Alike, Relinked
<1>3. ASSUME NEW t, AtStep(cpuCpu', t) PROVE AtStep(cpuCpu, t)'
  BY <1>2, <1>3 DEF AtStep
<1>4. ASSUME NEW t, InSlot(cpuCpu', t) PROVE InSlot(cpuCpu, t)'
  BY <1>4 DEF InSlot
<1>5. ASSUME NEW t, InHandler(cpuCpu', t) PROVE InHandler(cpuCpu, t)'
  BY <1>2, <1>5 DEF InHandler, Trapped
<1>6. ASSUME NEW t, Follows(cpuCpu', t) PROVE Follows(cpuCpu, t)'
  BY <1>3, <1>4, <1>5, <1>6 DEF Follows
<1>7. PICK m \in 0 .. Len(cpuProgram) : cpuLog' = Course[m].log /\ Follows(cpuCpu', Course[m])
  OBVIOUS
<1>8. (cpuLog = Course[m].log /\ Follows(cpuCpu, Course[m]))'
  BY <1>1, <1>6, <1>7
<1> QED
  BY <1>7, <1>8 DEF Aligned

(* Every call of step keeps the two aligned,                               *)
LEMMA CpuStepKeeps ==
  ASSUME Core!CpuAssumption, CpuInv, Core!Next \/ UNCHANGED cpuVars
  PROVE  CpuInv'
<1>1. /\ Compiled(cpuProgram) /\ cpuCpu \in Processor /\ Grounded(cpuCpu)
      /\ cpuCpu.break \in Breaks \cup {Core!NoBreak} /\ cpuLeft \in 0 .. Interrupts
      /\ Interrupts \in Nat
  BY DEF CpuInv, Typed, Core!CpuAssumption
<1>2. PICK n \in 0 .. Len(cpuProgram) :
        cpuLog = Course[n].log /\ Follows(cpuCpu, Course[n])
  BY DEF CpuInv, Aligned
<1>3. ASSUME cpuProgram' = cpuProgram, cpuLeft' \in 0 .. Interrupts, Continues(cpuCpu', cpuLog')
      PROVE  CpuInv'
  <2>1. Compiled(cpuProgram)'
    BY <1>1, <1>3 DEF Compiled, Core!Conforming, Core!IsSlot, Core!Following
  <2>2. Typed'
    BY <1>1, <1>3 DEF Continues, Typed, Grounded
  <2>3. Aligned'
    BY <1>3, AlignedNext DEF Continues
  <2> QED
    BY <2>1, <2>2, <2>3 DEF CpuInv
<1>4. CASE Core!TakeInterrupt
  <2>1. cpuProgram' = cpuProgram /\ cpuLog' = cpuLog /\ cpuLeft' \in 0 .. Interrupts /\ ~Core!Ended
    BY <1>1, <1>4 DEF Core!TakeInterrupt
  <2>2. cpuCpu' = Core!Enter(Core!Sampled, "interrupt", Core!Vector)
    BY <1>4 DEF Core!TakeInterrupt, Core!Exception
  <2>3. ~InHandler(cpuCpu, Course[n])
    BY <1>4 DEF Core!TakeInterrupt, InHandler
  <2>4. Core!Vector \in Fetching /\ "interrupt" \in {"interrupt", "break"}
    BY DEF Fetching
  <2>5. Continues(Core!Enter(Core!Sampled, "interrupt", Core!Vector), Course[n].log)
    BY <1>1, <1>2, <2>1, <2>3, <2>4, BreakStep
  <2>6. Continues(cpuCpu', cpuLog')
    BY <1>2, <2>1, <2>2, <2>5
  <2> QED
    BY <1>3, <2>1, <2>6
<1>5. CASE Core!CodeBreak
  <2>1. cpuProgram' = cpuProgram /\ cpuLog' = cpuLog /\ cpuLeft' \in 0 .. Interrupts /\ ~Core!Ended
    BY <1>1, <1>5 DEF Core!CodeBreak
  <2>2. cpuCpu' = Core!Enter(Core!Sampled, "break", Core!DebugVector)
    BY <1>5 DEF Core!CodeBreak, Core!DebugBreak
  <2>3. ~InHandler(cpuCpu, Course[n])
    <3> SUFFICES ASSUME InHandler(cpuCpu, Course[n]) PROVE FALSE
      OBVIOUS
    <3>1. /\ cpuCpu.break.kind = "code" /\ cpuCpu.break.at = cpuCpu.pc
          /\ (cpuCpu.break.level = "user") = cpuCpu.sr[1].user
      BY <1>5 DEF Core!CodeBreak, Core!BreaksAt
    <3>2. cpuCpu.break \in Breaks /\ cpuCpu.break.level \in {"kernel", "user"}
      BY <1>1, <3>1 DEF Core!NoBreak, Core!CpuAssumption
    <3>3. cpuCpu.sr[1].user = FALSE
      BY DEF InHandler
    <3>4. cpuCpu.break.level = "kernel"
      BY <3>1, <3>2, <3>3
    <3>5. cpuCpu.pc \notin DOMAIN Core!Kernel
      BY <3>1, <3>2, <3>4 DEF Core!CpuAssumption
    <3>6. cpuCpu.pc \in DOMAIN Core!Kernel
      <4>1. HandlerState(cpuCpu, Course[n])
        BY HandlerFacts
      <4>2. DOMAIN Core!Kernel = (100 .. 104) \cup (200 .. 203)
        BY DEF Core!Kernel, Core!Vector, Core!DebugVector
      <4>3. cpuCpu.pc \in {100, 101, 102, 103, 104, 200, 201, 202, 203}
        BY <4>1 DEF HandlerState
      <4> QED
        BY <4>2, <4>3
    <3> QED
      BY <3>5, <3>6
  <2>4. Core!DebugVector \in Fetching /\ "break" \in {"interrupt", "break"}
    BY DEF Fetching
  <2>5. Continues(Core!Enter(Core!Sampled, "break", Core!DebugVector), Course[n].log)
    BY <1>1, <1>2, <2>1, <2>3, <2>4, BreakStep
  <2>6. Continues(cpuCpu', cpuLog')
    BY <1>2, <2>1, <2>2, <2>5
  <2> QED
    BY <1>3, <2>1, <2>6
<1>6. CASE Core!RunInstruction
  <2> DEFINE i == Core!Fetch(cpuCpu.pc)
             d == Core!Landed(Core!Execute(Begun, i, cpuCpu.pending, cpuLog), cpuCpu.pending)
  <2>1. cpuProgram' = cpuProgram /\ cpuLeft' = cpuLeft /\ ~Core!Ended
    BY <1>6 DEF Core!RunInstruction
  <2>2. Core!Sampled.pc = cpuCpu.pc /\ Core!Sampled.pending = cpuCpu.pending
    BY <1>1, SampledGives
  <2>3. cpuCpu' = d /\ cpuLog' = cpuLog \o Core!Logged(Begun, i)
    BY <1>6, <2>2 DEF Core!RunInstruction, Begun
  <2>4. Continues(Core!Landed(Core!Execute(Begun, i, cpuCpu.pending, Course[n].log),
                              cpuCpu.pending),
                  Course[n].log \o Core!Logged(Begun, i))
    BY <1>1, <1>2, <2>1, InstructionStep
  <2>5. Continues(cpuCpu', cpuLog')
    BY <1>2, <2>3, <2>4
  <2> QED
    BY <1>1, <1>3, <2>1, <2>5
<1>7. CASE UNCHANGED cpuVars
  <2>1. cpuProgram' = cpuProgram /\ cpuCpu' = cpuCpu /\ cpuLog' = cpuLog /\ cpuLeft' = cpuLeft
    BY <1>7 DEF cpuVars
  <2>2. Continues(cpuCpu, cpuLog)
    BY <1>1, <1>2 DEF Continues
  <2> QED
    BY <1>1, <1>3, <2>1, <2>2
<1> QED
  BY <1>4, <1>5, <1>6, <1>7 DEF Core!Next
-----------------------------------------------------------------------------
(* What the invariant says of the program. *)

(* so that the log is a beginning of the plain machine's                   *)
LEMMA PrefixOf ==
  ASSUME NEW l, NEW m, Extends(l, m)
  PROVE  Core!IsPrefix(l, m)
<1>1. /\ l \in Traces /\ m \in Traces /\ Len(l) \in Nat /\ Len(m) \in Nat /\ Len(l) <= Len(m)
      /\ \A k \in 1 .. Len(l) : l[k] = m[k]
  <2>1. /\ l \in Traces /\ m \in Traces /\ Len(l) <= Len(m)
        /\ \A k \in 1 .. Len(l) : l[k] = m[k]
    BY DEF Extends
  <2>2. Len(l) \in Nat /\ Len(m) \in Nat
    BY <2>1 DEF Traces
  <2> QED
    BY ONLY <2>1, <2>2
<1>2. SubSeq(l, 1, Len(l)) = SubSeq(m, 1, Len(l))
  <2>1. /\ SubSeq(l, 1, Len(l)) = [k \in 1 .. Len(l) |-> l[k]]
        /\ SubSeq(m, 1, Len(l)) = [k \in 1 .. Len(l) |-> m[k]]
    BY <1>1 DEF Traces
  <2> QED
    BY <1>1, <2>1
<1> QED
  BY <1>1, <1>2 DEF Core!IsPrefix

(* and the program is undisturbed.                                         *)
LEMMA Undisturbed ==
  ASSUME CpuInv
  PROVE  Core!TypeOK /\ Core!Precise /\ Core!Transparent
<1>1. /\ Compiled(cpuProgram) /\ cpuCpu \in Processor /\ Grounded(cpuCpu)
      /\ cpuLeft \in 0 .. Interrupts
  BY DEF CpuInv, Typed
<1>2. PICK n \in 0 .. Len(cpuProgram) :
        cpuLog = Course[n].log /\ Follows(cpuCpu, Course[n])
  BY DEF CpuInv, Aligned
<1> DEFINE s == Course[n]
           N == Len(cpuProgram)
<1>3. Extends(s.log, Core!Reference.log) /\ (s.pc = N + 1 => Core!Reference = s)
  BY <1>1, RunExtends
<1>4. /\ N \in 1 .. 97 /\ DOMAIN cpuProgram = 1 .. N /\ s.pc \in 1 .. N + 1
  BY <1>1, ProgramFacts, RunGives DEF Onwards
<1>5. Core!TypeOK
  <2>1. /\ cpuCpu.regs \in [Core!Registers -> Nat] /\ cpuCpu.regs["zero"] = 0
        /\ cpuCpu.pending.reg \in Core!Registers /\ cpuCpu.pending.value \in Nat
        /\ {cpuCpu.slot, cpuCpu.branch, cpuCpu.bd, cpuCpu.isolated} \subseteq BOOLEAN
    BY <1>1 DEF Processor, Grounded, Landing
  <2>2. cpuCpu.sr \in Modes \X Modes \X Modes
    BY <1>1 DEF Processor
  <2>3. Len(cpuCpu.sr) = 3 /\ \A k \in 1 .. 3 : cpuCpu.sr[k] \in [ie : BOOLEAN, user : BOOLEAN]
    BY <2>2 DEF Modes
  <2> QED
    BY <1>1, <2>1, <2>3 DEF Core!TypeOK
<1>6. Core!Precise
  BY <1>2, <1>3, PrefixOf DEF Core!Precise
<1>7. Core!Transparent
  <2> SUFFICES ASSUME Core!Ended
               PROVE  /\ cpuLog = Core!Reference.log
                      /\ \A r \in Core!Registers \ {"k"} : cpuCpu.regs[r] = Core!Reference.regs[r]
                      /\ cpuCpu.sr[1] = [ie |-> Core!Reference.ie, user |-> TRUE]
                      /\ cpuCpu.sr[2] = [ie |-> TRUE, user |-> FALSE]
    BY DEF Core!Transparent
  <2>1. cpuCpu.pc = N + 2
    BY DEF Core!Ended
  <2>2. ~InHandler(cpuCpu, s)
    <3>1. ASSUME InHandler(cpuCpu, s) PROVE cpuCpu.pc >= 100 /\ cpuCpu.pc \in Int
      <4>1. HandlerState(cpuCpu, s)
        BY <3>1, HandlerFacts
      <4>2. cpuCpu.pc \in {100, 101, 102, 103, 104, 200, 201, 202, 203}
        BY <4>1 DEF HandlerState
      <4> QED
        BY <4>2
    <3> HIDE DEF N, s
    <3>2. N + 2 <= 99
      BY <1>4
    <3> QED
      BY <2>1, <3>1, <3>2
  <2>3. ~InSlot(cpuCpu, s)
    <3>1. ASSUME InSlot(cpuCpu, s) PROVE cpuCpu.pc = s.pc + 1 /\ s.pc \in 1 .. N
      BY <1>4, <3>1 DEF InSlot
    <3>2. N \in 1 .. 97
      BY <1>4
    <3> HIDE DEF N, s
    <3> QED
      BY ONLY <3>2, <2>1, <3>1
  <2>4. AtStep(cpuCpu, s)
    BY <1>2, <2>2, <2>3 DEF Follows
  <2>5. s.pc = N + 1 /\ cpuCpu.pending.reg = "zero"
    <3>1. cpuCpu.pc = s.pc \/ (s.pc = N + 1 /\ cpuCpu.pending.reg = "zero")
      BY <2>4 DEF AtStep
    <3>2. N \in 1 .. 97 /\ s.pc \in 1 .. N + 1
      BY <1>4
    <3> HIDE DEF N, s
    <3>3. cpuCpu.pc # s.pc
      BY ONLY <3>2, <2>1
    <3> QED
      BY ONLY <3>1, <3>3
  <2>6. Core!Reference = s
    BY <1>3, <2>5
  <2>7. s.pc \notin DOMAIN cpuProgram
    <3> HIDE DEF N, s
    <3>1. N + 1 \notin 1 .. N
      BY <1>4
    <3> QED
      BY <1>4, <2>5, <3>1
  <2>8. ASSUME NEW r \in Core!Registers \ {"k"} PROVE cpuCpu.regs[r] = s.regs[r]
    <3>1. r \in Core!Free
      BY DEF Core!Free
    <3>2. Settled(cpuCpu, cpuCpu.pending, r) = s.regs[r]
      BY <2>4, <2>7, <3>1 DEF AtStep, Alike, Relinked
    <3> QED
      BY <2>5, <3>2 DEF Settled
  <2>9. /\ cpuCpu.sr[1] = [ie |-> s.ie, user |-> TRUE]
        /\ cpuCpu.sr[2] = [ie |-> TRUE, user |-> FALSE]
    BY <2>4 DEF AtStep, Runs
  <2> HIDE DEF s
  <2> QED
    BY <1>2, <2>6, <2>8, <2>9 DEF s
<1> QED
  BY <1>5, <1>6, <1>7
-----------------------------------------------------------------------------
unitsVars ==
  <<unit, machineVars, cpuVars, dmaVars, gp0Vars, scanoutVars, rasterVars, mdecVars, spuVars>>

(* Whatever interrupts, traps and breakpoints come in between, and in      *)
(* whichever slot, a program that keeps to the rules of the pipeline does  *)
(* to the bus what the plain machine does, each access once and in order,  *)
(* and ends with its registers and in its mode (cpu/mod.rs, cop0.rs).      *)
THEOREM ProgramsAreUndisturbed == UnitsSpec => []ProgramUndisturbed
<1> DEFINE Inv == unit = "cpu" => CpuInv
<1>1. UnitsInit => Inv
  BY StartsAligned, HardwareAssumption DEF UnitsInit, HardwareAssumption
<1>2. Inv /\ [UnitsNext]_unitsVars => Inv'
  <2> SUFFICES ASSUME Inv, [UnitsNext]_unitsVars, unit' = "cpu"
               PROVE  CpuInv'
    OBVIOUS
  <2>1. unit = "cpu"
    BY DEF UnitsNext, unitsVars
  <2>2. Core!Next \/ UNCHANGED cpuVars
    BY <2>1 DEF UnitsNext, unitsVars
  <2> QED
    BY <2>1, <2>2, CpuStepKeeps, HardwareAssumption DEF HardwareAssumption
<1>3. Inv => ProgramUndisturbed
  BY Undisturbed DEF ProgramUndisturbed
<1> QED
  BY <1>1, <1>2, <1>3, PTL DEF UnitsSpec, unitsVars
-----------------------------------------------------------------------------
(* The macroblock decoder: its types.                                      *)
Pair == Int \X Int
Block == [table : {"luma", "chroma"}, coefs : Seq(Pair)]

(* The decoder, with what it has gathered. *)
Decoder ==
  [command : {"idle", "decode", "upload"}, remaining : Int, color : BOOLEAN,
   in_block : BOOLEAN, idx : 0 .. Size - 1, coefs : Seq(Pair), blocks : Seq(Block),
   table : {"luma", "chroma"}]

(* A macroblock is emitted as soon as it is whole.                         *)
Room(m) == Len(m.blocks) < Video!Needed(m)
State == [m : {m \in Decoder : Room(m)}, made : Seq(Seq(Block))]

(* Two states are at the same place of the same command.                   *)
SamePlace(s, t) ==
  s.m.command = t.m.command /\ s.m.remaining = t.m.remaining /\ s.m.color = t.m.color

(* The end of a block keeps the types, and its place in the command. *)
LEMMA EndBlockKeeps ==
  ASSUME Video!MdecAssumption, NEW s \in State
  PROVE  Video!EndBlock(s) \in State /\ SamePlace(Video!EndBlock(s), s)
<1> DEFINE block == [table |-> s.m.table, coefs |-> s.m.coefs]
           blocks == Append(s.m.blocks, block)
           full == Len(blocks) >= Video!Needed(s.m)
           m == [s.m EXCEPT !.in_block = FALSE, !.idx = 0, !.coefs = <<>>, !.table = "luma",
                            !.blocks = IF full THEN <<>> ELSE blocks]
           made == IF full THEN Append(s.made, blocks) ELSE s.made
<1>1. s.m \in Decoder /\ s.made \in Seq(Seq(Block)) /\ Room(s.m)
  BY DEF State
<1>2. block \in Block /\ s.m.blocks \in Seq(Block)
  BY <1>1 DEF Block, Decoder
<1>3. blocks \in Seq(Block)
  BY <1>2
<1>4. made \in Seq(Seq(Block))
  BY <1>1, <1>3
<1>5. <<>> \in Seq(Pair) /\ <<>> \in Seq(Block) /\ Len(<<>>) = 0
  OBVIOUS
<1>6. 0 \in 0 .. Size - 1 /\ Video!Needed(s.m) \in Nat \ {0}
  BY DEF Video!MdecAssumption, Video!Needed
<1>7. m \in Decoder /\ m.color = s.m.color /\ m.command = s.m.command
      /\ m.remaining = s.m.remaining /\ m.blocks = IF full THEN <<>> ELSE blocks
  BY <1>1, <1>3, <1>5, <1>6 DEF Decoder
<1>8. Video!Needed(m) = Video!Needed(s.m)
  BY <1>7 DEF Video!Needed
<1>9. Len(blocks) \in Nat
  BY <1>3
<1>10. Room(m)
  BY <1>5, <1>6, <1>7, <1>8, <1>9 DEF Room
<1>11. Video!EndBlock(s) = [m |-> m, made |-> made]
  BY DEF Video!EndBlock
<1> HIDE DEF m, made
<1>12. Video!EndBlock(s) \in State
  BY <1>4, <1>7, <1>10, <1>11 DEF State
<1> QED
  BY <1>7, <1>11, <1>12 DEF SamePlace

(* So does the beginning of one, *)
LEMMA StartBlockKeeps ==
  ASSUME Video!MdecAssumption, NEW s \in State, NEW n \in Int
  PROVE  Video!StartBlock(s, n) \in State /\ SamePlace(Video!StartBlock(s, n), s)
<1> DEFINE m == [s.m EXCEPT !.in_block = TRUE, !.idx = 1, !.coefs = <<<<0, n>>>>,
                            !.table = Video!Table(s.m)]
<1>1. s.m \in Decoder /\ s.made \in Seq(Seq(Block)) /\ Room(s.m)
  BY DEF State
<1>2. <<<<0, n>>>> \in Seq(Pair)
  BY DEF Pair
<1>3. 1 \in 0 .. Size - 1 /\ Video!Table(s.m) \in {"luma", "chroma"}
  BY DEF Video!MdecAssumption, Video!Table
<1>4. m \in Decoder /\ m.color = s.m.color /\ m.command = s.m.command
      /\ m.remaining = s.m.remaining /\ m.blocks = s.m.blocks
  BY <1>1, <1>2, <1>3 DEF Decoder
<1>5. Room(m)
  BY <1>1, <1>4 DEF Room, Video!Needed
<1>6. Video!StartBlock(s, n) = [s EXCEPT !.m = m]
  BY <1>1 DEF Video!StartBlock, State
<1> QED
  BY <1>1, <1>4, <1>5, <1>6 DEF State, SamePlace

(* a coefficient, *)
LEMMA CoefficientKeeps ==
  ASSUME Video!MdecAssumption, NEW s \in State, NEW half \in Nat, NEW n \in Int
  PROVE  Video!Coefficient(s, half, n) \in State /\ SamePlace(Video!Coefficient(s, half, n), s)
<1> DEFINE at == s.m.idx + half
           coefs == Append(s.m.coefs, <<at, n>>)
           (* The block is ended with its index one past its last place.   *)
           m == [s.m EXCEPT !.coefs = coefs, !.idx = at + 1]
           last == [s.m EXCEPT !.coefs = coefs]
<1>1. s.m \in Decoder /\ s.made \in Seq(Seq(Block)) /\ Room(s.m)
  BY DEF State
<1>2. at \in Int /\ at >= 0 /\ s.m.coefs \in Seq(Pair)
  BY <1>1 DEF Decoder
<1>3. coefs \in Seq(Pair)
  BY <1>2 DEF Pair
<1> HIDE DEF at, coefs
<1>4. CASE at >= Size
  BY <1>4, EndBlockKeeps DEF Video!Coefficient, at
<1>5. CASE at + 1 < Size
  <2>1. at + 1 \in 0 .. Size - 1 /\ ~(at >= Size) /\ ~(at + 1 >= Size)
    BY <1>2, <1>5 DEF Video!MdecAssumption
  <2>2. m \in Decoder /\ m.color = s.m.color /\ m.command = s.m.command
        /\ m.remaining = s.m.remaining /\ m.blocks = s.m.blocks
    BY <1>1, <1>3, <2>1 DEF Decoder
  <2>3. Room(m)
    BY <1>1, <2>2 DEF Room, Video!Needed
  <2>4. Video!Coefficient(s, half, n) = [s EXCEPT !.m = m]
    BY <1>1, <2>1 DEF Video!Coefficient, at, coefs, State, Decoder
  <2> QED
    BY <1>1, <2>2, <2>3, <2>4 DEF State, SamePlace
<1>6. CASE at + 1 = Size
  <2> DEFINE t == [s EXCEPT !.m = last]
             put == [s EXCEPT !.m = m]
  <2>1. last \in Decoder /\ last.color = s.m.color /\ last.command = s.m.command
        /\ last.remaining = s.m.remaining /\ last.blocks = s.m.blocks
    BY <1>1, <1>3 DEF Decoder
  <2>2. t \in State /\ SamePlace(t, s)
    BY <1>1, <2>1 DEF State, SamePlace, Room, Video!Needed
  <2>3. ~(at >= Size) /\ at + 1 >= Size
    BY <1>2, <1>6 DEF Video!MdecAssumption
  <2>4. Video!Coefficient(s, half, n) = Video!EndBlock(put)
    BY <1>1, <2>3 DEF Video!Coefficient, at, coefs, State, Decoder
  <2>5. Video!EndBlock(put) = Video!EndBlock(t)
    <3>1. put.made = s.made /\ t.made = s.made /\ put.m = m /\ t.m = last
      BY DEF State
    <3>2. m.table = last.table /\ m.coefs = last.coefs /\ m.blocks = last.blocks
          /\ m.color = last.color
      BY <1>1 DEF Decoder
    <3>3. ASSUME NEW bs
          PROVE  [m EXCEPT !.in_block = FALSE, !.idx = 0, !.coefs = <<>>, !.table = "luma", !.blocks = bs]
                   = [last EXCEPT !.in_block = FALSE, !.idx = 0, !.coefs = <<>>, !.table = "luma",
                                  !.blocks = bs]
      BY <1>1 DEF Decoder
    <3>4. Video!Needed(m) = Video!Needed(last)
      BY <3>2 DEF Video!Needed
    <3> HIDE DEF m, last, put, t
    <3> QED
      BY <3>1, <3>2, <3>3, <3>4 DEF Video!EndBlock
  <2> HIDE DEF t, put
  <2> QED
    BY <2>2, <2>4, <2>5, EndBlockKeeps DEF SamePlace
<1> QED
  BY <1>2, <1>4, <1>5, <1>6 DEF Video!MdecAssumption

(* and any halfword. *)
LEMMA FeedKeeps ==
  ASSUME Video!MdecAssumption, NEW s \in State, NEW half \in Video!Halves, NEW n \in Int
  PROVE  Video!Feed(s, half, n) \in State /\ SamePlace(Video!Feed(s, half, n), s)
<1>1. s.m.in_block \in BOOLEAN /\ SamePlace(s, s)
  BY DEF State, Decoder, SamePlace
<1>2. half # Video!Eob => half \in Nat
  BY DEF Video!Halves
<1> QED
  BY <1>1, <1>2, EndBlockKeeps, StartBlockKeeps, CoefficientKeeps DEF Video!Feed

(* A halfword is one less to come.                                         *)
LEMMA FeedHalfCounts ==
  ASSUME Video!MdecAssumption, NEW s \in State, NEW half \in Video!Halves, NEW n \in Int,
         s.m.remaining # 0
  PROVE  /\ Video!FeedHalf(s, half, n) \in State
         /\ Video!FeedHalf(s, half, n).m.command = s.m.command
         /\ Video!FeedHalf(s, half, n).m.remaining = s.m.remaining - 1
<1> DEFINE left == s.m.remaining - 1
           m == [s.m EXCEPT !.remaining = left]
           t == [s EXCEPT !.m.remaining = left]
<1>1. s.m \in Decoder /\ s.made \in Seq(Seq(Block)) /\ Room(s.m)
  BY DEF State
<1>2. left \in Int
  BY <1>1 DEF Decoder
<1>3. Video!FeedHalf(s, half, n) = IF t.m.command = "decode" THEN Video!Feed(t, half, n) ELSE t
  BY DEF Video!FeedHalf
<1> HIDE DEF left
<1>4. /\ m \in Decoder /\ m.blocks = s.m.blocks /\ m.color = s.m.color
      /\ m.command = s.m.command /\ m.remaining = left
  BY <1>1, <1>2 DEF Decoder
<1>5. t = [m |-> m, made |-> s.made]
  <2>1. s = [m |-> s.m, made |-> s.made]
    BY DEF State
  <2>2. DOMAIN s = {"m", "made"} /\ DOMAIN s.m = DOMAIN m
    BY <2>1
  <2>3. t.m = m /\ t.made = s.made /\ DOMAIN t = {"m", "made"}
    BY <2>2
  <2>4. t = [f \in {"m", "made"} |-> t[f]]
    BY <2>3
  <2> HIDE DEF m
  <2> QED
    BY <2>3, <2>4
<1>6. t \in State /\ t.m = m
  <2>1. Room(m)
    BY <1>1, <1>4 DEF Room, Video!Needed
  <2> HIDE DEF m, t
  <2> QED
    BY <1>1, <1>4, <1>5, <2>1 DEF State
<1> HIDE DEF m, t
<1> QED
  BY <1>4, <1>6, <1>3, FeedKeeps DEF SamePlace, left

(* The last word of a command ends it. *)
LEMMA FinishEnds ==
  ASSUME Video!MdecAssumption, NEW s \in State, s.m.remaining >= 0
  PROVE  /\ Video!Finish(s) \in State
         /\ Video!Finish(s).m.remaining = s.m.remaining
         /\ Video!Finish(s).m.command = IF s.m.remaining > 0 THEN s.m.command ELSE "idle"
<1> DEFINE t == IF s.m.command = "decode" /\ s.m.in_block THEN Video!EndBlock(s) ELSE s
<1>1. t \in State /\ t.m.remaining = s.m.remaining
  BY EndBlockKeeps DEF SamePlace
<1> HIDE DEF t
<1>2. [t EXCEPT !.m.command = "idle"] \in State
  <2>1. t.m \in Decoder /\ t.made \in Seq(Seq(Block)) /\ Room(t.m)
    BY <1>1 DEF State
  <2> DEFINE m == [t.m EXCEPT !.command = "idle"]
  <2>2. m \in Decoder /\ m.blocks = t.m.blocks /\ m.color = t.m.color
    BY <2>1 DEF Decoder
  <2>3. Room(m)
    BY <2>1, <2>2 DEF Room, Video!Needed
  <2>4. [t EXCEPT !.m.command = "idle"] = [m |-> m, made |-> t.made]
    BY <1>1 DEF State
  <2> HIDE DEF m
  <2> QED
    BY <2>1, <2>2, <2>3, <2>4 DEF State
<1>3. s.m.remaining \in Int
  BY DEF State, Decoder
<1>4. ~(s.m.remaining > 0) => Video!Finish(s) = [t EXCEPT !.m.command = "idle"]
  BY DEF Video!Finish, t
<1>5. s.m.remaining > 0 => Video!Finish(s) = s
  BY DEF Video!Finish
<1>6. [t EXCEPT !.m.command = "idle"].m.command = "idle"
      /\ [t EXCEPT !.m.command = "idle"].m.remaining = t.m.remaining
  BY <1>1 DEF State, Decoder
<1> QED
  BY <1>1, <1>2, <1>3, <1>4, <1>5, <1>6
-----------------------------------------------------------------------------
(* The reference: where a halfword of a block is placed. *)

(* The run lengths from a to n added up. *)
Sums(hs, a, n) ==
  LET sum[k \in a .. n] == IF k = a THEN 0 ELSE sum[k - 1] + hs[k] IN sum

(* There is a function of the sums of the run lengths behind a. *)
LEMMA SumsExist ==
  ASSUME NEW hs, NEW a \in Int, NEW n \in Int, a <= n
  PROVE  Sums(hs, a, n) = [k \in a .. n |-> IF k = a THEN 0 ELSE Sums(hs, a, n)[k - 1] + hs[k]]
<1> DEFINE Adds(m, g) == g = [k \in a .. m |-> IF k = a THEN 0 ELSE g[k - 1] + hs[k]]
           T == {m \in 0 .. n - a : \E g : Adds(a + m, g)}
<1>1. n - a \in Nat
  OBVIOUS
<1>2. 0 \in T
  <2>1. Adds(a + 0, [k \in a .. a |-> 0])
    OBVIOUS
  <2> HIDE DEF Adds
  <2> QED
    BY <1>1, <2>1
<1>3. ASSUME NEW m \in 0 .. n - a, m < n - a, m \in T PROVE m + 1 \in T
  <2> DEFINE b == a + m
  <2>1. PICK g : Adds(b, g)
    BY <1>3
  <2>2. b \in Int /\ b >= a /\ a + (m + 1) = b + 1 /\ m + 1 \in 0 .. n - a
    BY <1>3
  <2> HIDE DEF b
  <2> DEFINE h == [k \in a .. b + 1 |-> IF k <= b THEN g[k] ELSE g[b] + hs[b + 1]]
  <2>3. \A k \in a .. b : g[k] = IF k = a THEN 0 ELSE g[k - 1] + hs[k]
    BY <2>1
  <2>4. ASSUME NEW k \in a .. b + 1 PROVE h[k] = IF k = a THEN 0 ELSE h[k - 1] + hs[k]
    <3>1. CASE k <= b
      BY <2>2, <2>3, <3>1
    <3>2. CASE k = b + 1
      <4>1. k # a /\ k - 1 = b /\ b \in a .. b + 1
        BY <2>2, <3>2
      <4>2. h[k] = g[b] + hs[b + 1] /\ h[b] = g[b]
        BY <2>2, <3>2
      <4> QED
        BY <4>1, <4>2, <3>2
    <3> QED
      BY <2>2, <3>1, <3>2
  <2>5. h = [k \in a .. b + 1 |-> IF k = a THEN 0 ELSE h[k - 1] + hs[k]]
    <3>1. h = [k \in a .. b + 1 |-> h[k]]
      OBVIOUS
    <3> HIDE DEF h
    <3> QED
      BY <3>1, <2>4
  <2>6. Adds(a + (m + 1), h)
    BY <2>2, <2>5
  <2> HIDE DEF Adds, h
  <2> QED
    BY <2>2, <2>6
<1>4. n - a \in T
  <2> HIDE DEF T
  <2>1. 0 .. n - a \subseteq T
    BY ONLY <1>1, <1>2, <1>3, UptoInduction
  <2> QED
    BY <1>1, <2>1
<1>5. \E g : Adds(n, g)
  <2>1. a + (n - a) = n
    OBVIOUS
  <2> QED
    BY <1>4, <2>1
<1>6. Sums(hs, a, n) = CHOOSE g : Adds(n, g)
  BY DEF Sums
<1> QED
  BY <1>5, <1>6

Adding(f, hs, a, n) ==
  \A k \in a .. n : f[k] = IF k = a THEN 0 ELSE f[k - 1] + hs[k]

(* Two sums over the same halfwords are the same. *)
LEMMA SumsAgree ==
  ASSUME NEW f, NEW g, NEW hs, NEW ht, NEW a \in Int, NEW n \in Int, a <= n,
         Adding(f, hs, a, n), Adding(g, ht, a, n),
         \A k \in a .. n : hs[k] \in Int /\ ht[k] = hs[k]
  PROVE  f[n] = g[n] /\ f[n] \in Int
<1> DEFINE T == {m \in 0 .. n - a : f[a + m] = g[a + m] /\ f[a + m] \in Int}
<1>1. n - a \in Nat
  OBVIOUS
<1>2. 0 \in T
  BY <1>1 DEF Adding
<1>3. ASSUME NEW m \in 0 .. n - a, m < n - a, m \in T PROVE m + 1 \in T
  <2> DEFINE k == a + (m + 1)
  <2>1. k \in a .. n /\ k # a /\ k - 1 = a + m /\ m + 1 \in 0 .. n - a
    BY <1>3
  <2>2. f[a + m] = g[a + m] /\ f[a + m] \in Int
    BY <1>3
  <2> HIDE DEF k, T
  <2>3. f[k] = f[k - 1] + hs[k] /\ g[k] = g[k - 1] + ht[k]
    BY <2>1 DEF Adding
  <2>4. f[k] = g[k] /\ f[k] \in Int
    BY <2>1, <2>2, <2>3
  <2> QED
    BY <2>1, <2>4 DEF T, k
<1>4. n - a \in T
  <2> HIDE DEF T
  <2>1. 0 .. n - a \subseteq T
    BY ONLY <1>1, <1>2, <1>3, UptoInduction
  <2> QED
    BY <1>1, <2>1
<1>5. a + (n - a) = n
  OBVIOUS
<1> QED
  BY <1>4, <1>5

(* Place depends only on the run lengths of the block so far. *)
LEMMA PlaceAgrees ==
  ASSUME NEW hs, NEW ht, NEW a \in Int, NEW n \in Int, a <= n,
         \A k \in a .. n : hs[k] \in Int /\ ht[k] = hs[k]
  PROVE  Video!Place(hs, a, n) = Video!Place(ht, a, n) /\ Video!Place(hs, a, n) \in Int
<1> DEFINE f == Sums(hs, a, n)
           g == Sums(ht, a, n)
<1>1. Adding(f, hs, a, n) /\ Adding(g, ht, a, n)
  <2>1. /\ f = [k \in a .. n |-> IF k = a THEN 0 ELSE f[k - 1] + hs[k]]
        /\ g = [k \in a .. n |-> IF k = a THEN 0 ELSE g[k - 1] + ht[k]]
    BY SumsExist
  <2> HIDE DEF f, g
  <2> QED
    BY <2>1 DEF Adding
<1>2. f[n] = g[n] /\ f[n] \in Int
  <2> HIDE DEF f, g
  <2> QED
    BY <1>1, SumsAgree
<1>3. /\ Video!Place(hs, a, n) = n - a + (IF n = a THEN 0 ELSE f[n])
      /\ Video!Place(ht, a, n) = n - a + (IF n = a THEN 0 ELSE g[n])
  BY DEF Video!Place, Sums
<1> HIDE DEF f, g
<1> QED
  BY <1>2, <1>3

(* The first halfword of a block is at place 0, and *)
LEMMA PlaceFirst ==
  ASSUME NEW hs, NEW a \in Int
  PROVE  Video!Place(hs, a, a) = 0
  BY DEF Video!Place

(* each further one is its run length and one behind the last. *)
LEMMA PlaceNext ==
  ASSUME NEW hs, NEW a \in Int, NEW n \in Int, a <= n, \A k \in a .. n + 1 : hs[k] \in Int
  PROVE  Video!Place(hs, a, n + 1) = Video!Place(hs, a, n) + 1 + hs[n + 1]
<1> DEFINE f == Sums(hs, a, n)
           g == Sums(hs, a, n + 1)
<1>1. Adding(f, hs, a, n) /\ Adding(g, hs, a, n + 1)
  <2>1. /\ f = [k \in a .. n |-> IF k = a THEN 0 ELSE f[k - 1] + hs[k]]
        /\ g = [k \in a .. n + 1 |-> IF k = a THEN 0 ELSE g[k - 1] + hs[k]]
    <3>1. n + 1 \in Int /\ a <= n + 1
      OBVIOUS
    <3> QED
      BY <3>1, SumsExist
  <2> HIDE DEF f, g
  <2> QED
    BY <2>1 DEF Adding
<1>2. f[n] = g[n] /\ f[n] \in Int
  <2>1. Adding(g, hs, a, n)
    BY <1>1 DEF Adding
  <2>2. \A k \in a .. n : hs[k] \in Int /\ hs[k] = hs[k]
    OBVIOUS
  <2> HIDE DEF f, g
  <2> QED
    BY <1>1, <2>1, <2>2, SumsAgree
<1>3. g[n + 1] = g[n] + hs[n + 1] /\ f[a] = 0
  <2>1. n + 1 \in a .. n + 1 /\ n + 1 # a /\ (n + 1) - 1 = n /\ a \in a .. n
    OBVIOUS
  <2> HIDE DEF f, g
  <2> QED
    BY <1>1, <2>1 DEF Adding
<1>4. /\ Video!Place(hs, a, n) = n - a + (IF n = a THEN 0 ELSE f[n])
      /\ Video!Place(hs, a, n + 1) = n + 1 - a + g[n + 1]
  BY DEF Video!Place, Sums
<1>5. hs[n + 1] \in Int
  OBVIOUS
<1> HIDE DEF f, g
<1>6. Video!Place(hs, a, n) = n - a + f[n]
  BY <1>3, <1>4
<1> QED
  BY <1>2, <1>3, <1>4, <1>5, <1>6
-----------------------------------------------------------------------------
(* The reference: the ranges of the blocks. *)

Streams == Seq(Video!Halves)
Extent == Nat \X Nat

(* Where a block begun at a ends of itself. *)
Stops(hs, a, n) == n > a /\ (hs[n] = Video!Eob \/ Video!Place(hs, a, n) >= Size - 1)
Padding(hs, from, to) == \A j \in from .. to : hs[j] = Video!Eob
Goes(hs, a, from, to) == \A j \in from .. to : ~Stops(hs, a, j)

(* The range r is the first block of hs behind the place e.                *)
Link(hs, e, r) ==
  /\ r \in Extent /\ r[1] \in e + 1 .. Len(hs) /\ r[2] \in r[1] .. Len(hs)
  /\ hs[r[1]] # Video!Eob /\ Padding(hs, e + 1, r[1] - 1)
  /\ Goes(hs, r[1], r[1], r[2] - 1)
  /\ Stops(hs, r[1], r[2]) \/ r[2] = Len(hs)
Before(R, i) == IF i = 0 THEN 0 ELSE R[i][2]

(* The first K blocks of hs are R. *)
Chain(hs, R, K) == \A i \in 1 .. K : Link(hs, Before(R, i - 1), R[i])

FirstOf(hs, n) ==
  {k \in n .. Len(hs) : hs[k] # Video!Eob /\ \A j \in n .. k - 1 : hs[j] = Video!Eob}
LastOf(hs, a) ==
  CHOOSE n \in a .. Len(hs) : Video!Ends(hs, a, n) /\ \A j \in a .. n - 1 : ~Video!Ends(hs, a, j)
CutAt(hs, c, n) ==
  IF n > Len(hs) \/ FirstOf(hs, n) = {} THEN <<>>
  ELSE LET a == CHOOSE k \in FirstOf(hs, n) : TRUE
       IN <<<<a, LastOf(hs, a)>>>> \o c[LastOf(hs, a) + 1]
Cutting(hs) == CHOOSE c : c = [n \in 1 .. Len(hs) + 1 |-> CutAt(hs, c, n)]

(* Cut is what that function gives at the first halfword. *)
LEMMA CutIsCutting ==
  ASSUME NEW hs
  PROVE  Video!Cut(hs) = Cutting(hs)[1]
  BY DEF Video!Cut, Cutting, CutAt, FirstOf, LastOf

(* The last halfword of a block is well defined. *)
LEMMA LastGives ==
  ASSUME NEW hs \in Streams, NEW a \in 1 .. Len(hs)
  PROVE  /\ LastOf(hs, a) \in a .. Len(hs) /\ Video!Ends(hs, a, LastOf(hs, a))
         /\ \A j \in a .. LastOf(hs, a) - 1 : ~Video!Ends(hs, a, j)
<1> DEFINE T == {n \in a .. Len(hs) : Video!Ends(hs, a, n)}
<1>1. Len(hs) \in Nat /\ a \in Nat
  BY DEF Streams
<1>2. T \subseteq Nat /\ Len(hs) \in T
  BY <1>1 DEF Video!Ends
<1>3. PICK n \in T : \A m \in T : n <= m
  <2> HIDE DEF T
  <2> QED
    BY <1>2, NatLeast
<1>4. n \in a .. Len(hs) /\ Video!Ends(hs, a, n) /\ \A j \in a .. n - 1 : ~Video!Ends(hs, a, j)
  <2>1. ASSUME NEW j \in a .. n - 1, Video!Ends(hs, a, j) PROVE FALSE
    <3>1. j \in a .. Len(hs) /\ j < n
      BY <1>1
    <3>2. j \in T
      BY <2>1, <3>1
    <3> HIDE DEF T
    <3> QED
      BY <1>1, <1>3, <3>1, <3>2
  <2> QED
    BY <2>1
<1> QED
  BY <1>4 DEF LastOf

(* There is a function that satisfies the recursion of Cut. *)
LEMMA CuttingExists ==
  ASSUME NEW hs \in Streams
  PROVE  \A n \in 1 .. Len(hs) + 1 : Cutting(hs)[n] = CutAt(hs, Cutting(hs), n)
<1> DEFINE N == Len(hs)
           Cuts(m, c) == c = [n \in m .. N + 1 |-> CutAt(hs, c, n)]
           T == {m \in 0 .. N : \E c : Cuts(N + 1 - m, c)}
<1>1. N \in Nat
  BY DEF Streams
<1>2. 0 \in T
  <2>1. \A c : CutAt(hs, c, N + 1) = <<>>
    BY <1>1 DEF CutAt
  <2>2. N + 1 - 0 = N + 1 /\ 0 \in 0 .. N
    BY <1>1
  <2> DEFINE c == [n \in N + 1 .. N + 1 |-> <<>>]
  <2> HIDE DEF N
  <2>3. c = [n \in N + 1 .. N + 1 |-> CutAt(hs, c, n)]
    <3>1. ASSUME NEW n \in N + 1 .. N + 1 PROVE CutAt(hs, c, n) = <<>>
      <4>1. n = N + 1
        BY <1>1
      <4> HIDE DEF c
      <4> QED
        BY <4>1, <2>1
    <3> QED
      BY <3>1
  <2>4. Cuts(N + 1 - 0, c)
    BY <2>2, <2>3
  <2> HIDE DEF Cuts, c
  <2> QED
    BY <2>2, <2>4
<1>3. ASSUME NEW m \in 0 .. N, m < N, m \in T PROVE m + 1 \in T
  <2> DEFINE b == N - m
  <2>1. b \in 1 .. N /\ N + 1 - m = b + 1 /\ N + 1 - (m + 1) = b /\ m + 1 \in 0 .. N
    BY <1>1, <1>3
  <2>2. PICK c : Cuts(b + 1, c)
    <3> HIDE DEF Cuts, b
    <3> QED
      BY <1>3, <2>1
  <2> HIDE DEF b
  <2> DEFINE d == [n \in b .. N + 1 |-> IF n = b THEN CutAt(hs, c, b) ELSE c[n]]
  <2>3. ASSUME NEW n \in b .. N + 1 PROVE CutAt(hs, d, n) = CutAt(hs, c, n)
    <3>1. CASE n > Len(hs) \/ FirstOf(hs, n) = {}
      BY <3>1 DEF CutAt
    <3>2. CASE ~(n > Len(hs) \/ FirstOf(hs, n) = {})
      <4> DEFINE a == CHOOSE k \in FirstOf(hs, n) : TRUE
      <4>1. a \in FirstOf(hs, n)
        BY <3>2
      <4>2. a \in n .. N /\ a \in 1 .. Len(hs)
        BY <1>1, <2>1, <4>1 DEF FirstOf
      <4> HIDE DEF a, d
      <4>3. LastOf(hs, a) \in a .. N
        BY <4>2, LastGives
      <4>4. LastOf(hs, a) + 1 \in b + 1 .. N + 1
        BY <1>1, <2>1, <4>2, <4>3
      <4>5. d[LastOf(hs, a) + 1] = c[LastOf(hs, a) + 1]
        BY <2>1, <4>4 DEF d
      <4> QED
        BY <3>2, <4>5 DEF CutAt, a
    <3> QED
      BY <3>1, <3>2
  <2>4. d = [n \in b .. N + 1 |-> CutAt(hs, d, n)]
    <3>1. ASSUME NEW n \in b .. N + 1 PROVE d[n] = CutAt(hs, d, n)
      <4>1. CASE n = b
        BY <2>3, <4>1
      <4>2. CASE n # b
        <5>1. n \in b + 1 .. N + 1
          BY <1>1, <2>1, <4>2
        <5>2. c[n] = CutAt(hs, c, n)
          BY <2>2, <5>1
        <5>3. d[n] = c[n]
          BY <4>2
        <5> HIDE DEF d
        <5> QED
          BY <2>3, <5>2, <5>3
      <4> QED
        BY <4>1, <4>2
    <3>2. d = [n \in b .. N + 1 |-> d[n]]
      OBVIOUS
    <3> HIDE DEF d
    <3> QED
      BY <3>1, <3>2
  <2>5. Cuts(N + 1 - (m + 1), d)
    BY <2>1, <2>4
  <2> HIDE DEF Cuts, d
  <2> QED
    BY <2>1, <2>5
<1>4. N \in T
  <2> HIDE DEF T, N
  <2>1. 0 .. N \subseteq T
    BY ONLY <1>1, <1>2, <1>3, UptoInduction
  <2> QED
    BY <1>1, <2>1
<1>5. \E c : Cuts(1, c)
  <2>1. N + 1 - N = 1
    BY <1>1
  <2> HIDE DEF Cuts, N
  <2> QED
    BY <1>4, <2>1
<1>6. Cutting(hs) = CHOOSE c : Cuts(1, c)
  BY DEF Cutting
<1>7. Cuts(1, Cutting(hs))
  <2> HIDE DEF Cuts
  <2> QED
    BY <1>5, <1>6
<1> QED
  BY <1>7

(* Ends is Stops, or the end of the stream. *)
LEMMA EndsStops ==
  ASSUME NEW hs, NEW a, NEW n
  PROVE  Video!Ends(hs, a, n) <=> Stops(hs, a, n) \/ n = Len(hs)
  BY DEF Video!Ends, Stops

(* Where a range links to the place before it, Cut has this range first. *)
LEMMA LinkIsCut ==
  ASSUME NEW hs \in Streams, NEW e \in 0 .. Len(hs), NEW r, Link(hs, e, r)
  PROVE  Cutting(hs)[e + 1] = <<r>> \o Cutting(hs)[r[2] + 1]
<1>1. /\ Len(hs) \in Nat /\ e + 1 \in 1 .. Len(hs) /\ r[1] \in e + 1 .. Len(hs)
      /\ r[2] \in r[1] .. Len(hs) /\ r \in Extent
  BY DEF Link, Streams
<1>2. r[1] \in FirstOf(hs, e + 1)
  BY <1>1 DEF FirstOf, Link, Padding
<1>3. ASSUME NEW k \in FirstOf(hs, e + 1) PROVE k = r[1]
  <2>1. k \in e + 1 .. Len(hs) /\ hs[k] # Video!Eob /\ \A j \in e + 1 .. k - 1 : hs[j] = Video!Eob
    BY DEF FirstOf
  <2>2. hs[r[1]] # Video!Eob /\ \A j \in e + 1 .. r[1] - 1 : hs[j] = Video!Eob
    BY DEF Link, Padding
  <2>3. ~(k < r[1])
    BY <1>1, <2>1, <2>2
  <2>4. ~(k > r[1])
    BY <1>1, <2>1, <2>2
  <2> QED
    BY <1>1, <2>1, <2>3, <2>4
<1>4. r[1] = CHOOSE k \in FirstOf(hs, e + 1) : TRUE
  BY <1>2, <1>3
<1> DEFINE a == r[1]
           l == LastOf(hs, a)
<1>5. a \in 1 .. Len(hs)
  BY <1>1
<1>6. l \in a .. Len(hs) /\ Video!Ends(hs, a, l) /\ \A j \in a .. l - 1 : ~Video!Ends(hs, a, j)
  <2> HIDE DEF a
  <2> QED
    BY <1>5, LastGives
<1>7. r[2] \in a .. Len(hs) /\ Video!Ends(hs, a, r[2])
      /\ \A j \in a .. r[2] - 1 : ~Video!Ends(hs, a, j)
  <2>1. Video!Ends(hs, a, r[2])
    BY EndsStops DEF Link
  <2>2. ASSUME NEW j \in a .. r[2] - 1 PROVE ~Video!Ends(hs, a, j)
    <3>1. ~Stops(hs, a, j)
      BY DEF Link, Goes
    <3>2. j # Len(hs)
      BY <1>1
    <3> QED
      BY <3>1, <3>2, EndsStops
  <2> QED
    BY <1>1, <2>1, <2>2
<1>8. l = r[2]
  <2> HIDE DEF l
  <2>1. ~(l < r[2])
    BY <1>1, <1>6, <1>7
  <2>2. ~(l > r[2])
    BY <1>1, <1>6, <1>7
  <2> QED
    BY <1>1, <1>6, <2>1, <2>2
<1>9. Cutting(hs)[e + 1] = CutAt(hs, Cutting(hs), e + 1)
  BY <1>1, CuttingExists
<1>10. <<r[1], r[2]>> = r
  BY <1>1 DEF Extent
<1>11. ~(e + 1 > Len(hs) \/ FirstOf(hs, e + 1) = {})
  BY <1>1, <1>2
<1> QED
  BY <1>4, <1>8, <1>9, <1>10, <1>11 DEF CutAt

(* The ranges of R behind the first i. *)
Rest(c, R, K, i) == c \in Seq(Extent) /\ Len(c) = K - i /\ \A j \in 1 .. K - i : c[j] = R[i + j]

(* A chain that leaves but padding is the cut. *)
LEMMA CutIs ==
  ASSUME NEW hs \in Streams, NEW K \in Nat, NEW R, Chain(hs, R, K),
         Padding(hs, Before(R, K) + 1, Len(hs))
  PROVE  Rest(Video!Cut(hs), R, K, 0)
<1> DEFINE C(i) == Cutting(hs)[Before(R, i) + 1]
           T == {m \in 0 .. K : Rest(C(K - m), R, K, K - m)}
<1>1. Len(hs) \in Nat
  BY DEF Streams
<1>2. ASSUME NEW i \in 0 .. K PROVE Before(R, i) \in 0 .. Len(hs)
  <2>1. CASE i = 0
    BY <1>1, <2>1 DEF Before
  <2>2. CASE i # 0
    <3>1. i \in 1 .. K
      BY <2>2
    <3>2. R[i] \in Extent /\ R[i][2] \in R[i][1] .. Len(hs)
      BY <3>1 DEF Chain, Link
    <3> QED
      BY <1>1, <2>2, <3>2 DEF Before, Extent
  <2> QED
    BY <2>1, <2>2
<1>3. 0 \in T
  <2> DEFINE e == Before(R, K)
  <2>1. e \in 0 .. Len(hs) /\ Padding(hs, e + 1, Len(hs))
    BY <1>2
  <2> HIDE DEF e
  <2>2. FirstOf(hs, e + 1) = {}
    BY <1>1, <2>1 DEF FirstOf, Padding
  <2>3. Cutting(hs)[e + 1] = <<>>
    <3>1. e + 1 \in 1 .. Len(hs) + 1
      BY <1>1, <2>1
    <3>2. Cutting(hs)[e + 1] = CutAt(hs, Cutting(hs), e + 1)
      BY <3>1, CuttingExists
    <3> QED
      BY <2>2, <3>2 DEF CutAt
  <2>4. Rest(C(K), R, K, K)
    BY <2>3 DEF Rest, e
  <2>5. K - 0 = K /\ 0 \in 0 .. K
    OBVIOUS
  <2> HIDE DEF C
  <2> QED
    BY <2>4, <2>5
<1>4. ASSUME NEW m \in 0 .. K, m < K, m \in T PROVE m + 1 \in T
  <2> DEFINE i == K - m
  <2>1. i \in 1 .. K /\ K - (m + 1) = i - 1 /\ m + 1 \in 0 .. K /\ i - 1 \in 0 .. K
    BY <1>4
  <2>2. Rest(C(i), R, K, i)
    BY <1>4
  <2> HIDE DEF i
  <2>3. Link(hs, Before(R, i - 1), R[i])
    BY <2>1 DEF Chain
  <2>4. C(i - 1) = <<R[i]>> \o C(i)
    <3>1. Before(R, i) = R[i][2]
      BY <2>1 DEF Before
    <3>2. Before(R, i - 1) \in 0 .. Len(hs)
      BY <1>2, <2>1
    <3> QED
      BY <2>3, <3>1, <3>2, LinkIsCut
  <2>5. R[i] \in Extent
    BY <2>3 DEF Link
  <2> DEFINE c == C(i)
             r == R[i]
  <2>6. Rest(<<r>> \o c, R, K, i - 1)
    <3>1. c \in Seq(Extent) /\ Len(c) = K - i /\ r \in Extent
          /\ \A j \in 1 .. K - i : c[j] = R[i + j]
      BY <2>2, <2>5 DEF Rest
    <3>2. r = R[i]
      OBVIOUS
    <3> HIDE DEF c, r
    <3>3. <<r>> \in Seq(Extent) /\ Len(<<r>>) = 1 /\ <<r>>[1] = r
      BY <3>1
    <3>4. /\ <<r>> \o c \in Seq(Extent) /\ Len(<<r>> \o c) = 1 + (K - i)
          /\ \A j \in 1 .. 1 + (K - i) : (<<r>> \o c)[j] = IF j = 1 THEN r ELSE c[j - 1]
      BY <3>1, <3>3
    <3>5. ASSUME NEW j \in 1 .. K - (i - 1) PROVE (<<r>> \o c)[j] = R[(i - 1) + j]
      <4>1. j \in 1 .. 1 + (K - i)
        BY <2>1
      <4>2. CASE j = 1
        BY <2>1, <3>2, <3>4, <4>1, <4>2
      <4>3. CASE j # 1
        <5>1. j - 1 \in 1 .. K - i /\ i + (j - 1) = (i - 1) + j
          BY <2>1, <4>1, <4>3
        <5> QED
          BY <3>1, <3>4, <4>1, <4>3, <5>1
      <4> QED
        BY <4>2, <4>3
    <3>6. Len(<<r>> \o c) = K - (i - 1)
      BY <2>1, <3>4
    <3> QED
      BY <3>4, <3>5, <3>6 DEF Rest
  <2>7. Rest(C(K - (m + 1)), R, K, K - (m + 1))
    BY <2>1, <2>4, <2>6
  <2> HIDE DEF C
  <2> QED
    BY <2>1, <2>7
<1>5. K \in T
  <2> HIDE DEF T
  <2>1. 0 .. K \subseteq T
    BY ONLY <1>3, <1>4, UptoInduction, K \in Nat
  <2> QED
    BY <2>1
<1>6. K - K = 0 /\ Before(R, 0) + 1 = 1
  BY DEF Before
<1> QED
  BY <1>5, <1>6, CutIsCutting
-----------------------------------------------------------------------------
(* How blocks are numbered: j of macroblock q, of one block or of several. *)

PerMacro(color) == IF color THEN ColorBlocks ELSE 1
Slot(color, q, j) == (q - 1) * PerMacro(color) + j

(* How blocks are numbered by macroblock and place. *)
LEMMA SlotGives ==
  ASSUME Video!MdecAssumption, NEW color \in BOOLEAN
  PROVE  /\ PerMacro(color) \in Nat \ {0} /\ Slot(color, 1, 0) = 0
         /\ \A q \in Nat \ {0} : \A j \in Nat :
              /\ Slot(color, q, j) \in Nat /\ Slot(color, q, j + 1) = Slot(color, q, j) + 1
              /\ Slot(color, q, j) = Slot(color, q, 0) + j
         /\ \A q \in Nat \ {0} : Slot(color, q + 1, 0) = Slot(color, q, PerMacro(color))
<1> DEFINE N == PerMacro(color)
<1>1. N \in Nat \ {0}
  BY DEF PerMacro, Video!MdecAssumption
<1> HIDE DEF N
<1>2. (1 - 1) * N + 0 = 0
  BY <1>1
<1>3. ASSUME NEW q \in Nat \ {0}, NEW j \in Nat
      PROVE  /\ (q - 1) * N + j \in Nat /\ (q - 1) * N + (j + 1) = (q - 1) * N + j + 1
             /\ (q - 1) * N + j = (q - 1) * N + 0 + j
  <2>1. q - 1 \in Nat
    OBVIOUS
  <2>2. (q - 1) * N \in Nat
    BY <1>1, <2>1
  <2> QED
    BY <2>2
<1>4. ASSUME NEW q \in Nat \ {0} PROVE (q + 1 - 1) * N + 0 = (q - 1) * N + N
  <2> DEFINE p == q - 1
  <2>1. p \in Nat /\ q + 1 - 1 = p + 1
    OBVIOUS
  <2> HIDE DEF p
  <2>2. (p + 1) * N = p * N + N
    BY <1>1, <2>1
  <2>3. (p + 1) * N \in Int
    BY <1>1, <2>1
  <2> QED
    BY <2>1, <2>2, <2>3 DEF p
<1> QED
  BY <1>1, <1>2, <1>3, <1>4 DEF Slot, N

(* The blocks of whole macroblocks come before those of the next.          *)
LEMMA SlotsInOrder ==
  ASSUME Video!MdecAssumption, NEW color \in BOOLEAN, NEW p \in Nat, NEW q \in 1 .. p,
         NEW j \in 1 .. PerMacro(color)
  PROVE  Slot(color, q, j) \in 1 .. Slot(color, p + 1, 0)
<1> DEFINE N == PerMacro(color)
<1>1. N \in Nat \ {0} /\ j \in 1 .. N
  BY SlotGives
<1> HIDE DEF N
<1>2. (q - 1) * N \in Nat /\ p * N \in Nat /\ (q - 1) * N + N <= p * N
  <2>1. q - 1 \in Nat /\ p - q \in Nat
    OBVIOUS
  <2>2. p * N = (q - 1) * N + N + (p - q) * N
    BY <1>1
  <2>3. (p - q) * N \in Nat /\ (q - 1) * N \in Nat /\ p * N \in Nat
    BY <1>1, <2>1
  <2> QED
    BY <1>1, <2>2, <2>3
<1>3. p + 1 - 1 = p
  OBVIOUS
<1>4. Slot(color, q, j) = (q - 1) * N + j /\ Slot(color, p + 1, 0) = p * N + 0
  BY <1>3 DEF Slot, N
<1> QED
  BY <1>1, <1>2, <1>4

(* Every number below is of one of those blocks. *)
LEMMA SlotOf ==
  ASSUME Video!MdecAssumption, NEW color \in BOOLEAN, NEW p \in Nat,
         NEW k \in 1 .. p * PerMacro(color)
  PROVE  LET q == ((k - 1) \div PerMacro(color)) + 1
             j == ((k - 1) % PerMacro(color)) + 1
         IN q \in 1 .. p /\ j \in 1 .. PerMacro(color) /\ Slot(color, q, j) = k
<1> DEFINE N == PerMacro(color)
           d == (k - 1) \div N
           r == (k - 1) % N
<1>1. N \in Nat \ {0}
  BY SlotGives
<1>2. p * N \in Nat /\ k \in 1 .. p * N
  <2> HIDE DEF N
  <2>1. p * N \in Nat
    BY <1>1
  <2> QED
    BY <2>1 DEF N
<1> HIDE DEF N
<1>3. k - 1 \in Nat
  BY <1>2
<1>4. d \in Int /\ r \in 0 .. N - 1 /\ k - 1 = N * d + r
  BY <1>1, <1>3
<1> HIDE DEF d, r
<1>5. d >= 0
  <2> SUFFICES ASSUME d <= -1 PROVE FALSE
    BY <1>4
  <2>1. N * d <= -N
    <3>1. N * (-1 - d) >= 0
      BY <1>1, <1>4
    <3>2. N * (-1 - d) = -N - N * d
      BY <1>1, <1>4
    <3>3. N * d \in Int
      BY <1>1, <1>4
    <3> QED
      BY <1>1, <3>1, <3>2, <3>3
  <2>2. N * d \in Int
    BY <1>1, <1>4
  <2> QED
    BY <1>1, <1>3, <1>4, <2>1, <2>2
<1>6. d < p
  <2> SUFFICES ASSUME d >= p PROVE FALSE
    BY <1>4
  <2>1. N * d >= p * N
    <3>1. N * (d - p) >= 0
      BY <1>1, <1>4
    <3>2. N * (d - p) = N * d - p * N
      BY <1>1, <1>4
    <3>3. N * d \in Int /\ p * N \in Int
      BY <1>1, <1>4
    <3> QED
      BY <3>1, <3>2, <3>3
  <2>2. N * d \in Int
    BY <1>1, <1>4
  <2> QED
    BY <1>1, <1>2, <1>4, <2>1, <2>2
<1>7. ((d + 1) - 1) * N + (r + 1) = k
  <2>1. (d + 1) - 1 = d /\ d * N = N * d /\ N * d \in Int
    BY <1>1, <1>4
  <2> QED
    BY <1>2, <1>4, <2>1
<1>8. d + 1 \in 1 .. p /\ r + 1 \in 1 .. N
  BY <1>1, <1>4, <1>5, <1>6
<1> QED
  <2>1. Slot(color, d + 1, r + 1) = k
    BY <1>7 DEF Slot, N
  <2> QED
    BY <1>8, <2>1 DEF N, d, r
-----------------------------------------------------------------------------
(* The blocks that are done, whole macroblocks and those begun, hold what  *)
(* is in the ranges R of the stream hs.                                    *)

Held(b) == {b.coefs[i] : i \in DOMAIN b.coefs}
Holds(hs, b, r, j, color) ==
  Held(b) = Video!Content(hs, r) /\ (b.table = "chroma" <=> color /\ j <= Chroma)
WholeHold(hs, color, macros, R) ==
  \A q \in 1 .. Len(macros) :
    /\ Len(macros[q]) = PerMacro(color)
    /\ \A j \in 1 .. PerMacro(color) :
         Holds(hs, macros[q][j], R[Slot(color, q, j)], j, color)
BegunHold(hs, color, n, blocks, R) ==
  \A j \in 1 .. Len(blocks) : Holds(hs, blocks[j], R[Slot(color, n + 1, j)], j, color)
Built(hs, color, macros, blocks, R) ==
  /\ R \in Seq(Extent) /\ Len(R) = Slot(color, Len(macros) + 1, Len(blocks))
  /\ Chain(hs, R, Len(R)) /\ Len(blocks) < PerMacro(color)
  /\ WholeHold(hs, color, macros, R) /\ BegunHold(hs, color, Len(macros), blocks, R)

(* One more block. *)
LEMMA BlockEnds ==
  ASSUME Video!MdecAssumption, NEW hs \in Streams, NEW color \in BOOLEAN,
         NEW macros \in Seq(Seq(Block)), NEW blocks \in Seq(Block), NEW R,
         Built(hs, color, macros, blocks, R), NEW b \in Block, NEW r,
         Link(hs, Before(R, Len(R)), r), Holds(hs, b, r, Len(blocks) + 1, color)
  PROVE  LET bs == Append(blocks, b)
             full == Len(bs) >= PerMacro(color)
         IN Built(hs, color, IF full THEN Append(macros, bs) ELSE macros,
                  IF full THEN <<>> ELSE bs, Append(R, r))
<1> DEFINE bs == Append(blocks, b)
           Q == Append(R, r)
           N == PerMacro(color)
           p == Len(macros)
           n == Len(blocks)
           K == Len(R)
<1>1. /\ R \in Seq(Extent) /\ r \in Extent /\ K = Slot(color, p + 1, n) /\ n < N
      /\ Chain(hs, R, K) /\ WholeHold(hs, color, macros, R)
      /\ BegunHold(hs, color, p, blocks, R)
  BY DEF Built, Link
<1>2. K \in Nat /\ p \in Nat /\ n \in Nat /\ N \in Nat \ {0}
  BY <1>1, SlotGives
<1>3. /\ Q \in Seq(Extent) /\ Len(Q) = K + 1 /\ Q[K + 1] = r
      /\ \A k \in 1 .. K : Q[k] = R[k]
  BY <1>1
<1>4. /\ bs \in Seq(Block) /\ Len(bs) = n + 1 /\ bs[n + 1] = b
      /\ \A j \in 1 .. n : bs[j] = blocks[j]
  OBVIOUS
<1> HIDE DEF Q, bs, N, K, p, n
<1>5. Chain(hs, Q, K + 1)
  <2> SUFFICES ASSUME NEW i \in 1 .. K + 1 PROVE Link(hs, Before(Q, i - 1), Q[i])
    BY DEF Chain
  <2>1. Before(Q, i - 1) = Before(R, i - 1)
    BY <1>2, <1>3 DEF Before
  <2>2. CASE i \in 1 .. K
    BY <1>1, <1>3, <2>1, <2>2 DEF Chain
  <2>3. CASE i = K + 1
    <3>1. K + 1 - 1 = K
      BY <1>2
    <3> QED
      BY <1>3, <2>1, <2>3, <3>1 DEF K
  <2> QED
    BY <1>2, <2>2, <2>3
<1>6. Slot(color, p + 1, n + 1) = K + 1 /\ Slot(color, p + 1, 0) \in Nat
      /\ K = Slot(color, p + 1, 0) + n
  <2>1. p + 1 \in Nat \ {0}
    BY <1>2
  <2> QED
    BY <1>1, <1>2, <2>1, SlotGives
<1>7. WholeHold(hs, color, macros, Q)
  <2> SUFFICES ASSUME NEW q \in 1 .. p
               PROVE  /\ Len(macros[q]) = N
                      /\ \A j \in 1 .. N : Holds(hs, macros[q][j], Q[Slot(color, q, j)], j, color)
    BY DEF WholeHold, p, N
  <2>1. Len(macros[q]) = N
    BY <1>1 DEF WholeHold, p, N
  <2>2. ASSUME NEW j \in 1 .. N PROVE Holds(hs, macros[q][j], Q[Slot(color, q, j)], j, color)
    <3>1. Slot(color, q, j) \in 1 .. Slot(color, p + 1, 0)
      BY <1>2, SlotsInOrder DEF N
    <3>2. Slot(color, q, j) \in 1 .. K
      BY <1>2, <1>6, <3>1
    <3>3. Holds(hs, macros[q][j], R[Slot(color, q, j)], j, color)
      BY <1>1 DEF WholeHold, p, N
    <3> QED
      BY <1>3, <3>2, <3>3
  <2> QED
    BY <2>1, <2>2
<1>8. BegunHold(hs, color, p, bs, Q)
  <2> SUFFICES ASSUME NEW j \in 1 .. n + 1
               PROVE  Holds(hs, bs[j], Q[Slot(color, p + 1, j)], j, color)
    BY <1>4 DEF BegunHold
  <2>1. CASE j = n + 1
    BY <1>3, <1>4, <1>6, <2>1 DEF n
  <2>2. CASE j # n + 1
    <3>1. j \in 1 .. n /\ j \in Nat /\ p + 1 \in Nat \ {0}
      BY <1>2, <2>2
    <3>2. Slot(color, p + 1, j) = Slot(color, p + 1, 0) + j
      BY <3>1, SlotGives
    <3>3. Slot(color, p + 1, j) \in 1 .. K
      BY <1>2, <1>6, <3>1, <3>2
    <3>4. Holds(hs, blocks[j], R[Slot(color, p + 1, j)], j, color)
      BY <1>1, <3>1 DEF BegunHold, n
    <3> QED
      BY <1>3, <1>4, <3>1, <3>3, <3>4
  <2> QED
    BY <2>1, <2>2
<1>9. CASE n + 1 >= N
  <2> DEFINE all == Append(macros, bs)
  <2>1. n + 1 = N
    BY <1>1, <1>2, <1>9
  <2>2. /\ all \in Seq(Seq(Block)) /\ Len(all) = p + 1 /\ all[p + 1] = bs
        /\ \A q \in 1 .. p : all[q] = macros[q]
    BY <1>4 DEF p
  <2>3. Slot(color, p + 1 + 1, 0) = K + 1
    <3>1. p + 1 \in Nat \ {0}
      BY <1>2
    <3>2. Slot(color, p + 1 + 1, 0) = Slot(color, p + 1, N)
      BY <3>1, SlotGives DEF N
    <3> QED
      BY <1>6, <2>1, <3>2
  <2> HIDE DEF all
  <2>4. WholeHold(hs, color, all, Q)
    <3> SUFFICES ASSUME NEW q \in 1 .. p + 1
                 PROVE  /\ Len(all[q]) = N
                        /\ \A j \in 1 .. N : Holds(hs, all[q][j], Q[Slot(color, q, j)], j, color)
      BY <2>2 DEF WholeHold, N
    <3>1. CASE q = p + 1
      BY <1>4, <1>8, <2>1, <2>2, <3>1 DEF BegunHold
    <3>2. CASE q # p + 1
      <4>1. q \in 1 .. p
        BY <1>2, <3>2
      <4> QED
        BY <1>7, <2>2, <4>1 DEF WholeHold, p, N
    <3> QED
      BY <3>1, <3>2
  <2>5. Len(<<>>) = 0 /\ BegunHold(hs, color, p + 1, <<>>, Q)
    BY DEF BegunHold
  <2>6. Built(hs, color, all, <<>>, Q)
    BY <1>2, <1>3, <1>5, <2>2, <2>3, <2>4, <2>5 DEF Built, N
  <2> QED
    BY <1>4, <1>9, <2>6 DEF all, Q, bs, N
<1>10. CASE ~(n + 1 >= N)
  <2>1. Built(hs, color, macros, bs, Q)
    BY <1>2, <1>3, <1>4, <1>5, <1>6, <1>7, <1>8, <1>10 DEF Built, N, p
  <2> QED
    BY <1>4, <1>10, <2>1 DEF Q, bs, N
<1> QED
  BY <1>9, <1>10
-----------------------------------------------------------------------------
(* The stream grows by a halfword. *)

(* A halfword is a number. *)
LEMMA HalfIsNumber ==
  ASSUME Video!MdecAssumption, NEW hs \in Streams, NEW n \in 1 .. Len(hs)
  PROVE  hs[n] \in Video!Halves /\ hs[n] \in Int
  BY DEF Streams, Video!Halves, Video!Eob, Video!MdecAssumption

(* What was in a stream stays in it, *)
LEMMA StreamGrows ==
  ASSUME NEW hs \in Streams, NEW half \in Video!Halves
  PROVE  /\ Append(hs, half) \in Streams /\ Len(hs) \in Nat
         /\ Len(Append(hs, half)) = Len(hs) + 1 /\ Append(hs, half)[Len(hs) + 1] = half
         /\ \A n \in 1 .. Len(hs) : Append(hs, half)[n] = hs[n]
  BY DEF Streams

(* at the same place of its block, *)
LEMMA PlaceStays ==
  ASSUME Video!MdecAssumption, NEW hs \in Streams, NEW half \in Video!Halves,
         NEW a \in 1 .. Len(hs), NEW n \in a .. Len(hs)
  PROVE  /\ Video!Place(Append(hs, half), a, n) = Video!Place(hs, a, n)
         /\ Video!Place(hs, a, n) \in Int
         /\ Stops(Append(hs, half), a, n) <=> Stops(hs, a, n)
<1> DEFINE ht == Append(hs, half)
<1>1. Len(hs) \in Nat /\ \A k \in 1 .. Len(hs) : ht[k] = hs[k] /\ hs[k] \in Int
  BY StreamGrows, HalfIsNumber
<1> HIDE DEF ht
<1>2. a \in Int /\ n \in Int /\ a <= n /\ n \in 1 .. Len(hs) /\ a .. n \subseteq 1 .. Len(hs)
  BY <1>1
<1>3. \A k \in a .. n : hs[k] \in Int /\ ht[k] = hs[k]
  BY <1>1, <1>2
<1>4. Video!Place(hs, a, n) = Video!Place(ht, a, n) /\ Video!Place(hs, a, n) \in Int
  BY ONLY <1>2, <1>3, PlaceAgrees
<1>5. Stops(ht, a, n) <=> Stops(hs, a, n)
  BY <1>1, <1>2, <1>4 DEF Stops
<1> QED
  BY <1>4, <1>5 DEF ht

(* in the same block, *)
LEMMA ContentStays ==
  ASSUME Video!MdecAssumption, NEW hs \in Streams, NEW half \in Video!Halves, NEW r \in Extent,
         r[1] \in 1 .. Len(hs), r[2] \in r[1] .. Len(hs)
  PROVE  Video!Content(Append(hs, half), r) = Video!Content(hs, r)
<1> DEFINE ht == Append(hs, half)
<1>1. ASSUME NEW n \in r[1] .. r[2]
      PROVE  ht[n] = hs[n] /\ Video!Place(ht, r[1], n) = Video!Place(hs, r[1], n)
  <2>1. Len(hs) \in Nat /\ r[1] \in Nat /\ r[2] \in Nat
    BY StreamGrows DEF Extent
  <2>2. n \in 1 .. Len(hs) /\ n \in r[1] .. Len(hs)
    BY <2>1
  <2> QED
    BY <2>2, StreamGrows, PlaceStays
<1> HIDE DEF ht
<1>2. {n \in r[1] .. r[2] : ht[n] # Video!Eob /\ Video!Place(ht, r[1], n) < Size}
        = {n \in r[1] .. r[2] : hs[n] # Video!Eob /\ Video!Place(hs, r[1], n) < Size}
  BY <1>1
<1>3. Video!Content(ht, r) = Video!Content(hs, r)
  BY <1>1, <1>2 DEF Video!Content
<1> QED
  BY <1>3 DEF ht

Closed(hs, R) == \A i \in 1 .. Len(R) : Stops(hs, R[i][1], R[i][2])

(* whose range is still linked to the one before it. *)
LEMMA LinkStays ==
  ASSUME Video!MdecAssumption, NEW hs \in Streams, NEW half \in Video!Halves, NEW e \in Nat,
         NEW r, Link(hs, e, r), Stops(hs, r[1], r[2])
  PROVE  Link(Append(hs, half), e, r) /\ Stops(Append(hs, half), r[1], r[2])
<1> DEFINE ht == Append(hs, half)
<1>1. /\ Len(hs) \in Nat /\ r \in Extent /\ r[1] \in e + 1 .. Len(hs) /\ r[2] \in r[1] .. Len(hs)
      /\ r[1] \in 1 .. Len(hs)
  BY StreamGrows DEF Link
<1>2. Len(ht) = Len(hs) + 1 /\ \A n \in 1 .. Len(hs) : ht[n] = hs[n]
  BY StreamGrows
<1>3. ASSUME NEW n \in r[1] .. Len(hs) PROVE Stops(ht, r[1], n) <=> Stops(hs, r[1], n)
  BY <1>1, PlaceStays
<1> HIDE DEF ht
<1>4. r[1] \in e + 1 .. Len(ht) /\ r[2] \in r[1] .. Len(ht)
  BY <1>1, <1>2
<1>5. ht[r[1]] # Video!Eob /\ Padding(ht, e + 1, r[1] - 1)
  <2>1. ASSUME NEW j \in e + 1 .. r[1] - 1 PROVE ht[j] = Video!Eob
    <3>1. j \in 1 .. Len(hs)
      BY <1>1
    <3> QED
      BY <1>2, <3>1 DEF Link, Padding
  <2> QED
    BY <1>1, <1>2, <2>1 DEF Link, Padding
<1>6. Goes(ht, r[1], r[1], r[2] - 1)
  <2> SUFFICES ASSUME NEW j \in r[1] .. r[2] - 1 PROVE ~Stops(ht, r[1], j)
    BY DEF Goes
  <2>1. j \in r[1] .. Len(hs)
    BY <1>1
  <2> QED
    BY <1>3, <2>1 DEF Link, Goes
<1>7. Stops(ht, r[1], r[2])
  BY <1>1, <1>3
<1> QED
  BY <1>1, <1>4, <1>5, <1>6, <1>7 DEF Link, ht

(* What was built of a stream is built of a longer one. *)
LEMMA BuiltGrows ==
  ASSUME Video!MdecAssumption, NEW hs \in Streams, NEW half \in Video!Halves,
         NEW color \in BOOLEAN, NEW macros \in Seq(Seq(Block)),
         NEW blocks \in Seq(Block), NEW R,
         Built(hs, color, macros, blocks, R), Closed(hs, R)
  PROVE  Built(Append(hs, half), color, macros, blocks, R) /\ Closed(Append(hs, half), R)
<1> DEFINE ht == Append(hs, half)
           p == Len(macros)
           n == Len(blocks)
<1>1. /\ R \in Seq(Extent) /\ Len(R) = Slot(color, p + 1, n) /\ n < PerMacro(color)
      /\ Chain(hs, R, Len(R)) /\ WholeHold(hs, color, macros, R)
      /\ BegunHold(hs, color, p, blocks, R)
  BY DEF Built
<1>2. Len(R) \in Nat /\ p \in Nat /\ n \in Nat
  BY <1>1
<1>3. ASSUME NEW i \in 1 .. Len(R)
      PROVE  /\ Link(ht, Before(R, i - 1), R[i]) /\ Stops(ht, R[i][1], R[i][2])
             /\ Video!Content(ht, R[i]) = Video!Content(hs, R[i])
  <2>1. Before(R, i - 1) \in Nat
    <3>1. CASE i = 1
      BY <3>1 DEF Before
    <3>2. CASE i # 1
      <4>1. i - 1 \in 1 .. Len(R) /\ i - 1 # 0
        BY <1>2, <3>2
      <4>2. R[i - 1] \in Extent
        BY <1>1, <4>1
      <4> QED
        BY <4>1, <4>2 DEF Before, Extent
    <3> QED
      BY <3>1, <3>2
  <2>2. Link(hs, Before(R, i - 1), R[i]) /\ Stops(hs, R[i][1], R[i][2])
    BY <1>1 DEF Chain, Closed
  <2> DEFINE e == Before(R, i - 1)
             r == R[i]
  <2>3. e \in Nat /\ Link(hs, e, r) /\ Stops(hs, r[1], r[2])
    BY <2>1, <2>2
  <2> HIDE DEF e, r, ht
  <2>4. Link(ht, e, r) /\ Stops(ht, r[1], r[2])
    BY <2>3, LinkStays DEF ht
  <2>5. r \in Extent /\ r[1] \in 1 .. Len(hs) /\ r[2] \in r[1] .. Len(hs)
    <3>1. Len(hs) \in Nat
      BY StreamGrows
    <3> QED
      BY <2>3, <3>1 DEF Link
  <2>6. Video!Content(ht, r) = Video!Content(hs, r)
    BY <2>5, ContentStays DEF ht
  <2> QED
    BY <2>4, <2>6 DEF e, r
<1> HIDE DEF ht, p, n
<1>4. ASSUME NEW i \in 1 .. Len(R), NEW b, NEW j, Holds(hs, b, R[i], j, color)
      PROVE  Holds(ht, b, R[i], j, color)
  BY <1>3, <1>4 DEF Holds
<1>5. p + 1 \in Nat \ {0} /\ Slot(color, p + 1, 0) \in Nat /\ Len(R) = Slot(color, p + 1, 0) + n
  <2>1. p + 1 \in Nat \ {0} /\ 0 \in Nat
    BY <1>2
  <2> QED
    BY <1>1, <1>2, <2>1, SlotGives
<1>6. WholeHold(ht, color, macros, R)
  <2> SUFFICES ASSUME NEW q \in 1 .. p, NEW j \in 1 .. PerMacro(color)
               PROVE  Holds(ht, macros[q][j], R[Slot(color, q, j)], j, color)
    BY <1>1 DEF WholeHold, p
  <2>1. Slot(color, q, j) \in 1 .. Slot(color, p + 1, 0)
    BY <1>2, SlotsInOrder
  <2>2. Slot(color, q, j) \in 1 .. Len(R)
    BY <1>2, <1>5, <2>1
  <2>3. Holds(hs, macros[q][j], R[Slot(color, q, j)], j, color)
    BY <1>1 DEF WholeHold, p
  <2> QED
    BY <1>4, <2>2, <2>3
<1>7. BegunHold(ht, color, p, blocks, R)
  <2> SUFFICES ASSUME NEW j \in 1 .. n PROVE Holds(ht, blocks[j], R[Slot(color, p + 1, j)], j, color)
    BY DEF BegunHold, n
  <2>1. Slot(color, p + 1, j) = Slot(color, p + 1, 0) + j
    <3>1. j \in Nat
      BY <1>2
    <3> QED
      BY <1>5, <3>1, SlotGives
  <2>2. Slot(color, p + 1, j) \in 1 .. Len(R)
    BY <1>2, <1>5, <2>1
  <2>3. Holds(hs, blocks[j], R[Slot(color, p + 1, j)], j, color)
    BY <1>1 DEF BegunHold, n
  <2> QED
    BY <1>4, <2>2, <2>3
<1>8. Chain(ht, R, Len(R)) /\ Closed(ht, R)
  BY <1>3 DEF Chain, Closed
<1> QED
  BY <1>1, <1>6, <1>7, <1>8 DEF Built, ht, p, n
-----------------------------------------------------------------------------
(* The decoder in the middle of a stream. *)

(* As Decoder, but the index may be one past the last place.               *)
Gathering ==
  [command : {"idle", "decode", "upload"}, remaining : Int, color : BOOLEAN,
   in_block : BOOLEAN, idx : Int, coefs : Seq(Pair), blocks : Seq(Block),
   table : {"luma", "chroma"}]
Gathered == [m : Gathering, made : Seq(Seq(Block))]

(* A block begun at a, behind the place e, has taken all of hs since.      *)
BegunAt(hs, m, e, a) ==
  /\ a \in e + 1 .. Len(hs) /\ hs[a] # Video!Eob /\ Padding(hs, e + 1, a - 1)
  /\ Goes(hs, a, a, Len(hs)) /\ m.idx = Video!Place(hs, a, Len(hs)) + 1
  /\ Held(m) = Video!Content(hs, <<a, Len(hs)>>) /\ m.table = Video!Table(m)
Goings(hs, m, e) ==
  IF m.in_block THEN \E a \in e + 1 .. Len(hs) : BegunAt(hs, m, e, a)
  ELSE Padding(hs, e + 1, Len(hs))
Traced(hs, m, macros) ==
  \E R \in Seq(Extent) :
    Built(hs, m.color, macros, m.blocks, R) /\ Closed(hs, R) /\ Goings(hs, m, Before(R, Len(R)))

(* What end_block does to the blocks and macroblocks. *)
LEMMA EndBlockGives ==
  ASSUME NEW s \in Gathered
  PROVE  LET b == [table |-> s.m.table, coefs |-> s.m.coefs]
             bs == Append(s.m.blocks, b)
             full == Len(bs) >= PerMacro(s.m.color)
             t == Video!EndBlock(s)
         IN /\ t.m.color = s.m.color /\ ~t.m.in_block
            /\ t.m.blocks = IF full THEN <<>> ELSE bs
            /\ t.made = IF full THEN Append(s.made, bs) ELSE s.made
            /\ t \in Gathered /\ b \in Block
<1> DEFINE b == [table |-> s.m.table, coefs |-> s.m.coefs]
           bs == Append(s.m.blocks, b)
           full == Len(bs) >= PerMacro(s.m.color)
           left == IF full THEN <<>> ELSE bs
           made == IF full THEN Append(s.made, bs) ELSE s.made
           m == [s.m EXCEPT !.in_block = FALSE, !.idx = 0, !.coefs = <<>>, !.table = "luma",
                            !.blocks = left]
<1>1. s.m \in Gathering /\ s.made \in Seq(Seq(Block))
  BY DEF Gathered
<1>2. b \in Block /\ s.m.blocks \in Seq(Block)
  BY <1>1 DEF Gathering, Block
<1>3. bs \in Seq(Block) /\ <<>> \in Seq(Block) /\ <<>> \in Seq(Pair)
  BY <1>2
<1>4. left \in Seq(Block) /\ made \in Seq(Seq(Block))
  BY <1>1, <1>3
<1>5. Video!EndBlock(s) = [m |-> m, made |-> made]
  BY DEF Video!EndBlock, Video!Needed, PerMacro
<1> HIDE DEF left, made
<1>6. m \in Gathering /\ m.color = s.m.color /\ m.blocks = left
  <2>1. /\ m.command = s.m.command /\ m.remaining = s.m.remaining /\ m.color = s.m.color
        /\ m.idx = 0 /\ m.coefs = <<>> /\ m.blocks = left /\ m.table = "luma"
    BY <1>1 DEF Gathering
  <2>2. m.in_block \in BOOLEAN
    BY <1>1 DEF Gathering
  <2>3. m = [f \in {"command", "remaining", "color", "in_block", "idx", "coefs", "blocks", "table"}
               |-> m[f]]
    BY <1>1 DEF Gathering
  <2>4. /\ s.m.command \in {"idle", "decode", "upload"} /\ s.m.remaining \in Int
        /\ s.m.color \in BOOLEAN /\ 0 \in Int /\ "luma" \in {"luma", "chroma"}
    BY <1>1 DEF Gathering
  <2> HIDE DEF m
  <2> QED
    BY <2>1, <2>2, <2>3, <2>4, <1>3, <1>4 DEF Gathering
<1>6b. ~m.in_block
  BY <1>1 DEF Gathering
<1> HIDE DEF m
<1>7. Video!EndBlock(s) \in Gathered
  BY <1>4, <1>5, <1>6 DEF Gathered
<1>8. Video!EndBlock(s).m = m /\ Video!EndBlock(s).made = made
  BY <1>5
<1> QED
  BY <1>2, <1>6, <1>6b, <1>7, <1>8 DEF left, made

(* The block that ends is the range r. *)
LEMMA BlockIsDone ==
  ASSUME Video!MdecAssumption, NEW hs \in Streams, NEW s \in Gathered,
         NEW macros \in Seq(Seq(Block)), NEW R,
         Built(hs, s.m.color, macros \o s.made, s.m.blocks, R),
         NEW r, Link(hs, Before(R, Len(R)), r), Held(s.m) = Video!Content(hs, r),
         s.m.table = Video!Table(s.m)
  PROVE  LET t == Video!EndBlock(s) IN
         /\ Built(hs, t.m.color, macros \o t.made, t.m.blocks, Append(R, r))
         /\ ~t.m.in_block
<1> DEFINE b == [table |-> s.m.table, coefs |-> s.m.coefs]
           bs == Append(s.m.blocks, b)
           full == Len(bs) >= PerMacro(s.m.color)
           t == Video!EndBlock(s)
           color == s.m.color
           all == macros \o s.made
<1>1. /\ t.m.color = color /\ ~t.m.in_block
      /\ t.m.blocks = IF full THEN <<>> ELSE bs
      /\ t.made = IF full THEN Append(s.made, bs) ELSE s.made
      /\ t \in Gathered /\ b \in Block
  BY EndBlockGives
<1>2. /\ s.m \in Gathering /\ s.made \in Seq(Seq(Block)) /\ color \in BOOLEAN
      /\ s.m.blocks \in Seq(Block) /\ bs \in Seq(Block)
  <2>1. s.m \in Gathering /\ s.made \in Seq(Seq(Block))
    BY DEF Gathered
  <2>2. s.m.blocks \in Seq(Block) /\ color \in BOOLEAN
    BY <2>1 DEF Gathering
  <2> QED
    BY <1>1, <2>1, <2>2
<1>3. Holds(hs, b, r, Len(s.m.blocks) + 1, color)
  <2>1. Held(b) = Held(s.m)
    BY DEF Held
  <2>2. b.table = s.m.table
    OBVIOUS
  <2>3. Len(s.m.blocks) \in Nat /\ Chroma \in Int
    BY <1>2 DEF Video!MdecAssumption
  <2>4. b.table = "chroma" <=> color /\ Len(s.m.blocks) + 1 <= Chroma
    BY <1>2, <2>2, <2>3 DEF Video!Table
  <2> QED
    BY <2>1, <2>4 DEF Holds
<1>4. all \in Seq(Seq(Block))
  BY <1>2
<1>5. macros \o t.made = IF full THEN Append(all, bs) ELSE all
  <2>1. macros \o Append(s.made, bs) = Append(macros \o s.made, bs)
    <3> DEFINE made == s.made
    <3>1. /\ macros \in Seq(Seq(Block)) /\ made \in Seq(Seq(Block)) /\ bs \in Seq(Block)
          /\ <<bs>> \in Seq(Seq(Block)) /\ macros \o made \in Seq(Seq(Block))
      BY <1>2
    <3> HIDE DEF made, bs
    <3>2. Append(made, bs) = made \o <<bs>> /\ Append(macros \o made, bs) = (macros \o made) \o <<bs>>
      BY <3>1, AppendIsConcat
    <3>3. (macros \o made) \o <<bs>> = macros \o (made \o <<bs>>)
      <4> DEFINE one == <<bs>>
                 Macros == Seq(Block)
      <4>1. macros \in Seq(Macros) /\ made \in Seq(Macros) /\ one \in Seq(Macros)
        BY ONLY <3>1
      <4> HIDE DEF one, Macros
      <4>2. (macros \o made) \o one = macros \o (made \o one)
        BY ONLY <4>1, ConcatAssociative
      <4> QED
        BY ONLY <4>2 DEF one
    <3> QED
      BY <3>2, <3>3 DEF made
  <2> QED
    BY <1>1, <2>1
<1> DEFINE blocks == s.m.blocks
<1>6. /\ Built(hs, color, all, blocks, R) /\ blocks \in Seq(Block) /\ b \in Block
      /\ Holds(hs, b, r, Len(blocks) + 1, color) /\ color \in BOOLEAN
  BY <1>1, <1>2, <1>3
<1> HIDE DEF b, t, color, all, blocks
<1>7. LET cs == Append(blocks, b)
          whole == Len(cs) >= PerMacro(color)
      IN Built(hs, color, IF whole THEN Append(all, cs) ELSE all,
               IF whole THEN <<>> ELSE cs, Append(R, r))
  BY <1>4, <1>6, BlockEnds
<1> QED
  BY <1>1, <1>5, <1>7 DEF blocks, color, t, b

(* A halfword more of a block begun at a, behind the place e.              *)
Grown(hs, half, m, e, a) ==
  LET ht == Append(hs, half)
      n == Len(hs) + 1
      at == m.idx + half
  IN /\ a \in e + 1 .. n - 1 /\ ht[a] # Video!Eob /\ Padding(ht, e + 1, a - 1)
     /\ Goes(ht, a, a, n - 1) /\ <<a, n>> \in Extent
     /\ half # Video!Eob => Video!Place(ht, a, n) = at
     /\ Video!Content(ht, <<a, n>>) =
          IF half # Video!Eob /\ at < Size THEN Held(m) \cup {<<at, n>>} ELSE Held(m)

(* A block under way that the next halfword does not end. *)
LEMMA BegunGrows ==
  ASSUME Video!MdecAssumption, NEW hs \in Streams, NEW half \in Video!Halves,
         NEW m \in Gathering, NEW e \in Nat, NEW a, BegunAt(hs, m, e, a)
  PROVE  Grown(hs, half, m, e, a)
<1> DEFINE ht == Append(hs, half)
           l == Len(hs)
           n == l + 1
           at == m.idx + half
<1>1. /\ l \in Nat /\ ht \in Streams /\ Len(ht) = n /\ ht[n] = half
      /\ \A k \in 1 .. l : ht[k] = hs[k]
  BY StreamGrows
<1>2. /\ a \in e + 1 .. l /\ a \in 1 .. l /\ hs[a] # Video!Eob /\ Padding(hs, e + 1, a - 1)
      /\ Goes(hs, a, a, l) /\ m.idx = Video!Place(hs, a, l) + 1
      /\ Held(m) = Video!Content(hs, <<a, l>>)
  BY <1>1 DEF BegunAt
<1>3. ASSUME NEW k \in a .. l
      PROVE  /\ Video!Place(ht, a, k) = Video!Place(hs, a, k) /\ Video!Place(hs, a, k) \in Int
             /\ Stops(ht, a, k) <=> Stops(hs, a, k)
  BY <1>2, PlaceStays
<1>4. Video!Content(ht, <<a, l>>) = Video!Content(hs, <<a, l>>)
  <2> DEFINE r == <<a, l>>
  <2>1. r \in Extent /\ r[1] = a /\ r[2] = l
    BY <1>1, <1>2 DEF Extent
  <2>2. r[1] \in 1 .. Len(hs) /\ r[2] \in r[1] .. Len(hs)
    BY <1>1, <1>2, <2>1
  <2> HIDE DEF r
  <2>3. Video!Content(ht, r) = Video!Content(hs, r)
    BY <2>1, <2>2, ContentStays
  <2> QED
    BY <2>3 DEF r
<1>5. half # Video!Eob => half \in Nat
  BY DEF Video!Halves
<1>6. Video!Place(ht, a, n) = Video!Place(ht, a, l) + 1 + half
  <2>1. \A k \in a .. l + 1 : ht[k] \in Int
    <3>1. Len(ht) = n
      BY <1>1
    <3> HIDE DEF ht
    <3>2. ASSUME NEW k \in a .. l + 1 PROVE ht[k] \in Int
      <4>1. k \in 1 .. Len(ht)
        BY <1>1, <1>2, <3>1
      <4> QED
        BY <1>1, <4>1, HalfIsNumber
    <3> QED
      BY <3>2
  <2>2. a \in Int /\ l \in Int /\ a <= l
    BY <1>1, <1>2
  <2>3. ht[l + 1] = half
    BY <1>1
  <2> HIDE DEF ht, l
  <2>4. Video!Place(ht, a, l + 1) = Video!Place(ht, a, l) + 1 + ht[l + 1]
    BY ONLY <2>1, <2>2, PlaceNext
  <2> QED
    BY <2>3, <2>4
<1> HIDE DEF ht, l
<1>7. Video!Place(ht, a, n) = at
  <2>1. l \in a .. l /\ half \in Int
    BY <1>1, <1>2 DEF Video!Halves, Video!Eob, Video!MdecAssumption
  <2>2. Video!Place(ht, a, l) = Video!Place(hs, a, l) /\ Video!Place(hs, a, l) \in Int
    BY <1>3, <2>1
  <2> QED
    BY <1>2, <1>6, <2>1, <2>2
<1>8. Padding(ht, e + 1, a - 1)
  <2>1. ASSUME NEW j \in e + 1 .. a - 1 PROVE ht[j] = Video!Eob
    <3>1. j \in 1 .. l
      BY <1>1, <1>2
    <3> QED
      BY <1>1, <1>2, <3>1 DEF Padding
  <2> QED
    BY <2>1 DEF Padding
<1>9. Goes(ht, a, a, l)
  BY <1>2, <1>3 DEF Goes
<1>10. Video!Content(ht, <<a, n>>) =
         IF half # Video!Eob /\ at < Size THEN Held(m) \cup {<<at, n>>} ELSE Held(m)
  <2> DEFINE P(k) == Video!Place(ht, a, k)
             Of(S) == {<<P(k), k>> : k \in S}
             Sized(u) == {k \in a .. u : ht[k] # Video!Eob /\ P(k) < Size}
  <2>1. Video!Content(ht, <<a, n>>) = Of(Sized(n)) /\ Video!Content(ht, <<a, l>>) = Of(Sized(l))
    BY DEF Video!Content
  <2>2. P(n) = at /\ ht[n] = half
    BY <1>1, <1>7
  <2> HIDE DEF P
  <2>3. a .. n = (a .. l) \cup {n}
    BY <1>1, <1>2
  <2>4. Sized(n) = IF half # Video!Eob /\ at < Size THEN Sized(l) \cup {n} ELSE Sized(l)
    <3> DEFINE Q(k) == ht[k] # Video!Eob /\ P(k) < Size
    <3>1. Q(n) <=> half # Video!Eob /\ at < Size
      BY <2>2
    <3>2. Sized(n) = {k \in (a .. l) \cup {n} : Q(k)} /\ Sized(l) = {k \in a .. l : Q(k)}
      BY <2>3
    <3> HIDE DEF Q, Sized, at, n
    <3> QED
      BY <3>1, <3>2
  <2>5. Of(Sized(l) \cup {n}) = Of(Sized(l)) \cup {<<at, n>>}
    <3> HIDE DEF Sized, at, n
    <3> QED
      BY <2>2
  <2> HIDE DEF Of, Sized, at, n
  <2> QED
    BY <1>2, <1>4, <2>1, <2>4, <2>5
<1>11. <<a, n>> \in Extent /\ a \in e + 1 .. n - 1 /\ n - 1 = l
  BY <1>1, <1>2 DEF Extent
<1>12. ht[a] # Video!Eob
  BY <1>1, <1>2
<1> QED
  BY <1>7, <1>8, <1>9, <1>10, <1>11, <1>12 DEF ht, l, Grown

(* A block that ends with the last halfword of hs. *)
LEMMA TracedAfter ==
  ASSUME Video!MdecAssumption, NEW hs \in Streams, NEW s \in Gathered,
         NEW macros \in Seq(Seq(Block)), NEW R,
         Built(hs, s.m.color, macros \o s.made, s.m.blocks, R), Closed(hs, R),
         NEW a, a \in Before(R, Len(R)) + 1 .. Len(hs), <<a, Len(hs)>> \in Extent,
         hs[a] # Video!Eob, Padding(hs, Before(R, Len(R)) + 1, a - 1),
         Goes(hs, a, a, Len(hs) - 1), Stops(hs, a, Len(hs)),
         Held(s.m) = Video!Content(hs, <<a, Len(hs)>>), s.m.table = Video!Table(s.m)
  PROVE  Traced(hs, Video!EndBlock(s).m, macros \o Video!EndBlock(s).made)
<1> DEFINE e == Before(R, Len(R))
           n == Len(hs)
           r == <<a, n>>
           Q == Append(R, r)
           t == Video!EndBlock(s)
<1>1. n \in Nat /\ R \in Seq(Extent) /\ Len(R) \in Nat
  BY DEF Streams, Built
<1>2. r \in Extent /\ r[1] = a /\ r[2] = n /\ a \in Nat /\ a <= n
  BY <1>1 DEF Extent
<1>3. Link(hs, e, r)
  <2>1. r[1] \in e + 1 .. Len(hs) /\ r[2] \in r[1] .. Len(hs)
    BY <1>1, <1>2
  <2> HIDE DEF e, r
  <2> QED
    BY <1>1, <1>2, <2>1 DEF Link, e
<1>4. Held(s.m) = Video!Content(hs, r)
  OBVIOUS
<1> HIDE DEF r
<1>5. Built(hs, t.m.color, macros \o t.made, t.m.blocks, Q) /\ ~t.m.in_block
  BY <1>3, <1>4, BlockIsDone
<1>6. Q \in Seq(Extent) /\ Len(Q) = Len(R) + 1 /\ Q[Len(R) + 1] = r
      /\ \A i \in 1 .. Len(R) : Q[i] = R[i]
  BY <1>1, <1>2
<1> HIDE DEF Q, t
<1>7. Closed(hs, Q)
  <2>1. ASSUME NEW i \in 1 .. Len(Q) PROVE Stops(hs, Q[i][1], Q[i][2])
    <3>1. CASE i = Len(R) + 1
      BY <1>2, <1>6, <3>1
    <3>2. CASE i # Len(R) + 1
      <4>1. i \in 1 .. Len(R)
        BY <1>1, <1>6, <3>2
      <4> QED
        BY <1>6, <4>1 DEF Closed
    <3> QED
      BY <3>1, <3>2
  <2> QED
    BY <2>1 DEF Closed
<1>8. Before(Q, Len(Q)) = n
  BY <1>1, <1>2, <1>6 DEF Before
<1>9. Padding(hs, n + 1, n)
  BY <1>1 DEF Padding
<1>10. Goings(hs, t.m, Before(Q, Len(Q)))
  BY <1>5, <1>8, <1>9 DEF Goings
<1> QED
  BY <1>5, <1>6, <1>7, <1>10 DEF Traced, t

(* A decoder has the fields that gather. *)
LEMMA StateIsGathered ==
  ASSUME NEW s \in State
  PROVE  s \in Gathered /\ s.m \in Decoder /\ s.m \in Gathering
<1>1. s.m \in Decoder /\ s.made \in Seq(Seq(Block)) /\ s = [m |-> s.m, made |-> s.made]
  BY DEF State
<1>2. 0 .. Size - 1 \subseteq Int
  OBVIOUS
<1>3. s.m \in Gathering
  BY <1>1, <1>2 DEF Decoder, Gathering
<1> QED
  BY <1>1, <1>3 DEF Gathered

(* What the first halfword of a block leaves, *)
LEMMA StartGives ==
  ASSUME Video!MdecAssumption, NEW s \in State, NEW n \in Int
  PROVE  LET t == Video!StartBlock(s, n) IN
    /\ t.m.color = s.m.color /\ t.m.blocks = s.m.blocks /\ t.made = s.made
    /\ t.m.in_block /\ t.m.idx = 1 /\ Held(t.m) = {<<0, n>>} /\ t.m.table = Video!Table(t.m)
<1> DEFINE coefs == <<<<0, n>>>>
           m == [s.m EXCEPT !.in_block = TRUE, !.idx = 1, !.coefs = coefs,
                            !.table = Video!Table(s.m)]
<1>1. s.m \in Decoder /\ s.made \in Seq(Seq(Block)) /\ s = [m |-> s.m, made |-> s.made]
  BY DEF State
<1>2. Video!StartBlock(s, n) = [s EXCEPT !.m = m]
  BY <1>1 DEF Video!StartBlock
<1>3. {coefs[i] : i \in DOMAIN coefs} = {<<0, n>>}
  BY DOMAIN coefs = {1}
<1> HIDE DEF coefs
<1>4. /\ m.color = s.m.color /\ m.blocks = s.m.blocks /\ m.idx = 1 /\ m.coefs = coefs
      /\ m.table = Video!Table(s.m)
  BY <1>1 DEF Decoder
<1>5. m.in_block
  BY <1>1 DEF Decoder
<1> HIDE DEF m
<1>6. Video!StartBlock(s, n).m = m /\ Video!StartBlock(s, n).made = s.made
  BY <1>1, <1>2
<1>7. Video!Table(m) = Video!Table(s.m)
  BY <1>4 DEF Video!Table
<1> QED
  BY <1>3, <1>4, <1>5, <1>6, <1>7 DEF Held

(* A coefficient put into the block. *)
Put(s, at, n) == [s EXCEPT !.m.coefs = Append(@, <<at, n>>), !.m.idx = at + 1]

(* and what a further coefficient leaves. *)
LEMMA PutGathers ==
  ASSUME NEW s \in Gathered, NEW at \in Int, NEW n \in Int
  PROVE  LET t == Put(s, at, n) IN
    /\ t \in Gathered /\ t.m.color = s.m.color /\ t.m.blocks = s.m.blocks /\ t.made = s.made
    /\ t.m.in_block = s.m.in_block /\ t.m.idx = at + 1 /\ Held(t.m) = Held(s.m) \cup {<<at, n>>}
    /\ t.m.table = s.m.table
<1> DEFINE coefs == Append(s.m.coefs, <<at, n>>)
           m == [s.m EXCEPT !.coefs = coefs, !.idx = at + 1]
<1>1. s.m \in Gathering /\ s.made \in Seq(Seq(Block)) /\ s = [m |-> s.m, made |-> s.made]
  BY DEF Gathered
<1>2. Put(s, at, n) = [s EXCEPT !.m = m]
  BY <1>1 DEF Put, Gathering
<1>3. coefs \in Seq(Pair) /\ {coefs[i] : i \in DOMAIN coefs} = Held(s.m) \cup {<<at, n>>}
  <2> DEFINE old == s.m.coefs
             new == <<at, n>>
  <2>1. old \in Seq(Pair) /\ new \in Pair
    BY <1>1 DEF Gathering, Pair
  <2> HIDE DEF old, new
  <2>2. /\ Append(old, new) \in Seq(Pair) /\ Len(old) \in Nat
        /\ DOMAIN Append(old, new) = 1 .. Len(old) + 1 /\ DOMAIN old = 1 .. Len(old)
        /\ Append(old, new)[Len(old) + 1] = new
        /\ \A i \in 1 .. Len(old) : Append(old, new)[i] = old[i]
    BY <2>1
  <2>3. 1 .. Len(old) + 1 = (1 .. Len(old)) \cup {Len(old) + 1}
    BY <2>2
  <2>4. {Append(old, new)[i] : i \in DOMAIN Append(old, new)}
          = {old[i] : i \in DOMAIN old} \cup {new}
    BY <2>2, <2>3
  <2> QED
    BY <2>2, <2>4 DEF old, new, Held
<1> HIDE DEF coefs
<1>4. /\ m.color = s.m.color /\ m.blocks = s.m.blocks /\ m.idx = at + 1 /\ m.coefs = coefs
      /\ m.table = s.m.table
  BY <1>1 DEF Gathering
<1>4b. m \in Gathering
  <2>1. /\ m.command = s.m.command /\ m.remaining = s.m.remaining
        /\ m = [f \in {"command", "remaining", "color", "in_block", "idx", "coefs", "blocks", "table"}
                  |-> m[f]]
    BY <1>1 DEF Gathering
  <2>2. m.in_block \in BOOLEAN
    BY <1>1 DEF Gathering
  <2>3. /\ s.m.command \in {"idle", "decode", "upload"} /\ s.m.remaining \in Int
        /\ s.m.color \in BOOLEAN /\ at + 1 \in Int /\ s.m.blocks \in Seq(Block)
        /\ s.m.table \in {"luma", "chroma"}
    BY <1>1 DEF Gathering
  <2> HIDE DEF m
  <2> QED
    BY <1>3, <1>4, <2>1, <2>2, <2>3 DEF Gathering
<1>4c. m.in_block = s.m.in_block
  BY <1>1 DEF Gathering
<1> HIDE DEF m
<1>5. Put(s, at, n).m = m /\ Put(s, at, n).made = s.made /\ Put(s, at, n) \in Gathered
  BY <1>1, <1>2, <1>4b DEF Gathered
<1> QED
  BY <1>3, <1>4, <1>4c, <1>5 DEF Held

(* One more halfword of the stream is traced, whatever it is. *)
LEMMA FeedTraces ==
  ASSUME Video!MdecAssumption, NEW hs \in Streams, NEW s \in State,
         NEW macros \in Seq(Seq(Block)), NEW half \in Video!Halves,
         Traced(hs, s.m, macros \o s.made)
  PROVE  LET t == Video!Feed(s, half, Len(hs) + 1)
         IN Traced(Append(hs, half), t.m, macros \o t.made)
<1> DEFINE ht == Append(hs, half)
           l == Len(hs)
           n == l + 1
           t == Video!Feed(s, half, n)
           all == macros \o s.made
           at == s.m.idx + half
<1>1. /\ l \in Nat /\ ht \in Streams /\ Len(ht) = n /\ ht[n] = half
      /\ \A k \in 1 .. l : ht[k] = hs[k]
  BY StreamGrows
<1> SUFFICES Traced(ht, t.m, macros \o t.made)
  OBVIOUS
<1>2. PICK R \in Seq(Extent) :
        /\ Built(hs, s.m.color, all, s.m.blocks, R) /\ Closed(hs, R)
        /\ Goings(hs, s.m, Before(R, Len(R)))
  BY DEF Traced
<1>3. /\ s \in Gathered /\ s.m \in Decoder /\ s.m \in Gathering /\ s.m.in_block \in BOOLEAN
      /\ s.m.color \in BOOLEAN /\ s.m.blocks \in Seq(Block) /\ s.m.idx \in Int
      /\ s.made \in Seq(Seq(Block))
  BY StateIsGathered DEF Decoder, Gathered
<1>4. Built(ht, s.m.color, all, s.m.blocks, R) /\ Closed(ht, R)
  <2>1. all \in Seq(Seq(Block))
    BY <1>3
  <2> HIDE DEF all, ht
  <2> QED
    BY <1>2, <1>3, <2>1, BuiltGrows DEF ht
<1> DEFINE e == Before(R, Len(R))
<1>5. e \in Nat
  <2>1. Len(R) \in Nat /\ Len(R) # 0 => R[Len(R)] \in Extent
    BY <1>2
  <2> QED
    BY <2>1 DEF Before, Extent
<1>6. half # Video!Eob => half \in Nat
  BY DEF Video!Halves
<1>7. CASE ~s.m.in_block /\ half = Video!Eob
  <2>1. t = s
    BY <1>7 DEF Video!Feed
  <2>2. Padding(ht, e + 1, n)
    <3>1. Padding(hs, e + 1, l)
      BY <1>2, <1>7 DEF Goings
    <3> HIDE DEF ht, l, e
    <3>2. ASSUME NEW j \in e + 1 .. n PROVE ht[j] = Video!Eob
      <4>1. j = n \/ (j \in e + 1 .. l /\ j \in 1 .. l)
        BY <1>1, <1>5
      <4> QED
        BY <1>1, <1>7, <3>1, <4>1 DEF Padding
    <3> QED
      BY <3>2 DEF Padding
  <2>3. Goings(ht, s.m, e)
    BY <1>1, <1>7, <2>2 DEF Goings
  <2> HIDE DEF ht, t, e
  <2> QED
    BY <1>2, <1>4, <2>1, <2>3 DEF Traced, e
<1>8. CASE ~s.m.in_block /\ half # Video!Eob
  <2>1. t = Video!StartBlock(s, n)
    BY <1>8 DEF Video!Feed
  <2>2. /\ t.m.color = s.m.color /\ t.m.blocks = s.m.blocks /\ t.made = s.made
        /\ t.m.in_block /\ t.m.idx = 1 /\ Held(t.m) = {<<0, n>>} /\ t.m.table = Video!Table(t.m)
    BY <1>1, <2>1, StartGives
  <2> HIDE DEF ht, t, l
  <2>3. Padding(ht, e + 1, n - 1)
    <3>1. Padding(hs, e + 1, l)
      BY <1>2, <1>8 DEF Goings, l
    <3> HIDE DEF e
    <3>2. ASSUME NEW j \in e + 1 .. n - 1 PROVE ht[j] = Video!Eob
      <4>1. j \in e + 1 .. l /\ j \in 1 .. l
        BY <1>1, <1>5
      <4> QED
        BY <1>1, <3>1, <4>1 DEF Padding
    <3> QED
      BY <3>2 DEF Padding
  <2>4. e <= l
    <3>1. CASE Len(R) = 0
      BY <1>1, <3>1 DEF Before
    <3>2. CASE Len(R) # 0
      <4>1. Len(R) \in Nat
        BY <1>2
      <4>2. Len(R) \in 1 .. Len(R)
        BY <3>2, <4>1
      <4>3. Link(hs, Before(R, Len(R) - 1), R[Len(R)])
        BY <1>2, <4>2 DEF Built, Chain
      <4>4. R[Len(R)] \in Extent /\ R[Len(R)][2] \in R[Len(R)][1] .. l
        BY <4>3 DEF Link, l
      <4> QED
        BY <1>1, <3>2, <4>4 DEF Before, Extent
    <3> QED
      BY <3>1, <3>2
  <2>5. n \in e + 1 .. Len(ht) /\ n \in Int
    BY <1>1, <1>5, <2>4
  <2>6. Video!Place(ht, n, n) = 0
    BY <2>5, PlaceFirst
  <2>7. Video!Content(ht, <<n, n>>) = {<<0, n>>}
    <3>1. n .. n = {n}
      BY <2>5
    <3>2. 0 < Size
      BY DEF Video!MdecAssumption
    <3> DEFINE r == <<n, n>>
    <3>3. r[1] = n /\ r[2] = n
      OBVIOUS
    <3> HIDE DEF n, r
    <3>4. {k \in r[1] .. r[2] : ht[k] # Video!Eob /\ Video!Place(ht, r[1], k) < Size} = {n}
      BY <1>1, <1>8, <2>6, <3>1, <3>2, <3>3
    <3>5. Video!Content(ht, r) = {<<Video!Place(ht, r[1], k), k>> : k \in {n}}
      BY <3>4 DEF Video!Content
    <3>6. Video!Content(ht, r) = {<<0, n>>}
      BY <2>6, <3>3, <3>5
    <3> QED
      BY <3>6 DEF r
  <2>8. Goes(ht, n, n, n)
    BY <2>5 DEF Goes, Stops
  <2>9. BegunAt(ht, t.m, e, n)
    <3>1. /\ ht[n] # Video!Eob /\ Goes(ht, n, n, Len(ht))
          /\ t.m.idx = Video!Place(ht, n, Len(ht)) + 1
          /\ Held(t.m) = Video!Content(ht, <<n, Len(ht)>>)
      BY <1>1, <1>8, <2>2, <2>6, <2>7, <2>8
    <3> HIDE DEF n
    <3>2. t.m.table = Video!Table(t.m) /\ n \in e + 1 .. Len(ht) /\ Padding(ht, e + 1, n - 1)
      BY <2>2, <2>3, <2>5
    <3> QED
      BY ONLY <3>1, <3>2 DEF BegunAt
  <2>10. Goings(ht, t.m, e)
    BY <2>2, <2>5, <2>9 DEF Goings
  <2> HIDE DEF e
  <2> QED
    BY <1>2, <1>4, <2>2, <2>10 DEF Traced, e
<1>9. ASSUME s.m.in_block PROVE Traced(ht, t.m, macros \o t.made)
  <2>1. PICK a \in e + 1 .. l : BegunAt(hs, s.m, e, a)
    BY <1>2, <1>9 DEF Goings
  <2>2. /\ a \in e + 1 .. n - 1 /\ ht[a] # Video!Eob /\ Padding(ht, e + 1, a - 1)
        /\ Goes(ht, a, a, n - 1) /\ <<a, n>> \in Extent
        /\ half # Video!Eob => Video!Place(ht, a, n) = at
        /\ Video!Content(ht, <<a, n>>) =
             IF half # Video!Eob /\ at < Size THEN Held(s.m) \cup {<<at, n>>} ELSE Held(s.m)
    <3> DEFINE m == s.m
    <3>1. m \in Gathering /\ BegunAt(hs, m, e, a)
      BY <1>3, <2>1
    <3> HIDE DEF m, e
    <3>2. Grown(hs, half, m, e, a)
      BY <1>5, <3>1, BegunGrows
    <3> QED
      BY <3>2 DEF Grown, m
  <2>3. s.m.table = Video!Table(s.m)
    BY <2>1 DEF BegunAt
  <2>4. a \in Nat /\ a < n /\ a \in e + 1 .. Len(ht)
    BY <1>1, <1>5, <2>2
  (* The block ends with this halfword, which u has taken or left.         *)
  <2>5. ASSUME NEW u \in Gathered, u.m.color = s.m.color, u.m.blocks = s.m.blocks,
               u.made = s.made, u.m.table = s.m.table,
               Held(u.m) = Video!Content(ht, <<a, n>>), Stops(ht, a, n)
        PROVE  Traced(ht, Video!EndBlock(u).m, macros \o Video!EndBlock(u).made)
    <3>1. u.m.table = Video!Table(u.m)
      BY <2>3, <2>5 DEF Video!Table
    <3>2. /\ Built(ht, u.m.color, macros \o u.made, u.m.blocks, R)
          /\ a \in Before(R, Len(R)) + 1 .. Len(ht) /\ <<a, Len(ht)>> \in Extent
          /\ Padding(ht, Before(R, Len(R)) + 1, a - 1) /\ Goes(ht, a, a, Len(ht) - 1)
          /\ Stops(ht, a, Len(ht)) /\ Held(u.m) = Video!Content(ht, <<a, Len(ht)>>)
      BY <1>1, <1>4, <2>2, <2>4, <2>5
    <3> HIDE DEF ht
    <3> QED
      BY <1>1, <1>4, <2>2, <3>1, <3>2, TracedAfter
  <2>6. CASE half = Video!Eob
    <3>1. t = Video!EndBlock(s)
      BY <1>9, <2>6 DEF Video!Feed
    <3>2. Stops(ht, a, n)
      BY <1>1, <2>4, <2>6 DEF Stops
    <3>3. Held(s.m) = Video!Content(ht, <<a, n>>)
      BY <2>2, <2>6
    <3> HIDE DEF ht, t
    <3> QED
      BY <1>3, <2>5, <3>1, <3>2, <3>3
  <2>7. CASE half # Video!Eob
    <3>1. t = Video!Coefficient(s, half, n)
      BY <1>9, <2>7 DEF Video!Feed
    <3>2. at \in Int /\ n \in Int /\ Size \in Nat
      BY <1>1, <1>3, <1>6, <2>7 DEF Video!MdecAssumption
    <3> DEFINE b == at
               u == Put(s, b, n)
    <3>3. t = IF at >= Size THEN Video!EndBlock(s)
              ELSE IF at + 1 >= Size THEN Video!EndBlock(u) ELSE u
      BY <3>1 DEF Video!Coefficient, Put
    <3>4. /\ u \in Gathered /\ u.m.color = s.m.color /\ u.m.blocks = s.m.blocks /\ u.made = s.made
          /\ u.m.in_block = s.m.in_block /\ u.m.idx = b + 1 /\ Held(u.m) = Held(s.m) \cup {<<b, n>>}
          /\ u.m.table = s.m.table
      <4>1. s \in Gathered /\ b \in Int /\ n \in Int
        BY <1>3, <3>2
      <4> HIDE DEF b, n
      <4> QED
        BY ONLY <4>1, PutGathers
    <3>5. Stops(ht, a, n) <=> at >= Size - 1
      BY <1>1, <2>2, <2>4, <2>7 DEF Stops
    <3> HIDE DEF u, t, ht, l, e, at
    <3>6. CASE at >= Size
      <4>1. Held(s.m) = Video!Content(ht, <<a, n>>)
        BY <2>2, <3>2, <3>6
      <4>2. Stops(ht, a, n)
        BY <3>2, <3>5, <3>6
      <4> QED
        BY <1>3, <2>5, <3>3, <3>6, <4>1, <4>2
    <3>7. CASE at < Size /\ at + 1 >= Size
      <4>1. Held(u.m) = Video!Content(ht, <<a, n>>)
        BY <2>2, <2>7, <3>4, <3>7
      <4>2. Stops(ht, a, n)
        BY <3>2, <3>5, <3>7
      <4>3. t = Video!EndBlock(u)
        BY <3>2, <3>3, <3>7
      <4> QED
        BY <2>5, <3>4, <4>1, <4>2, <4>3
    <3>8. CASE at + 1 < Size
      <4>1. t = u
        BY <3>2, <3>3, <3>8
      <4>2. Held(u.m) = Video!Content(ht, <<a, n>>)
        BY <2>2, <2>7, <3>2, <3>4, <3>8
      <4>3. ~Stops(ht, a, n)
        BY <3>2, <3>5, <3>8
      <4>4. Goes(ht, a, a, n)
        <5>1. ASSUME NEW j \in a .. n PROVE ~Stops(ht, a, j)
          <6>1. j = n \/ j \in a .. n - 1
            BY <2>4, <3>2
          <6> QED
            BY <2>2, <4>3, <6>1 DEF Goes
        <5> QED
          BY <5>1 DEF Goes
      <4>5. u.m.table = Video!Table(u.m)
        BY <2>3, <3>4 DEF Video!Table
      <4>6. BegunAt(ht, u.m, e, a)
        BY <1>1, <2>2, <2>4, <2>7, <3>4, <4>2, <4>4, <4>5 DEF BegunAt
      <4>7. Goings(ht, u.m, e)
        BY <1>9, <2>4, <3>4, <4>6 DEF Goings
      <4> QED
        BY <1>2, <1>4, <3>4, <4>1, <4>7 DEF Traced, e
    <3> QED
      BY <3>2, <3>6, <3>7, <3>8
  <2> QED
    BY <2>6, <2>7
<1> QED
  BY <1>3, <1>7, <1>8, <1>9

(* The stream hs is through.                                               *)
Through(hs, m, macros) ==
  \E R \in Seq(Extent) :
    Built(hs, m.color, macros, m.blocks, R) /\ Padding(hs, Before(R, Len(R)) + 1, Len(hs))

(* What the trace of a stream depends on. *)
LEMMA TracedAlike ==
  ASSUME NEW hs, NEW m, NEW l, NEW macros, Traced(hs, m, macros),
         l.color = m.color, l.in_block = m.in_block, l.idx = m.idx, l.coefs = m.coefs,
         l.blocks = m.blocks, l.table = m.table
  PROVE  Traced(hs, l, macros)
  BY DEF Traced, Goings, BegunAt, Held, Video!Table

(* The same for a halfword that the command still waits for. *)
LEMMA FeedHalfTraces ==
  ASSUME Video!MdecAssumption, NEW hs \in Streams, NEW s \in State,
         NEW macros \in Seq(Seq(Block)), NEW half \in Video!Halves,
         s.m.command = "decode", s.m.remaining # 0, Traced(hs, s.m, macros \o s.made)
  PROVE  LET t == Video!FeedHalf(s, half, Len(hs) + 1)
         IN Traced(Append(hs, half), t.m, macros \o t.made)
<1> DEFINE left == s.m.remaining - 1
           m == [s.m EXCEPT !.remaining = left]
           u == [s EXCEPT !.m.remaining = left]
           t == Video!FeedHalf(s, half, Len(hs) + 1)
<1> SUFFICES Traced(Append(hs, half), t.m, macros \o t.made)
  OBVIOUS
<1>1. s.m \in Decoder /\ s.made \in Seq(Seq(Block)) /\ Room(s.m) /\ s = [m |-> s.m, made |-> s.made]
  BY DEF State
<1>2. left \in Int
  BY <1>1 DEF Decoder
<1>3. t = IF u.m.command = "decode" THEN Video!Feed(u, half, Len(hs) + 1) ELSE u
  BY DEF Video!FeedHalf
<1> HIDE DEF left, t
<1>4. /\ m \in Decoder /\ m.blocks = s.m.blocks /\ m.color = s.m.color
      /\ m.command = s.m.command /\ m.idx = s.m.idx /\ m.coefs = s.m.coefs
      /\ m.table = s.m.table
  BY <1>1, <1>2 DEF Decoder
<1>5. m.in_block = s.m.in_block
  BY <1>1 DEF Decoder
<1>6. u = [s EXCEPT !.m = m]
  BY <1>1
<1>7. Room(m)
  BY <1>1, <1>4 DEF Room, Video!Needed
<1> HIDE DEF m
<1>8. u.m = m /\ u.made = s.made /\ u \in State
  BY <1>1, <1>4, <1>6, <1>7 DEF State
<1> HIDE DEF u
<1>9. Traced(hs, u.m, macros \o u.made)
  BY <1>4, <1>5, <1>8, TracedAlike
<1>10. t = Video!Feed(u, half, Len(hs) + 1)
  BY <1>3, <1>4, <1>8
<1> QED
  BY <1>8, <1>9, <1>10, FeedTraces

(* The end of the stream ends its last block. *)
LEMMA FinishThrough ==
  ASSUME Video!MdecAssumption, NEW hs \in Streams, NEW s \in State,
         NEW macros \in Seq(Seq(Block)), s.m.command = "decode", s.m.remaining = 0,
         Traced(hs, s.m, macros \o s.made)
  PROVE  LET t == Video!Finish(s) IN Through(hs, t.m, macros \o t.made)
<1> DEFINE u == IF s.m.in_block THEN Video!EndBlock(s) ELSE s
           t == Video!Finish(s)
<1> SUFFICES Through(hs, t.m, macros \o t.made)
  OBVIOUS
<1>1. /\ s \in Gathered /\ s.m \in Decoder /\ s.m \in Gathering /\ s.m.in_block \in BOOLEAN
      /\ s.made \in Seq(Seq(Block))
  BY StateIsGathered DEF Decoder, Gathered
<1>2. PICK R \in Seq(Extent) :
        /\ Built(hs, s.m.color, macros \o s.made, s.m.blocks, R) /\ Closed(hs, R)
        /\ Goings(hs, s.m, Before(R, Len(R)))
  BY DEF Traced
<1>3. u \in Gathered
  BY <1>1, EndBlockGives
<1>4. t = [u EXCEPT !.m.command = "idle"]
  BY DEF Video!Finish
<1> HIDE DEF t, u
<1>5. t.m.color = u.m.color /\ t.m.blocks = u.m.blocks /\ t.made = u.made
  BY <1>3, <1>4 DEF Gathered, Gathering
<1>6. Through(hs, u.m, macros \o u.made)
  <2>1. CASE ~s.m.in_block
    <3>1. u = s /\ Padding(hs, Before(R, Len(R)) + 1, Len(hs))
      BY <1>2, <2>1 DEF u, Goings
    <3> QED
      BY <1>2, <3>1 DEF Through
  <2>2. CASE s.m.in_block
    <3> DEFINE e == Before(R, Len(R))
    <3>1. u = Video!EndBlock(s)
      BY <2>2 DEF u
    <3>2. PICK a \in e + 1 .. Len(hs) : BegunAt(hs, s.m, e, a)
      BY <1>2, <2>2 DEF Goings
    <3> DEFINE r == <<a, Len(hs)>>
               Q == Append(R, r)
    <3>3. e \in Nat /\ Len(hs) \in Nat /\ Len(R) \in Nat
      <4>1. Len(R) \in Nat /\ (Len(R) # 0 => R[Len(R)] \in Extent)
        BY <1>2
      <4> QED
        BY <4>1 DEF Before, Extent, Streams
    <3> HIDE DEF e
    <3>4. r \in Extent /\ r[1] = a /\ r[2] = Len(hs) /\ a \in Nat
      BY <3>2, <3>3 DEF Extent
    <3>5. Held(s.m) = Video!Content(hs, r) /\ s.m.table = Video!Table(s.m)
      BY <3>2 DEF BegunAt
    <3> HIDE DEF r
    <3>6. Goes(hs, a, a, Len(hs) - 1)
      BY <3>2, <3>3, <3>4 DEF BegunAt, Goes
    <3>7. Link(hs, e, r)
      BY <3>2, <3>3, <3>4, <3>6 DEF BegunAt, Link
    <3>8. Built(hs, u.m.color, macros \o u.made, u.m.blocks, Q)
      BY <1>1, <1>2, <3>1, <3>5, <3>7, BlockIsDone DEF e
    <3>9. Q \in Seq(Extent) /\ Len(Q) = Len(R) + 1 /\ Q[Len(Q)] = r
      BY <1>2, <3>4
    <3> HIDE DEF Q
    <3>10. Before(Q, Len(Q)) = Len(hs)
      BY <3>3, <3>4, <3>9 DEF Before
    <3>11. Padding(hs, Len(hs) + 1, Len(hs))
      BY <3>3 DEF Padding
    <3> QED
      BY <3>8, <3>9, <3>10, <3>11 DEF Through
  <2> QED
    BY <1>1, <2>1, <2>2
<1> QED
  BY <1>5, <1>6 DEF Through

(* What division gives for a number of the form p * n + b. *)
LEMMA Quotient ==
  ASSUME NEW n \in Nat \ {0}, NEW p \in Nat, NEW b \in 0 .. n - 1
  PROVE  (p * n + b) \div n = p
<1> DEFINE x == p * n + b
           d == x \div n
           r == x % n
<1>1. p * n \in Nat /\ x \in Nat
  <2>1. p * n \in Nat
    OBVIOUS
  <2> QED
    BY <2>1
<1>2. x = p * n + b
  OBVIOUS
<1> HIDE DEF x
<1>3. d \in Int /\ r \in 0 .. n - 1 /\ x = n * d + r
  BY <1>1
<1> HIDE DEF d, r
<1>4. n * (d - p) = b - r
  <2>1. n * (d - p) = n * d - p * n /\ n * d \in Int
    BY <1>3
  <2> QED
    BY <1>1, <1>2, <1>3, <2>1
<1>5. ~(d - p >= 1)
  <2> SUFFICES ASSUME d - p >= 1 PROVE FALSE
    OBVIOUS
  <2>1. n * (d - p) >= n
    <3>1. n * (d - p - 1) >= 0 /\ n * (d - p - 1) = n * (d - p) - n
      BY <1>3
    <3>2. n * (d - p) \in Int
      BY <1>3
    <3> QED
      BY <3>1, <3>2
  <2> QED
    BY <1>3, <1>4, <2>1
<1>6. ~(d - p <= -1)
  <2> SUFFICES ASSUME d - p <= -1 PROVE FALSE
    OBVIOUS
  <2>1. n * (d - p) <= -n
    <3>1. n * (p - d - 1) >= 0 /\ n * (p - d - 1) = -(n * (d - p)) - n
      BY <1>3
    <3>2. n * (d - p) \in Int
      BY <1>3
    <3> QED
      BY <3>1, <3>2
  <2> QED
    BY <1>3, <1>4, <2>1
<1>7. d = p
  BY <1>3, <1>5, <1>6
<1> QED
  BY <1>7 DEF d, x

(* A stream that is through has come to its blocks. *)
LEMMA ThroughGives ==
  ASSUME Video!MdecAssumption, mdecMdec \in Decoder, mdecGot \in Streams,
         mdecEmitted \in Seq(Seq(Block)), Through(mdecGot, mdecMdec, mdecEmitted)
  PROVE  Video!WholeMacroblocks
<1> DEFINE hs == mdecGot
           color == mdecMdec.color
           N == PerMacro(color)
           p == Len(mdecEmitted)
           n == Len(mdecMdec.blocks)
           ranges == Video!Cut(hs)
           blocks == Video!BlocksOf(mdecEmitted)
<1>1. PICK R \in Seq(Extent) :
        /\ Built(hs, color, mdecEmitted, mdecMdec.blocks, R)
        /\ Padding(hs, Before(R, Len(R)) + 1, Len(hs))
  BY DEF Through
<1>2. color \in BOOLEAN /\ mdecMdec.blocks \in Seq(Block)
  BY DEF Decoder
<1>3. N \in Nat \ {0} /\ p \in Nat /\ n \in Nat /\ n < N /\ Video!Needed(mdecMdec) = N
  <2>1. N \in Nat \ {0}
    BY <1>2, SlotGives
  <2>2. p \in Nat /\ n \in Nat
    BY <1>2
  <2>3. n < N
    BY <1>1 DEF Built
  <2>4. Video!Needed(mdecMdec) = N
    BY DEF Video!Needed, PerMacro
  <2> QED
    BY <2>1, <2>2, <2>3, <2>4
<1>4. Len(R) \in Nat /\ Len(R) = Slot(color, p + 1, n) /\ Chain(hs, R, Len(R))
      /\ WholeHold(hs, color, mdecEmitted, R)
  BY <1>1 DEF Built
<1>5. Len(ranges) = Len(R) /\ \A k \in 1 .. Len(R) : ranges[k] = R[k]
  <2>1. Rest(Video!Cut(hs), R, Len(R), 0)
    BY <1>1, <1>4, CutIs
  <2> QED
    BY <1>4, <2>1 DEF Rest
<1> HIDE DEF hs, color, N, p, n, ranges
<1>6. Len(R) = p * N + n /\ Len(R) = Slot(color, p + 1, 0) + n /\ Slot(color, p + 1, 0) = p * N
  <2>1. (p + 1) - 1 = p /\ p * N \in Nat
    BY <1>3
  <2> QED
    BY <1>3, <1>4, <2>1 DEF Slot, N
<1>7. p = Len(ranges) \div Video!Needed(mdecMdec)
  <2>1. n \in 0 .. N - 1
    BY <1>3
  <2>2. (p * N + n) \div N = p
    BY ONLY <1>3, <2>1, Quotient
  <2> QED
    BY <1>3, <1>5, <1>6, <2>2
<1>8. ASSUME NEW k \in DOMAIN blocks
      PROVE  /\ {blocks[k].coefs[i] : i \in DOMAIN blocks[k].coefs} = Video!Content(hs, ranges[k])
             /\ (blocks[k].table = "chroma") = (color /\ (k - 1) % ColorBlocks < Chroma)
  <2> DEFINE q == ((k - 1) \div N) + 1
             j == ((k - 1) % N) + 1
  <2>1. k \in 1 .. p * N /\ blocks[k] = mdecEmitted[q][j]
    BY <1>3 DEF Video!BlocksOf, p
  <2>2. q \in 1 .. p /\ j \in 1 .. N /\ Slot(color, q, j) = k
    BY <1>2, <1>3, <2>1, SlotOf DEF N, color
  <2>3. Holds(hs, blocks[k], R[k], j, color)
    <3> HIDE DEF q, j, blocks
    <3> QED
      BY <1>4, <2>1, <2>2 DEF WholeHold, N, p
  <2>4. k \in 1 .. Len(R)
    BY <1>3, <1>6, <2>1
  <2>5. (blocks[k].table = "chroma") <=> color /\ (k - 1) % ColorBlocks < Chroma
    <3>1. color => N = ColorBlocks
      BY DEF N, PerMacro
    <3>2. (k - 1) % N \in Int /\ Chroma \in Int
      <4>1. k \in Int /\ Chroma \in Int
        BY <1>4, <2>4 DEF Video!MdecAssumption
      <4> QED
        BY <1>3, <4>1
    <3> QED
      BY <2>3, <3>1, <3>2 DEF Holds
  <2>6. (blocks[k].table = "chroma") = (color /\ (k - 1) % ColorBlocks < Chroma)
    BY <2>5
  <2>7. {blocks[k].coefs[i] : i \in DOMAIN blocks[k].coefs} = Video!Content(hs, ranges[k])
    <3> HIDE DEF blocks
    <3> QED
      BY <1>5, <2>3, <2>4 DEF Holds, Held
  <2> QED
    BY <2>6, <2>7
<1> QED
  BY <1>7, <1>8 DEF Video!WholeMacroblocks, hs, ranges, color, p
-----------------------------------------------------------------------------
(* The program may cut a command short only by a reset.                    *)
Sending ==
  /\ mdecSending \in [kind : {"idle", "decode", "upload"}, words : Nat, sent : Nat]
  /\ mdecSending.sent <= mdecSending.words

DecoderInv ==
  mdecMdec \in Decoder /\ Room(mdecMdec) /\ mdecGot \in Seq(Video!Halves) /\ Sending /\ Video!InStep

(* At the start the decoder is idle and empty. *)
LEMMA MdecStarts == Video!MdecAssumption /\ Video!Init => DecoderInv
<1> SUFFICES ASSUME Video!MdecAssumption, Video!Init PROVE DecoderInv
  OBVIOUS
<1>1. <<>> \in Seq(Pair) /\ <<>> \in Seq(Block) /\ <<>> \in Seq(Video!Halves) /\ Len(<<>>) = 0
  OBVIOUS
<1>2. mdecMdec \in Decoder
  BY <1>1 DEF Video!Init, Video!Idle, Decoder, Video!MdecAssumption
<1>3. Room(mdecMdec)
  BY <1>1 DEF Video!Init, Video!Idle, Room, Video!Needed
<1> QED
  BY <1>1, <1>2, <1>3 DEF Video!Init, DecoderInv, Sending, Video!InStep, Video!Idle,
     Video!Nothing

(* What a command word or a reset leaves: the decoder empty, or what it    *)
(* had, with a count of its own.                                           *)
LEMMA CommandKeeps ==
  ASSUME Video!MdecAssumption, DecoderInv, Video!StartDecode \/ Video!StartUpload \/ Video!Reset
  PROVE  DecoderInv'
<1>1. <<>> \in Seq(Pair) /\ <<>> \in Seq(Block) /\ <<>> \in Seq(Video!Halves) /\ Len(<<>>) = 0
  OBVIOUS
<1>2. mdecMdec \in Decoder /\ Room(mdecMdec) /\ mdecGot' = <<>>
  BY DEF DecoderInv, Video!StartDecode, Video!StartUpload, Video!Reset
<1>3. 0 \in 0 .. Size - 1
  BY DEF Video!MdecAssumption
<1>4. CASE Video!StartDecode
  <2>1. PICK color \in BOOLEAN, words \in Counts :
          /\ mdecMdec' = Video!Started("decode", color, words)
          /\ mdecSending' = [kind |-> "decode", words |-> words, sent |-> 0]
    BY <1>4 DEF Video!StartDecode
  <2>2. words \in Nat \ {0} /\ 2 * words \in Int
    BY DEF Video!MdecAssumption
  <2>3. mdecMdec' = [command |-> "decode", remaining |-> 2 * words, color |-> color,
                 in_block |-> FALSE, idx |-> 0, coefs |-> <<>>, blocks |-> <<>>,
                 table |-> "luma"]
    BY <2>1 DEF Video!Started, Video!Idle
  <2> DEFINE n == 2 * words
  <2> HIDE DEF n
  <2>4. mdecMdec' \in Decoder
    <3>1. n \in Int /\ mdecMdec' = [command |-> "decode", remaining |-> n, color |-> color,
                 in_block |-> FALSE, idx |-> 0, coefs |-> <<>>, blocks |-> <<>>,
                 table |-> "luma"]
      BY <2>2, <2>3 DEF n
    <3> QED
      BY <1>1, <1>3, <3>1, Zenon DEF Decoder
  <2>5. mdecMdec'.blocks = <<>> /\ mdecMdec'.command = "decode" /\ mdecMdec'.remaining = 2 * words
    BY <2>1 DEF Video!Started, Video!Idle
  <2>6. Room(mdecMdec')
    BY <1>1, <2>5 DEF Room, Video!Needed, Video!MdecAssumption
  <2> QED
    BY <1>1, <1>2, <2>1, <2>2, <2>4, <2>5, <2>6 DEF DecoderInv, Sending, Video!InStep, Room,
       Video!Needed
<1>5. CASE Video!StartUpload
  <2>1. PICK words \in Tables :
          /\ mdecMdec' = [mdecMdec EXCEPT !.command = "upload", !.remaining = 2 * words]
          /\ mdecSending' = [kind |-> "upload", words |-> words, sent |-> 0]
    BY <1>5 DEF Video!StartUpload
  <2>2. words \in Nat \ {0} /\ 2 * words \in Int
    BY DEF Video!MdecAssumption
  <2>3. /\ mdecMdec' \in Decoder /\ mdecMdec'.command = "upload" /\ mdecMdec'.remaining = 2 * words
        /\ mdecMdec'.blocks = mdecMdec.blocks /\ mdecMdec'.color = mdecMdec.color
    BY <1>2, <2>1, <2>2 DEF Decoder
  <2>4. Room(mdecMdec')
    BY <1>2, <2>3 DEF Room, Video!Needed
  <2> QED
    BY <1>1, <1>2, <2>1, <2>2, <2>3, <2>4 DEF DecoderInv, Sending, Video!InStep, Room,
       Video!Needed
<1>6. CASE Video!Reset
  <2>1. /\ mdecMdec' \in Decoder /\ mdecMdec'.blocks = <<>> /\ mdecMdec'.command = "idle"
        /\ mdecMdec'.remaining = 0
    <3>1. mdecMdec' = [mdecMdec EXCEPT !.command = "idle", !.remaining = 0, !.in_block = FALSE,
                               !.blocks = <<>>, !.idx = 0, !.coefs = <<>>,
                               !.table = "luma"]
      BY <1>6 DEF Video!Reset
    <3>2. mdecMdec' = [command |-> "idle", remaining |-> 0, color |-> mdecMdec.color, in_block |-> FALSE,
                   idx |-> 0, coefs |-> <<>>, blocks |-> <<>>, table |-> "luma"]
      BY <1>2, <3>1 DEF Decoder
    <3>3. mdecMdec.color \in BOOLEAN /\ 0 \in Int
      BY <1>2 DEF Decoder
    <3>4. mdecMdec' \in Decoder
      BY <1>1, <1>3, <3>2, <3>3, Zenon DEF Decoder
    <3> QED
      BY <3>2, <3>4
  <2>2. Room(mdecMdec')
    BY <1>1, <2>1 DEF Room, Video!Needed, Video!MdecAssumption
  <2> QED
    BY <1>1, <1>2, <1>6, <2>1, <2>2 DEF DecoderInv, Sending, Video!InStep, Video!Reset,
       Video!Nothing, Room, Video!Needed
<1> QED
  BY <1>4, <1>5, <1>6

(* A word of parameters is counted by both sides alike. *)
LEMMA ParameterKeeps ==
  ASSUME Video!MdecAssumption, DecoderInv, Video!WriteParameter
  PROVE  DecoderInv'
<1>1. PICK first \in Video!Halves, second \in Video!Halves :
        /\ mdecMdec' = Video!Finish(Video!FeedHalf(Video!FeedHalf([m |-> mdecMdec, made |-> <<>>], first, Len(mdecGot) + 1),
                                   second, Len(mdecGot) + 2)).m
        /\ mdecGot' = IF mdecSending.kind = "decode" THEN mdecGot \o <<first, second>> ELSE mdecGot
  BY DEF Video!WriteParameter
<1> DEFINE s == [m |-> mdecMdec, made |-> <<>>]
           s1 == Video!FeedHalf(s, first, Len(mdecGot) + 1)
           s2 == Video!FeedHalf(s1, second, Len(mdecGot) + 2)
<1>2. /\ mdecSending' = [mdecSending EXCEPT !.sent = @ + 1] /\ mdecSending.sent < mdecSending.words
      /\ mdecSending.sent \in Nat /\ mdecSending.words \in Nat
      /\ mdecMdec.remaining = 2 * (mdecSending.words - mdecSending.sent)
  BY DEF Video!WriteParameter, DecoderInv, Sending, Video!InStep
<1>3. mdecMdec.command # "idle"
  BY <1>2 DEF DecoderInv, Video!InStep
<1>4. Len(mdecGot) + 1 \in Int /\ Len(mdecGot) + 2 \in Int
  BY DEF DecoderInv
<1>5. s \in State /\ s.m = mdecMdec
  <2>1. <<>> \in Seq(Seq(Block))
    OBVIOUS
  <2> QED
    BY <2>1 DEF DecoderInv, State
<1> HIDE DEF s
<1>6. mdecMdec.remaining \in Int
  BY DEF DecoderInv, Decoder
<1>7. s1 \in State /\ s1.m.command = mdecMdec.command /\ s1.m.remaining = mdecMdec.remaining - 1
  BY <1>2, <1>4, <1>5, FeedHalfCounts
<1> HIDE DEF s1
<1>8. s1.m.remaining # 0
  BY <1>2, <1>7
<1>9. s2 \in State /\ s2.m.command = mdecMdec.command /\ s2.m.remaining = mdecMdec.remaining - 2
  <2>1. /\ s2 \in State /\ s2.m.command = s1.m.command
        /\ s2.m.remaining = s1.m.remaining - 1
    BY <1>4, <1>7, <1>8, FeedHalfCounts
  <2> QED
    BY <1>7, <1>6, <2>1
<1> HIDE DEF s2
<1>10. s2.m.remaining = 2 * (mdecSending.words - (mdecSending.sent + 1)) /\ s2.m.remaining >= 0
  BY <1>2, <1>9
<1>11. mdecMdec' = Video!Finish(s2).m
  BY <1>1 DEF s, s1, s2
<1>12. /\ mdecMdec' \in Decoder /\ Room(mdecMdec') /\ mdecMdec'.remaining = s2.m.remaining
       /\ mdecMdec'.command = IF s2.m.remaining > 0 THEN mdecMdec.command ELSE "idle"
  BY <1>9, <1>10, <1>11, FinishEnds DEF State
<1>13. /\ mdecSending' \in [kind : {"idle", "decode", "upload"}, words : Nat, sent : Nat]
       /\ mdecSending'.sent = mdecSending.sent + 1 /\ mdecSending'.words = mdecSending.words
  BY <1>2 DEF DecoderInv, Sending
<1>14. mdecGot' \in Seq(Video!Halves)
  <2>1. mdecGot \in Seq(Video!Halves) /\ <<first, second>> \in Seq(Video!Halves)
    BY DEF DecoderInv
  <2>2. mdecGot \o <<first, second>> \in Seq(Video!Halves)
    BY <2>1
  <2> QED
    BY <1>1, <2>1, <2>2
<1>15. (mdecMdec'.command = "idle") <=> (mdecSending'.sent = mdecSending'.words)
  BY <1>2, <1>3, <1>10, <1>12, <1>13
<1>16. Sending' /\ Video!InStep'
  BY <1>2, <1>10, <1>12, <1>13, <1>15 DEF Sending, Video!InStep
<1> QED
  BY <1>12, <1>14, <1>16 DEF DecoderInv, Room, Video!Needed

(* What the decoder has gathered is the stream's.                          *)
Stream ==
  /\ mdecEmitted \in Seq(Seq(Block))
  /\ mdecSending.kind = "decode" =>
       \/ mdecMdec.command = "decode" /\ Traced(mdecGot, mdecMdec, mdecEmitted)
       \/ mdecMdec.command = "idle" /\ Through(mdecGot, mdecMdec, mdecEmitted)

MdecInv == DecoderInv /\ Stream

(* Before the first halfword there is no block. *)
LEMMA NothingTraced ==
  ASSUME Video!MdecAssumption, NEW m, m.color \in BOOLEAN, ~m.in_block, m.blocks = <<>>
  PROVE  Traced(<<>>, m, <<>>)
<1> DEFINE R == <<>>
<1>1. R \in Seq(Extent) /\ Len(R) = 0 /\ Len(<<>>) = 0
  OBVIOUS
<1>2. Slot(m.color, 0 + 1, 0) = 0 /\ PerMacro(m.color) \in Nat \ {0}
  BY SlotGives
<1> HIDE DEF R
<1>3. WholeHold(<<>>, m.color, <<>>, R) /\ BegunHold(<<>>, m.color, 0, <<>>, R)
  BY <1>1 DEF WholeHold, BegunHold
<1>4. Built(<<>>, m.color, <<>>, m.blocks, R)
  BY <1>1, <1>2, <1>3 DEF Built, Chain
<1>5. Closed(<<>>, R) /\ Goings(<<>>, m, Before(R, Len(R)))
  BY <1>1 DEF Closed, Goings, Padding, Before
<1> QED
  BY <1>1, <1>4, <1>5 DEF Traced

(* A command word or a reset begins a stream, or there is none. *)
LEMMA CommandStreams ==
  ASSUME Video!MdecAssumption, Video!StartDecode \/ Video!StartUpload \/ Video!Reset
  PROVE  Stream'
<1>1. mdecGot' = <<>> /\ mdecEmitted' = <<>>
  BY DEF Video!StartDecode, Video!StartUpload, Video!Reset
<1>2. mdecEmitted' \in Seq(Seq(Block))
  BY <1>1
<1>3. CASE Video!StartDecode
  <2>1. PICK color \in BOOLEAN, words \in Counts :
          mdecMdec' = Video!Started("decode", color, words)
    BY <1>3 DEF Video!StartDecode
  <2>2. /\ mdecMdec'.command = "decode" /\ mdecMdec'.color \in BOOLEAN
        /\ ~mdecMdec'.in_block /\ mdecMdec'.blocks = <<>>
    BY <2>1 DEF Video!Started, Video!Idle
  <2>3. Traced(<<>>, mdecMdec', <<>>)
    BY <2>2, NothingTraced
  <2> QED
    BY <1>1, <1>2, <2>2, <2>3 DEF Stream
<1>4. CASE Video!StartUpload \/ Video!Reset
  <2>1. mdecSending'.kind # "decode"
    <3>1. CASE Video!StartUpload
      <4>1. PICK words \in Tables :
              mdecSending' = [kind |-> "upload", words |-> words, sent |-> 0]
        BY <3>1 DEF Video!StartUpload
      <4> QED
        BY <4>1
    <3>2. CASE Video!Reset
      BY <3>2 DEF Video!Reset, Video!Nothing
    <3> QED
      BY <1>4, <3>1, <3>2
  <2> QED
    BY <1>2, <2>1 DEF Stream
<1> QED
  BY <1>3, <1>4

(* A word is two halfwords of the stream, and perhaps its end. *)
LEMMA ParameterStreams ==
  ASSUME Video!MdecAssumption, DecoderInv, Stream, Video!WriteParameter
  PROVE  Stream'
<1> DEFINE n == Len(mdecGot)
<1>1. PICK first \in Video!Halves, second \in Video!Halves :
        LET s == [m |-> mdecMdec, made |-> <<>>]
            s1 == Video!FeedHalf(s, first, n + 1)
            s2 == Video!FeedHalf(s1, second, n + 2)
        IN /\ mdecMdec' = Video!Finish(s2).m
           /\ mdecEmitted' = mdecEmitted \o Video!Finish(s2).made
           /\ mdecGot' = IF mdecSending.kind = "decode" THEN mdecGot \o <<first, second>>
                         ELSE mdecGot
  BY DEF Video!WriteParameter
<1> DEFINE s == [m |-> mdecMdec, made |-> <<>>]
           s1 == Video!FeedHalf(s, first, n + 1)
           s2 == Video!FeedHalf(s1, second, n + 2)
           t == Video!Finish(s2)
<1>2. mdecMdec' = t.m /\ mdecEmitted' = mdecEmitted \o t.made
  BY <1>1
<1>3. /\ mdecSending' = [mdecSending EXCEPT !.sent = @ + 1] /\ mdecSending.sent < mdecSending.words
      /\ mdecSending.sent \in Nat /\ mdecSending.words \in Nat
      /\ mdecMdec.remaining = 2 * (mdecSending.words - mdecSending.sent)
      /\ mdecSending'.kind = mdecSending.kind
  BY DEF Video!WriteParameter, DecoderInv, Sending, Video!InStep
<1>4. mdecMdec.command # "idle"
  BY <1>3 DEF DecoderInv, Video!InStep
<1>5. n \in Nat /\ mdecGot \in Streams
  BY DEF DecoderInv, Streams
<1>6. mdecEmitted \in Seq(Seq(Block))
  BY DEF Stream
<1>7. s \in State /\ s.m = mdecMdec /\ s.made = <<>> /\ mdecEmitted \o s.made = mdecEmitted
  <2>1. <<>> \in Seq(Seq(Block)) /\ mdecEmitted \o <<>> = mdecEmitted
    BY <1>6
  <2> QED
    BY <2>1 DEF DecoderInv, State
<1>8. mdecMdec.remaining \in Int
  BY DEF DecoderInv, Decoder
<1> HIDE DEF s, n
<1>9. s1 \in State /\ s1.m.command = mdecMdec.command /\ s1.m.remaining = mdecMdec.remaining - 1
  <2>1. n + 1 \in Int /\ s.m.remaining # 0
    BY <1>3, <1>5, <1>7
  <2> QED
    BY <1>7, <2>1, FeedHalfCounts
<1>10. s1.m.remaining # 0
  BY <1>3, <1>9
<1> DEFINE given == Append(Append(mdecGot, first), second)
<1> HIDE DEF s1
<1>11. s2 \in State /\ s2.m.command = mdecMdec.command /\ s2.m.remaining = mdecMdec.remaining - 2
  <2>1. /\ s2 \in State /\ s2.m.command = s1.m.command /\ s2.m.remaining = s1.m.remaining - 1
    <3>1. n + 2 \in Int
      BY <1>5
    <3> QED
      BY <1>9, <1>10, <3>1, FeedHalfCounts
  <2> QED
    BY <1>8, <1>9, <2>1
<1> HIDE DEF s2
<1>12. s2.m.remaining \in Nat
  BY <1>3, <1>11
<1>13. /\ t \in State
       /\ t.m.command = IF s2.m.remaining > 0 THEN mdecMdec.command ELSE "idle"
  BY <1>11, <1>12, FinishEnds
<1>14. mdecEmitted' \in Seq(Seq(Block))
  <2>1. t.made \in Seq(Seq(Block))
    BY <1>13 DEF State
  <2> HIDE DEF t
  <2> QED
    BY <1>2, <1>6, <2>1
<1>15. ASSUME mdecSending.kind = "decode"
       PROVE  \/ mdecMdec'.command = "decode" /\ Traced(mdecGot', mdecMdec', mdecEmitted')
              \/ mdecMdec'.command = "idle" /\ Through(mdecGot', mdecMdec', mdecEmitted')
  <2>1. mdecMdec.command = "decode" /\ Traced(mdecGot, mdecMdec, mdecEmitted)
    BY <1>4, <1>15 DEF Stream
  <2>2. Append(mdecGot, first) \in Streams /\ Len(Append(mdecGot, first)) = n + 1
    BY <1>5 DEF Streams, n
  <2>3. given \in Streams
    BY <2>2 DEF Streams
  <2>4. mdecGot' = given
    <3>1. mdecGot' = mdecGot \o <<first, second>>
      BY <1>1, <1>15
    <3>2. mdecGot \o <<first, second>> = given
      BY <1>5 DEF Streams
    <3> QED
      BY <3>1, <3>2
  <2>5. Traced(Append(mdecGot, first), s1.m, mdecEmitted \o s1.made)
    <3>1. s.m.command = "decode" /\ s.m.remaining # 0 /\ Traced(mdecGot, s.m, mdecEmitted \o s.made)
      BY <1>3, <1>7, <2>1
    <3> QED
      BY <1>5, <1>6, <1>7, <3>1, FeedHalfTraces DEF s1, n
  <2> DEFINE one == Append(mdecGot, first)
  <2> HIDE DEF one
  <2>6. Traced(Append(one, second), s2.m, mdecEmitted \o s2.made)
    <3>1. one \in Streams /\ Len(one) + 1 = n + 2 /\ s1.m.command = "decode"
          /\ Traced(one, s1.m, mdecEmitted \o s1.made)
      BY <1>5, <1>9, <2>1, <2>2, <2>5 DEF one
    <3>2. s2 = Video!FeedHalf(s1, second, Len(one) + 1)
      BY <3>1 DEF s2
    <3> QED
      BY <1>6, <1>9, <1>10, <3>1, <3>2, FeedHalfTraces
  <2>7. Traced(given, s2.m, mdecEmitted \o s2.made)
    BY <2>6 DEF one
  <2> HIDE DEF given
  <2>8. CASE s2.m.remaining > 0
    <3>1. t = s2
      BY <2>8 DEF Video!Finish
    <3> HIDE DEF t
    <3> QED
      BY <1>2, <1>13, <2>1, <2>4, <2>7, <2>8, <3>1
  <2>9. CASE s2.m.remaining = 0
    <3>1. Through(given, t.m, mdecEmitted \o t.made)
      BY <1>6, <1>11, <2>1, <2>3, <2>7, <2>9, FinishThrough
    <3> HIDE DEF t
    <3> QED
      BY <1>2, <1>13, <2>4, <2>9, <3>1
  <2> QED
    BY <1>12, <2>8, <2>9
<1> QED
  BY <1>3, <1>14, <1>15 DEF Stream

(* Every step keeps the invariant, *)
LEMMA MdecStepKeeps ==
  ASSUME Video!MdecAssumption, MdecInv, [Video!Next]_mdecVars
  PROVE  MdecInv'
<1>1. CASE UNCHANGED mdecVars
  BY <1>1 DEF mdecVars, MdecInv, Stream, DecoderInv, Room, Video!Needed, Sending, Video!InStep
<1>2. CASE Video!StartDecode \/ Video!StartUpload \/ Video!Reset
  BY <1>2, CommandKeeps, CommandStreams DEF MdecInv
<1>3. CASE Video!WriteParameter
  BY <1>3, ParameterKeeps, ParameterStreams DEF MdecInv
<1> QED
  BY <1>1, <1>2, <1>3 DEF Video!Next

(* which says what the run checks. *)
LEMMA MdecInvGives ==
  ASSUME Video!MdecAssumption, MdecInv
  PROVE  Video!TypeOK /\ Video!InStep /\ Video!WholeMacroblocks
<1>1. Video!TypeOK
  <2>1. mdecMdec.remaining \in Nat /\ mdecSending.sent \in 0 .. mdecSending.words
    BY DEF MdecInv, DecoderInv, Video!InStep, Sending
  <2>2. mdecMdec.command \in {"idle", "decode", "upload"} /\ mdecMdec.idx \in 0 .. Size - 1
        /\ mdecMdec.blocks \in Seq(Block) /\ mdecMdec.color \in BOOLEAN
    BY DEF MdecInv, DecoderInv, Decoder
  <2>3. Len(mdecMdec.blocks) < ColorBlocks
    BY <2>2 DEF MdecInv, DecoderInv, Room, Video!Needed, Video!MdecAssumption
  <2> QED
    BY <2>1, <2>2, <2>3 DEF Video!TypeOK
<1>2. ASSUME mdecSending.kind = "decode" /\ mdecMdec.command = "idle"
      PROVE  Video!WholeMacroblocks
  <2>1. /\ mdecMdec \in Decoder /\ mdecGot \in Streams /\ mdecEmitted \in Seq(Seq(Block))
        /\ Through(mdecGot, mdecMdec, mdecEmitted)
    BY <1>2 DEF MdecInv, DecoderInv, Stream, Streams
  <2> QED
    BY <2>1, ThroughGives
<1>3. Video!WholeMacroblocks
  <2>1. CASE ~(mdecSending.kind = "decode" /\ mdecMdec.command = "idle")
    BY <2>1 DEF Video!WholeMacroblocks
  <2> QED
    BY <1>2, <2>1
<1> QED
  BY <1>1, <1>3 DEF MdecInv, DecoderInv
-----------------------------------------------------------------------------
(* The decoder and whoever feeds it always agree on where a command ends,  *)
(* whatever its blocks hold and whenever it was reset; and when a stream   *)
(* is through, its macroblocks are the blocks a reader of the whole stream *)
(* would cut it into (feed_coefficient, end_block and write_data in        *)
(* mdec.rs), for streams of every length and any mixture of run lengths,   *)
(* padding and end-of-block codes.                                         *)
THEOREM MacroblocksAreWhole == UnitsSpec => []DecodedInStep
<1> DEFINE Inv == unit = "mdec" => MdecInv
<1>1. UnitsInit => Inv
  <2> SUFFICES ASSUME UnitsInit, unit = "mdec" PROVE MdecInv
    OBVIOUS
  <2>1. Video!Init /\ Video!MdecAssumption
    BY HardwareAssumption DEF UnitsInit, HardwareAssumption
  <2>2. Stream
    <3>1. mdecEmitted \in Seq(Seq(Block)) /\ mdecSending.kind # "decode"
      BY <2>1 DEF Video!Init, Video!Nothing
    <3> QED
      BY <3>1 DEF Stream
  <2> QED
    BY <2>1, <2>2, MdecStarts DEF MdecInv
<1>2. Inv /\ [UnitsNext]_unitsVars => Inv'
  <2> SUFFICES ASSUME Inv, [UnitsNext]_unitsVars, unit' = "mdec"
               PROVE  MdecInv'
    OBVIOUS
  <2>1. unit = "mdec"
    BY DEF UnitsNext, unitsVars
  <2>2. Video!Next \/ UNCHANGED mdecVars
    BY <2>1 DEF UnitsNext, unitsVars
  <2> QED
    BY <2>1, <2>2, MdecStepKeeps, HardwareAssumption DEF HardwareAssumption
<1>3. Inv => DecodedInStep
  BY MdecInvGives, HardwareAssumption DEF DecodedInStep, HardwareAssumption
<1> QED
  BY <1>1, <1>2, <1>3, PTL DEF UnitsSpec, unitsVars
-----------------------------------------------------------------------------
(* The main loop (module Machine), for every set of timers, costs, field   *)
(* lengths, deadlines, save-state slots and every horizon.                 *)

USE NeverAssumption, MachineAssumption DEF NeverAssumption, MachineAssumption, Device

-----------------------------------------------------------------------------
(* Lemmas about the heap operators of module Scheduler.                    *)

(* Arming a set of components only adds entries, of their kinds, and keeps *)
(* the heap well typed.                                                    *)
LEMMA ArmAllAdds ==
  ASSUME NEW h, h \subseteq Entry, NEW dl \in Deadlines, NEW K \in SUBSET Device
  PROVE  /\ h \subseteq ArmAll(h, dl, K)
         /\ ArmAll(h, dl, K) \subseteq Entry
         /\ VBlanks(ArmAll(h, dl, K)) = VBlanks(h)
  BY DEF ArmAll, Entry, Deadlines, VBlanks

(* Arming one component is the call wake_by makes (bus.rs:210-214).         *)
LEMMA ArmAllIsWakeBy ==
  ASSUME NEW h \in SUBSET Entry, NEW dl \in Deadlines, NEW k \in Device, dl[k] # Never
  PROVE  ArmAll(h, dl, {k}) = WakeBy(h, dl[k], k)
  BY DEF ArmAll, WakeBy, Schedule

(* A component that was armed has an entry at its deadline or before.      *)
LEMMA ArmAllWakes ==
  ASSUME NEW h, h \subseteq Entry, NEW dl \in Deadlines, NEW K \in SUBSET Device,
         NEW k \in K, dl[k] # Never
  PROVE  WakesBy(ArmAll(h, dl, K), k, dl[k])
<1>1. CASE WakesBy(h, k, dl[k])
  BY <1>1 DEF ArmAll, WakesBy
<1>2. CASE ~WakesBy(h, k, dl[k])
  <2>1. [deadline |-> dl[k], kind |-> k] \in ArmAll(h, dl, K)
    BY <1>2 DEF ArmAll
  <2>2. dl[k] \in Nat
    BY DEF Deadlines
  <2> QED
    BY <2>1, <2>2 DEF WakesBy
<1> QED
  BY <1>1, <1>2

(* A wake-up survives anything that keeps the entries, and a drain that    *)
(* does not wake its kind.                                                 *)
LEMMA WakesByGrows ==
  ASSUME NEW h, NEW g, h \subseteq g, NEW k, NEW d, WakesBy(h, k, d)
  PROVE  WakesBy(g, k, d)
  BY DEF WakesBy

(* Entries of a kind that a drain does not wake stay pending.              *)
LEMMA NotDueKeeps ==
  ASSUME NEW h, NEW now, NEW k, NEW d, WakesBy(h, k, d), k \notin DueKinds(h, now)
  PROVE  WakesBy(NotDue(h, now), k, d)
  BY DEF WakesBy, NotDue, DueKinds, Due

(* Arming what an access may have moved restores coverage.                 *)
LEMMA ArmAllCovers ==
  ASSUME NEW h, h \subseteq Entry, NEW old \in Deadlines, NEW dl \in Deadlines,
         NEW K \in SUBSET Device, Covered(h, old),
         \A k \in Device \ K : dl[k] = old[k]
  PROVE  Covered(ArmAll(h, dl, K), dl)
<1> SUFFICES ASSUME NEW k \in Device, dl[k] # Never
             PROVE  WakesBy(ArmAll(h, dl, K), k, dl[k])
  BY DEF Covered
<1>1. CASE k \in K
  BY <1>1, ArmAllWakes
<1>2. CASE k \notin K
  <2>1. WakesBy(h, k, dl[k])
    BY <1>2 DEF Covered
  <2> QED
    BY <2>1, ArmAllAdds, WakesByGrows
<1> QED
  BY <1>1, <1>2
-----------------------------------------------------------------------------
(* The invariant of one machine state.                                     *)
SoundState(h, dl, now, since, sv, next) ==
  /\ Covered(h, dl)
  /\ Overdue(dl, now) \subseteq Serviced(sv)
  /\ VBlankAhead(h, now, since)
  /\ Paced(now, next)

LiveOK ==
  /\ cycles \in Nat /\ heap \subseteq Entry /\ deadline \in Deadlines
  /\ field \in Field /\ origin \in Nat /\ nextSample \in Nat /\ served \in [Device -> Nat]
  /\ SoundState(heap, deadline, cycles, origin, served, nextSample)

FilesOK ==
  /\ saved \in [Slots -> Snapshot \cup {None}]
  /\ \A s \in Files :
       LET m == saved[s]
       IN SoundState(m.heap, m.deadline, m.cycles, m.origin, m.served, m.nextSample)

IInv == LiveOK /\ FilesOK

(* What deadlines the model lets a set of components report.               *)
LEMMA WhensAre ==
  ASSUME NEW K \in SUBSET Device, NEW at \in Whens(K)
  PROVE  \A k \in K : at[k] \in Nat \cup {Never}
<1>1. \A k \in K : at[k] \in Times[k] \cup {Never} /\ Times[k] \subseteq Nat
  BY DEF Whens, When
<1> QED
  BY <1>1

(* A component is serviced once if it was woken, and else not at all.      *)
LEMMA TimesServedAre ==
  ASSUME NEW h, NEW now
  PROVE  /\ TimesServed(h, now) \in [Device -> Nat]
         /\ Serviced(TimesServed(h, now)) = DueKinds(h, now) \cap Device
         /\ \A k \in Device : TimesServed(h, now)[k] = IF k \in DueKinds(h, now) THEN 1 ELSE 0
  BY DEF TimesServed, Serviced

(* The closed form of the sample loop stops within one period.             *)
LEMMA SampleAfterPaced ==
  ASSUME NEW now \in Nat, NEW old \in Nat, NEW next \in Nat, old <= now, Paced(old, next)
  PROVE  SampleAfter(now, next) \in Nat /\ Paced(now, SampleAfter(now, next))
<1>1. CASE now < next
  BY <1>1 DEF SampleAfter, Paced
<1>2. CASE next <= now
  <2> DEFINE late == now - next
             q == late \div SamplePeriod
  <2>1. late \in Nat /\ SamplePeriod \in Nat /\ SamplePeriod > 0
    BY <1>2
  <2>2. q \in Nat /\ q * SamplePeriod <= late /\ late < q * SamplePeriod + SamplePeriod
    BY <2>1
  <2>3. (q + 1) * SamplePeriod = q * SamplePeriod + SamplePeriod
    BY <2>1, <2>2
  <2>4. SampleAfter(now, next) = next + (q * SamplePeriod + SamplePeriod)
    BY <1>2, <2>3 DEF SampleAfter
  <2> QED
    <3> HIDE DEF q
    <3>1. q * SamplePeriod \in Nat
      BY <2>1, <2>2
    <3> QED
      BY <2>1, <2>2, <2>4, <3>1 DEF Paced
<1> QED
  BY <1>1, <1>2

(***************************************************************************)
(* The end of an instruction restores the invariant from what its accesses *)
(* left: a typed, covering heap with one VBlank entry ahead of the cycle   *)
(* the instruction started at.  Nothing is assumed of overdue components:  *)
(* the drain finds them all.                                               *)
(***************************************************************************)
LEMMA EndStepLive ==
  ASSUME LiveOK, NEW c \in Cost, NEW h, h \subseteq Entry, NEW dl \in Deadlines,
         NEW f \in Field, Covered(h, dl), VBlanks(h) = VBlanks(heap),
         EndStep(c, h, dl, f)
  PROVE  LiveOK' /\ saved' = saved
<1> DEFINE now == cycles + c
           woken == DueKinds(h, now)
           vblank == VBlank \in woken
           serviced == woken \cap Device
           moved == serviced \cup (IF vblank THEN Timers ELSE {})
           rest == IF vblank THEN Schedule(NotDue(h, now), now + f, VBlank)
                             ELSE NotDue(h, now)
<1>1. PICK new \in Whens(moved) :
        /\ \A k \in moved \ serviced : Later(dl[k], new[k])
        /\ deadline' = [k \in Device |-> IF k \in moved THEN new[k] ELSE dl[k]]
        /\ heap' = ArmAll(rest, deadline', serviced)
  BY DEF EndStep
<1>2. /\ cycles' = now /\ field' = f /\ saved' = saved
      /\ served' \in [Device -> Nat] /\ Serviced(served') = serviced
      /\ origin' = IF vblank THEN now ELSE origin
      /\ nextSample' = SampleAfter(now, nextSample)
  BY TimesServedAre DEF EndStep
<1>3. now \in Nat /\ now > cycles
  BY DEF LiveOK
<1>4. deadline' \in Deadlines
  <2>1. moved \in SUBSET Device
    OBVIOUS
  <2> HIDE DEF moved
  <2>2. \A k \in moved : new[k] \in Nat \cup {Never}
    BY <2>1, WhensAre
  <2> QED
    BY <1>1, <2>2 DEF Deadlines
<1>5. rest \subseteq Entry
  <2>1. NotDue(h, now) \subseteq Entry
    BY DEF NotDue
  <2>2. Schedule(NotDue(h, now), now + f, VBlank) \subseteq Entry
    BY <2>1, <1>3 DEF Schedule, Entry
  <2> QED
    BY <2>1, <2>2
<1>6. rest \subseteq heap' /\ heap' \subseteq Entry /\ VBlanks(heap') = VBlanks(rest)
  <2>1. serviced \in SUBSET Device
    OBVIOUS
  <2> HIDE DEF rest, serviced
  <2> QED
    BY ONLY <1>1, <1>4, <1>5, <2>1, ArmAllAdds
<1>7. ASSUME NEW k \in Device \ serviced, deadline'[k] # Never
      PROVE  dl[k] # Never /\ dl[k] <= deadline'[k] /\ dl[k] \in Nat /\ deadline'[k] \in Nat
  <2>1. deadline'[k] \in Nat
    BY <1>4, <1>7 DEF Deadlines
  <2>2. CASE k \in moved
    <3>1. deadline'[k] = new[k] /\ Later(dl[k], new[k])
      BY <1>1, <1>7, <2>2
    <3> QED
      BY <3>1, <2>1, <1>7 DEF Later, Deadlines
  <2>3. CASE k \notin moved
    <3>1. deadline'[k] = dl[k]
      BY <1>1, <1>7, <2>3
    <3> QED
      BY <3>1, <2>1, <1>7
  <2> QED
    BY <2>2, <2>3
<1>8. Covered(heap', deadline')
  <2> SUFFICES ASSUME NEW k \in Device, deadline'[k] # Never
               PROVE  WakesBy(heap', k, deadline'[k])
    BY DEF Covered
  <2>1. CASE k \in serviced
    BY <1>1, <1>4, <1>5, <2>1, ArmAllWakes
  <2>2. CASE k \notin serviced
    <3>1. /\ dl[k] # Never /\ dl[k] <= deadline'[k]
          /\ dl[k] \in Nat /\ deadline'[k] \in Nat
      BY <1>7, <2>2
    <3>2. WakesBy(h, k, dl[k]) /\ k \notin woken
      BY <3>1, <2>2 DEF Covered
    <3>3. WakesBy(NotDue(h, now), k, dl[k])
      BY <3>2, NotDueKeeps
    <3>4. WakesBy(heap', k, dl[k])
      <4>1. NotDue(h, now) \subseteq rest
        BY DEF Schedule
      <4> QED
        BY <3>3, <4>1, <1>6, WakesByGrows
    <3>5. PICK e \in heap' : e.kind = k /\ e.deadline <= dl[k]
      BY <3>4 DEF WakesBy
    <3>6. e.deadline \in Nat
      BY <1>6, <3>5 DEF Entry
    <3> QED
      BY <3>1, <3>5, <3>6 DEF WakesBy
  <2> QED
    BY <2>1, <2>2
<1>9. Overdue(deadline', cycles') \subseteq Serviced(served')
  <2> SUFFICES ASSUME NEW k \in Device, deadline'[k] # Never, deadline'[k] <= now
               PROVE  k \in serviced
    BY <1>2 DEF Overdue
  <2> SUFFICES ASSUME k \notin serviced
               PROVE  FALSE
    OBVIOUS
  <2>1. dl[k] # Never /\ dl[k] <= deadline'[k] /\ dl[k] \in Nat /\ deadline'[k] \in Nat
    BY <1>7
  <2>2. PICK e \in h : e.kind = k /\ e.deadline <= dl[k]
    BY <2>1 DEF Covered, WakesBy
  <2>3. e.deadline <= now
    <3>1. e.deadline \in Nat
      BY <2>2 DEF Entry
    <3> QED
      BY <2>1, <2>2, <3>1, <1>3
  <2>4. k \in woken
    BY <2>2, <2>3 DEF DueKinds, Due
  <2> QED
    BY <2>4
<1>10. VBlankAhead(heap', cycles', origin')
  <2>1. PICK e \in heap : /\ VBlanks(heap) = {e}
                          /\ e.deadline > cycles
                          /\ e.deadline - origin \in Field
    BY DEF LiveOK, SoundState, VBlankAhead
  <2>2. e \in h /\ e.kind = VBlank /\ VBlanks(h) = {e} /\ e.deadline \in Nat
    BY <2>1 DEF VBlanks, Entry, LiveOK
  <2>3. CASE e.deadline <= now
    <3> DEFINE n == [deadline |-> now + f, kind |-> VBlank]
    <3>1. vblank
      BY <2>2, <2>3 DEF DueKinds, Due
    <3>2. VBlanks(NotDue(h, now)) = {}
      BY <2>2, <2>3 DEF VBlanks, NotDue, Due
    <3>3. VBlanks(rest) = {n} /\ n \in rest
      BY <3>1, <3>2 DEF VBlanks, Schedule
    <3>4. f \in Nat /\ f > 0
      OBVIOUS
    <3>5. n.deadline > now /\ n.deadline - now \in Field
      BY <3>4, <1>3
    <3> QED
      BY <3>1, <3>3, <3>5, <1>2, <1>6 DEF VBlankAhead
  <2>4. CASE ~(e.deadline <= now)
    <3>1. ~vblank
      BY <2>2, <2>4 DEF DueKinds, Due, VBlanks
    <3>2. VBlanks(rest) = {e} /\ e \in rest
      BY <2>2, <2>4, <3>1 DEF VBlanks, NotDue, Due
    <3>3. e.deadline > now
      BY <2>2, <2>4, <1>3
    <3> QED
      BY <2>1, <3>1, <3>2, <3>3, <1>2, <1>6 DEF VBlankAhead
  <2> QED
    BY <2>3, <2>4
<1>11. nextSample' \in Nat /\ Paced(cycles', nextSample')
  BY <1>2, <1>3, SampleAfterPaced DEF LiveOK, SoundState
<1>12. origin' \in Nat /\ field' \in Field /\ served' \in [Device -> Nat] /\ cycles' \in Nat
  BY <1>2, <1>3 DEF LiveOK
<1> QED
  BY <1>2, <1>4, <1>6, <1>8, <1>9, <1>10, <1>11, <1>12 DEF LiveOK, SoundState
-----------------------------------------------------------------------------
(* Every instruction is an end-of-instruction after accesses that touched  *)
(* the deadline of one component, of all the timers, or of none, and that  *)
(* left the heap typed, covering, and with the same VBlank entry.          *)
Accessed(touched, h, dl) ==
  /\ touched \in {{}} \cup {{k} : k \in Device} \cup {Timers}
  /\ h \subseteq Entry /\ dl \in Deadlines
  /\ Covered(h, dl) /\ VBlanks(h) = VBlanks(heap)
  /\ \A k \in Device \ touched : dl[k] = deadline[k]

(* Every access an instruction can make leaves the machine in such a shape *)
(* before its end: what moved earlier was armed (bus.rs:208-241, 496-591). *)
LEMMA StepAccesses ==
  ASSUME LiveOK, Step
  PROVE  \E touched \in SUBSET Device, h \in SUBSET Entry, dl \in Deadlines,
            c \in Cost, f \in Field :
           Accessed(touched, h, dl) /\ EndStep(c, h, dl, f)
<1> USE DEF LiveOK, SoundState
<1>1. CASE Compute
  <2>1. PICK c \in Cost : EndStep(c, heap, deadline, field)
    BY <1>1 DEF Compute
  <2>2. Accessed({}, heap, deadline)
    BY DEF Accessed
  <2> QED
    BY <2>1, <2>2
<1>2. ASSUME NEW k \in Device, WriteRegister(k)
      PROVE  \E touched \in SUBSET Device, h \in SUBSET Entry, dl \in Deadlines,
                c \in Cost, f \in Field :
               Accessed(touched, h, dl) /\ EndStep(c, h, dl, f)
  <2>1. PICK c \in Cost, at \in When(k) :
          EndStep(c, ArmAll(heap, [deadline EXCEPT ![k] = at], {k}),
                  [deadline EXCEPT ![k] = at], field)
    BY <1>2 DEF WriteRegister
  <2> DEFINE dl == [deadline EXCEPT ![k] = at]
  <2>2. dl \in Deadlines /\ \A j \in Device \ {k} : dl[j] = deadline[j]
    BY DEF Deadlines, When
  <2> HIDE DEF dl
  <2>3. Accessed({k}, ArmAll(heap, dl, {k}), dl)
    <3>1. {k} \in {{}} \cup {{j} : j \in Device} \cup {Timers} /\ {k} \in SUBSET Device
      OBVIOUS
    <3>2. ArmAll(heap, dl, {k}) \subseteq Entry /\ VBlanks(ArmAll(heap, dl, {k})) = VBlanks(heap)
      BY <2>2, <3>1, ArmAllAdds
    <3>3. Covered(ArmAll(heap, dl, {k}), dl)
      BY <2>2, <3>1, ArmAllCovers
    <3> QED
      BY <2>2, <3>1, <3>2, <3>3 DEF Accessed
  <2>4. EndStep(c, ArmAll(heap, dl, {k}), dl, field)
    BY <2>1 DEF dl
  <2> QED
    BY <2>2, <2>3, <2>4 DEF Accessed
<1>3. CASE ResetPort
  <2>1. PICK c \in Cost : EndStep(c, heap, [deadline EXCEPT ![Port] = Never], field)
    BY <1>3 DEF ResetPort
  <2> DEFINE dl == [deadline EXCEPT ![Port] = Never]
  <2>2. dl \in Deadlines /\ \A j \in Device \ {Port} : dl[j] = deadline[j]
    BY DEF Deadlines
  <2>3. Covered(heap, dl)
    BY <2>2 DEF Covered, Deadlines
  <2>4. Accessed({Port}, heap, dl)
    BY <2>2, <2>3 DEF Accessed
  <2> QED
    BY <2>1, <2>2, <2>4
<1>4. ASSUME NEW k \in Timers, ReadTimer(k)
      PROVE  \E touched \in SUBSET Device, h \in SUBSET Entry, dl \in Deadlines,
                c \in Cost, f \in Field :
               Accessed(touched, h, dl) /\ EndStep(c, h, dl, f)
  <2>1. PICK c \in Cost, at \in When(k) :
          Later(deadline[k], at) /\ EndStep(c, heap, [deadline EXCEPT ![k] = at], field)
    BY <1>4 DEF ReadTimer
  <2> DEFINE dl == [deadline EXCEPT ![k] = at]
  <2>2. dl \in Deadlines /\ dl[k] = at /\ \A j \in Device \ {k} : dl[j] = deadline[j]
    BY DEF Deadlines, When
  <2>3. Covered(heap, dl)
    <3> SUFFICES ASSUME NEW j \in Device, dl[j] # Never
                 PROVE  WakesBy(heap, j, dl[j])
      BY DEF Covered
    <3>1. deadline[j] # Never /\ deadline[j] <= dl[j]
      BY <2>1, <2>2 DEF Later, Deadlines
    <3>2. PICK e \in heap : e.kind = j /\ e.deadline <= deadline[j]
      BY <3>1 DEF Covered, WakesBy
    <3>3. e.deadline \in Nat /\ deadline[j] \in Nat /\ dl[j] \in Nat
      BY <2>2, <3>1 DEF Entry, Deadlines
    <3> QED
      BY <3>1, <3>2, <3>3 DEF WakesBy
  <2>4. Accessed({k}, heap, dl)
    BY <2>2, <2>3 DEF Accessed
  <2> QED
    BY <2>1, <2>2, <2>4
<1>5. CASE WriteGp1
  <2>1. PICK c \in Cost, f \in Field, at \in Whens(Timers) :
          LET dl == [k \in Device |-> IF k \in Timers THEN at[k] ELSE deadline[k]]
          IN EndStep(c, ArmAll(heap, dl, Timers), dl, f)
    BY <1>5 DEF WriteGp1
  <2> DEFINE dl == [k \in Device |-> IF k \in Timers THEN at[k] ELSE deadline[k]]
  <2>2. dl \in Deadlines /\ \A j \in Device \ Timers : dl[j] = deadline[j]
    <3>1. \A j \in Timers : at[j] \in Nat \cup {Never}
      BY WhensAre
    <3> QED
      BY <3>1 DEF Deadlines
  <2>3. EndStep(c, ArmAll(heap, dl, Timers), dl, f)
    BY <2>1
  <2> HIDE DEF dl
  <2>4. Accessed(Timers, ArmAll(heap, dl, Timers), dl)
    BY <2>2, ArmAllAdds, ArmAllCovers DEF Accessed
  <2> QED
    BY <2>2, <2>3, <2>4 DEF Accessed
<1> QED
  BY <1>1, <1>2, <1>3, <1>4, <1>5 DEF Step
-----------------------------------------------------------------------------
(* The machine with_bus builds satisfies the invariant.                    *)
LEMMA PowerOnLive ==
  ASSUME PowerOn
  PROVE  LiveOK
<1>1. /\ cycles \in Nat /\ heap \subseteq Entry /\ deadline \in Deadlines
      /\ field \in Field /\ origin \in Nat /\ nextSample \in Nat /\ served \in [Device -> Nat]
  BY DEF PowerOn, Schedule, Entry, Deadlines, Unserved
<1>2. Covered(heap, deadline) /\ Overdue(deadline, cycles) \subseteq Serviced(served)
  BY DEF PowerOn, Covered, Overdue
<1>3. VBlankAhead(heap, cycles, origin)
  <2> DEFINE e == [deadline |-> PowerOnField, kind |-> VBlank]
  <2>1. heap = {e} /\ VBlanks(heap) = {e}
    BY DEF PowerOn, Schedule, VBlanks
  <2>2. e.deadline > cycles /\ e.deadline - origin \in Field
    BY DEF PowerOn
  <2> QED
    BY <2>1, <2>2 DEF VBlankAhead
<1>4. Paced(cycles, nextSample)
  BY DEF PowerOn, Paced
<1> QED
  BY <1>1, <1>2, <1>3, <1>4 DEF LiveOK, SoundState

(* The inductive invariant holds at power-on (with_bus, lib.rs:91-102).    *)
THEOREM InitIInv == Init => IInv
<1> SUFFICES ASSUME Init PROVE IInv
  OBVIOUS
<1>1. LiveOK
  BY PowerOnLive DEF Init
<1>2. FilesOK
  BY DEF Init, FilesOK, Files, None
<1> QED
  BY <1>1, <1>2 DEF IInv

(* The lid is opened: the drive's new deadline lies ahead, and is armed.   *)
LEMMA OpenShellLive ==
  ASSUME LiveOK, OpenShell
  PROVE  LiveOK' /\ saved' = saved /\ VBlanks(heap') = VBlanks(heap)
<1>1. PICK at \in {Never} \cup {t \in Times[Drive] : t > cycles} :
        /\ deadline' = [deadline EXCEPT ![Drive] = at]
        /\ heap' = ArmAll(heap, deadline', {Drive})
        /\ UNCHANGED <<cycles, field, origin, nextSample, served, saved>>
  BY DEF OpenShell
<1>2. deadline' \in Deadlines /\ \A k \in Device \ {Drive} : deadline'[k] = deadline[k]
  BY <1>1 DEF LiveOK, Deadlines
<1>3. heap' \subseteq Entry /\ heap \subseteq heap' /\ VBlanks(heap') = VBlanks(heap)
  <2>1. {Drive} \in SUBSET Device /\ heap \subseteq Entry
    BY DEF LiveOK
  <2> QED
    BY ONLY <1>1, <1>2, <2>1, ArmAllAdds
<1>4. Covered(heap', deadline')
  BY <1>1, <1>2, ArmAllCovers DEF LiveOK, SoundState
<1>5. Overdue(deadline', cycles') \subseteq Serviced(served')
  BY <1>1, <1>2 DEF LiveOK, SoundState, Overdue, Deadlines
<1>6. VBlankAhead(heap', cycles', origin')
  BY <1>1, <1>3 DEF LiveOK, SoundState, VBlankAhead
<1> QED
  BY <1>1, <1>2, <1>3, <1>4, <1>5, <1>6 DEF LiveOK, SoundState, Paced

(* Every instruction, lid, reset, save and load keeps it.                  *)
THEOREM NextIInv == IInv /\ [Next]_vars => IInv'
<1> SUFFICES ASSUME IInv, [Next]_vars PROVE IInv'
  OBVIOUS
<1>0. LiveOK /\ FilesOK
  BY DEF IInv
<1>files. ASSUME saved' = saved PROVE FilesOK'
  BY <1>0, <1>files DEF FilesOK, Files
<1>1. CASE Step
  <2>1. PICK touched \in SUBSET Device, h \in SUBSET Entry, dl \in Deadlines,
             c \in Cost, f \in Field :
          Accessed(touched, h, dl) /\ EndStep(c, h, dl, f)
    BY <1>0, <1>1, StepAccesses
  <2>2. LiveOK' /\ saved' = saved
    BY <1>0, <2>1, EndStepLive DEF Accessed
  <2> QED
    BY <2>2, <1>files DEF IInv
<1>2. CASE OpenShell
  BY <1>0, <1>2, <1>files, OpenShellLive DEF IInv
<1>3. CASE Reset
  <2>1. PowerOn' /\ saved' = saved
    BY <1>3 DEF Reset, PowerOn
  <2>2. LiveOK'
    BY <2>1, PowerOnLive, PTL
  <2> QED
    BY <2>1, <2>2, <1>files DEF IInv
<1>4. ASSUME NEW s \in Slots, SaveState(s) PROVE IInv'
  <2>1. LiveOK'
    BY <1>0, <1>4 DEF SaveState, machine, LiveOK, SoundState, Covered, Overdue, VBlankAhead, Paced
  <2> DEFINE m == [cycles |-> cycles, heap |-> heap, deadline |-> deadline, field |-> field,
                   origin |-> origin, nextSample |-> nextSample, served |-> served]
  <2>2. saved' = [saved EXCEPT ![s] = m]
    BY <1>4 DEF SaveState
  <2>3. m \in Snapshot
    BY <1>0 DEF LiveOK, Snapshot
  <2>4. SoundState(m.heap, m.deadline, m.cycles, m.origin, m.served, m.nextSample)
    BY <1>0 DEF LiveOK
  <2> HIDE DEF m
  <2>5. FilesOK'
    BY <1>0, <2>2, <2>3, <2>4 DEF FilesOK, Files
  <2> QED
    BY <2>1, <2>5 DEF IInv
<1>5. ASSUME NEW s \in Slots, LoadState(s) PROVE IInv'
  <2> DEFINE m == saved[s]
  <2>1. m \in Snapshot
    BY <1>0, <1>5 DEF LoadState, FilesOK
  <2>2. SoundState(m.heap, m.deadline, m.cycles, m.origin, m.served, m.nextSample)
    BY <1>0, <1>5 DEF LoadState, FilesOK, Files
  <2>3. LiveOK'
    BY <1>5, <2>1, <2>2 DEF LoadState, LiveOK, Snapshot, SoundState, Covered, Overdue,
                            VBlankAhead, Paced
  <2> QED
    BY <1>5, <2>3, <1>files DEF IInv, LoadState
<1>6. CASE UNCHANGED vars
  BY <1>0, <1>6 DEF vars, IInv, LiveOK, FilesOK, Files, SoundState, Covered, Overdue,
                    VBlankAhead, Paced
<1> QED
  BY <1>1, <1>2, <1>3, <1>4, <1>5, <1>6 DEF Next

(* So it holds of every reachable machine and of every save-state file.    *)
THEOREM SpecIInv == Spec => []IInv
  BY InitIInv, NextIInv, PTL DEF Spec
-----------------------------------------------------------------------------
(* Every variable keeps its type (PsxSystem and Scheduler, lib.rs:74-83,   *)
(* scheduler.rs:39-43).                                                    *)
THEOREM TypeCorrect == Spec => []TypeOK
<1>1. IInv => TypeOK
  BY DEF IInv, LiveOK, FilesOK, TypeOK
<1> QED
  BY <1>1, SpecIInv, PTL

(* No component ever waits for a wake-up that does not come: the calls of  *)
(* arm_cdrom, arm_sio, arm_timer and arm_timers (bus.rs:210-241) are       *)
(* enough.                                                                 *)
THEOREM WakeupsNeverLost == Spec => []NoLostWakeup
<1>1. IInv => NoLostWakeup
  BY DEF IInv, LiveOK, FilesOK, NoLostWakeup, SoundState
<1> QED
  BY <1>1, SpecIInv, PTL

(* serve_events (lib.rs:416-458) services a component in the instruction   *)
(* that reaches its deadline.                                              *)
THEOREM AlwaysOnTime == Spec => []OnTime
<1>1. IInv => OnTime
  BY DEF IInv, LiveOK, FilesOK, OnTime, SoundState
<1> QED
  BY <1>1, SpecIInv, PTL

(* schedule (scheduler.rs:50-58) keeps exactly one vertical blank pending, *)
(* a field after the last one.                                             *)
THEOREM AlwaysOneVBlank == Spec => []OneVBlank
<1>1. IInv => OneVBlank
  BY DEF IInv, LiveOK, FilesOK, OneVBlank, SoundState
<1> QED
  BY <1>1, SpecIInv, PTL

(* The sample loop (lib.rs:406-409) never falls behind, however many       *)
(* cycles one instruction takes.                                           *)
THEOREM SamplesKeepPace == Spec => []SamplePacing
<1>1. IInv => SamplePacing
  BY DEF IInv, LiveOK, FilesOK, SamplePacing, SoundState
<1> QED
  BY <1>1, SpecIInv, PTL
-----------------------------------------------------------------------------
(* Refinement.  The VBlank entry, when it is the only one, is the one      *)
(* VBlankAt chooses.                                                       *)
LEMMA VBlankAtIs ==
  ASSUME NEW h, NEW e, VBlanks(h) = {e}
  PROVE  (CHOOSE d \in h : d.kind = VBlank) = e /\ VBlankOf(h) = e.deadline
<1>1. e \in h /\ e.kind = VBlank /\ \A d \in h : d.kind = VBlank => d = e
  BY DEF VBlanks
<1>2. (CHOOSE d \in h : d.kind = VBlank) = e
  BY <1>1
<1> QED
  BY <1>2 DEF VBlankOf

(* What becomes of a component that an instruction does not service, when  *)
(* its accesses left the deadlines at dl.                                  *)
Passed(k, dl) ==
  /\ served'[k] = 0 /\ ~(dl[k] # Never /\ dl[k] <= cycles')
  /\ deadline'[k] = dl[k] \/ (k \in Timers /\ VBlankAt <= cycles' /\ Later(dl[k], deadline'[k]))

(* What the end of an instruction does to the deadlines of the components  *)
(* it does not service and to the VBlank entry.                            *)
LEMMA EndStepMoves ==
  ASSUME LiveOK, NEW c \in Cost, NEW h, h \subseteq Entry, NEW dl \in Deadlines,
         NEW f \in Field, Covered(h, dl), VBlanks(h) = VBlanks(heap),
         EndStep(c, h, dl, f)
  PROVE  /\ cycles' = cycles + c
         /\ \A k \in Device : served'[k] = 1 \/ Passed(k, dl)
         /\ VBlankAt' = IF VBlankAt <= cycles' THEN cycles' + f ELSE VBlankAt
<1> DEFINE now == cycles + c
           woken == DueKinds(h, now)
           vblank == VBlank \in woken
           serviced == woken \cap Device
           moved == serviced \cup (IF vblank THEN Timers ELSE {})
           left == NotDue(h, now)
           rest == IF vblank THEN Schedule(left, now + f, VBlank) ELSE left
<1>1. PICK new \in Whens(moved) :
        /\ \A k \in moved \ serviced : Later(dl[k], new[k])
        /\ deadline' = [k \in Device |-> IF k \in moved THEN new[k] ELSE dl[k]]
        /\ heap' = ArmAll(rest, deadline', serviced)
  BY DEF EndStep
<1>2. cycles' = now /\ served' = TimesServed(h, now)
  BY DEF EndStep
<1>3. now \in Nat
  BY DEF LiveOK
<1>4. PICK e \in heap : VBlanks(heap) = {e}
  BY DEF LiveOK, SoundState, VBlankAhead
<1>5. /\ e \in h /\ e.kind = VBlank /\ e.deadline \in Nat
      /\ \A d \in h : d.kind = VBlank => d = e
  BY <1>4 DEF VBlanks, Entry, LiveOK
<1>6. VBlankAt = e.deadline
  BY <1>4, VBlankAtIs DEF VBlankAt
<1>7. vblank <=> VBlankAt <= now
  BY <1>5, <1>6 DEF DueKinds, Due
<1>8. VBlanks(heap') = VBlanks(rest)
  <2>1. serviced \in SUBSET Device /\ deadline' \in Deadlines
    <3>1. moved \in SUBSET Device /\ serviced \in SUBSET Device
      OBVIOUS
    <3> HIDE DEF moved, serviced
    <3>2. \A k \in moved : new[k] \in Nat \cup {Never}
      BY <3>1, WhensAre
    <3> QED
      BY <1>1, <3>1, <3>2 DEF Deadlines
  <2>2. rest \subseteq Entry
    BY <1>3 DEF Schedule, NotDue, Entry
  <2> HIDE DEF rest, serviced
  <2> QED
    BY ONLY <1>1, <2>1, <2>2, ArmAllAdds
<1>9. VBlankAt' = IF vblank THEN now + f ELSE VBlankAt
  <2>1. CASE vblank
    <3> DEFINE n == [deadline |-> now + f, kind |-> VBlank]
    <3>1. VBlanks(left) = {}
      BY <1>5, <1>6, <1>7, <2>1 DEF VBlanks, NotDue, Due
    <3>2. VBlanks(rest) = {n}
      BY <2>1, <3>1 DEF VBlanks, Schedule
    <3>3. VBlankAt' = n.deadline
      <4>1. VBlanks(heap') = {n}
        BY <1>8, <3>2
      <4>2. VBlankOf(heap') = n.deadline
        BY ONLY <4>1, VBlankAtIs
      <4> QED
        BY ONLY <4>2 DEF VBlankAt
    <3> QED
      BY <2>1, <3>3
  <2>2. CASE ~vblank
    <3>1. VBlanks(rest) = {e}
      BY <1>5, <2>2 DEF VBlanks, NotDue, DueKinds, Due
    <3>2. VBlanks(heap') = {e}
      BY <1>8, <3>1
    <3>3. VBlankOf(heap') = e.deadline
      BY ONLY <3>2, VBlankAtIs
    <3>4. VBlankAt' = e.deadline
      BY ONLY <3>3 DEF VBlankAt
    <3> QED
      BY <1>6, <2>2, <3>4
  <2> QED
    BY <2>1, <2>2
<1>10. ASSUME NEW k \in Device, k \notin woken PROVE Passed(k, dl)
  <2>1. served'[k] = 0
    BY <1>2, <1>10, TimesServedAre
  <2>2. ~(dl[k] # Never /\ dl[k] <= cycles')
    <3> SUFFICES ASSUME dl[k] # Never, dl[k] <= now PROVE k \in woken
      BY <1>2, <1>10
    <3>1. PICK d \in h : d.kind = k /\ d.deadline <= dl[k]
      BY DEF Covered, WakesBy
    <3>2. d.deadline \in Nat /\ dl[k] \in Nat
      BY DEF Entry, Deadlines
    <3>3. d.deadline <= now
      BY <1>3, <3>1, <3>2
    <3> QED
      BY <3>1, <3>3 DEF DueKinds, Due
  <2>3. deadline'[k] = dl[k] \/ (k \in Timers /\ VBlankAt <= cycles' /\ Later(dl[k], deadline'[k]))
    BY <1>1, <1>2, <1>7, <1>10
  <2> QED
    BY <2>1, <2>2, <2>3 DEF Passed
<1>11. \A k \in Device : served'[k] = 1 \/ Passed(k, dl)
  BY <1>2, <1>10, TimesServedAre
<1> QED
  BY <1>2, <1>7, <1>9, <1>11

(* An instruction of the machine is an instruction of the polling one.     *)
LEMMA StepPolls ==
  ASSUME LiveOK, Step
  PROVE  Polled!Instruction
<1>1. PICK touched \in SUBSET Device, h \in SUBSET Entry, dl \in Deadlines,
           c \in Cost, f \in Field :
        Accessed(touched, h, dl) /\ EndStep(c, h, dl, f)
  BY StepAccesses
<1>2. LiveOK' /\ saved' = saved
  BY <1>1, EndStepLive DEF Accessed
<1>3. /\ cycles' = cycles + c
      /\ \A k \in Device : served'[k] = 1 \/ Passed(k, dl)
      /\ VBlankAt' = IF VBlankAt <= cycles' THEN cycles' + f ELSE VBlankAt
  BY <1>1, EndStepMoves DEF Accessed
<1>4. cycles' > cycles
  BY <1>3 DEF LiveOK
<1>5. ASSUME NEW k \in Device, Passed(k, dl)
      PROVE  Polled!Unserviced(k, touched)
  <2>1. Overdue(deadline', cycles') \subseteq Serviced(served') /\ served'[k] = 0
    BY <1>2, <1>5 DEF LiveOK, SoundState, Passed
  <2>2. ~(deadline'[k] # Never /\ deadline'[k] <= cycles')
    BY <2>1 DEF Overdue, Serviced
  <2>3. k \notin touched => dl[k] = deadline[k]
    BY <1>1 DEF Accessed
  <2>4. \/ k \in touched
        \/ deadline'[k] = deadline[k]
        \/ /\ k \in Timers /\ VBlankAt <= cycles'
           /\ ~(deadline[k] # Never /\ deadline[k] <= cycles')
           /\ deadline'[k] # Never => deadline[k] # Never /\ deadline[k] <= deadline'[k]
    BY <1>5, <2>3 DEF Passed, Later
  <2> QED
    BY ONLY <2>1, <2>2, <2>4 DEF Polled!Unserviced, Polled!Reached, Polled!Later
<1>6. \A k \in Device : served'[k] = 1 \/ Polled!Unserviced(k, touched)
  BY <1>3, <1>5
<1>7. IF VBlankAt <= cycles'
      THEN \E g \in Field : VBlankAt' = cycles' + g
      ELSE VBlankAt' = VBlankAt
  BY <1>3
<1>8. touched \in {{}} \cup {{k} : k \in Device} \cup {Timers}
  BY <1>1 DEF Accessed
<1>9. KeptMachines' = KeptMachines
  BY <1>2 DEF KeptMachines
<1> QED
  BY ONLY <1>4, <1>6, <1>7, <1>8, <1>9 DEF Polled!Instruction

(* The machine at power-on is the polling machine at power-on.             *)
LEMMA PowerOnPolls ==
  ASSUME PowerOn
  PROVE  VBlankAt = PowerOnField
<1> DEFINE e == [deadline |-> PowerOnField, kind |-> VBlank]
<1>1. VBlanks(heap) = {e}
  BY DEF PowerOn, Schedule, VBlanks
<1>2. (CHOOSE d \in heap : d.kind = VBlank) = e
  BY <1>1, VBlankAtIs
<1>3. e.deadline = PowerOnField
  OBVIOUS
<1> HIDE DEF e
<1> QED
  BY ONLY <1>2, <1>3 DEF VBlankAt, VBlankOf

(* A state that is saved or loaded is saved or loaded in the polling       *)
(* machine, whole.                                                         *)
LEMMA SavePolls ==
  ASSUME IInv, NEW s \in Slots, SaveState(s)
  PROVE  Polled!Save(s)
<1> DEFINE m == [cycles |-> cycles, heap |-> heap, deadline |-> deadline, field |-> field,
                 origin |-> origin, nextSample |-> nextSample, served |-> served]
<1>1. saved' = [saved EXCEPT ![s] = m] /\ UNCHANGED machine
  BY DEF SaveState
<1>2. m # None
  <2>1. "cycles" \in DOMAIN m
    OBVIOUS
  <2>2. DOMAIN None = {}
    BY DEF None
  <2> QED
    BY <2>1, <2>2
<1>3. m.cycles = cycles /\ m.deadline = deadline /\ m.heap = heap /\ m.served = served
  OBVIOUS
<1> HIDE DEF m
<1>4. saved \in [Slots -> Snapshot \cup {None}]
  BY DEF IInv, FilesOK
<1>5. KeptMachines' = [KeptMachines EXCEPT ![s] = <<cycles, deadline, VBlankAt, served>>]
  BY <1>1, <1>2, <1>3, <1>4 DEF KeptMachines, VBlankAt
<1>6. UNCHANGED <<cycles, deadline, VBlankAt, served>>
  BY <1>1 DEF machine, VBlankAt
<1> QED
  BY <1>5, <1>6 DEF Polled!Save, Polled!state

(* (the same of a load)                                                    *)
LEMMA LoadPolls ==
  ASSUME NEW s \in Slots, LoadState(s)
  PROVE  Polled!Load(s)
<1>1. /\ saved[s] # None /\ saved' = saved
      /\ cycles' = saved[s].cycles /\ deadline' = saved[s].deadline
      /\ heap' = saved[s].heap /\ served' = saved[s].served
  BY DEF LoadState
<1>2. KeptMachines[s] = <<saved[s].cycles, saved[s].deadline, VBlankOf(saved[s].heap), saved[s].served>>
  BY <1>1 DEF KeptMachines
<1>3. VBlankAt' = VBlankOf(saved[s].heap)
  BY <1>1 DEF VBlankAt
<1>4. KeptMachines[s] # None
  BY <1>2 DEF None
<1>5. KeptMachines' = KeptMachines
  BY <1>1 DEF KeptMachines
<1> QED
  BY <1>1, <1>2, <1>3, <1>4, <1>5 DEF Polled!Load, Polled!state

(* Every step of the machine is a step of the polling machine.             *)
LEMMA NextPolls ==
  ASSUME IInv, [Next]_vars
  PROVE  [Polled!Next]_(Polled!vars)
<1>0. LiveOK
  BY DEF IInv
<1>1. CASE Step
  BY <1>0, <1>1, StepPolls DEF Polled!Next
<1>2. CASE OpenShell
  <2>1. PICK at \in {Never} \cup {t \in Times[Drive] : t > cycles} :
          /\ deadline' = [deadline EXCEPT ![Drive] = at]
          /\ UNCHANGED <<cycles, served, saved>>
    BY <1>2 DEF OpenShell
  <2>2. ~(at # Never /\ at <= cycles)
    <3>1. cycles \in Nat
      BY <1>0 DEF LiveOK
    <3>2. at = Never \/ (at \in Nat /\ at > cycles)
      OBVIOUS
    <3> QED
      BY ONLY <3>1, <3>2
  <2>3. /\ \A k \in Device \ {Drive} : deadline'[k] = deadline[k]
        /\ ~(deadline'[Drive] # Never /\ deadline'[Drive] <= cycles)
    BY <1>0, <2>1, <2>2 DEF LiveOK, Deadlines
  <2>4. VBlankAt' = VBlankAt
    <3>1. PICK e \in heap : VBlanks(heap) = {e}
      BY <1>0 DEF LiveOK, SoundState, VBlankAhead
    <3>2. VBlanks(heap') = {e}
      BY <1>0, <1>2, <3>1, OpenShellLive
    <3> QED
      BY <3>1, <3>2, VBlankAtIs DEF VBlankAt
  <2>5. KeptMachines' = KeptMachines
    BY <2>1 DEF KeptMachines
  <2> QED
    BY <2>1, <2>3, <2>4, <2>5 DEF Polled!Next, Polled!OpenShell, Polled!Reached
<1>3. CASE Reset
  <2>1. PowerOn' /\ saved' = saved
    BY <1>3 DEF Reset, PowerOn
  <2>2. VBlankAt' = PowerOnField
    <3> DEFINE e == [deadline |-> PowerOnField, kind |-> VBlank]
    <3>1. VBlanks(heap') = {e}
      BY <2>1 DEF PowerOn, Schedule, VBlanks
    <3>2. VBlankOf(heap') = e.deadline
      BY <3>1, VBlankAtIs
    <3> QED
      BY <3>2 DEF VBlankAt
  <2>3. KeptMachines' = KeptMachines
    BY <2>1 DEF KeptMachines
  <2> QED
    BY <2>1, <2>2, <2>3 DEF Polled!Next, Polled!Reset, Polled!PowerOn, PowerOn, Unserved
<1>4. ASSUME NEW s \in Slots, SaveState(s) PROVE [Polled!Next]_(Polled!vars)
  BY <1>4, SavePolls DEF Polled!Next
<1>5. ASSUME NEW s \in Slots, LoadState(s) PROVE [Polled!Next]_(Polled!vars)
  BY <1>5, LoadPolls DEF Polled!Next
<1>6. CASE UNCHANGED vars
  BY <1>6 DEF vars, Polled!vars, VBlankAt, KeptMachines
<1> QED
  BY <1>1, <1>2, <1>3, <1>4, <1>5, <1>6 DEF Next

(* The machine that has only the heap to go by does what one would do that *)
(* looks at every component after every instruction (scheduler.rs:3-10,    *)
(* lib.rs:411-415): each is serviced once, in the instruction that reaches *)
(* its deadline, nothing else moves what is not serviced, the vertical     *)
(* blank comes once a field, and a loaded state is the one that was saved. *)
THEOREM MachinePolls == Spec => ImplementsPolling
<1>1. Init => Polled!Init
  <2> SUFFICES ASSUME Init PROVE Polled!Init
    OBVIOUS
  <2>1. VBlankAt = PowerOnField
    BY PowerOnPolls DEF Init
  <2>2. KeptMachines = [s \in Slots |-> None]
    BY DEF Init, KeptMachines
  <2> QED
    BY <2>1, <2>2 DEF Init, PowerOn, Polled!Init, Polled!PowerOn, Unserved
<1>2. IInv /\ [Next]_vars => [Polled!Next]_(Polled!vars)
  BY NextPolls
<1> QED
  BY <1>1, <1>2, SpecIInv, PTL DEF Spec, ImplementsPolling, Polled!Spec
=============================================================================
