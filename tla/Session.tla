------------------------------ MODULE Session ------------------------------
(***************************************************************************)
(* Who moves the machine: the three main loops of psx-app over the same    *)
(* debug stub (module DebugServer).                                        *)
(*   window   the worker thread (emu.rs), fed by the user interface (ui.rs)*)
(*   budget   --headless --cycles (main.rs, run_headless)                  *)
(*   control  --headless --control-port (main.rs, control.rs)              *)
(* An iteration of a loop is taken apart where another party can come in   *)
(* between: a command, the pump, each instruction of a slice, the free     *)
(* run.  The user interface runs in a thread of its own and sees only what *)
(* the worker last published.                                              *)
(***************************************************************************)
EXTENDS DebugServer, FiniteSets

CONSTANTS
  Modes,       (* the loops considered                                     *)
  Waits,       (* whether --wait-debugger is given                         *)
  Slice,       (* cycles in the budget of a slice (CHUNK)                  *)
  Cycles,      (* --cycles                                                 *)
  QueueBound,  (* bound: commands on the way to the worker                 *)
  Asked        (* bound: what is asked of the window and the port          *)

Commands == {"run", "pause", "step", "reset", "save", "load", "open", "close"}
(* What the control port takes: it runs, presses, sequences or waits for a *)
(* value ("advance"), saves or replaces the machine's state, or works the  *)
(* lid.                                                                    *)
PortCommands == {"advance", "reset", "save", "load", "open", "close"}

ASSUME SessionAssumption ==
  /\ Modes \subseteq {"window", "budget", "control"} /\ Waits \subseteq BOOLEAN
  /\ Slice \in Nat \ {0} /\ Cycles \in Nat /\ QueueBound \in Nat
  /\ Asked \subseteq Commands \cup PortCommands

VARIABLES
  mode, wait,  (* how the program was started                              *)
  loop,        (* where its main loop is                                   *)
  budget,      (* what is left of the slice                                *)
  seen,        (* debugger_seen                                            *)
  running,     (* Worker.running                                           *)
  queue,       (* commands on their way to the worker                      *)
  shown,       (* Shared.status.debugger: who owns execution, as published *)
  picker,      (* the disc dialogue is up                                  *)
  stored,      (* the lid in the saved state on disk                       *)
  mark,        (* sys.cycles() before the pump (`before` in the source)    *)
  done,        (* run_headless: cycles counted against --cycles            *)
  met,         (* history: a client has attached                           *)
  chunks       (* history: slices run_headless has run itself              *)

loopVars == <<loop, budget, seen, running, mark, done, met, chunks>>
uiVars == <<queue, shown, picker, stored>>
vars == <<stubVars, mode, wait, loopVars, uiVars>>

Init ==
  /\ StubInit
  /\ mode \in Modes /\ wait \in Waits
  /\ machine = [pc |-> 0, lid |-> "shut", cycles |-> IF mode = "budget" THEN 0 ELSE Uncounted]
  /\ loop = IF mode = "window" THEN "commands" ELSE "pump"
  /\ budget = 0 /\ mark = 0 /\ done = 0 /\ chunks = 0
  /\ seen = FALSE /\ met = FALSE
  /\ running = ~wait
  /\ queue = <<>> /\ picker = FALSE /\ stored = "shut"
  /\ shown = FALSE

(* debugger_state().owns_execution(). *)
Waiting == wait /\ ~seen
DebuggerActive == Attached \/ Waiting
-----------------------------------------------------------------------------
(* The interface: the menu asks only while the status says that no         *)
(* debugger owns execution, saving and loading always; while the dialogue  *)
(* is up its thread does nothing else.                                     *)
Offered == {"run", "pause", "step", "reset"}

SendCommand(command) ==
  /\ mode = "window" /\ ~picker /\ Len(queue) < QueueBound
  /\ \/ command \in {"save", "load"}
     \/ command \in Offered /\ ~shown
  /\ queue' = Append(queue, command)
  /\ UNCHANGED <<stubVars, mode, wait, loopVars, shown, picker, stored>>

OpenDisc ==
  /\ mode = "window" /\ ~picker /\ ~shown /\ Len(queue) < QueueBound
  /\ picker' = TRUE
  /\ queue' = Append(queue, "open")
  /\ UNCHANGED <<stubVars, mode, wait, loopVars, shown, stored>>

PickDisc ==
  /\ picker /\ Len(queue) < QueueBound
  /\ picker' = FALSE
  /\ queue' = Append(queue, "close")
  /\ UNCHANGED <<stubVars, mode, wait, loopVars, shown, stored>>

UserNext == (\E command \in Commands \cap Asked : SendCommand(command)) \/ OpenDisc \/ PickDisc
-----------------------------------------------------------------------------
(* The worker, one command at a time. *)

(* What a command makes of the machine.  A reset builds a new drive, with  *)
(* the lid shut; a state brings the lid it was saved with; a file that     *)
(* cannot be read changes nothing.                                         *)
Moves(command, next) ==
  CASE command = "step" -> \E cost \in Costs : next = Stepped(machine, cost)
    [] command = "reset" -> next = [machine EXCEPT !.pc = 0, !.lid = "shut"]
    [] command = "load" ->
         next = machine \/ \E w \in Words : next = [machine EXCEPT !.pc = w, !.lid = stored]
    [] command = "open" -> next = [machine EXCEPT !.lid = "open"]
    [] command = "close" -> next = [machine EXCEPT !.lid = "shut"]
    [] OTHER -> next = machine

(* Saving is nobody's privilege.                                           *)
Stores(command, next) ==
  next \in IF command = "save" THEN {stored, machine.lid} ELSE {stored}

(* Mutated form of HandleCommand: a state is loaded whoever owns execution.*)
HandleCommandLoading ==
  /\ loop = "commands" /\ queue # <<>>
  /\ queue' = Tail(queue)
  /\ Stores(Head(queue), stored')
  /\ IF DebuggerActive /\ Head(queue) # "load" THEN UNCHANGED <<machine, running>>
     ELSE /\ Moves(Head(queue), machine')
          /\ running' = CASE Head(queue) = "run" -> TRUE
                          [] Head(queue) \in {"pause", "step"} -> FALSE
                          [] OTHER -> running
  /\ UNCHANGED <<stub, link, sent, stops, view, fresh, mode, wait>>
  /\ UNCHANGED <<loop, budget, seen, mark, done, met, chunks, shown, picker>>

HandleCommand ==
  /\ loop = "commands" /\ queue # <<>>
  /\ queue' = Tail(queue)
  /\ Stores(Head(queue), stored')
  /\ IF DebuggerActive THEN UNCHANGED <<machine, running>>
     ELSE /\ Moves(Head(queue), machine')
          /\ running' = CASE Head(queue) = "run" -> TRUE
                          [] Head(queue) \in {"pause", "step"} -> FALSE
                          [] OTHER -> running
  /\ UNCHANGED <<stub, link, sent, stops, view, fresh, mode, wait>>
  /\ UNCHANGED <<loop, budget, seen, mark, done, met, chunks, shown, picker>>

(* The budget of one iteration: nothing while the pacer is ahead. *)
CommandsHandled ==
  /\ loop = "commands" /\ queue = <<>>
  /\ loop' = "pump"
  /\ budget' \in {0, Slice}
  /\ UNCHANGED <<stubVars, mode, wait, seen, running, mark, done, met, chunks, uiVars>>

Publish ==
  /\ loop = "publish"
  /\ shown' = DebuggerActive
  /\ loop' = "commands"
  /\ UNCHANGED <<stubVars, mode, wait, budget, seen, running, mark, done, met, chunks>>
  /\ UNCHANGED <<queue, picker, stored>>
-----------------------------------------------------------------------------
(* What all loops do: pump the stub, then run what is theirs to run. *)

(* The budget the loop hands to pump(). *)
Least(a, b) == IF a < b THEN a ELSE b
Offer == IF mode = "window" THEN budget
         ELSE IF mode = "budget" THEN Least(Slice, Cycles - done) ELSE Slice

(* pump() services its client, then runs it unless it is halted. *)
Onward(b) ==
  CASE b.client = NoClient -> "free"
    [] b.client # NoClient /\ b.rx # <<>> -> "service"
    [] b.client # NoClient /\ b.rx = <<>> -> IF b.halted THEN "free" ELSE "slice"

PumpStub ==
  /\ loop = "pump" /\ (mode = "budget" => done < Cycles)
  /\ mark' = machine.cycles
  /\ budget' = Offer
  /\ Pump
  /\ met' = (met \/ Attached \/ AtTheDoor # {})
  /\ loop' = Onward(stub')
  /\ UNCHANGED <<mode, wait, seen, running, done, chunks, uiVars>>

(* service_client: one item of what was read. *)
Service ==
  /\ loop = "service"
  /\ ServiceItem
  /\ loop' = Onward(stub')
  /\ UNCHANGED <<mode, wait, budget, seen, running, mark, done, met, chunks, uiVars>>

(* run_slice counts from its own start: cycles the pump spent stepping are *)
(* on top, and so is what the last instruction takes over the budget.      *)
RunSlice ==
  /\ loop = "slice"
  /\ \/ budget = 0 /\ loop' = "free" /\ UNCHANGED <<stubVars, budget>>
     \/ budget > 0 /\ (StopAtBreakpoint \/ StopCutOff) /\ loop' = "free" /\ UNCHANGED budget
     \/ /\ budget > 0
        /\ \E cost \in Costs :
             RunInstruction(cost) /\ budget' = budget - Least(budget, cost)
        /\ UNCHANGED loop
  /\ UNCHANGED <<mode, wait, seen, running, mark, done, met, chunks, uiVars>>

(* `debugger_seen |= attached()`. *)
SeenNow == seen \/ Attached
(* Mutated form of HandsOff: nobody waits for the first client. *)
HandsOffAttached == Attached
HandsOff == Attached \/ (wait /\ ~SeenNow)

(* PsxSystem::run_cycles: k instructions, which take n cycles or more; all *)
(* but the last take fewer.                                                *)
Run(m, n) ==
  IF n = 0 THEN {m}
  ELSE {[m EXCEPT !.pc = (@ + r.k) % Size, !.cycles = Later(@, r.before + r.last)] :
          r \in {q \in [k : 1 .. n, before : 0 .. n - 1, last : Costs] :
                   /\ q.before \in q.k - 1 .. (q.k - 1) * Longest
                   /\ q.before + q.last >= n}}

(* Worker::run after the pump.  Its budget is the slice the pump was given:*)
(* a pump that leaves nobody attached has not used it up.                  *)
WindowRuns ==
  /\ loop = "free" /\ mode = "window"
  /\ seen' = SeenNow
  /\ IF budget > 0 /\ ~HandsOff /\ running
     THEN machine' \in Run(machine, Slice) ELSE UNCHANGED machine
  /\ loop' = "publish" /\ budget' = 0 /\ mark' = 0
  /\ UNCHANGED <<stub, link, sent, stops, view, fresh>>
  /\ UNCHANGED <<mode, wait, running, done, met, chunks, uiVars>>

(* Mutated form of BudgetRuns: an iteration of the debugger's counts as a  *)
(* whole slice.                                                            *)
BudgetRunsWhole ==
  /\ loop = "free" /\ mode = "budget"
  /\ seen' = SeenNow
  /\ done' = done + Slice
  /\ IF HandsOff THEN UNCHANGED <<machine, chunks>>
     ELSE machine' \in Run(machine, Slice) /\ chunks' = chunks + 1
  /\ loop' = (IF done' < Cycles THEN "pump" ELSE "ended") /\ budget' = 0 /\ mark' = 0
  /\ UNCHANGED <<stub, link, sent, stops, view, fresh>>
  /\ UNCHANGED <<mode, wait, running, met, uiVars>>

(* run_headless without a control port.  What the pump ran is counted as   *)
(* it was, a slice of the loop's own as what was asked for.  A pump may    *)
(* spend more than was left and lose its client: `cycles - done` then      *)
(* wraps, to a whole slice, or a build that checks for overflow panics.    *)
BudgetRuns ==
  LET pumped == done + (machine.cycles - mark)
      left == Cycles - pumped
      n == IF left < 0 THEN Slice ELSE Least(Slice, left)
  IN /\ loop = "free" /\ mode = "budget"
     /\ seen' = SeenNow
     /\ \/ /\ HandsOff \/ left < 0
           /\ done' = pumped
           /\ UNCHANGED <<machine, chunks>>
        \/ /\ ~HandsOff
           /\ machine' \in Run(machine, n)
           /\ done' = pumped + n /\ chunks' = chunks + 1
     /\ loop' = (IF done' < Cycles THEN "pump" ELSE "ended") /\ budget' = 0 /\ mark' = 0
     /\ UNCHANGED <<stub, link, sent, stops, view, fresh>>
     /\ UNCHANGED <<mode, wait, running, met, uiVars>>

(* run_headless with one: ControlServer::pump executes at most one command,*)
(* and refuses what moves execution while a debugger is attached.          *)
PortCommand(command) ==
  /\ Stores(command, stored')
  /\ CASE command \in {"advance", "reset", "load"} /\ Attached -> UNCHANGED machine
       [] command = "advance" /\ ~Attached -> \E n \in 1 .. Slice : machine' \in Run(machine, n)
       [] OTHER -> Moves(command, machine')

ControlRuns ==
  /\ loop = "free" /\ mode = "control"
  /\ \/ UNCHANGED <<machine, stored>>
     \/ \E command \in PortCommands \cap Asked : PortCommand(command)
  /\ loop' = "pump" /\ budget' = 0 /\ mark' = 0
  /\ UNCHANGED <<stub, link, sent, stops, view, fresh>>
  /\ UNCHANGED <<mode, wait, seen, running, done, met, chunks, queue, shown, picker>>

LoopNext ==
  \/ HandleCommand \/ CommandsHandled \/ Publish
  \/ PumpStub \/ Service \/ RunSlice
  \/ WindowRuns \/ BudgetRuns \/ ControlRuns

(* --cycles are spent: the program leaves. *)
Ended == loop = "ended" /\ UNCHANGED vars

DebuggerNext ==
  /\ loop # "ended"
  /\ ClientNext
  /\ UNCHANGED <<mode, wait, loopVars, uiVars>>

Next == LoopNext \/ Ended \/ DebuggerNext \/ UserNext

(* The loop goes on, a client reads what it is sent, and the user does not *)
(* post a command between every two reads of the queue, which the worker   *)
(* empties before it does anything else.  Whether users and clients do     *)
(* anything at all is up to them.                                          *)
Fairness ==
  /\ WF_vars(LoopNext) /\ SF_vars(CommandsHandled)
  /\ \A c \in Clients : WF_vars(DebuggerNext /\ Receive(c))

Spec == Init /\ [][Next]_vars /\ Fairness
-----------------------------------------------------------------------------
(* Properties. *)

TypeOK ==
  /\ stub \in [client : Clients \cup {NoClient}, halted : BOOLEAN,
               breakpoints : SUBSET Words, skip : BOOLEAN, rx : Seq(Requests)]
  /\ machine \in [pc : Words, lid : {"open", "shut"}, cycles : Nat \cup {Uncounted}]
  /\ link \in [Clients -> {"away", "knocking", "open", "shut"}]
  /\ \A c \in Clients : sent[c] \in Seq(Requests) /\ Len(sent[c]) <= SendBound
  /\ stops \in [Clients -> 0 .. 1]
  /\ view \in [Clients -> {"stopped", "running"}]
  /\ fresh \in BOOLEAN
  /\ mode \in Modes /\ wait \in Waits
  /\ loop \in {"commands", "pump", "service", "slice", "free", "publish", "ended"}
  /\ budget \in 0 .. Slice /\ mark \in Nat \cup {Uncounted} /\ {done, chunks} \subseteq Nat
  /\ {seen, running, picker, met} \subseteq BOOLEAN
  /\ queue \in Seq(Commands) /\ Len(queue) <= QueueBound
  /\ shown \in BOOLEAN /\ stored \in {"open", "shut"}

(* A debugger's idea of its target and the stub's agree: while the client  *)
(* believes it runs there is exactly one resume on the way, or the target  *)
(* runs, or exactly one stop reply is on the way, and otherwise none of    *)
(* them -- however interrupts, breakpoints, steps and attaches cross.      *)
Resumes(c) ==
  Cardinality({i \in DOMAIN Underway(c) : Underway(c)[i].kind \in {"continue", "step"}})
InLockstep ==
  \A c \in Clients :
    Resumes(c) + stops[c] + (IF stub.client = c /\ ~stub.halted THEN 1 ELSE 0)
      = (IF view[c] = "running" THEN 1 ELSE 0)

(* While a client is attached that believes its target stopped and has     *)
(* nothing on the way, the target stays where it is: no command of the     *)
(* interface or of the control port, and no loop, runs it underneath.      *)
Settled(c) == stub.client = c /\ view[c] = "stopped" /\ Underway(c) = <<>>
Undisturbed ==
  [][\A c \in Clients : Settled(c) =>
       machine'.pc = machine.pc /\ machine'.cycles = machine.cycles]_vars

(* A continue gets off the breakpoint it stands on, and no other           *)
(* instruction with a breakpoint is run over.                              *)
BreakpointsHold ==
  [][loop = "slice" =>
       /\ stub'.halted /\ ~stub.halted => ~fresh
       /\ machine'.cycles # machine.cycles \/ machine'.pc # machine.pc =>
            fresh \/ machine.pc \notin stub.breakpoints]_vars

(* README.md:142: --wait-debugger holds execution until a client attaches; *)
(* in the window and under --cycles it does.                               *)
WaitHolds == wait /\ ~met /\ mode # "control" => machine.pc = 0

(* --cycles is what the machine runs, whoever runs it: of a debugger's     *)
(* iteration the cycles it actually ran count (main.rs:382), each slice    *)
(* run_headless runs itself is undercounted by less than an instruction    *)
(* ("for roughly", psx-core lib.rs:460), nothing is counted that was not   *)
(* run, and the program does not leave early.                              *)
BudgetSpent ==
  mode = "budget" /\ loop \in {"pump", "ended"} =>
    /\ done <= machine.cycles /\ machine.cycles <= done + (Longest - 1) * chunks
    /\ loop = "ended" => machine.cycles >= Cycles

(* ui.rs:274: the picker is up for exactly as long as the drive is open:   *)
(* with nothing left in the queue, the lid is as the dialogue shows it.    *)
LidFollowsPicker ==
  mode = "window" /\ queue = <<>> /\ ~picker => machine.lid = "shut"

(* An interrupt stops a running target: a client that has resumed it and   *)
(* then sent one is told of a stop, unless the program ends.  (One that    *)
(* crossed an earlier stop is spent on that.)                              *)
Interrupting(c) == sent[c] # <<>> /\ sent[c][Len(sent[c])].kind = "interrupt"
Stoppable ==
  \A c \in Clients :
    view[c] = "running" /\ Interrupting(c) ~> view[c] = "stopped" \/ loop = "ended"
=============================================================================
