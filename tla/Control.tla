------------------------------ MODULE Control ------------------------------
(***************************************************************************)
(* The control port of the headless emulator (control.rs): one TCP client  *)
(* at a time, one command a pump, and the commands that drive execution,   *)
(* hold buttons, keep snapshots and read or write memory.                  *)
(*                                                                         *)
(* A client's bytes are pieces: the text of a command, or the newline that *)
(* ends it.  A line is the texts before a newline; a line of more than one *)
(* text is two commands run together, which no command name matches.       *)
(*                                                                         *)
(* The machine is its clock in vblanks, the pad it presents to the game    *)
(* and one word of memory, which the game may rewrite at every vblank.     *)
(***************************************************************************)
EXTENDS Naturals, Sequences, SequencesExt

CONSTANTS Clients,      \* the programs that connect to the port
          Buttons,      \* buttons of the pad
          Values,       \* values the word takes
          Slots,        \* in-memory snapshot slots
          Arguments,    \* the commands a client may send (a subset of Commands)
          MaxLines,     \* bound: lines the clients send
          MaxTime       \* bound: vblanks after a reset

VARIABLES door,         \* clients waiting to be accepted, in order
          inbox,        \* inbox[c]: pieces c has sent that were not read
          closed,       \* clients that have closed their end
          owed,         \* owed[c]: the commands c has sent and not seen answered
          spent,        \* lines sent so far
          client,       \* the connected client, or "none"
          buf,          \* pieces read and not yet executed
          answer,       \* the reply the last step wrote, with the command due one
          held,         \* buttons the port holds
          slots,        \* slots[s]: the snapshot of the machine it holds, if any
          sys,          \* the machine: [time, pads, word]
          owns,         \* a debugger is attached: execution is its own
          quit          \* the quit command was executed

vars == <<door, inbox, closed, owed, spent, client, buf, answer, held, slots, sys, owns, quit>>
wire == <<door, inbox, closed, owed, spent>>

NL == <<"newline">>
Pads == SUBSET Buttons
Machines == [time : 0..MaxTime, pads : Pads, word : Values]

(* The commands, with what their arguments can be once parsed; "bad" is an *)
(* argument the parser refuses, as {"bad"} is a segment it refuses.        *)
Untils == {<<"until", v, n>> : v \in Values, n \in 0..2}
LoadExes == {<<"loadexe", wait, image>> : wait \in BOOLEAN, image \in {"good", "bad"}}
Pokes == {<<"poke", v, tail>> : v \in Values, tail \in {"inside", "outside"}}
Commands ==
    {<<"run">>, <<"run", "bad">>, <<"input clear">>, <<"reset">>, <<"state">>, <<"quit">>}
    \cup {<<"press", p>> : p \in Pads}
    \cup {<<"seq", s>> : s \in SeqOf(Pads \cup {{"bad"}}, 2) \ {<<>>}}
    \cup {<<"input set", p>> : p \in Pads}
    \cup {<<"savestate", s>> : s \in Slots}
    \cup {<<"loadstate", s>> : s \in Slots}
    \cup Untils \cup LoadExes \cup Pokes

\* Mutated form of Execution: until is forgotten.
ExecutionListed == {"run", "press", "loadstate", "loadexe", "reset", "seq"}

\* The commands that may run the machine.
Execution == {"run", "press", "loadstate", "loadexe", "reset", "seq", "until"}

(* What the constants are. *)
ASSUME ControlAssumption ==
    /\ Arguments \subseteq Commands
    /\ Values # {}
    /\ MaxLines \in Nat /\ MaxTime \in Nat
    /\ "none" \notin Clients

Boot == [time |-> 0, pads |-> {}, word |-> CHOOSE v \in Values : TRUE]

Init ==
    /\ door = <<>>
    /\ inbox = [c \in Clients |-> <<>>]
    /\ closed = {}
    /\ owed = [c \in Clients |-> <<>>]
    /\ spent = 0
    /\ client = "none"
    /\ buf = <<>>
    /\ answer = <<>>
    /\ held = {}
    /\ slots = [s \in Slots |-> {}]
    /\ sys = Boot
    /\ owns = FALSE
    /\ quit = FALSE

----------------------------------------------------------------------------
(* The clients.                                                            *)

port == <<client, buf, held, slots, sys, quit>>
Unanswered == answer' = <<>>

Connect(c) ==
    /\ c \notin closed /\ c # client /\ ~ Contains(door, c)
    /\ spent < MaxLines
    /\ door' = Append(door, c)
    /\ Unanswered
    /\ UNCHANGED <<inbox, closed, owed, spent, owns, port>>

Connected(c) == c \notin closed /\ (c = client \/ Contains(door, c))

\* A client finishes a line before it begins the next; the two pieces may
\* arrive apart, and the client may go away in between.
MidLine(c) ==
    \/ inbox[c] # <<>> /\ Last(inbox[c]) # NL
    \/ c = client /\ inbox[c] = <<>> /\ buf # <<>> /\ Last(buf) # NL

SendText(c) ==
    \E cmd \in Arguments :
        /\ Connected(c) /\ ~ MidLine(c)
        /\ spent < MaxLines /\ spent' = spent + 1
        /\ inbox' = [inbox EXCEPT ![c] = Append(@, cmd)]
        /\ owed' = [owed EXCEPT ![c] = Append(@, cmd)]
        /\ Unanswered
        /\ UNCHANGED <<door, closed, owns, port>>

SendNewline(c) ==
    /\ Connected(c) /\ MidLine(c)
    /\ inbox' = [inbox EXCEPT ![c] = Append(@, NL)]
    /\ Unanswered
    /\ UNCHANGED <<door, closed, owed, spent, owns, port>>

HangUp(c) ==
    /\ Connected(c)
    /\ closed' = closed \cup {c}
    /\ Unanswered
    /\ UNCHANGED <<door, inbox, owed, spent, owns, port>>

Attach ==
    /\ owns' = ~ owns
    /\ Unanswered
    /\ UNCHANGED <<wire, port>>

----------------------------------------------------------------------------
(* What a command does: the set of results [ok, held, sys, slots] it may   *)
(* have.  Advancing presents the held buttons and lets the game run.       *)

Result(ok, h, m, s) == [ok |-> ok, held |-> h, sys |-> m, slots |-> s]
Refused == Result(FALSE, held, sys, slots)

Advance(m, h, n) ==
    {[time |-> m.time + n, pads |-> h, word |-> v] : v \in Values}

Run == {Result(TRUE, held, m, slots) : m \in Advance(sys, held, 1)}

\* Mutated form of Press: the pressed buttons stay.
PressKept(mask) ==
    {Result(TRUE, held, m, slots) : m \in Advance(sys, held \cup mask, 1)}

Press(mask) ==
    {Result(TRUE, held, [m EXCEPT !.pads = held], slots)
        : m \in Advance(sys, held \cup mask, 1)}

\* Mutated form of Sequence: segments run as they are parsed.
SequenceAsParsed(segs) ==
    LET good == SelectSeq(segs, LAMBDA s : s \in Pads)
    IN  {Result(good = segs, held, [m EXCEPT !.pads = held], slots)
            : m \in Advance(sys, held, Len(good))}

\* Every segment is parsed before the first one runs.
Sequence(segs) ==
    IF \E i \in 1..Len(segs) : segs[i] \notin Pads THEN {Refused}
    ELSE {Result(TRUE, held, [m EXCEPT !.pads = held], slots)
            : m \in Advance(sys, Last(segs), Len(segs))}

\* The word is looked at before the first vblank and after each one.
Until(target, max) ==
    LET start == [sys EXCEPT !.pads = held]
    IN  IF start.word = target \/ max = 0 THEN {Result(TRUE, held, start, slots)}
        ELSE {Result(TRUE, held, m, slots) : m \in
                UNION {{x \in Advance(start, held, n) : x.word = target \/ n = max}
                        : n \in 1..max}}

InputSet(mask) == {Result(TRUE, mask, [sys EXCEPT !.pads = mask], slots)}

Reset == {Result(TRUE, {}, Boot, slots)}

SaveState(s) == {Result(TRUE, held, sys, [slots EXCEPT ![s] = {sys}])}

\* The snapshot brings its own pad state; the port's held buttons stay.
LoadState(s) ==
    IF slots[s] = {} THEN {Refused} ELSE {Result(TRUE, held, m, slots) : m \in slots[s]}

\* The file is read first; the boot to the shell, if asked for, comes next,
\* without the held buttons; the image is looked at last.
LoadExe(wait, image) ==
    {Result(image = "good", held, m, slots) :
        m \in IF wait THEN Advance(sys, sys.pads, 1) ELSE {sys}}

\* The bytes are written one by one, up to the first that is refused.
Poke(v, tail) == {Result(tail = "inside", held, [sys EXCEPT !.word = v], slots)}

Outcome(cmd) ==
    IF owns /\ cmd[1] \in Execution THEN {Refused}
    ELSE CASE cmd = <<"run">>        -> Run
           [] cmd = <<"run", "bad">> -> {Refused}
           [] cmd[1] = "press"       -> Press(cmd[2])
           [] cmd[1] = "seq"         -> Sequence(cmd[2])
           [] cmd[1] = "until"       -> Until(cmd[2], cmd[3])
           [] cmd[1] = "input set"   -> InputSet(cmd[2])
           [] cmd[1] = "input clear" -> InputSet({})
           [] cmd[1] = "reset"       -> Reset
           [] cmd[1] = "savestate"   -> SaveState(cmd[2])
           [] cmd[1] = "loadstate"   -> LoadState(cmd[2])
           [] cmd[1] = "loadexe"     -> LoadExe(cmd[2], cmd[3])
           [] cmd[1] = "poke"        -> Poke(cmd[2], cmd[3])
           [] OTHER                  -> {Result(TRUE, held, sys, slots)}

\* Two commands run together are no command.
Execute(line) == IF Len(line) = 1 THEN Outcome(line[1]) ELSE {Refused}

----------------------------------------------------------------------------
(* One pump: accept if nobody is connected, read all there is, and execute *)
(* the first whole line.                                                   *)

Accepts == client = "none" /\ door # <<>>
Served == IF Accepts THEN Head(door) ELSE client
\* Mutated form of Fresh: the last client's half line is kept.
FreshKept == buf

\* What is buffered of the client that is served.
Fresh == IF Accepts THEN <<>> ELSE buf

\* A client that has closed its end is dropped as soon as its bytes are read.
Dropped ==
    /\ Served \in closed
    /\ client' = "none"
    /\ buf' = Fresh \o inbox[Served]
    /\ owed' = [owed EXCEPT ![Served] = <<>>]
    /\ Unanswered
    /\ UNCHANGED <<held, slots, sys, quit>>

Lacking(text) ==
    /\ ~ Contains(text, NL)
    /\ buf' = text
    /\ client' = Served
    /\ Unanswered
    /\ UNCHANGED <<owed, held, slots, sys, quit>>

Due(c) == IF owed[c] = <<>> THEN <<>> ELSE <<Head(owed[c])>>

Executed(text) ==
    LET nl == CHOOSE i \in 1..Len(text) :
                 text[i] = NL /\ \A j \in 1..(i - 1) : text[j] # NL
        line == SubSeq(text, 1, nl - 1)
    IN  /\ Contains(text, NL)
        /\ buf' = SubSeq(text, nl + 1, Len(text))
        /\ client' = Served
        /\ \E r \in Execute(line) :
               /\ r.sys.time <= MaxTime
               /\ held' = r.held /\ sys' = r.sys /\ slots' = r.slots
               /\ answer' = [due |-> Due(Served), line |-> line, ok |-> r.ok]
               /\ owed' = [owed EXCEPT ![Served] = SubSeq(@, 2, Len(@))]
        /\ quit' = (line = <<<<"quit">>>>)

Pump ==
    /\ Served # "none"
    /\ door' = IF Accepts THEN Tail(door) ELSE door
    /\ inbox' = [inbox EXCEPT ![Served] = <<>>]
    /\ \/ Dropped
       \/ Served \notin closed /\ Lacking(Fresh \o inbox[Served])
       \/ Served \notin closed /\ Executed(Fresh \o inbox[Served])
    /\ UNCHANGED <<closed, spent, owns>>

\* The process ends with the quit command.
Next ==
    /\ ~ quit
    /\ \/ \E c \in Clients : Connect(c) \/ SendText(c) \/ SendNewline(c) \/ HangUp(c)
       \/ Attach
       \/ Pump

Spec == Init /\ [][Next]_vars

----------------------------------------------------------------------------
TypeOK ==
    /\ client \in Clients \cup {"none"}
    /\ held \in Pads
    /\ sys \in Machines
    /\ \A s \in Slots : slots[s] \subseteq Machines
    /\ owns \in BOOLEAN /\ quit \in BOOLEAN
    /\ spent \in 0..MaxLines

(* Each client is answered for its own commands, in the order it sent them *)
(* and for nothing else: what an earlier client left in the buffer (it may *)
(* have gone in the middle of a line) is never joined to its first command *)
(* (ControlServer::pump).                                                  *)
AnswersItsOwn == answer # <<>> => answer.line = answer.due

(* What a step executed, from the reply it wrote.                          *)
Answered(cmd, ok) ==
    answer' # <<>> /\ answer'.line = <<cmd>> /\ answer'.ok = ok

(* A command that advances the machine under other buttons gives them back:*)
(* the held set changes by input set, input clear and reset only; and a    *)
(* step that changes the buttons the game sees leaves it with exactly that *)
(* set, or with those of the state it loaded (press, seq, until).          *)
GivesButtonsBackStep ==
    /\ held' # held =>
          \E cmd \in Arguments :
              cmd[1] \in {"input set", "input clear", "reset"} /\ Answered(cmd, TRUE)
    /\ sys'.pads # sys.pads =>
          sys'.pads = held'
          \/ \E s \in Slots : sys' \in slots[s] /\ Answered(<<"loadstate", s>>, TRUE)
GivesButtonsBack == [][GivesButtonsBackStep]_vars

(* While a debugger is attached no command moves the machine's clock or    *)
(* replaces its state: the two never both drive execution (execute).       *)
DebuggerDrivesStep ==
    owns => sys'.time = sys.time /\ (sys' = sys \/ sys'.pads = held' \/ sys'.pads = sys.pads)
DebuggerDrives == [][DebuggerDrivesStep]_vars

(* A command answered with an error has changed nothing, unless it wrote   *)
(* bytes before the refused one or waited for the boot: a bad segment late *)
(* in a seq runs none of the earlier ones (execute).                       *)
ErrorsChangeNothingStep ==
    \A cmd \in Arguments :
        Answered(cmd, FALSE) /\ cmd[1] \notin {"poke", "loadexe"}
            => UNCHANGED <<held, sys, slots>>
ErrorsChangeNothing == [][ErrorsChangeNothingStep]_vars
============================================================================
