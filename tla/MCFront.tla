------------------------------ MODULE MCFront -------------------------------
(***************************************************************************)
(* The model-checking instances of the control port (Control) and of the   *)
(* parts around the machine that work on their own data: the cheats, the   *)
(* memory scanner, the program's output, the debugger's packets and the cue*)
(* sheets.  A behaviour picks one of them and runs it, the others stand    *)
(* still.                                                                  *)
(***************************************************************************)
EXTENDS Control, Integers

CONSTANTS
  ScanBase, ScanSize, ScanWidths, ScanValues, ScanPasses,   (* of Scan     *)
  TtyCap, TtyLimit,                                         (* of Tty      *)
  PacketData, PacketLongest, PacketItems,                   (* of Packets  *)
  CueFiles, CueLength, CueNumbers, CuePositions, CueMaxLines  (* CueSheet *)

ASSUME ScanAssumption ==
  /\ ScanBase \in Nat \ {0} /\ ScanSize \in Nat
  /\ ScanWidths \subseteq Nat \ {0} /\ ScanValues \subseteq Nat

ASSUME TtyAssumption == TtyCap \in Nat

ASSUME PacketsAssumption ==
  /\ PacketData \subseteq {<<"text">>, <<"hash">>, <<"dollar">>, <<"brace">>}
  /\ PacketLongest \in Nat /\ PacketItems \in Nat

ASSUME CueAssumption ==
  /\ CueLength \in [CueFiles -> Nat]
  /\ CuePositions \subseteq Nat /\ 0 \in CuePositions

VARIABLES
  unit,   (* which one runs                                                *)
  cheatsFile, cheatsList, cheatsEnabled, cheatsMemory, cheatsSaved, scanRam,
  scanScan, scanPasses, ttyText, ttyDropped, ttyLine, ttyRead, ttySlice,
  ttyLogged, ttyPrinted, packetsWire, packetsBuf, packetsSent, packetsTaken,
  packetsReplies, cueSheet, cueLines, cueImage, cueToc, cueResult

(* Cheats: a cheat of up to two more lines, of every type, broken,         *)
(* commented, or starting another cheat; or of three, the first of them a  *)
(* condition or the first half of a slide; and names that have blanks, or  *)
(* asterisks beside the mark.                                              *)
Bracketed(text) == [line |-> "name", text |-> text]
Coded(kind, addr, value) ==
  [line |-> "words", kind |-> kind, addr |-> addr, value |-> value]
Broken(kind) == [line |-> "malformed", kind |-> kind]
CheatLines ==
  {Bracketed(<<"B">>), [line |-> "comment"],
   Broken("none"), Broken("50"),
   Coded("30", 0, 1), Coded("80", 1, 3), Coded("11", 0, 1), Coded("21", 1, 1),
   Coded("E0", 0, 1), Coded("D2", 0, 2), Coded("D4", 0, 1),
   Coded("50", 5, 1), Coded("C2", 1, 2), Coded("C1", 0, 0)}
Headed(s) == <<Bracketed(<<"*", "A">>)>> \o s
CheatFiles ==
  {<<Coded("C2", 0, 1)>>}
    \cup {Headed(s) : s \in UNION {[1 .. n -> CheatLines] : n \in 0 .. 2}}
    \cup {Headed(s) : s \in {t \in [1 .. 3 -> CheatLines] :
             t[1].line = "words" /\ t[1].kind \in {"D2", "D4", "50"}}}
    \cup {<<Bracketed(t), Coded("30", 0, 1)>> : t \in
            {<<"*", "*", "A">>, <<" ", "*", "A">>, <<"*", " ", "*", "A">>,
             <<" ", "A", " ">>, <<"*">>}}

(* Control: each command that holds buttons, runs the machine or replaces  *)
(* it, one of them with an argument the parser refuses.                    *)
SentCommands ==
  {<<"press", {"B"}>>, <<"seq", <<{"B"}, {"bad"}>>>>, <<"seq", <<{"B"}>>>>,
   <<"until", 1, 1>>, <<"input set", {"B"}>>, <<"reset">>, <<"savestate", 0>>,
   <<"loadstate", 0>>, <<"loadexe", TRUE, "bad">>, <<"quit">>}

(* Packets: bytes that are escaped, and one that is not.                   *)
DataBytes == {<<"text">>, <<"hash">>, <<"brace">>}

(* CueSheet: files of two sectors, of one, and of no whole number.         *)
FileLengths == [A |-> 2, B |-> 1, C |-> 0]

(* Bound: the clients are alike, and the first to come is c1.              *)
FirstComes ==
  unit = "control" /\ (client = "c2" \/ Contains(door, "c2") \/ "c2" \in closed)
    => client = "c1" \/ Contains(door, "c1") \/ "c1" \in closed
-----------------------------------------------------------------------------
Codes == INSTANCE Cheats WITH
  Base <- 2, Ram <- {0, 1}, Rom <- {2}, Files <- CheatFiles, Swapped <- {<<>>}, Held <- {1, 3},
  file <- cheatsFile, list <- cheatsList, enabled <- cheatsEnabled,
  memory <- cheatsMemory, saved <- cheatsSaved
Search == INSTANCE Scan WITH
  Base <- ScanBase, Size <- ScanSize, Widths <- ScanWidths, Values <- ScanValues,
  Passes <- ScanPasses,
  ram <- scanRam, scan <- scanScan, passes <- scanPasses
Output == INSTANCE Tty WITH
  Cap <- TtyCap, Limit <- TtyLimit,
  text <- ttyText, dropped <- ttyDropped, line <- ttyLine, read <- ttyRead,
  slice <- ttySlice, logged <- ttyLogged, printed <- ttyPrinted
Wire == INSTANCE Packets WITH
  Data <- PacketData, Longest <- PacketLongest, MaxItems <- PacketItems,
  wire <- packetsWire, buf <- packetsBuf, sent <- packetsSent,
  taken <- packetsTaken, replies <- packetsReplies
Disc == INSTANCE CueSheet WITH
  Files <- CueFiles, Length <- CueLength, Numbers <- CueNumbers,
  Positions <- CuePositions, MaxLines <- CueMaxLines,
  sheet <- cueSheet, lines <- cueLines, image <- cueImage, toc <- cueToc,
  result <- cueResult

Still == 0
controlVars == vars
cheatsVars ==
  <<cheatsFile, cheatsList, cheatsEnabled, cheatsMemory, cheatsSaved>>
scanVars ==
  <<scanRam, scanScan, scanPasses>>
ttyVars ==
  <<ttyText, ttyDropped, ttyLine, ttyRead, ttySlice, ttyLogged, ttyPrinted>>
packetsVars ==
  <<packetsWire, packetsBuf, packetsSent, packetsTaken, packetsReplies>>
cueVars ==
  <<cueSheet, cueLines, cueImage, cueToc, cueResult>>

Units == {"control", "cheats", "scan", "tty", "packets", "cue"}

UnitsInit ==
  /\ unit \in Units
  /\ Init
  /\ IF unit = "cheats" THEN Codes!Init
     ELSE cheatsFile = Still /\ cheatsList = Still /\ cheatsEnabled = Still /\
          cheatsMemory = Still /\ cheatsSaved = Still
  /\ IF unit = "scan" THEN Search!Init
     ELSE scanRam = Still /\ scanScan = Still /\ scanPasses = Still
  /\ IF unit = "tty" THEN Output!Init
     ELSE ttyText = Still /\ ttyDropped = Still /\ ttyLine = Still /\
          ttyRead = Still /\ ttySlice = Still /\ ttyLogged = Still /\
          ttyPrinted = Still
  /\ IF unit = "packets" THEN Wire!Init
     ELSE packetsWire = Still /\ packetsBuf = Still /\ packetsSent = Still /\
          packetsTaken = Still /\ packetsReplies = Still
  /\ IF unit = "cue" THEN Disc!Init
     ELSE cueSheet = Still /\ cueLines = Still /\ cueImage = Still /\
          cueToc = Still /\ cueResult = Still

Stands(u, state) == IF unit = u THEN TRUE ELSE UNCHANGED state

(* One step of the unit that runs; one that has come to its end stays.     *)
UnitsNext ==
  /\ UNCHANGED unit
  /\ Stands("control", controlVars)
  /\ Stands("cheats", cheatsVars)
  /\ Stands("scan", scanVars)
  /\ Stands("tty", ttyVars)
  /\ Stands("packets", packetsVars)
  /\ Stands("cue", cueVars)
  /\ \/ unit = "control" /\ (Next \/ UNCHANGED controlVars)
     \/ unit = "cheats" /\ Codes!Next
     \/ unit = "scan" /\ Search!Next
     \/ unit = "tty" /\ Output!Next
     \/ unit = "packets" /\ (Wire!Next \/ UNCHANGED packetsVars)
     \/ unit = "cue" /\ (Disc!Next \/ UNCHANGED cueVars)

UnitsSpec ==
  UnitsInit /\ [][UnitsNext]_<<
    unit, controlVars, cheatsVars, scanVars, ttyVars, packetsVars, cueVars>>
-----------------------------------------------------------------------------
(* Control: a reply answers the line its client is waiting for; a press or *)
(* a sequence gives the held buttons back; under a debugger no command     *)
(* moves the machine; a command refused for its arguments changes nothing. *)
CommandsKept ==
  [][unit = "control" =>
       /\ GivesButtonsBackStep /\ DebuggerDrivesStep /\ ErrorsChangeNothingStep
       /\ (TypeOK /\ AnswersItsOwn)']_controlVars

(* Cheats: the file brings back the table that was saved, and a            *)
(* conditional gates exactly the code after it (StoredAsShown,             *)
(* GatesTheNext).                                                          *)
CheatsAsWritten ==
  [][unit = "cheats" =>
       /\ Codes!GatesTheNextStep
       /\ \/ UNCHANGED <<cheatsFile, cheatsList, cheatsSaved>>
          \/ (Codes!TypeOK /\ Codes!StoredAsShown)']_cheatsVars

(* Scan: the list is what a search for the whole history would find.       *)
ListsSurvivors == unit = "scan" => Search!TypeOK /\ Search!ListsSurvivors

(* Tty: a reader gets what is retained of the news, once; every cut falls  *)
(* between characters; the most recent half of the cap is retained.        *)
OutputReadOnce ==
  [][unit = "tty" =>
       /\ Output!ReadsOnceStep
       /\ (Output!TypeOK /\ Output!CutsBetweenCharacters)'
       /\ (Output!KeepsTheRecentHalf)']_ttyVars

(* Packets: the receiver reads what the client meant, however the bytes    *)
(* are cut into segments.                                                  *)
ItemsSurvive == unit = "packets" => Wire!TypeOK /\ Wire!ItemsSurvive

(* CueSheet: every track starts on the sector of its file, and every entry *)
(* of the contents is on the image.                                        *)
TracksInPlace ==
  unit = "cue" => Disc!TypeOK /\ Disc!StartsAreSectors /\ Disc!TracksStartInTheirFiles
=============================================================================
