--------------------------- MODULE HardwareProofs ---------------------------
(***************************************************************************)
(* Proofs about the units the console is made of, as MCHardware composes   *)
(* them: the DMA controller (Dma), the GPU's command port (Gp0), its       *)
(* picture (Scanout) and its rasterizer (Raster), and the sound            *)
(* processor's voices (Spu), all proved for every value of their constants.*)
(*                                                                         *)
(* A unit's invariant is proved from its own initial states and steps; the *)
(* unit that runs never changes, and the others stand still, so that it    *)
(* holds of the composition wherever the unit runs.                        *)
(***************************************************************************)
EXTENDS MCHardware, Induction, SequenceTheorems, TLAPS

unitsVars ==
  <<unit, machineVars, cpuVars, dmaVars, gp0Vars, scanoutVars, rasterVars,
    mdecVars, spuVars>>
-----------------------------------------------------------------------------
(* Dma. *)

(* What a transfer leaves in DICR and I_STAT, as a fact about any state in *)
(* which completions are kept: one more flag at most, never an interrupt   *)
(* lost.                                                                   *)
LEMMA CompleteKeeps ==
  ASSUME Transfers!CompletionsKept, NEW ch \in Channels, Transfers!Complete(ch),
  UNCHANGED <<dmaEnables, dmaHandler>>
  PROVE  Transfers!CompletionsKept'
<1>1. dmaOwed' \subseteq dmaFlags'
  BY DEF Transfers!CompletionsKept, Transfers!Complete
<1>2. ASSUME Transfers!Asserted(dmaFlags', dmaEnables') PROVE dmaStat' \/ dmaHandler'
  <2>1. CASE Transfers!Asserted(dmaFlags, dmaEnables)
    <3>1. dmaStat \/ dmaHandler
      BY <2>1 DEF Transfers!CompletionsKept
    <3> QED
      BY <3>1 DEF Transfers!Complete
  <2>2. CASE ~Transfers!Asserted(dmaFlags, dmaEnables)
    <3>1. Transfers!RaisesIrq(ch)
      BY <1>2, <2>2 DEF Transfers!Complete, Transfers!RaisesIrq
    <3> QED
      BY <3>1 DEF Transfers!Complete
  <2> QED
    BY <2>1, <2>2
<1> QED
  BY <1>1, <1>2 DEF Transfers!CompletionsKept

(* Every step of the controller, the program and its handler keeps the     *)
(* completions.                                                            *)
LEMMA DmaStepKeeps ==
  ASSUME Transfers!DmaAssumption, Transfers!CompletionsKept,
         Transfers!Next \/ UNCHANGED Transfers!vars
  PROVE  Transfers!CompletionsKept'
<1>1. CASE Transfers!EnableChannel
  BY <1>1 DEF Transfers!EnableChannel, Transfers!CompletionsKept, Transfers!Asserted
<1>2. CASE Transfers!WriteLowHalf
  BY <1>2 DEF Transfers!WriteLowHalf, Transfers!Merged, Transfers!CompletionsKept,
     Transfers!Asserted
<1>3. CASE Transfers!TakeIrq
  BY <1>3 DEF Transfers!TakeIrq, Transfers!CompletionsKept, Transfers!Asserted
<1>4. CASE Transfers!Serve
  BY <1>4 DEF Transfers!Serve, Transfers!CompletionsKept, Transfers!Asserted
<1>5. CASE Transfers!Return
  BY <1>5 DEF Transfers!Return, Transfers!CompletionsKept, Transfers!Asserted
<1>6. CASE Transfers!StreamTransfer
  BY <1>6, CompleteKeeps DEF Transfers!StreamTransfer
<1>7. CASE Transfers!ClearTable
  BY <1>7, CompleteKeeps DEF Transfers!ClearTable, Transfers!DmaAssumption
<1>8. CASE Transfers!AddPacket
  BY <1>8 DEF Transfers!AddPacket, Transfers!control, Transfers!CompletionsKept,
     Transfers!Asserted
<1>9. CASE Transfers!SendList
  BY <1>9, CompleteKeeps DEF Transfers!SendList, Transfers!DmaAssumption
<1>10. CASE UNCHANGED Transfers!vars
  BY <1>10 DEF Transfers!vars, Transfers!control, Transfers!CompletionsKept,
     Transfers!Asserted
<1> QED
  BY <1>1, <1>2, <1>3, <1>4, <1>5, <1>6, <1>7, <1>8, <1>9, <1>10 DEF Transfers!Next

(* Every header the program or channel 6 writes is that of a node: a list  *)
(* never leaves the table and its packets.                                 *)
Header == [count : Payload \cup {0}, next : Transfers!Addresses \cup {Transfers!End}]
LinksStay == dmaMemory \in [Transfers!Addresses -> Header]

(* Linking a packet in leaves every list a list.                           *)
LEMMA AddPacketLinks ==
  ASSUME Transfers!DmaAssumption, Transfers!TypeOK, Transfers!AddPacket PROVE LinksStay'
<1> PICK e \in 0 .. Entries - 1, count \in Payload :
      dmaMemory' = [dmaMemory EXCEPT
        ![Entries + dmaUsed] = Transfers!Node(count, dmaMemory[e].next),
        ![e].next = Entries + dmaUsed]
  BY DEF Transfers!AddPacket
<1>1. Entries + dmaUsed \in Transfers!Addresses /\ e \in Transfers!Addresses
  BY DEF Transfers!AddPacket, Transfers!DmaAssumption, Transfers!Addresses
<1>2. dmaMemory[e].next \in Transfers!Addresses \cup {Transfers!End}
  BY <1>1 DEF Transfers!TypeOK
<1> QED
  BY <1>1, <1>2 DEF Transfers!TypeOK, LinksStay, Header, Transfers!Node

(* The state keeps its type (dma.rs:40-60).                                *)
LEMMA DmaTypes ==
  ASSUME Transfers!DmaAssumption
  PROVE  /\ Transfers!Init => Transfers!TypeOK
         /\ Transfers!TypeOK /\ (Transfers!Next \/ UNCHANGED Transfers!vars) => Transfers!TypeOK'
<1>1. Transfers!Init => Transfers!TypeOK
  <2> SUFFICES ASSUME Transfers!Init PROVE Transfers!TypeOK
    OBVIOUS
  <2>1. Transfers!Node(0, Transfers!End) \in Header
    BY DEF Transfers!Node, Header
  <2>2. dmaMemory \in [Transfers!Addresses -> Header]
    BY <2>1 DEF Transfers!Init
  <2> QED
    BY <2>2 DEF Transfers!Init, Transfers!TypeOK, Header
<1>2. Transfers!TypeOK /\ (Transfers!Next \/ UNCHANGED Transfers!vars) => Transfers!TypeOK'
  <2> SUFFICES ASSUME Transfers!TypeOK, Transfers!Next \/ UNCHANGED Transfers!vars
               PROVE  Transfers!TypeOK'
    OBVIOUS
  <2>0. ASSUME NEW ch \in Channels, Transfers!Complete(ch), UNCHANGED <<dmaEnables, dmaHandler>>
        PROVE  /\ dmaFlags' \subseteq Channels /\ dmaOwed' \subseteq Channels /\ dmaStat' \in BOOLEAN
               /\ dmaEnables' \subseteq Channels /\ dmaHandler' \in BOOLEAN
    BY <2>0 DEF Transfers!Complete, Transfers!RaisesIrq, Transfers!TypeOK
  <2>1. CASE \/ Transfers!EnableChannel \/ Transfers!WriteLowHalf
             \/ Transfers!TakeIrq \/ Transfers!Serve \/ Transfers!Return
    BY <2>1 DEF Transfers!EnableChannel, Transfers!WriteLowHalf, Transfers!Merged,
       Transfers!TakeIrq, Transfers!Serve, Transfers!Return, Transfers!lists,
       Transfers!TypeOK
  <2>2. CASE Transfers!StreamTransfer
    BY <2>0, <2>2 DEF Transfers!StreamTransfer, Transfers!lists, Transfers!TypeOK
  <2>3. CASE Transfers!ClearTable
    <3>1. LinksStay'
      BY <2>3 DEF Transfers!ClearTable, Transfers!TableEntry, Transfers!Node,
         Transfers!End,
         Transfers!Addresses, Transfers!DmaAssumption, Transfers!TypeOK, LinksStay,
         Header
    <3> QED
      BY <2>0, <2>3, <3>1 DEF Transfers!ClearTable, Transfers!DmaAssumption,
         Transfers!TypeOK,
         LinksStay, Header
  <2>4. CASE Transfers!AddPacket
    BY <2>4, AddPacketLinks DEF Transfers!AddPacket, Transfers!control,
       Transfers!TypeOK,
       LinksStay, Header
  <2>5. CASE Transfers!SendList
    BY <2>0, <2>5 DEF Transfers!SendList, Transfers!DmaAssumption, Transfers!TypeOK
  <2>6. CASE UNCHANGED Transfers!vars
    BY <2>6 DEF Transfers!vars, Transfers!lists, Transfers!control, Transfers!TypeOK
  <2> QED
    BY <2>1, <2>2, <2>3, <2>4, <2>5, <2>6 DEF Transfers!Next
<1> QED
  BY <1>1, <1>2

(* No completion goes unheard (dma.rs:84-103): whatever transfers the      *)
(* program starts, from its callbacks too, and whichever flags it          *)
(* acknowledges, the master flag never stays up with nobody to serve it.   *)
THEOREM CompletionsAreKept == UnitsSpec => []CompletionsKept
<1>1. UnitsInit => CompletionsKept
  <2>1. Transfers!Init => Transfers!CompletionsKept
    BY DEF Transfers!Init, Transfers!CompletionsKept, Transfers!Asserted
  <2> QED
    BY <2>1, DmaTypes, HardwareAssumption DEF UnitsInit, CompletionsKept,
       HardwareAssumption
<1>2. CompletionsKept /\ [UnitsNext]_unitsVars => CompletionsKept'
  <2> SUFFICES ASSUME CompletionsKept, [UnitsNext]_unitsVars, unit' = "dma"
               PROVE  (Transfers!TypeOK /\ Transfers!CompletionsKept)'
    BY DEF CompletionsKept
  <2>1. unit = "dma"
    BY DEF UnitsNext, unitsVars
  <2>2. Transfers!Next \/ UNCHANGED Transfers!vars
    BY <2>1 DEF UnitsNext, unitsVars, dmaVars, Transfers!vars, Transfers!lists,
       Transfers!control
  <2> QED
    BY <2>1, <2>2, DmaStepKeeps, DmaTypes, HardwareAssumption
    DEF CompletionsKept, HardwareAssumption
<1> QED
  BY <1>1, <1>2, PTL DEF UnitsSpec, unitsVars
-----------------------------------------------------------------------------
(* The drawing order of a table.  The list is walked node by node; what    *)
(* arrives is compared with the program's own lists, joined.               *)

(* f joins the sequences of s one after the other. *)
Joins(f, s, S) ==
  /\ f \in [0 .. Len(s) -> Seq(S)] /\ f[0] = <<>>
  /\ \A i \in 1 .. Len(s) : f[i] = f[i - 1] \o s[i]

(* The one sequence there is for s. *)
LEMMA JoiningExists ==
  ASSUME NEW S, NEW s \in Seq(Seq(S))
  PROVE  \E f : Joins(f, s, S)
<1> DEFINE N == Len(s)
           Upto(m, f) == /\ f \in [0 .. m -> Seq(S)] /\ f[0] = <<>>
                         /\ \A i \in 1 .. m : f[i] = f[i - 1] \o s[i]
           T == {m \in 0 .. N : \E f : Upto(m, f)}
<1>1. N \in Nat
  OBVIOUS
<1>2. 0 \in T
  <2> DEFINE f == [i \in 0 .. 0 |-> <<>>]
  <2>1. f \in [0 .. 0 -> Seq(S)] /\ f[0] = <<>>
    OBVIOUS
  <2>2. Upto(0, f)
    BY <2>1
  <2>3. 0 \in 0 .. N
    BY <1>1
  <2> HIDE DEF Upto, f, N
  <2> QED
    BY <2>2, <2>3
<1>3. ASSUME NEW m \in 0 .. N, m < N, m \in T PROVE m + 1 \in T
  <2>1. PICK f : Upto(m, f)
    BY <1>3
  <2> DEFINE g == [i \in 0 .. m + 1 |-> IF i = m + 1 THEN f[m] \o s[m + 1] ELSE f[i]]
  <2>2. m \in Nat /\ m + 1 \in 0 .. N /\ s[m + 1] \in Seq(S) /\ f[m] \in Seq(S)
    BY <1>1, <1>3, <2>1
  <2>3. f[m] \o s[m + 1] \in Seq(S)
    BY <2>2
  <2>4. ASSUME NEW i \in 0 .. m + 1 PROVE g[i] \in Seq(S)
    <3>1. i # m + 1 => i \in 0 .. m
      BY <2>2
    <3> QED
      BY <2>1, <2>3, <3>1
  <2>5. g[0] = <<>>
    BY <2>1, <2>2
  <2>6. ASSUME NEW i \in 1 .. m + 1 PROVE g[i] = g[i - 1] \o s[i]
    <3>1. CASE i = m + 1
      <4>1. i - 1 = m /\ m # m + 1 /\ m \in 0 .. m + 1 /\ i \in 0 .. m + 1
        BY <2>2, <3>1
      <4> QED
        BY <3>1, <4>1
    <3>2. CASE i # m + 1
      <4>1. i \in 1 .. m /\ i - 1 \in 0 .. m + 1 /\ i - 1 # m + 1 /\ i \in 0 .. m + 1
        BY <2>2, <3>2
      <4>2. g[i] = f[i] /\ g[i - 1] = f[i - 1]
        BY <3>2, <4>1
      <4>3. f[i] = f[i - 1] \o s[i]
        BY <2>1, <4>1
      <4> HIDE DEF g
      <4> QED
        BY <4>2, <4>3
    <3> QED
      BY <3>1, <3>2
  <2>7. Upto(m + 1, g)
    <3>1. g \in [0 .. m + 1 -> Seq(S)]
      BY <2>4
    <3> HIDE DEF g
    <3> QED
      BY <2>5, <2>6, <3>1
  <2> HIDE DEF Upto, g
  <2> QED
    BY <2>2, <2>7
<1>4. N \in T
  <2> HIDE DEF T, N
  <2>1. 0 .. N \subseteq T
    BY ONLY <1>1, <1>2, <1>3, UptoInduction
  <2> QED
    BY <1>1, <2>1
<1> QED
  BY <1>4 DEF Joins

(* FlattenSeq is what they join to. *)
LEMMA FlattenJoins ==
  ASSUME NEW S, NEW s \in Seq(Seq(S)), NEW f, Joins(f, s, S)
  PROVE  Transfers!FlattenSeq(s) = f[Len(s)]
<1> DEFINE N == Len(s)
           Flattens(h) == h = [i \in 1 .. N |-> IF i = 1 THEN s[i] ELSE h[i - 1] \o s[i]]
           g == CHOOSE h : Flattens(h)
<1>1. N \in Nat
  OBVIOUS
<1>2. CASE N = 0
  <2>1. s = <<>> /\ f[Len(s)] = <<>>
    BY <1>2 DEF Joins
  <2> QED
    BY <1>2, <2>1 DEF Transfers!FlattenSeq
<1>3. CASE N # 0
  <2>1. Transfers!FlattenSeq(s) = g[N]
    BY <1>3 DEF Transfers!FlattenSeq
  <2> DEFINE e == [i \in 1 .. N |-> f[i]]
  <2>2. Flattens(e)
    <3>1. ASSUME NEW i \in 1 .. N PROVE e[i] = IF i = 1 THEN s[i] ELSE e[i - 1] \o s[i]
      <4>1. e[i] = f[i - 1] \o s[i] /\ s[i] \in Seq(S)
        BY DEF Joins
      <4>2. CASE i = 1
        <5>1. f[i - 1] = <<>> /\ <<>> \o s[i] = s[i]
          BY <4>1, <4>2 DEF Joins
        <5> QED
          BY <4>1, <4>2, <5>1
      <4>3. CASE i # 1
        <5>1. i - 1 \in 1 .. N
          BY <1>1, <4>3
        <5> QED
          BY <4>1, <4>3, <5>1
      <4> QED
        BY <4>2, <4>3
    <3>2. e = [i \in 1 .. N |-> e[i]]
      OBVIOUS
    <3> HIDE DEF e
    <3> QED
      BY <3>1, <3>2
  <2>3. Flattens(g)
    <3> HIDE DEF Flattens, e
    <3> QED
      BY <2>2
  <2> HIDE DEF g
  <2>4. \A i \in 1 .. N : g[i] = IF i = 1 THEN s[i] ELSE g[i - 1] \o s[i]
    BY <2>3
  <2> HIDE DEF Flattens
  <2>5. ASSUME NEW m \in 0 .. N, m < N, m = 0 \/ g[m] = f[m] PROVE g[m + 1] = f[m + 1]
    <3> HIDE DEF N
    <3>1. m + 1 \in 1 .. N /\ (m + 1) - 1 = m /\ m \in Nat /\ (m + 1 = 1 <=> m = 0)
      <4>1. m \in 0 .. N /\ m < N
        BY <2>5
      <4> QED
        BY ONLY <1>1, <4>1
    <3>2. f[m + 1] = f[m] \o s[m + 1] /\ s[m + 1] \in Seq(S)
      <4>1. \A i \in 1 .. N : f[i] = f[i - 1] \o s[i] /\ s[i] \in Seq(S)
        <5>1. \A i \in 1 .. Len(s) : f[i] = f[i - 1] \o s[i]
          BY DEF Joins
        <5>2. \A i \in 1 .. Len(s) : s[i] \in Seq(S)
          OBVIOUS
        <5> QED
          BY <5>1, <5>2 DEF N
      <4>2. f[m + 1] = f[(m + 1) - 1] \o s[m + 1] /\ s[m + 1] \in Seq(S)
        BY <3>1, <4>1
      <4> QED
        BY <3>1, <4>2
    <3>3. CASE m = 0
      <4>1. f[m] = <<>> /\ <<>> \o s[m + 1] = s[m + 1]
        BY <3>2, <3>3 DEF Joins
      <4>2. g[m + 1] = s[m + 1]
        BY <2>4, <3>1, <3>3
      <4> QED
        BY <3>2, <4>1, <4>2
    <3>4. CASE m # 0
      <4>1. g[m + 1] = g[(m + 1) - 1] \o s[m + 1] /\ g[m] = f[m]
        BY <2>4, <2>5, <3>1, <3>4
      <4> QED
        BY <3>1, <3>2, <4>1
    <3> QED
      BY <3>3, <3>4
  <2> DEFINE T == {m \in 0 .. N : m = 0 \/ g[m] = f[m]}
  <2>6. 0 \in T /\ \A m \in 0 .. N : m < N /\ m \in T => m + 1 \in T
    <3>1. \A m \in 0 .. N : m < N => m + 1 \in 0 .. N
      BY <1>1
    <3>2. 0 \in T
      BY <1>1
    <3>3. ASSUME NEW m \in 0 .. N, m < N, m \in T PROVE m + 1 \in T
      <4>1. m + 1 \in 0 .. N /\ (m = 0 \/ g[m] = f[m])
        BY <3>1, <3>3
      <4>2. g[m + 1] = f[m + 1]
        BY ONLY <2>5, <3>3, <4>1
      <4> QED
        BY <4>1, <4>2
    <3> QED
      BY <3>2, <3>3
  <2>7. N \in T
    <3> HIDE DEF T, N, Flattens
    <3>1. 0 .. N \subseteq T
      BY ONLY <1>1, <2>6, UptoInduction
    <3> QED
      BY <1>1, <3>1
  <2> QED
    BY <1>3, <2>1, <2>7
<1> QED
  BY <1>2, <1>3

(* The members of the first i sequences of s are g[i]. *)
Adds(g, s) ==
  /\ g \in [0 .. Len(s) -> Nat] /\ g[0] = 0
  /\ \A i \in 1 .. Len(s) : g[i] = g[i - 1] + Len(s[i])
Lies(r, g, s) ==
  /\ Len(r) = g[Len(s)]
  /\ \A i \in 1 .. Len(s) : g[i] <= g[Len(s)]
  /\ \A i \in 1 .. Len(s) : \A j \in 1 .. Len(s[i]) : r[g[i - 1] + j] = s[i][j]

(* Where the members of the sequences come to lie. *)
LEMMA JoinedPlaces ==
  ASSUME NEW S, NEW s \in Seq(Seq(S)), NEW f, Joins(f, s, S), NEW g, Adds(g, s)
  PROVE  Lies(f[Len(s)], g, s)
<1> DEFINE N == Len(s)
           P(m) == /\ Len(f[m]) = g[m]
                   /\ \A i \in 1 .. m : g[i] <= g[m]
                   /\ \A i \in 1 .. m : \A j \in 1 .. Len(s[i]) : f[m][g[i - 1] + j] = s[i][j]
           T == {m \in 0 .. N : P(m)}
<1>1. /\ N \in Nat /\ \A i \in 0 .. N : g[i] \in Nat /\ f[i] \in Seq(S)
      /\ \A i \in 1 .. N : /\ g[i] = g[i - 1] + Len(s[i]) /\ s[i] \in Seq(S)
                           /\ f[i] = f[i - 1] \o s[i]
  <2>1. \A i \in 1 .. Len(s) : s[i] \in Seq(S)
    OBVIOUS
  <2>2. \A i \in 0 .. Len(s) : g[i] \in Nat /\ f[i] \in Seq(S)
    BY DEF Joins, Adds
  <2>3. \A i \in 1 .. Len(s) : f[i] = f[i - 1] \o s[i]
    BY DEF Joins
  <2>4. \A i \in 1 .. Len(s) : g[i] = g[i - 1] + Len(s[i])
    BY DEF Adds
  <2>5. Len(s) \in Nat
    OBVIOUS
  <2> QED
    BY ONLY <2>1, <2>2, <2>3, <2>4, <2>5
<1>2. 0 \in T
  BY <1>1 DEF Joins, Adds
<1> HIDE DEF N
<1>3. ASSUME NEW m \in 0 .. N, m < N, P(m) PROVE P(m + 1)
  <2> DEFINE t == s[m + 1]
             r == f[m + 1]
  <2>1. /\ m \in Nat /\ m + 1 \in 1 .. N /\ (m + 1) - 1 = m /\ g[m] \in Nat /\ f[m] \in Seq(S)
        /\ m + 1 \in 0 .. N
    <3> HIDE DEF P
    <3>1. m \in Nat /\ m + 1 \in 1 .. N /\ (m + 1) - 1 = m /\ m + 1 \in 0 .. N
      BY <1>1, <1>3
    <3> QED
      BY <1>1, <3>1
  <2>2. t \in Seq(S) /\ g[m + 1] = g[m] + Len(t) /\ r = f[m] \o t
    BY <1>1, <2>1
  <2> HIDE DEF t, r
  <2>3. /\ Len(r) = g[m] + Len(t) /\ Len(t) \in Nat /\ Len(f[m]) = g[m]
        /\ \A k \in 1 .. g[m] : r[k] = f[m][k]
        /\ \A k \in 1 .. Len(t) : r[g[m] + k] = t[k]
    <3>1. Len(f[m]) = g[m] /\ Len(t) \in Nat
      BY <1>3, <2>2
    <3> HIDE DEF P
    <3>2. /\ Len(f[m] \o t) = Len(f[m]) + Len(t)
          /\ \A k \in 1 .. Len(f[m]) : (f[m] \o t)[k] = f[m][k]
      BY <2>1, <2>2
    <3>3. ASSUME NEW k \in 1 .. Len(t) PROVE (f[m] \o t)[Len(f[m]) + k] = t[k]
      <4>1. Len(f[m]) + k \in 1 .. Len(f[m]) + Len(t) /\ ~(Len(f[m]) + k <= Len(f[m]))
            /\ (Len(f[m]) + k) - Len(f[m]) = k
        BY <2>1, <3>1
      <4> QED
        BY <2>1, <2>2, <4>1
    <3> QED
      BY <2>2, <3>1, <3>2, <3>3
  <2>4. ASSUME NEW i \in 1 .. m + 1 PROVE g[i] <= g[m + 1]
    <3>1. CASE i = m + 1
      BY <1>1, <2>1, <3>1
    <3>2. CASE i # m + 1
      <4>1. i \in 1 .. m /\ i \in 0 .. N
        BY <1>1, <2>1, <3>2
      <4>2. g[i] <= g[m] /\ g[i] \in Nat
        BY <1>1, <1>3, <4>1
      <4> QED
        BY <2>1, <2>2, <2>3, <4>2
    <3> QED
      BY <3>1, <3>2
  <2>5. ASSUME NEW i \in 1 .. m + 1, NEW j \in 1 .. Len(s[i])
        PROVE  r[g[i - 1] + j] = s[i][j]
    <3>1. CASE i = m + 1
      BY <2>1, <2>3, <3>1 DEF t
    <3>2. CASE i # m + 1
      <4>1. i \in 1 .. m /\ i \in 1 .. N /\ i - 1 \in 0 .. N
        BY <1>1, <2>1, <3>2
      <4>2. f[m][g[i - 1] + j] = s[i][j] /\ g[i] <= g[m] /\ g[i] = g[i - 1] + Len(s[i])
            /\ g[i - 1] \in Nat /\ s[i] \in Seq(S)
        BY <1>1, <1>3, <4>1
      <4>3. g[i - 1] + j \in 1 .. g[m]
        <5>1. Len(s[i]) \in Nat /\ j \in Nat /\ j >= 1 /\ j <= Len(s[i])
          BY <4>2
        <5>2. g[i - 1] \in Nat /\ g[m] \in Nat /\ g[i - 1] + Len(s[i]) <= g[m]
          BY <2>1, <4>2
        <5> QED
          BY ONLY <5>1, <5>2
      <4> QED
        BY <2>3, <4>2, <4>3
    <3> QED
      BY <3>1, <3>2
  <2> QED
    BY <2>2, <2>3, <2>4, <2>5 DEF r
<1>4. N \in T
  <2>1. 0 \in T /\ \A m \in 0 .. N : m < N /\ m \in T => m + 1 \in T
    <3>1. ASSUME NEW m \in 0 .. N, m < N, m \in T PROVE m + 1 \in T
      <4> HIDE DEF P
      <4>1. P(m) /\ m + 1 \in 0 .. N
        BY <1>1, <3>1
      <4>2. P(m + 1)
        BY ONLY <1>3, <3>1, <4>1
      <4> QED
        BY <4>1, <4>2
    <3> QED
      BY <1>2, <3>1
  <2> HIDE DEF T
  <2>2. 0 .. N \subseteq T
    BY ONLY <1>1, <2>1, UptoInduction
  <2> QED
    BY <1>1, <2>2
<1> QED
  BY <1>4 DEF N, Lies
-----------------------------------------------------------------------------
(* What follows a node of a list, with so many to go. *)
Carried == Transfers!Addresses \X Nat
Layer(before, left) ==
  [a \in Transfers!Addresses |-> Transfers!PayloadOf(a) \o
     (IF dmaMemory[a].next = Transfers!End \/ left = 0 THEN <<>>
      ELSE before[dmaMemory[a].next])]
Walking(h) == h = [left \in 0 .. GuardBound |-> Layer(h[left - 1], left)]
Course == CHOOSE h : Walking(h)
Beyond(a, left) ==
  IF dmaMemory[a].next = Transfers!End \/ left = 0 THEN <<>>
  ELSE Course[left - 1][dmaMemory[a].next]

(* The course is a function to sequences of words. *)
LEMMA CourseExists ==
  ASSUME Transfers!DmaAssumption, LinksStay
  PROVE  /\ Walking(Course)
         /\ Course \in [0 .. GuardBound -> [Transfers!Addresses -> Seq(Carried)]]
<1> DEFINE A == Transfers!Addresses
           Values == [A -> Seq(Carried)]
           Upto(m, h) == /\ h = [left \in 0 .. m |-> Layer(h[left - 1], left)]
                         /\ h \in [0 .. m -> Values]
           T == {m \in 0 .. GuardBound : \E h : Upto(m, h)}
<1>1. GuardBound \in Nat
  BY DEF Transfers!DmaAssumption
<1>2. ASSUME NEW a \in A PROVE Transfers!PayloadOf(a) \in Seq(Carried)
  <2>1. dmaMemory[a].count \in Nat
    <3>1. dmaMemory[a] \in Header
      BY DEF LinksStay
    <3>2. dmaMemory[a].count \in Payload \cup {0}
      BY <3>1 DEF Header
    <3>3. Payload \subseteq Nat
      BY DEF Transfers!DmaAssumption
    <3>4. Payload \cup {0} \subseteq Nat
      BY ONLY <3>3
    <3> QED
      BY ONLY <3>2, <3>4
  <2> QED
    BY <2>1 DEF Transfers!PayloadOf, Carried
<1>3. ASSUME NEW a \in A, dmaMemory[a].next # Transfers!End PROVE dmaMemory[a].next \in A
  BY <1>3 DEF LinksStay, Header
<1>4. ASSUME NEW before, NEW left, left = 0 \/ before \in Values
      PROVE  Layer(before, left) \in Values
  <2> DEFINE more(a) == IF dmaMemory[a].next = Transfers!End \/ left = 0 THEN <<>>
                        ELSE before[dmaMemory[a].next]
  <2>1. ASSUME NEW a \in A PROVE more(a) \in Seq(Carried)
    <3>1. CASE dmaMemory[a].next = Transfers!End \/ left = 0
      BY <3>1
    <3>2. CASE ~(dmaMemory[a].next = Transfers!End \/ left = 0)
      BY <1>3, <1>4, <3>2
    <3> QED
      BY <3>1, <3>2
  <2> HIDE DEF more
  <2>2. ASSUME NEW a \in A PROVE Transfers!PayloadOf(a) \o more(a) \in Seq(Carried)
    BY <1>2, <2>1
  <2>3. Layer(before, left) = [a \in A |-> Transfers!PayloadOf(a) \o more(a)]
    BY DEF Layer, more
  <2> QED
    BY <2>2, <2>3
<1>5. \A x, y : Layer(x, 0) = Layer(y, 0)
  BY DEF Layer
<1> HIDE DEF Values
<1>6. 0 \in T
  <2> DEFINE h == [left \in 0 .. 0 |-> Layer(0, 0)]
  <2>1. ASSUME NEW left \in 0 .. 0 PROVE h[left] = Layer(h[left - 1], left)
    BY <1>5
  <2>2. h = [left \in 0 .. 0 |-> h[left]]
    OBVIOUS
  <2>3. h \in [0 .. 0 -> Values]
    BY <1>4
  <2> HIDE DEF h
  <2>4. Upto(0, h)
    BY <2>1, <2>2, <2>3
  <2>5. 0 \in 0 .. GuardBound
    BY <1>1
  <2> HIDE DEF Upto
  <2> QED
    BY <2>4, <2>5
<1>7. ASSUME NEW m \in 0 .. GuardBound, m < GuardBound, m \in T PROVE m + 1 \in T
  <2>1. PICK h : Upto(m, h)
    BY <1>7
  <2> DEFINE g == [left \in 0 .. m + 1 |-> IF left = m + 1 THEN Layer(h[m], m + 1) ELSE h[left]]
  <2>2. m \in Nat /\ m + 1 \in 0 .. GuardBound /\ m \in 0 .. m /\ (m + 1) - 1 = m /\ m # m + 1
        /\ m \in 0 .. m + 1
    BY <1>1, <1>7
  <2>3. ASSUME NEW left \in 0 .. m + 1 PROVE g[left] = Layer(g[left - 1], left) /\ g[left] \in Values
    <3>1. CASE left = m + 1
      <4>1. g[left] = Layer(h[m], m + 1) /\ g[left - 1] = h[m]
        BY <2>2, <3>1
      <4>2. h[m] \in Values
        BY <2>1, <2>2
      <4> QED
        BY <1>4, <3>1, <4>1, <4>2
    <3>2. CASE left # m + 1
      <4>1. left \in 0 .. m
        BY <2>2, <3>2
      <4>2. g[left] = h[left] /\ h[left] = Layer(h[left - 1], left) /\ h[left] \in Values
        BY <2>1, <3>2, <4>1
      <4>3. CASE left = 0
        BY <1>5, <4>2, <4>3
      <4>4. CASE left # 0
        <5>1. left - 1 \in 0 .. m + 1 /\ left - 1 # m + 1
          BY <2>2, <4>1, <4>4
        <5> QED
          BY <4>2, <5>1
      <4> QED
        BY <4>3, <4>4
    <3> QED
      BY <3>1, <3>2
  <2>4. g = [left \in 0 .. m + 1 |-> g[left]]
    OBVIOUS
  <2> HIDE DEF g
  <2>5. Upto(m + 1, g)
    BY <2>3, <2>4
  <2> HIDE DEF Upto
  <2> QED
    BY <2>2, <2>5
<1>8. GuardBound \in T
  <2> HIDE DEF T
  <2>1. 0 .. GuardBound \subseteq T
    BY ONLY <1>1, <1>6, <1>7, UptoInduction
  <2> QED
    BY <1>1, <2>1
<1>9. PICK h : Upto(GuardBound, h)
  BY <1>8
<1>10. Walking(Course)
  <2>1. Walking(h)
    BY <1>9 DEF Walking
  <2> HIDE DEF Upto, T
  <2> QED
    BY <2>1 DEF Course
<1>11. ASSUME NEW m \in 0 .. GuardBound PROVE Course[m] = Layer(Course[m - 1], m)
  BY <1>10 DEF Walking
<1> DEFINE V == {m \in 0 .. GuardBound : Course[m] \in Values}
<1>12. 0 \in V
  BY <1>1, <1>4, <1>11
<1>13. ASSUME NEW m \in 0 .. GuardBound, m < GuardBound, m \in V PROVE m + 1 \in V
  <2>1. m + 1 \in 0 .. GuardBound /\ (m + 1) - 1 = m /\ Course[m] \in Values
    BY <1>1, <1>13
  <2> QED
    BY <1>4, <1>11, <2>1
<1>14. 0 .. GuardBound \subseteq V
  <2> HIDE DEF V
  <2> QED
    BY ONLY <1>1, <1>12, <1>13, UptoInduction
<1>15. Course \in [0 .. GuardBound -> Values]
  <2>1. Course = [m \in 0 .. GuardBound |-> Course[m]]
    BY <1>10 DEF Walking
  <2> QED
    BY <1>14, <2>1
<1> QED
  BY <1>10, <1>15 DEF Values

(* What follows is the next node's payload and what follows that. *)
LEMMA StepOn ==
  ASSUME Transfers!DmaAssumption, LinksStay, NEW a \in Transfers!Addresses
  PROVE  /\ \A left \in 0 .. GuardBound :
              /\ Transfers!PayloadOf(a) \in Seq(Carried) /\ Beyond(a, left) \in Seq(Carried)
              /\ Course[left][a] = Transfers!PayloadOf(a) \o Beyond(a, left)
         /\ \A left \in 1 .. GuardBound : \A b \in Transfers!Addresses :
              dmaMemory[a].next = b =>
                Beyond(a, left) = Transfers!PayloadOf(b) \o Beyond(b, left - 1)
<1>1. Walking(Course) /\ Course \in [0 .. GuardBound -> [Transfers!Addresses -> Seq(Carried)]]
  BY CourseExists
<1>2. GuardBound \in Nat
  BY DEF Transfers!DmaAssumption
<1>3. ASSUME NEW d \in Transfers!Addresses
      PROVE  /\ Transfers!PayloadOf(d) \in Seq(Carried) /\ d # Transfers!End
             /\ dmaMemory[d].next \in Transfers!Addresses \cup {Transfers!End}
  <2>1. dmaMemory[d] \in Header
    BY DEF LinksStay
  <2>2. dmaMemory[d].count \in Payload \cup {0}
        /\ dmaMemory[d].next \in Transfers!Addresses \cup {Transfers!End}
    BY <2>1 DEF Header
  <2>3. Payload \subseteq Nat
    BY DEF Transfers!DmaAssumption
  <2>4. Payload \cup {0} \subseteq Nat
    BY <2>3
  <2>5. dmaMemory[d].count \in Nat
    BY ONLY <2>2, <2>4
  <2>6. Transfers!PayloadOf(d) \in Seq(Carried)
    BY <2>5 DEF Transfers!PayloadOf, Carried
  <2>7. d # Transfers!End
    BY DEF Transfers!Addresses, Transfers!End
  <2> QED
    BY <2>2, <2>6, <2>7
<1>4. ASSUME NEW d \in Transfers!Addresses, NEW left \in 0 .. GuardBound
      PROVE  Beyond(d, left) \in Seq(Carried)
  <2>1. CASE dmaMemory[d].next = Transfers!End \/ left = 0
    BY <2>1 DEF Beyond
  <2>2. CASE ~(dmaMemory[d].next = Transfers!End \/ left = 0)
    <3>1. left - 1 \in 0 .. GuardBound /\ dmaMemory[d].next \in Transfers!Addresses
      BY <1>2, <1>3, <2>2
    <3> QED
      BY <1>1, <2>2, <3>1 DEF Beyond
  <2> QED
    BY <2>1, <2>2
<1>5. ASSUME NEW d \in Transfers!Addresses, NEW left \in 0 .. GuardBound
      PROVE  Course[left][d] = Transfers!PayloadOf(d) \o Beyond(d, left)
  <2>1. Course[left] = Layer(Course[left - 1], left)
    BY <1>1 DEF Walking
  <2> QED
    BY <2>1 DEF Layer, Beyond
<1>6. ASSUME NEW left \in 1 .. GuardBound, NEW b \in Transfers!Addresses, dmaMemory[a].next = b
      PROVE  Beyond(a, left) = Transfers!PayloadOf(b) \o Beyond(b, left - 1)
  <2>1. left - 1 \in 0 .. GuardBound /\ left # 0
    BY <1>2
  <2>2. Beyond(a, left) = Course[left - 1][b]
    BY <1>3, <1>6, <2>1 DEF Beyond
  <2> QED
    BY <1>5, <2>1, <2>2
<1> QED
  BY <1>3, <1>4, <1>5, <1>6
-----------------------------------------------------------------------------
(* The lists of the table.  Node j of entry e, the entry itself being the  *)
(* first, and what its header has to point to.                             *)
NodeAt(l, e, j) == IF j = 0 THEN e ELSE l[e][j][1]
Following(l, e, j) ==
  IF j < Len(l[e]) THEN l[e][j + 1][1] ELSE IF e = 0 THEN Transfers!End ELSE e - 1

Packed == Transfers!Addresses \X Payload

(* Entry e's packets are strung together in the order of the program.      *)
Strung(m, l, u, e) ==
  /\ m[e].count = 0
  /\ \A j \in 0 .. Len(l[e]) : m[NodeAt(l, e, j)].next = Following(l, e, j)
  /\ \A j \in 1 .. Len(l[e]) :
       l[e][j][1] \in Entries .. Entries + u - 1 /\ m[l[e][j][1]].count = l[e][j][2]

(* The packets of the first n entries sent are c[n].                       *)
Tally(c, l) ==
  /\ c \in [0 .. Entries -> Nat] /\ c[0] = 0
  /\ \A n \in 1 .. Entries : c[n] = c[n - 1] + Len(l[Entries - n])

Threaded(m, l, u) ==
  /\ l \in [0 .. Entries - 1 -> Seq(Packed)]
  /\ \A e \in 0 .. Entries - 1 : Strung(m, l, u, e)
  /\ \E c : Tally(c, l) /\ c[Entries] = u

(* P, the packets in the order they are to arrive, with their words in f.  *)
Laid(P, f, c) ==
  /\ P \in Seq(Packed) /\ Len(P) = dmaUsed
  /\ \A n \in 1 .. Entries : c[n] <= dmaUsed
  /\ \A n \in 1 .. Entries : \A j \in 1 .. Len(dmaLinked[Entries - n]) :
       P[c[n - 1] + j] = dmaLinked[Entries - n][j]
  /\ f \in [0 .. dmaUsed -> Seq(Carried)] /\ f[0] = <<>>
  /\ \A k \in 1 .. dmaUsed : f[k] = f[k - 1] \o [i \in 1 .. P[k][2] |-> <<P[k][1], i>>]

LEMMA LaidOut ==
  ASSUME Transfers!DmaAssumption, dmaUsed \in Nat,
         dmaLinked \in [0 .. Entries - 1 -> Seq(Packed)],
         NEW c, Tally(c, dmaLinked), c[Entries] = dmaUsed
  PROVE  \E P, f : Laid(P, f, c) /\ Transfers!InTable = f[dmaUsed]
<1> DEFINE s == [n \in 1 .. Entries |-> dmaLinked[Entries - n]]
           P == Transfers!FlattenSeq(s)
           w == [n \in DOMAIN P |-> [k \in 1 .. P[n][2] |-> <<P[n][1], k>>]]
<1>1. Entries \in Nat \ {0} /\ Payload \subseteq Nat
  BY DEF Transfers!DmaAssumption
<1>2. s \in Seq(Seq(Packed)) /\ Len(s) = Entries
  <2>1. \A n \in 1 .. Entries : Entries - n \in 0 .. Entries - 1
    BY <1>1
  <2>2. \A n \in 1 .. Entries : s[n] \in Seq(Packed)
    BY <2>1
  <2> QED
    BY <1>1, <2>2
<1>3. \A n \in 1 .. Entries : s[n] = dmaLinked[Entries - n]
  OBVIOUS
<1>4. Transfers!InTable = Transfers!FlattenSeq(w)
  BY DEF Transfers!InTable
<1> HIDE DEF s
<1>5. PICK F : Joins(F, s, Packed)
  BY <1>2, JoiningExists
<1>6. P = F[Entries] /\ P \in Seq(Packed)
  <2>1. P = F[Len(s)]
    BY <1>2, <1>5, FlattenJoins
  <2> HIDE DEF P
  <2> QED
    BY <1>1, <1>2, <1>5, <2>1 DEF Joins
<1>7. /\ Len(P) = dmaUsed /\ \A n \in 1 .. Entries : c[n] <= dmaUsed
      /\ \A n \in 1 .. Entries : \A j \in 1 .. Len(dmaLinked[Entries - n]) :
           P[c[n - 1] + j] = dmaLinked[Entries - n][j]
  <2>1. Adds(c, s)
    BY <1>2, <1>3 DEF Tally, Adds
  <2>2. Lies(F[Len(s)], c, s)
    <3> HIDE DEF P
    <3>1. s \in Seq(Seq(Packed)) /\ Joins(F, s, Packed)
      BY <1>2, <1>5
    <3> QED
      BY ONLY <2>1, <3>1, JoinedPlaces
  <2> HIDE DEF P
  <2> QED
    BY <1>2, <1>3, <1>6, <2>2, Zenon DEF Lies
<1> HIDE DEF P
<1>8. w \in Seq(Seq(Carried)) /\ Len(w) = dmaUsed
      /\ \A n \in 1 .. dmaUsed : w[n] = [k \in 1 .. P[n][2] |-> <<P[n][1], k>>]
  <2>1. DOMAIN P = 1 .. dmaUsed
    BY <1>6, <1>7
  <2>2. ASSUME NEW n \in 1 .. dmaUsed PROVE [k \in 1 .. P[n][2] |-> <<P[n][1], k>>] \in Seq(Carried)
    <3>1. P[n] \in Packed
      BY <1>6, <1>7
    <3>2. P[n][1] \in Transfers!Addresses /\ P[n][2] \in Nat
      BY <1>1, <3>1 DEF Packed
    <3> QED
      BY <3>2 DEF Carried
  <2>3. w = [n \in 1 .. dmaUsed |-> [k \in 1 .. P[n][2] |-> <<P[n][1], k>>]]
    BY <2>1
  <2>4. ASSUME NEW n \in 1 .. dmaUsed
        PROVE  w[n] = [k \in 1 .. P[n][2] |-> <<P[n][1], k>>] /\ w[n] \in Seq(Carried)
    <3>1. w[n] = [k \in 1 .. P[n][2] |-> <<P[n][1], k>>]
      BY <2>3
    <3> QED
      BY <2>2, <3>1
  <2>5. DOMAIN w = 1 .. dmaUsed
    BY <2>3
  <2>6. w = [n \in 1 .. dmaUsed |-> w[n]]
    BY <2>3
  <2> HIDE DEF w
  <2>7. w \in Seq(Seq(Carried)) /\ Len(w) = dmaUsed
    <3>1. \A n \in 1 .. dmaUsed : w[n] \in Seq(Carried)
      BY <2>4
    <3> DEFINE Words == Seq(Carried)
    <3>2. \A n \in 1 .. dmaUsed : w[n] \in Words
      BY <3>1
    <3> HIDE DEF Words
    <3>3. w \in [1 .. dmaUsed -> Words]
      BY <2>6, <3>2
    <3>4. w \in Seq(Words) /\ Len(w) = dmaUsed
      BY <3>3
    <3> QED
      BY <3>4 DEF Words
  <2> QED
    BY <2>4, <2>7
<1> HIDE DEF w
<1>9. PICK f : Joins(f, w, Carried)
  BY <1>8, JoiningExists
<1>10. Transfers!InTable = f[dmaUsed]
  BY <1>4, <1>8, <1>9, FlattenJoins
<1>11. /\ f \in [0 .. dmaUsed -> Seq(Carried)] /\ f[0] = <<>>
       /\ \A k \in 1 .. dmaUsed : f[k] = f[k - 1] \o [i \in 1 .. P[k][2] |-> <<P[k][1], i>>]
  BY <1>8, <1>9 DEF Joins
<1>12. Laid(P, f, c)
  BY <1>6, <1>7, <1>11 DEF Laid
<1> QED
  BY <1>10, <1>12

(* One node on: what came and what is to come still make up the list W.    *)
Leads(W, r, a, b, left) ==
  /\ r \in Seq(Carried) /\ a \in Transfers!Addresses /\ b \in Transfers!Addresses
  /\ left \in 1 .. GuardBound /\ W = r \o Beyond(a, left) /\ dmaMemory[a].next = b
LEMMA OneNodeOn ==
  ASSUME Transfers!DmaAssumption, LinksStay, NEW W, NEW r, NEW a, NEW b, NEW left,
         Leads(W, r, a, b, left)
  PROVE  W = (r \o Transfers!PayloadOf(b)) \o Beyond(b, left - 1)
<1> DEFINE words == Transfers!PayloadOf(b)
           rest == Beyond(b, left - 1)
<1> USE DEF Leads
<1>1. left - 1 \in 0 .. GuardBound
  BY DEF Transfers!DmaAssumption
<1>2. words \in Seq(Carried) /\ rest \in Seq(Carried)
  BY <1>1, StepOn
<1>3. Beyond(a, left) = words \o rest
  BY StepOn
<1>4. W = r \o (words \o rest)
  BY <1>3
<1>5. r \in Seq(Carried)
  OBVIOUS
<1> HIDE DEF words, rest
<1>6. (r \o words) \o rest = r \o (words \o rest)
  BY ONLY <1>2, <1>5, ConcatAssociative
<1> QED
  BY ONLY <1>4, <1>6 DEF words, rest

(* Where the walk is at node j of the n-th entry sent. *)
Spot(n, j, c) ==
  /\ Entries - n \in 0 .. Entries - 1 /\ Len(dmaLinked[Entries - n]) \in Nat
  /\ c[n] = c[n - 1] + Len(dmaLinked[Entries - n]) /\ c[n - 1] \in Nat
  /\ c[n - 1] + j \in 0 .. dmaUsed
  /\ (c[n - 1] + j) + (n - 1) \in 0 .. GuardBound
  /\ NodeAt(dmaLinked, Entries - n, j) \in Transfers!Addresses

LEMMA SpotsExist ==
  ASSUME Transfers!DmaAssumption, dmaUsed \in Nat, Entries + dmaUsed <= GuardBound + 1,
         dmaLinked \in [0 .. Entries - 1 -> Seq(Packed)],
         NEW c, Tally(c, dmaLinked), \A i \in 1 .. Entries : c[i] <= dmaUsed,
         NEW n \in 1 .. Entries, NEW j \in 0 .. Len(dmaLinked[Entries - n])
  PROVE  Spot(n, j, c)
<1> DEFINE e == Entries - n
           len == Len(dmaLinked[e])
<1>1. Entries \in Nat /\ GuardBound \in Nat /\ Packets \in Nat
  BY DEF Transfers!DmaAssumption
<1>2. e \in 0 .. Entries - 1
  BY <1>1
<1>3. dmaLinked[e] \in Seq(Packed) /\ len \in Nat
  BY <1>2
<1>4. n \in Nat /\ n >= 1 /\ n <= Entries /\ n - 1 \in 0 .. Entries
  BY <1>1
<1>5. c[n] = c[n - 1] + len /\ c[n - 1] \in Nat /\ c[n] <= dmaUsed
  BY <1>4 DEF Tally
<1>6. j \in Nat /\ j <= len
  BY <1>3
<1> HIDE DEF len
<1>7. c[n - 1] + j \in 0 .. dmaUsed /\ (c[n - 1] + j) + (n - 1) \in 0 .. GuardBound
  <2> DEFINE x == c[n - 1]
             y == c[n]
  <2>1. x \in Nat /\ y = x + len /\ y <= dmaUsed
    BY <1>5
  <2> HIDE DEF x, y
  <2>2. x + j \in 0 .. dmaUsed /\ (x + j) + (n - 1) \in 0 .. GuardBound
    BY ONLY <1>1, <1>3, <1>4, <1>6, <2>1, dmaUsed \in Nat, Entries + dmaUsed <= GuardBound + 1
  <2> QED
    BY <2>2 DEF x
<1>8. NodeAt(dmaLinked, e, j) \in Transfers!Addresses
  <2>1. CASE j = 0
    <3>1. e \in Transfers!Addresses
      BY <1>1, <1>2 DEF Transfers!Addresses
    <3> QED
      BY <2>1, <3>1 DEF NodeAt
  <2>2. CASE j # 0
    <3>1. j \in 1 .. Len(dmaLinked[e])
      BY <1>6, <2>2 DEF len
    <3>2. dmaLinked[e][j] \in Packed
      BY <1>3, <3>1
    <3> QED
      BY <2>2, <3>2 DEF NodeAt, Packed
  <2> QED
    BY <2>1, <2>2
<1> QED
  BY <1>2, <1>3, <1>5, <1>7, <1>8 DEF Spot, len

(* Up to node j of the n-th entry sent the table has arrived.              *)
Arrived(W, f, c, n, j) ==
  W = f[c[n - 1] + j]
        \o Beyond(NodeAt(dmaLinked, Entries - n, j), GuardBound - ((c[n - 1] + j) + (n - 1)))

(* From a packet to the next of the entry. *)
LEMMA NextPacketArrives ==
  ASSUME Transfers!DmaAssumption, LinksStay, dmaUsed \in Nat,
         NEW W, NEW P, NEW f, NEW c, Laid(P, f, c), NEW n \in 1 .. Entries,
         Strung(dmaMemory, dmaLinked, dmaUsed, Entries - n), NEW j \in Nat,
         j < Len(dmaLinked[Entries - n]), Spot(n, j, c), Spot(n, j + 1, c),
         Arrived(W, f, c, n, j)
  PROVE  Arrived(W, f, c, n, j + 1)
<1> DEFINE e == Entries - n
           k == c[n - 1] + j
           kk == c[n - 1] + (j + 1)
           a == NodeAt(dmaLinked, e, j)
           b == NodeAt(dmaLinked, e, j + 1)
           left == GuardBound - (k + (n - 1))
           ll == GuardBound - (kk + (n - 1))
<1>1. Entries \in Nat /\ GuardBound \in Nat
  BY DEF Transfers!DmaAssumption
<1>2. /\ k \in 0 .. dmaUsed /\ kk \in 0 .. dmaUsed
      /\ a \in Transfers!Addresses /\ b \in Transfers!Addresses
      /\ k + (n - 1) \in 0 .. GuardBound /\ kk + (n - 1) \in 0 .. GuardBound
      /\ Len(dmaLinked[e]) \in Nat /\ c[n] = c[n - 1] + Len(dmaLinked[e])
  BY DEF Spot
<1>3. kk = k + 1 /\ kk \in 1 .. dmaUsed /\ kk - 1 = k /\ left \in 1 .. GuardBound /\ left - 1 = ll
      /\ j + 1 # 0 /\ j + 1 \in 1 .. Len(dmaLinked[e]) /\ j \in 0 .. Len(dmaLinked[e])
      /\ e \in 0 .. Entries - 1
  <2>1. j + 1 # 0 /\ j + 1 \in 1 .. Len(dmaLinked[e]) /\ j \in 0 .. Len(dmaLinked[e])
    BY <1>2
  <2>2. c[n - 1] \in Nat /\ e \in 0 .. Entries - 1
    BY DEF Spot
  <2>3. kk = k + 1
    BY <2>2
  <2> HIDE DEF k, kk
  <2>4. kk \in 1 .. dmaUsed /\ kk - 1 = k /\ left \in 1 .. GuardBound /\ left - 1 = ll
    BY <1>1, <1>2, <2>3
  <2> QED
    BY <2>1, <2>2, <2>3, <2>4
<1>4. /\ dmaMemory[a].next = b
      /\ dmaMemory[b].count = dmaLinked[e][j + 1][2] /\ b = dmaLinked[e][j + 1][1]
  <2>1. b = dmaLinked[e][j + 1][1]
    BY <1>3 DEF NodeAt
  <2>2. Following(dmaLinked, e, j) = dmaLinked[e][j + 1][1]
    BY DEF Following
  <2>3. dmaMemory[a].next = Following(dmaLinked, e, j)
    BY <1>3 DEF Strung
  <2>4. dmaMemory[dmaLinked[e][j + 1][1]].count = dmaLinked[e][j + 1][2]
    BY <1>3 DEF Strung
  <2> QED
    BY <2>1, <2>2, <2>3, <2>4
<1>5. f[k] \in Seq(Carried)
  BY <1>2 DEF Laid
<1>6. f[kk] = f[k] \o Transfers!PayloadOf(b)
  <2>1. P[kk] = dmaLinked[e][j + 1]
    BY <1>3 DEF Laid
  <2>2. f[kk] = f[kk - 1] \o [i \in 1 .. P[kk][2] |-> <<P[kk][1], i>>]
    BY <1>3 DEF Laid
  <2>3. Transfers!PayloadOf(b) = [i \in 1 .. P[kk][2] |-> <<P[kk][1], i>>]
    BY <1>4, <2>1 DEF Transfers!PayloadOf
  <2> QED
    BY <1>3, <2>2, <2>3
<1>7. W = f[k] \o Beyond(a, left)
  BY DEF Arrived
<1> HIDE DEF k, kk, a, b, left, ll
<1>8. W = (f[k] \o Transfers!PayloadOf(b)) \o Beyond(b, left - 1)
  <2> DEFINE r == f[k]
  <2>1. Leads(W, r, a, b, left)
    BY <1>2, <1>3, <1>4, <1>5, <1>7 DEF Leads
  <2> HIDE DEF r
  <2>2. W = (r \o Transfers!PayloadOf(b)) \o Beyond(b, left - 1)
    BY ONLY Transfers!DmaAssumption, LinksStay, <2>1, OneNodeOn
  <2> QED
    BY <2>2 DEF r
<1>9. W = f[kk] \o Beyond(b, ll)
  BY <1>3, <1>6, <1>8
<1> QED
  BY <1>9 DEF Arrived, kk, b, ll

(* From the last packet of an entry to the next entry. *)
LEMMA NextEntryArrives ==
  ASSUME Transfers!DmaAssumption, LinksStay, dmaUsed \in Nat,
         NEW W, NEW P, NEW f, NEW c, Laid(P, f, c), NEW n \in 1 .. Entries, n < Entries,
         Strung(dmaMemory, dmaLinked, dmaUsed, Entries - n),
         Strung(dmaMemory, dmaLinked, dmaUsed, Entries - (n + 1)),
         Spot(n, Len(dmaLinked[Entries - n]), c), Spot(n + 1, 0, c),
         Arrived(W, f, c, n, Len(dmaLinked[Entries - n]))
  PROVE  Arrived(W, f, c, n + 1, 0)
<1> DEFINE e == Entries - n
           j == Len(dmaLinked[e])
           k == c[n - 1] + j
           kk == c[(n + 1) - 1] + 0
           a == NodeAt(dmaLinked, e, j)
           b == NodeAt(dmaLinked, Entries - (n + 1), 0)
           left == GuardBound - (k + (n - 1))
           ll == GuardBound - (kk + ((n + 1) - 1))
<1>1. Entries \in Nat /\ GuardBound \in Nat
  BY DEF Transfers!DmaAssumption
<1>2. k \in 0 .. dmaUsed /\ a \in Transfers!Addresses /\ b \in Transfers!Addresses
      /\ k + (n - 1) \in 0 .. GuardBound /\ kk + ((n + 1) - 1) \in 0 .. GuardBound
      /\ j \in Nat /\ c[n] = k /\ kk \in 0 .. dmaUsed
  BY DEF Spot
<1>3. (n + 1) - 1 = n
  OBVIOUS
<1>4. kk = k
  BY <1>2, <1>3
<1>5. left \in 1 .. GuardBound /\ left - 1 = ll /\ e # 0 /\ Entries - (n + 1) = e - 1
      /\ j \in 0 .. Len(dmaLinked[e])
  <2> HIDE DEF k, kk, j
  <2>1. left \in 1 .. GuardBound /\ left - 1 = ll /\ e # 0 /\ Entries - (n + 1) = e - 1
    BY <1>1, <1>2, <1>3, <1>4
  <2>2. j \in 0 .. j
    BY <1>2
  <2> QED
    BY <2>1, <2>2 DEF j
<1>6. dmaMemory[a].next = b
  <2>1. dmaMemory[a].next = Following(dmaLinked, e, j)
    BY <1>5 DEF Strung
  <2>2. ~(j < Len(dmaLinked[e]))
    BY <1>2
  <2>3. Following(dmaLinked, e, j) = e - 1
    BY <1>5, <2>2 DEF Following
  <2>4. b = Entries - (n + 1)
    BY DEF NodeAt
  <2> QED
    BY <1>5, <2>1, <2>3, <2>4
<1>7. Transfers!PayloadOf(b) = <<>>
  <2>1. dmaMemory[b].count = 0
    BY DEF Strung, NodeAt
  <2> QED
    BY <2>1 DEF Transfers!PayloadOf
<1>8. f[k] \in Seq(Carried)
  BY <1>2 DEF Laid
<1>9. W = f[k] \o Beyond(a, left)
  BY DEF Arrived
<1> HIDE DEF k, kk, a, b, left, ll
<1>10. W = (f[k] \o Transfers!PayloadOf(b)) \o Beyond(b, left - 1)
  <2> DEFINE r == f[k]
  <2>1. Leads(W, r, a, b, left)
    BY <1>2, <1>5, <1>6, <1>8, <1>9 DEF Leads
  <2> HIDE DEF r
  <2>2. W = (r \o Transfers!PayloadOf(b)) \o Beyond(b, left - 1)
    BY ONLY Transfers!DmaAssumption, LinksStay, <2>1, OneNodeOn
  <2> QED
    BY <2>2 DEF r
<1>11. f[k] \o <<>> = f[k]
  BY <1>8
<1>12. W = f[kk] \o Beyond(b, ll)
  BY <1>4, <1>5, <1>7, <1>10, <1>11
<1> QED
  BY <1>12 DEF Arrived, kk, b, ll

(* A table and its packets arrive in full and in order, when the list is   *)
(* no longer than the walk.                                                *)
LEMMA ListArrives ==
  ASSUME Transfers!DmaAssumption, LinksStay, dmaUsed \in Nat,
         Threaded(dmaMemory, dmaLinked, dmaUsed), Entries + dmaUsed <= GuardBound + 1
  PROVE  Transfers!Walk(Entries - 1) = Transfers!InTable
<1> DEFINE W == Transfers!Walk(Entries - 1)
           LenOf(n) == Len(dmaLinked[Entries - n])
<1>1. /\ Entries \in Nat \ {0} /\ GuardBound \in Nat
      /\ dmaLinked \in [0 .. Entries - 1 -> Seq(Packed)]
      /\ \A e \in 0 .. Entries - 1 : Strung(dmaMemory, dmaLinked, dmaUsed, e)
  BY DEF Transfers!DmaAssumption, Threaded
<1>2. PICK c : Tally(c, dmaLinked) /\ c[Entries] = dmaUsed
  BY DEF Threaded
<1>3. PICK P, f : Laid(P, f, c) /\ Transfers!InTable = f[dmaUsed]
  BY <1>1, <1>2, LaidOut
<1>4. ASSUME NEW n \in 1 .. Entries
      PROVE  /\ Entries - n \in 0 .. Entries - 1 /\ LenOf(n) \in Nat
             /\ Strung(dmaMemory, dmaLinked, dmaUsed, Entries - n)
             /\ \A j \in 0 .. LenOf(n) : Spot(n, j, c)
  <2>1. Entries - n \in 0 .. Entries - 1
    BY <1>1
  <2>2. LenOf(n) \in Nat
    BY <1>1, <2>1
  <2>3. ASSUME NEW j \in 0 .. LenOf(n) PROVE Spot(n, j, c)
    <3>1. \A i \in 1 .. Entries : c[i] <= dmaUsed
      BY <1>3 DEF Laid
    <3> QED
      BY <1>1, <1>2, <3>1, SpotsExist
  <2> QED
    BY <1>1, <2>1, <2>2, <2>3
<1>5. Arrived(W, f, c, 1, 0)
  <2> DEFINE a == Entries - 1
             rest == Beyond(a, GuardBound)
  <2>1. a \in 0 .. Entries - 1 /\ a \in Transfers!Addresses
    <3>1. Packets \in Nat
      BY DEF Transfers!DmaAssumption
    <3> QED
      BY <1>1, <3>1 DEF Transfers!Addresses
  <2>2. W = Course[GuardBound][a]
    BY DEF Transfers!Walk, Course, Walking, Layer
  <2>3. GuardBound \in 0 .. GuardBound
    BY <1>1
  <2>4. Course[GuardBound][a] = Transfers!PayloadOf(a) \o rest /\ rest \in Seq(Carried)
    <3> HIDE DEF a
    <3> QED
      BY <2>1, <2>3, StepOn
  <2>5. Transfers!PayloadOf(a) = <<>>
    <3>1. dmaMemory[a].count = 0
      BY <1>1, <2>1 DEF Strung
    <3> QED
      BY <3>1 DEF Transfers!PayloadOf
  <2>6. c[1 - 1] = 0 /\ f[0] = <<>>
    BY <1>2, <1>3 DEF Tally, Laid
  <2> HIDE DEF W, rest
  <2>7. W = <<>> \o rest
    BY <2>2, <2>4, <2>5
  <2>8. GuardBound - ((0 + 0) + (1 - 1)) = GuardBound /\ 0 + 0 = 0
    BY <1>1
  <2>9. NodeAt(dmaLinked, Entries - 1, 0) = a
    BY DEF NodeAt
  <2> QED
    BY <2>6, <2>7, <2>8, <2>9 DEF Arrived, rest
<1> HIDE DEF W
<1>6. ASSUME NEW n \in 1 .. Entries, Arrived(W, f, c, n, 0) PROVE Arrived(W, f, c, n, LenOf(n))
  <2> DEFINE T == {j \in 0 .. LenOf(n) : Arrived(W, f, c, n, j)}
  <2>1. LenOf(n) \in Nat
    BY <1>4
  <2>2. 0 \in T
    BY <1>6, <2>1
  <2>3. ASSUME NEW j \in 0 .. LenOf(n), j < LenOf(n), j \in T PROVE j + 1 \in T
    <3>1. j \in Nat /\ j + 1 \in 0 .. LenOf(n)
      BY <2>1, <2>3
    <3>2. Spot(n, j, c) /\ Spot(n, j + 1, c) /\ Strung(dmaMemory, dmaLinked, dmaUsed, Entries - n)
      BY <1>4, <3>1
    <3>3. Arrived(W, f, c, n, j)
      BY <2>3
    <3>4. Arrived(W, f, c, n, j + 1)
      BY <1>3, <2>3, <3>1, <3>2, <3>3, NextPacketArrives
    <3> QED
      BY <3>1, <3>4
  <2>4. 0 .. LenOf(n) \subseteq T
    <3> HIDE DEF T, LenOf
    <3> QED
      BY ONLY <2>1, <2>2, <2>3, UptoInduction
  <2>5. LenOf(n) \in 0 .. LenOf(n)
    BY <2>1
  <2> QED
    BY <2>4, <2>5
<1>7. Arrived(W, f, c, Entries, LenOf(Entries))
  <2> DEFINE T == {m \in 0 .. Entries - 1 : Arrived(W, f, c, m + 1, 0)}
  <2>1. 0 \in T
    BY <1>1, <1>5
  <2>2. ASSUME NEW m \in 0 .. Entries - 1, m < Entries - 1, m \in T PROVE m + 1 \in T
    <3> DEFINE n == m + 1
    <3>1. n \in 1 .. Entries /\ n < Entries /\ n + 1 \in 1 .. Entries /\ n \in 0 .. Entries - 1
      BY <1>1, <2>2
    <3>2. Arrived(W, f, c, n, 0)
      BY <2>2
    <3> HIDE DEF n
    <3>3. Arrived(W, f, c, n, LenOf(n))
      BY <1>6, <3>1, <3>2
    <3>4. Spot(n, LenOf(n), c) /\ Spot(n + 1, 0, c)
          /\ Strung(dmaMemory, dmaLinked, dmaUsed, Entries - n)
          /\ Strung(dmaMemory, dmaLinked, dmaUsed, Entries - (n + 1))
      <4>1. LenOf(n) \in 0 .. LenOf(n) /\ 0 \in 0 .. LenOf(n + 1)
        <5>1. LenOf(n) \in Nat /\ LenOf(n + 1) \in Nat
          BY <1>4, <3>1
        <5> HIDE DEF LenOf
        <5> QED
          BY <5>1
      <4> HIDE DEF LenOf
      <4> QED
        BY <1>4, <3>1, <4>1
    <3>5. Arrived(W, f, c, n + 1, 0)
      BY <1>3, <3>1, <3>3, <3>4, NextEntryArrives
    <3> QED
      BY <3>1, <3>5 DEF n
  <2>3. Entries - 1 \in Nat /\ Entries - 1 \in 0 .. Entries - 1 /\ (Entries - 1) + 1 = Entries
        /\ Entries \in 1 .. Entries
    BY <1>1
  <2>4. 0 .. Entries - 1 \subseteq T
    <3> HIDE DEF T
    <3> QED
      BY ONLY <2>1, <2>2, <2>3, UptoInduction
  <2>5. Arrived(W, f, c, Entries, 0)
    BY <2>3, <2>4
  <2> QED
    BY <1>6, <2>3, <2>5
<1>8. W = f[dmaUsed] \o <<>>
  <2> DEFINE j == LenOf(Entries)
             left == GuardBound - ((c[Entries - 1] + j) + (Entries - 1))
             a == NodeAt(dmaLinked, Entries - Entries, j)
  <2>1. Entries \in 1 .. Entries /\ Entries - Entries = 0
    BY <1>1
  <2>2. j \in Nat /\ Strung(dmaMemory, dmaLinked, dmaUsed, 0)
    BY <1>4, <2>1
  <2>3. c[Entries - 1] + j = dmaUsed
    BY <1>2, <2>1 DEF Tally
  <2>4. dmaMemory[a].next = Transfers!End
    <3>1. j = Len(dmaLinked[0]) /\ ~(j < Len(dmaLinked[0])) /\ j \in 0 .. Len(dmaLinked[0])
      BY <2>1, <2>2
    <3>2. Following(dmaLinked, 0, j) = Transfers!End
      BY <3>1 DEF Following
    <3> HIDE DEF j
    <3>3. dmaMemory[NodeAt(dmaLinked, 0, j)].next = Following(dmaLinked, 0, j)
      BY <2>2, <3>1 DEF Strung
    <3> QED
      BY <2>1, <3>2, <3>3
  <2>5. Beyond(a, left) = <<>>
    <3> HIDE DEF a, left
    <3> QED
      BY <2>4 DEF Beyond
  <2>6. W = f[c[Entries - 1] + j] \o Beyond(a, left)
    BY <1>7 DEF Arrived
  <2> HIDE DEF a, left, j
  <2> QED
    BY <2>3, <2>5, <2>6
<1>9. f[dmaUsed] \in Seq(Carried)
  <2>1. dmaUsed \in 0 .. dmaUsed
    OBVIOUS
  <2> QED
    BY <1>3, <2>1 DEF Laid
<1> QED
  BY <1>3, <1>8, <1>9 DEF W

(* A table just cleared has no packets. *)
LEMMA ClearedTable ==
  ASSUME Transfers!DmaAssumption, Transfers!ClearTable
  PROVE  dmaUsed' = 0 /\ Threaded(dmaMemory', dmaLinked', dmaUsed')
<1> DEFINE m == dmaMemory'
           l == dmaLinked'
           c == [n \in 0 .. Entries |-> 0]
<1>1. Entries \in Nat \ {0} /\ Packets \in Nat
  BY DEF Transfers!DmaAssumption
<1>2. /\ dmaUsed' = 0 /\ l = [e \in 0 .. Entries - 1 |-> <<>>]
      /\ m = [a \in Transfers!Addresses |->
                IF a < Entries THEN Transfers!TableEntry(a) ELSE dmaMemory[a]]
  BY DEF Transfers!ClearTable
<1> HIDE DEF m, l
<1>3. l \in [0 .. Entries - 1 -> Seq(Packed)]
  <2>1. <<>> \in Seq(Packed)
    OBVIOUS
  <2> QED
    BY <1>2, <2>1
<1>4. ASSUME NEW e \in 0 .. Entries - 1 PROVE Strung(m, l, 0, e)
  <2>1. e \in Transfers!Addresses /\ e < Entries
    BY <1>1 DEF Transfers!Addresses
  <2>2. m[e] = Transfers!TableEntry(e)
    BY <1>2, <2>1
  <2>3. m[e].count = 0 /\ m[e].next = IF e = 0 THEN Transfers!End ELSE e - 1
    BY <2>2 DEF Transfers!TableEntry, Transfers!Node
  <2>4. l[e] = <<>> /\ Len(l[e]) = 0
    BY <1>2
  <2>5. NodeAt(l, e, 0) = e
    BY DEF NodeAt
  <2>6. Following(l, e, 0) = IF e = 0 THEN Transfers!End ELSE e - 1
    BY <2>4 DEF Following
  <2>7. \A j \in 0 .. 0 : j = 0
    OBVIOUS
  <2> QED
    BY <2>3, <2>4, <2>5, <2>6, <2>7 DEF Strung
<1>5. Tally(c, l) /\ c[Entries] = 0
  <2>1. c \in [0 .. Entries -> Nat] /\ c[0] = 0 /\ c[Entries] = 0
    BY <1>1
  <2>2. ASSUME NEW n \in 1 .. Entries PROVE c[n] = c[n - 1] + Len(l[Entries - n])
    <3>1. Entries - n \in 0 .. Entries - 1 /\ n \in 0 .. Entries /\ n - 1 \in 0 .. Entries
      BY <1>1
    <3>2. Len(l[Entries - n]) = 0
      BY <1>2, <3>1
    <3>3. c[n] = 0 /\ c[n - 1] = 0
      BY <3>1
    <3> HIDE DEF c
    <3> QED
      BY <3>2, <3>3
  <2> HIDE DEF c
  <2> QED
    BY <2>1, <2>2 DEF Tally
<1> HIDE DEF c
<1>6. Threaded(m, l, 0)
  BY <1>3, <1>4, <1>5 DEF Threaded
<1> QED
  BY <1>2, <1>6 DEF m, l

(* What AddPacket makes of the memory and of the program's lists. *)
Inserts(m, t, a, e, count) ==
  t = [m EXCEPT ![a] = Transfers!Node(count, m[e].next), ![e].next = a]
Pushes(l, k, a, e, count) == k = [l EXCEPT ![e] = <<<<a, count>>>> \o l[e]]

(* A packet in front of a list. *)
LEMMA InFront ==
  ASSUME NEW p \in Packed, NEW s \in Seq(Packed)
  PROVE  /\ <<p>> \o s \in Seq(Packed) /\ Len(<<p>> \o s) = Len(s) + 1
         /\ (<<p>> \o s)[1] = p
         /\ \A j \in 1 .. Len(s) : (<<p>> \o s)[j + 1] = s[j]
<1>1. <<p>> \in Seq(Packed) /\ Len(<<p>>) = 1
  OBVIOUS
<1> QED
  BY <1>1

(* The entry the packet was linked to has it first. *)
LEMMA LinkedEntry ==
  ASSUME Transfers!DmaAssumption, NEW u \in 0 .. Packets - 1,
         NEW m \in [Transfers!Addresses -> Header],
         NEW l \in [0 .. Entries - 1 -> Seq(Packed)],
         NEW e \in 0 .. Entries - 1, NEW count \in Payload, NEW t, NEW k,
         Inserts(m, t, Entries + u, e, count), Pushes(l, k, Entries + u, e, count),
         Strung(m, l, u, e)
  PROVE  Strung(t, k, u + 1, e)
<1> DEFINE a == Entries + u
           s == l[e]
           r == k[e]
<1>1. Entries \in Nat \ {0} /\ Packets \in Nat /\ u \in Nat
  BY DEF Transfers!DmaAssumption
<1>2. /\ a \in Transfers!Addresses /\ e \in Transfers!Addresses /\ a # e
      /\ s \in Seq(Packed) /\ <<a, count>> \in Packed /\ Len(s) \in Nat
  <2>1. a \in Transfers!Addresses /\ e \in Transfers!Addresses /\ a # e
    BY <1>1 DEF Transfers!Addresses
  <2> HIDE DEF a
  <2> QED
    BY <2>1 DEF Packed
<1>3. /\ t[e].count = m[e].count /\ t[e].next = a
      /\ t[a].count = count /\ t[a].next = m[e].next
      /\ \A d \in Transfers!Addresses : d # a /\ d # e => t[d] = m[d]
  <2>1. m[e] \in Header
    BY <1>2
  <2> HIDE DEF a
  <2> QED
    BY <1>2, <2>1 DEF Inserts, Transfers!Node, Header, a
<1>4. /\ r = <<<<a, count>>>> \o s /\ Len(r) = Len(s) + 1 /\ r[1] = <<a, count>>
      /\ \A j \in 1 .. Len(s) : r[j + 1] = s[j]
  <2>1. r = <<<<a, count>>>> \o s
    BY DEF Pushes
  <2> DEFINE p == <<a, count>>
  <2>2. p \in Packed
    BY <1>2
  <2> HIDE DEF p, s, r
  <2>3. /\ Len(<<p>> \o s) = Len(s) + 1 /\ (<<p>> \o s)[1] = p
        /\ \A j \in 1 .. Len(s) : (<<p>> \o s)[j + 1] = s[j]
    BY <1>2, <2>2, InFront
  <2> QED
    BY <2>1, <2>3 DEF p
<1>5. /\ m[e].count = 0
      /\ \A j \in 0 .. Len(s) : m[NodeAt(l, e, j)].next = Following(l, e, j)
      /\ \A j \in 1 .. Len(s) : s[j][1] \in Entries .. Entries + u - 1 /\ m[s[j][1]].count = s[j][2]
  BY DEF Strung
<1>6. \A j \in 1 .. Len(s) : s[j][1] \in Transfers!Addresses /\ s[j][1] # a /\ s[j][1] # e
  <2>1. ASSUME NEW d \in Entries .. Entries + u - 1
        PROVE  d \in Transfers!Addresses /\ d # a /\ d # e
    BY <1>1 DEF Transfers!Addresses
  <2> HIDE DEF s, a
  <2> QED
    BY <1>5, <2>1
<1> HIDE DEF s, r, a
<1>7. \A j \in 1 .. Len(r) : r[j][1] \in Entries .. Entries + (u + 1) - 1 /\ t[r[j][1]].count = r[j][2]
  <2> SUFFICES ASSUME NEW j \in 1 .. Len(r)
               PROVE  r[j][1] \in Entries .. Entries + (u + 1) - 1 /\ t[r[j][1]].count = r[j][2]
    OBVIOUS
  <2>1. CASE j = 1
    <3>1. r[j][1] = a /\ r[j][2] = count
      BY <1>4, <2>1
    <3>2. a \in Entries .. Entries + (u + 1) - 1
      BY <1>1 DEF a
    <3> QED
      BY <1>3, <3>1, <3>2
  <2>2. CASE j # 1
    <3>1. j - 1 \in 1 .. Len(s) /\ (j - 1) + 1 = j
      BY <1>2, <1>4, <2>2
    <3>2. r[j] = s[j - 1]
      BY <1>4, <3>1
    <3>3. s[j - 1][1] \in Entries .. Entries + u - 1 /\ t[s[j - 1][1]] = m[s[j - 1][1]]
          /\ m[s[j - 1][1]].count = s[j - 1][2]
      BY <1>3, <1>5, <1>6, <3>1
    <3>4. \A d \in Entries .. Entries + u - 1 : d \in Entries .. Entries + (u + 1) - 1
      BY <1>1
    <3> QED
      BY <3>2, <3>3, <3>4
  <2> QED
    BY <2>1, <2>2
<1>8. \A j \in 0 .. Len(r) : t[NodeAt(k, e, j)].next = Following(k, e, j)
  <2> SUFFICES ASSUME NEW j \in 0 .. Len(r)
               PROVE  t[NodeAt(k, e, j)].next = Following(k, e, j)
    OBVIOUS
  <2>1. CASE j = 0
    <3>1. NodeAt(k, e, j) = e
      BY <2>1 DEF NodeAt
    <3>2. 0 < Len(r) /\ r[0 + 1] = r[1] /\ r[1][1] = a
      BY <1>2, <1>4
    <3>3. Following(k, e, 0) = r[0 + 1][1]
      BY <3>2 DEF Following, r
    <3> QED
      BY <1>3, <2>1, <3>1, <3>2, <3>3
  <2>2. CASE j # 0
    <3> DEFINE i == j - 1
    <3>1. i \in 0 .. Len(s) /\ i + 1 = j /\ (i < Len(s) <=> j < Len(r)) /\ j \in 1 .. Len(r)
      BY <1>2, <1>4, <2>2
    <3>2. Following(k, e, j) = Following(l, e, i)
      <4>1. CASE i < Len(s)
        <5>1. i + 1 \in 1 .. Len(s)
          BY <1>2, <3>1, <4>1
        <5>2. r[j + 1] = s[i + 1] /\ j < Len(r)
          BY <1>4, <3>1, <4>1, <5>1
        <5> QED
          BY <4>1, <5>2 DEF Following, s, r
      <4>2. CASE ~(i < Len(s))
        <5>1. ~(j < Len(r))
          BY <3>1, <4>2
        <5> QED
          BY <4>2, <5>1 DEF Following, s, r
      <4> QED
        BY <4>1, <4>2
    <3>3. m[NodeAt(l, e, i)].next = Following(l, e, i)
      BY <1>5, <3>1
    <3>4. t[NodeAt(k, e, j)].next = m[NodeAt(l, e, i)].next
      <4>1. CASE i = 0
        <5>1. NodeAt(l, e, i) = e
          BY <4>1 DEF NodeAt
        <5>2. j = 1
          BY <3>1, <4>1
        <5>3. NodeAt(k, e, j) = a
          BY <1>4, <5>2 DEF NodeAt, r
        <5> QED
          BY <1>3, <5>1, <5>3
      <4>2. CASE i # 0
        <5>1. i \in 1 .. Len(s)
          BY <1>2, <3>1, <4>2
        <5>2. NodeAt(l, e, i) = s[i][1] /\ NodeAt(k, e, j) = r[j][1]
          BY <2>2, <4>2 DEF NodeAt, s, r
        <5>3. r[j] = s[i]
          BY <1>4, <3>1, <5>1
        <5> HIDE DEF i
        <5> QED
          BY <1>3, <1>6, <5>1, <5>2, <5>3
      <4> QED
        BY <4>1, <4>2
    <3> QED
      BY <3>2, <3>3, <3>4
  <2> QED
    BY <2>1, <2>2
<1> QED
  BY <1>3, <1>5, <1>7, <1>8 DEF Strung, r

(* Every other entry has what it had. *)
LEMMA OtherEntry ==
  ASSUME Transfers!DmaAssumption, NEW u \in 0 .. Packets - 1,
         NEW m \in [Transfers!Addresses -> Header],
         NEW l \in [0 .. Entries - 1 -> Seq(Packed)],
         NEW e \in 0 .. Entries - 1, NEW count, NEW t, NEW k,
         Inserts(m, t, Entries + u, e, count), Pushes(l, k, Entries + u, e, count),
         NEW d \in 0 .. Entries - 1, d # e, Strung(m, l, u, d)
  PROVE  Strung(t, k, u + 1, d)
<1> DEFINE a == Entries + u
<1>1. Entries \in Nat \ {0} /\ Packets \in Nat /\ u \in Nat
  BY DEF Transfers!DmaAssumption
<1>2. k[d] = l[d]
  BY DEF Pushes
<1>3. ASSUME NEW b \in Transfers!Addresses, b # a, b # e PROVE t[b] = m[b]
  BY <1>3 DEF Inserts
<1>4. d \in Transfers!Addresses /\ d # a
  BY <1>1 DEF Transfers!Addresses
<1>5. ASSUME NEW b \in Entries .. Entries + u - 1 PROVE b \in Transfers!Addresses /\ b # a /\ b # e
  BY <1>1 DEF Transfers!Addresses
<1> HIDE DEF a
<1>6. ASSUME NEW j \in 0 .. Len(l[d])
      PROVE  t[NodeAt(k, d, j)].next = Following(k, d, j)
  <2>1. NodeAt(k, d, j) = NodeAt(l, d, j) /\ Following(k, d, j) = Following(l, d, j)
    BY <1>2 DEF NodeAt, Following
  <2>2. t[NodeAt(l, d, j)] = m[NodeAt(l, d, j)]
    <3>1. CASE j = 0
      BY <1>3, <1>4, <3>1 DEF NodeAt
    <3>2. CASE j # 0
      <4>1. j \in 1 .. Len(l[d])
        <5>1. l[d] \in Seq(Packed)
          OBVIOUS
        <5> QED
          BY <3>2, <5>1
      <4>2. NodeAt(l, d, j) = l[d][j][1] /\ l[d][j][1] \in Entries .. Entries + u - 1
        BY <3>2, <4>1 DEF NodeAt, Strung
      <4> QED
        BY <1>3, <1>5, <4>2
    <3> QED
      BY <3>1, <3>2
  <2>3. m[NodeAt(l, d, j)].next = Following(l, d, j)
    BY DEF Strung
  <2> QED
    BY <2>1, <2>2, <2>3
<1>7. ASSUME NEW j \in 1 .. Len(l[d])
      PROVE  l[d][j][1] \in Entries .. Entries + (u + 1) - 1 /\ t[l[d][j][1]].count = l[d][j][2]
  <2>1. l[d][j][1] \in Entries .. Entries + u - 1 /\ m[l[d][j][1]].count = l[d][j][2]
    BY DEF Strung
  <2>2. \A b \in Entries .. Entries + u - 1 : b \in Entries .. Entries + (u + 1) - 1
    BY <1>1
  <2> QED
    BY <1>3, <1>5, <2>1, <2>2
<1>8. t[d].count = 0
  BY <1>3, <1>4 DEF Strung
<1> QED
  BY <1>2, <1>6, <1>7, <1>8 DEF Strung

(* There is a packet more in the entry, and behind it. *)
LEMMA TallyOfMore ==
  ASSUME Entries \in Nat \ {0}, NEW l \in [0 .. Entries - 1 -> Seq(Packed)],
         NEW e \in 0 .. Entries - 1, NEW k \in [0 .. Entries - 1 -> Seq(Packed)],
         Len(k[e]) = Len(l[e]) + 1, \A d \in 0 .. Entries - 1 : d # e => k[d] = l[d],
         NEW c, Tally(c, l)
  PROVE  \E b : Tally(b, k) /\ b[Entries] = c[Entries] + 1
<1> DEFINE b == [n \in 0 .. Entries |-> IF n >= Entries - e THEN c[n] + 1 ELSE c[n]]
<1>1. \A n \in 0 .. Entries : c[n] \in Nat /\ c[n] + 1 \in Nat
  <2>1. c \in [0 .. Entries -> Nat]
    BY DEF Tally
  <2>2. \A n \in 0 .. Entries : c[n] \in Nat
    BY <2>1
  <2> QED
    BY <2>2
<1>2. b \in [0 .. Entries -> Nat]
  BY <1>1
<1>3. b[0] = 0 /\ b[Entries] = c[Entries] + 1
  <2>1. 0 \in 0 .. Entries /\ Entries \in 0 .. Entries /\ ~(0 >= Entries - e) /\ Entries >= Entries - e
    OBVIOUS
  <2> QED
    BY <2>1 DEF Tally
<1>4. ASSUME NEW n \in 1 .. Entries PROVE b[n] = b[n - 1] + Len(k[Entries - n])
  <2>1. /\ n \in 0 .. Entries /\ n - 1 \in 0 .. Entries /\ Entries - n \in 0 .. Entries - 1
        /\ Len(l[Entries - n]) \in Nat
    <3>1. Entries - n \in 0 .. Entries - 1
      OBVIOUS
    <3>2. l[Entries - n] \in Seq(Packed)
      BY <3>1
    <3> QED
      BY <3>1, <3>2
  <2>2. c[n] = c[n - 1] + Len(l[Entries - n])
    BY DEF Tally
  <2>3. b[n] = (IF n >= Entries - e THEN c[n] + 1 ELSE c[n])
        /\ b[n - 1] = (IF n - 1 >= Entries - e THEN c[n - 1] + 1 ELSE c[n - 1])
    BY <2>1
  <2>4. c[n] \in Nat /\ c[n - 1] \in Nat
    BY <1>1, <2>1
  <2> DEFINE x == c[n]
             y == c[n - 1]
             z == Len(l[Entries - n])
  <2>5. x \in Nat /\ y \in Nat /\ z \in Nat /\ x = y + z
    BY <2>1, <2>2, <2>4
  <2>6. b[n] = (IF n >= Entries - e THEN x + 1 ELSE x)
        /\ b[n - 1] = (IF n - 1 >= Entries - e THEN y + 1 ELSE y)
    BY <2>3
  <2> HIDE DEF b, x, y, z
  <2>7. CASE Entries - n = e
    <3>1. n >= Entries - e /\ ~(n - 1 >= Entries - e)
      BY <2>7
    <3>2. Len(k[Entries - n]) = z + 1
      BY <2>7 DEF z
    <3>3. b[n] = x + 1 /\ b[n - 1] = y
      BY <2>6, <3>1
    <3> QED
      BY <2>5, <3>2, <3>3
  <2>8. CASE Entries - n # e
    <3>1. n >= Entries - e <=> n - 1 >= Entries - e
      BY <2>8
    <3>2. Len(k[Entries - n]) = z
      BY <2>1, <2>8 DEF z
    <3>3. b[n] = b[n - 1] + z
      <4>1. CASE n >= Entries - e
        <5>1. b[n] = x + 1 /\ b[n - 1] = y + 1
          BY <2>6, <3>1, <4>1
        <5> QED
          BY <2>5, <5>1
      <4>2. CASE ~(n >= Entries - e)
        <5>1. b[n] = x /\ b[n - 1] = y
          BY <2>6, <3>1, <4>2
        <5> QED
          BY <2>5, <5>1
      <4> QED
        BY <4>1, <4>2
    <3> QED
      BY <3>2, <3>3
  <2> QED
    BY <2>7, <2>8
<1> HIDE DEF b
<1>5. Tally(b, k)
  BY <1>2, <1>3, <1>4 DEF Tally
<1> QED
  BY <1>3, <1>5

(* Linking a packet in keeps the table in order (the program's AddPrim).    *)
LEMMA PacketLinked ==
  ASSUME Transfers!DmaAssumption, LinksStay, Threaded(dmaMemory, dmaLinked, dmaUsed),
         Transfers!AddPacket
  PROVE  dmaUsed' \in 0 .. Packets /\ Threaded(dmaMemory', dmaLinked', dmaUsed')
<1>1. /\ Entries \in Nat \ {0} /\ Packets \in Nat /\ dmaUsed \in 0 .. Packets - 1
      /\ dmaUsed' = dmaUsed + 1 /\ dmaUsed' \in 0 .. Packets
  BY DEF Transfers!DmaAssumption, Transfers!AddPacket
<1>2. PICK e \in 0 .. Entries - 1, count \in Payload :
        /\ Inserts(dmaMemory, dmaMemory', Entries + dmaUsed, e, count)
        /\ Pushes(dmaLinked, dmaLinked', Entries + dmaUsed, e, count)
  BY DEF Transfers!AddPacket, Inserts, Pushes
<1> DEFINE t == dmaMemory'
           k == dmaLinked'
           a == Entries + dmaUsed
<1>3. /\ dmaMemory \in [Transfers!Addresses -> Header]
      /\ dmaLinked \in [0 .. Entries - 1 -> Seq(Packed)]
      /\ \A d \in 0 .. Entries - 1 : Strung(dmaMemory, dmaLinked, dmaUsed, d)
  BY DEF LinksStay, Threaded
<1>4. PICK c : Tally(c, dmaLinked) /\ c[Entries] = dmaUsed
  BY DEF Threaded
<1> HIDE DEF t, k
<1>5. Inserts(dmaMemory, t, a, e, count) /\ Pushes(dmaLinked, k, a, e, count)
  BY <1>2 DEF t, k
<1>6. ASSUME NEW d \in 0 .. Entries - 1 PROVE Strung(t, k, dmaUsed + 1, d)
  <2>1. CASE d = e
    BY <1>1, <1>3, <1>5, <2>1, LinkedEntry
  <2>2. CASE d # e
    BY <1>1, <1>3, <1>5, <2>2, OtherEntry
  <2> QED
    BY <2>1, <2>2
<1>7. /\ k \in [0 .. Entries - 1 -> Seq(Packed)] /\ Len(k[e]) = Len(dmaLinked[e]) + 1
      /\ \A d \in 0 .. Entries - 1 : d # e => k[d] = dmaLinked[d]
  <2> DEFINE s == dmaLinked[e]
             p == <<a, count>>
             r == <<p>> \o s
  <2>1. a \in Transfers!Addresses
    BY <1>1 DEF Transfers!Addresses
  <2>2. p \in Packed /\ s \in Seq(Packed)
    <3> HIDE DEF a
    <3> QED
      BY <1>3, <2>1 DEF Packed
  <2>3. k = [dmaLinked EXCEPT ![e] = r]
    BY <1>5 DEF Pushes
  <2>4. r \in Seq(Packed) /\ Len(r) = Len(s) + 1
    <3> HIDE DEF p, s
    <3> QED
      BY <2>2, InFront
  <2> HIDE DEF r, s
  <2>5. k \in [0 .. Entries - 1 -> Seq(Packed)] /\ k[e] = r
    BY <1>3, <2>3, <2>4
  <2>6. \A d \in 0 .. Entries - 1 : d # e => k[d] = dmaLinked[d]
    BY <1>3, <2>3
  <2> QED
    BY <2>4, <2>5, <2>6 DEF s
<1>8. \E b : Tally(b, k) /\ b[Entries] = dmaUsed + 1
  BY <1>1, <1>3, <1>4, <1>7, TallyOfMore
<1>9. Threaded(t, k, dmaUsed + 1)
  BY <1>6, <1>7, <1>8 DEF Threaded
<1> QED
  BY <1>1, <1>9 DEF t, k

(* Once there is a table, its headers are the program's lists. *)
DmaInv ==
  unit = "dma" =>
    /\ Transfers!TypeOK /\ dmaUsed \in -1 .. Packets
    /\ dmaUsed >= 0 => Threaded(dmaMemory, dmaLinked, dmaUsed)

LEMMA DmaInvKept ==
  ASSUME DmaInv, [UnitsNext]_unitsVars, unit' = "dma" PROVE DmaInv'
<1>1. unit = "dma"
  BY DEF UnitsNext, unitsVars
<1>2. Transfers!Next \/ UNCHANGED Transfers!vars
  BY <1>1 DEF UnitsNext, unitsVars, dmaVars, Transfers!vars, Transfers!lists, Transfers!control
<1>3. Transfers!DmaAssumption
  BY HardwareAssumption DEF HardwareAssumption
<1>4. /\ Transfers!TypeOK /\ dmaUsed \in -1 .. Packets /\ Packets \in Nat
      /\ dmaUsed >= 0 => Threaded(dmaMemory, dmaLinked, dmaUsed)
  BY <1>1, <1>3 DEF DmaInv, Transfers!DmaAssumption
<1>5. Transfers!TypeOK'
  BY <1>2, <1>3, <1>4, DmaTypes
<1>6. LinksStay
  BY <1>4 DEF Transfers!TypeOK, LinksStay, Header
<1> DEFINE Strings == /\ dmaUsed \in -1 .. Packets
                      /\ dmaUsed >= 0 => Threaded(dmaMemory, dmaLinked, dmaUsed)
<1>7. Strings'
  <2>1. CASE Transfers!ClearTable
    <3>1. dmaUsed' = 0 /\ Threaded(dmaMemory', dmaLinked', dmaUsed')
      BY <1>3, <2>1, ClearedTable
    <3>2. dmaUsed' \in -1 .. Packets
      BY <1>4, <3>1
    <3> QED
      BY <3>1, <3>2
  <2>2. CASE Transfers!AddPacket
    <3>1. dmaUsed >= 0
      BY <2>2 DEF Transfers!AddPacket
    <3>2. dmaUsed' \in 0 .. Packets /\ Threaded(dmaMemory', dmaLinked', dmaUsed')
      BY <1>3, <1>4, <1>6, <2>2, <3>1, PacketLinked
    <3>3. dmaUsed' \in -1 .. Packets
      BY <1>4, <3>2
    <3> QED
      BY <3>2, <3>3
  <2>3. CASE ~Transfers!ClearTable /\ ~Transfers!AddPacket
    <3>1. dmaUsed' = dmaUsed /\ dmaMemory' = dmaMemory /\ dmaLinked' = dmaLinked
      BY <1>2, <2>3 DEF Transfers!Next, Transfers!EnableChannel, Transfers!WriteLowHalf,
         Transfers!TakeIrq, Transfers!Serve, Transfers!Return, Transfers!StreamTransfer,
         Transfers!SendList, Transfers!lists, Transfers!vars
    <3> QED
      BY <1>4, <3>1
  <2> QED
    BY <2>1, <2>2, <2>3
<1> QED
  BY <1>5, <1>7 DEF DmaInv

(* A list the code's guard does not cut short (bus.rs:792): the table and  *)
(* its packets are no more than the nodes it will walk.                    *)
ListsAreShort == Entries + Packets <= GuardBound + 1

(* A list sent to the GPU arrives as the program's table has it, entry for *)
(* entry and packet for packet, each word once (bus.rs:772-800): for every *)
(* table, every number of packets and every order they are linked in.      *)
THEOREM ListsAreDrawnInOrder == ASSUME ListsAreShort PROVE UnitsSpec => DrawnInOrder
<1>1. UnitsInit => DmaInv
  <2> SUFFICES ASSUME UnitsInit, unit = "dma" PROVE DmaInv
    BY DEF DmaInv
  <2>1. Transfers!Init
    BY DEF UnitsInit
  <2>2. Transfers!DmaAssumption
    BY HardwareAssumption DEF HardwareAssumption
  <2>3. Transfers!TypeOK
    BY <2>1, <2>2, DmaTypes
  <2>4. dmaUsed = -1 /\ Packets \in Nat
    BY <2>1, <2>2 DEF Transfers!Init, Transfers!DmaAssumption
  <2>5. dmaUsed \in -1 .. Packets /\ ~(dmaUsed >= 0)
    BY <2>4
  <2> QED
    BY <2>3, <2>5 DEF DmaInv
<1>2. DmaInv /\ [UnitsNext]_unitsVars => DmaInv'
  <2> SUFFICES ASSUME DmaInv, [UnitsNext]_unitsVars PROVE DmaInv'
    OBVIOUS
  <2>1. CASE unit' = "dma"
    BY <2>1, DmaInvKept
  <2>2. CASE unit' # "dma"
    BY <2>2 DEF DmaInv
  <2> QED
    BY <2>1, <2>2
<1>3. DmaInv /\ [UnitsNext]_unitsVars => [unit = "dma" => Transfers!DrawnInOrderStep]_dmaVars
  <2> SUFFICES ASSUME DmaInv, unit = "dma", Transfers!SendList
               PROVE  dmaReceived' = Transfers!InTable
    BY DEF Transfers!DrawnInOrderStep
  <2>1. Transfers!DmaAssumption
    BY HardwareAssumption DEF HardwareAssumption
  <2>2. Entries \in Nat /\ Packets \in Nat /\ GuardBound \in Nat
    BY <2>1 DEF Transfers!DmaAssumption
  <2>3. dmaUsed >= 0 /\ dmaReceived' = Transfers!Walk(Entries - 1)
    BY DEF Transfers!SendList
  <2>4. dmaUsed \in -1 .. Packets /\ Threaded(dmaMemory, dmaLinked, dmaUsed) /\ Transfers!TypeOK
    BY <2>3 DEF DmaInv
  <2>5. LinksStay
    BY <2>4 DEF Transfers!TypeOK, LinksStay, Header
  <2>6. dmaUsed \in Nat /\ Entries + dmaUsed <= GuardBound + 1
    BY <2>2, <2>3, <2>4 DEF ListsAreShort
  <2>7. Transfers!Walk(Entries - 1) = Transfers!InTable
    BY <2>1, <2>4, <2>5, <2>6, ListArrives
  <2> QED
    BY <2>3, <2>7
<1> QED
  BY <1>1, <1>2, <1>3, PTL DEF UnitsSpec, unitsVars, DrawnInOrder
-----------------------------------------------------------------------------
(* Arithmetic of lines and cycles. *)

(* Division undoes a product.                                              *)
LEMMA DivMod ==
  ASSUME NEW k \in Nat \ {0}, NEW q \in Nat, NEW r \in 0 .. k - 1
  PROVE  (q * k + r) \div k = q /\ (q * k + r) % k = r
<1>1. (q * k + r) \div k = q
  OBVIOUS
<1>2. (q * k + r) % k = r
  OBVIOUS
<1> QED
  BY <1>1, <1>2

(* A share of a number is no more than the number.                         *)
LEMMA Share ==
  ASSUME NEW k \in Nat \ {0}, NEW c \in Nat \ {0}, NEW a \in 0 .. k
  PROVE  (a * c) \div k \in 0 .. c
OBVIOUS
-----------------------------------------------------------------------------
(* Scanout. *)

(* A field is never without rows, nor a row without pixels. *)
LEMMA ScanoutSizes ==
  ASSUME Screen!ScanoutAssumption, Screen!TypeOK
  PROVE  Screen!Height \in Nat \ {0} /\ Screen!Stride \in Nat \ {0}
<1>1. scanoutRegs.v[1] \in Nat /\ scanoutRegs.v[2] \in Nat /\ scanoutRegs.width \in Nat \ {0}
  BY DEF Screen!ScanoutAssumption, Screen!TypeOK, Screen!Registers
<1>2. Screen!Height \in Nat \ {0}
  BY <1>1 DEF Screen!ScanoutAssumption, Screen!Height, Screen!Monus, Screen!Lesser,
     Screen!Vres480
<1>3. (3 * scanoutRegs.width + 1) \div 2 \in Nat \ {0}
  BY <1>1
<1> QED
  BY <1>1, <1>2, <1>3 DEF Screen!Stride

(* The timing is sane for every display range (mod.rs:330-362, 505-517).   *)
LEMMA TimingIsSane ==
  ASSUME Screen!ScanoutAssumption, Screen!TypeOK
  PROVE  Screen!TimingSane
<1>1. /\ scanoutRegs.v[1] \in Nat /\ scanoutRegs.v[2] \in Nat
      /\ scanoutRegs.h[1] \in Nat /\ scanoutRegs.h[2] \in Nat
  BY DEF Screen!ScanoutAssumption, Screen!TypeOK, Screen!Registers
<1>2. Screen!VisibleLines \in 1 .. Lines
  BY <1>1 DEF Screen!ScanoutAssumption, Screen!VisibleLines, Screen!Monus
<1>3. Screen!HBlank \in 0 .. LineCycles
  <2> DEFINE active == Screen!Monus(scanoutRegs.h[2], scanoutRegs.h[1])
  <2>1. active \in Nat
    BY <1>1 DEF Screen!Monus
  <2>2. CASE active = 0 \/ active > LineClocks
    BY <2>2 DEF Screen!ScanoutAssumption, Screen!HBlank
  <2>3. CASE ~(active = 0 \/ active > LineClocks)
    <3>1. LineClocks - active \in 0 .. LineClocks /\ LineClocks \in Nat \ {0}
          /\ LineCycles \in Nat \ {0}
      BY <2>1, <2>3 DEF Screen!ScanoutAssumption
    <3>2. ((LineClocks - active) * LineCycles) \div LineClocks \in 0 .. LineCycles
      BY <3>1, Share
    <3> QED
      BY <2>3, <3>2 DEF Screen!HBlank
  <2> QED
    BY <2>2, <2>3
<1>4. ASSUME NEW line \in 0 .. Lines - 1
      PROVE  Screen!OddLine(line * LineCycles) <=>
               /\ line >= Lines - Screen!VisibleLines
               /\ IF Screen!Vres480 THEN scanoutOdd
                  ELSE (line - (Lines - Screen!VisibleLines)) % 2 = 1
  <2> DEFINE dark == Lines - Screen!VisibleLines
  <2>1. /\ LineCycles \in Nat \ {0} /\ Lines \in Nat \ {0} /\ dark \in Nat /\ line \in Nat
        /\ line < Lines
    BY <1>2 DEF Screen!ScanoutAssumption
  <2> HIDE DEF dark
  <2>2. (line * LineCycles) % (LineCycles * Lines) = line * LineCycles
    <3>1. line * LineCycles \in Nat /\ line * LineCycles < Lines * LineCycles
      <4>1. Lines \in Nat
        BY <2>1
      <4> QED
        BY <2>1, <4>1
    <3>2. Lines * LineCycles = LineCycles * Lines /\ LineCycles * Lines \in Nat
      BY <2>1
    <3> QED
      BY <3>1, <3>2
  <2>3. line * LineCycles >= dark * LineCycles <=> line >= dark
    BY <2>1
  <2>4. ASSUME line >= dark
        PROVE  (line * LineCycles - dark * LineCycles) \div LineCycles = line - dark
    <3>1. line * LineCycles - dark * LineCycles = (line - dark) * LineCycles + 0
      <4>1. line * LineCycles - dark * LineCycles = (line - dark) * LineCycles
        BY <2>1, <2>4
      <4>2. (line - dark) * LineCycles \in Nat
        BY <2>1, <2>4
      <4> QED
        BY <4>1, <4>2
    <3>2. line - dark \in Nat
      BY <2>1, <2>4
    <3>3. ((line - dark) * LineCycles + 0) \div LineCycles = line - dark
      BY <2>1, <3>2, DivMod
    <3> QED
      BY <3>1, <3>3
  <2> QED
    BY <2>2, <2>3, <2>4 DEF Screen!OddLine, dark
<1>5. ASSUME NEW line \in 0 .. Lines - 1
      PROVE  Screen!OddLine(line * LineCycles) =
               (/\ line >= Lines - Screen!VisibleLines
                /\ IF Screen!Vres480 THEN scanoutOdd
                   ELSE (line - (Lines - Screen!VisibleLines)) % 2 = 1)
  BY <1>4 DEF Screen!OddLine
<1> QED
  BY <1>2, <1>3, <1>5 DEF Screen!TimingSane

(* What a capture leaves for the next: the rows of the field just taken    *)
(* are new and in place, and in any other picture than an interlaced one   *)
(* of double height every row is.  Woven alone is not inductive: the rows  *)
(* the next field leaves alone must be known to be right before it.        *)
Double(r) == r.double /\ r.interlaced
FieldInPlace ==
  scanoutShown \in Screen!Registers =>
    \A n \in DOMAIN scanoutFrame.rows :
      ~Double(scanoutShown) \/ (n - 1) % 2 = (IF scanoutOdd THEN 1 ELSE 0)
        => scanoutFrame.rows[n] = [at |-> 0, from |-> (scanoutShown.start + n - 1) % Rows]

ScanoutInv == Screen!TypeOK /\ Screen!Woven /\ FieldInPlace

(* A screen that has shown nothing.                                        *)
LEMMA ScanoutStarts ==
  ASSUME Screen!ScanoutAssumption, Screen!Init PROVE ScanoutInv
<1>1. scanoutFrame.rows = <<>> /\ scanoutFrame.width = 0 /\ scanoutFrame.height = 0
  BY DEF Screen!Init, Screen!NoFrame
<1>2. <<>> \in Seq([at : 0 .. 2, from : 0 .. Rows - 1]) /\ Len(<<>>) = 0 /\ DOMAIN <<>> = {}
  OBVIOUS
<1>3. Screen!TypeOK
  BY <1>1, <1>2 DEF Screen!Init, Screen!TypeOK
<1> QED
  BY <1>1, <1>2, <1>3 DEF Screen!Init, ScanoutInv, Screen!Woven, FieldInPlace

(* What a vertical blank captures. *)
LEMMA Capture ==
  ASSUME Screen!ScanoutAssumption, ScanoutInv, Screen!EndField
  PROVE  ScanoutInv'
<1> DEFINE rows == scanoutFrame.rows
           cell(y) == [at |-> 0, from |-> (scanoutRegs.start + y) % Rows]
           Cells == [at : 0 .. 2, from : 0 .. Rows - 1]
<1>1. Screen!Height \in Nat \ {0} /\ Screen!Stride \in Nat \ {0}
  BY ScanoutSizes DEF ScanoutInv
<1>2. scanoutRegs \in Screen!Registers /\ scanoutRegs' = scanoutRegs
      /\ scanoutShown' = scanoutRegs /\ scanoutOdd \in BOOLEAN /\ scanoutOdd' = ~scanoutOdd
      /\ (scanoutSteady' <=> scanoutShown = scanoutRegs)
  BY DEF Screen!EndField, ScanoutInv, Screen!TypeOK
<1>3. rows \in Seq(Cells) /\ Len(rows) \in Nat /\ DOMAIN rows = 1 .. Len(rows)
  BY DEF ScanoutInv, Screen!TypeOK
<1>4. /\ scanoutFrame'.rows = [n \in 1 .. Screen!Height |->
            IF Screen!Captured(n - 1) THEN cell(n - 1) ELSE Screen!Aged(rows[n])]
      /\ scanoutFrame'.height = Screen!Height /\ scanoutFrame'.width = scanoutRegs.width
  BY DEF Screen!EndField, Screen!Row
<1>5. ASSUME NEW n \in 1 .. Screen!Height
      PROVE  /\ cell(n - 1) \in Cells
             /\ Screen!Captured(n - 1) => scanoutFrame'.rows[n] = cell(n - 1)
             /\ ~Screen!Captured(n - 1) =>
                  /\ n \in DOMAIN rows /\ rows[n] \in Cells /\ Double(scanoutRegs)
                  /\ scanoutFrame'.rows[n] =
                       [at |-> IF rows[n].at < 2 THEN rows[n].at + 1 ELSE 2, from |-> rows[n].from]
                  /\ (n - 1) % 2 # (IF scanoutOdd THEN 0 ELSE 1)
  <2>1. cell(n - 1) \in Cells
    <3>1. scanoutRegs.start \in Nat /\ Rows \in Nat \ {0} /\ n - 1 \in Nat
      <4>1. Rows \in Nat \ {0} /\ Starts \subseteq 0 .. Rows - 1
        BY DEF Screen!ScanoutAssumption
      <4>2. scanoutRegs.start \in Starts
        BY <1>2 DEF Screen!Registers
      <4>3. n - 1 \in Nat
        BY <1>1
      <4>4. scanoutRegs.start \in 0 .. Rows - 1
        BY <4>1, <4>2
      <4> HIDE DEF Cells
      <4> QED
        BY <4>1, <4>3, <4>4
    <3>2. (scanoutRegs.start + (n - 1)) % Rows \in 0 .. Rows - 1
      BY <3>1
    <3> QED
      BY <3>2
  <2>2. ASSUME ~Screen!Captured(n - 1)
        PROVE  /\ n \in DOMAIN rows /\ Double(scanoutRegs)
               /\ (n - 1) % 2 # (IF scanoutOdd THEN 0 ELSE 1)
    <3>1. ~Screen!Whole
      BY <2>2 DEF Screen!Captured
    <3>2. Screen!Stride * Len(rows) = Screen!Stride * Screen!Height
      BY <3>1 DEF Screen!Whole
    <3>3. Len(rows) = Screen!Height
      BY <1>1, <1>3, <3>2
    <3> QED
      BY <1>3, <2>2, <3>1, <3>3 DEF Screen!Captured, Screen!Whole, Screen!Vres480,
         Double
  <2>3. ASSUME ~Screen!Captured(n - 1)
        PROVE  rows[n] \in Cells /\ scanoutFrame'.rows[n] =
                 [at |-> IF rows[n].at < 2 THEN rows[n].at + 1 ELSE 2, from |-> rows[n].from]
    <3>1. rows[n] \in Cells
      <4> HIDE DEF Cells
      <4> QED
        BY <1>3, <2>2, <2>3
    <3>2. scanoutFrame'.rows[n] = [rows[n] EXCEPT !.at = Screen!Lesser(2, rows[n].at + 1)]
      BY <1>4, <2>3 DEF Screen!Aged
    <3> QED
      BY <3>1, <3>2 DEF Screen!Lesser
  <2> QED
    BY <1>4, <2>1, <2>2, <2>3
<1>6. scanoutFrame'.rows \in Seq(Cells) /\ Len(scanoutFrame'.rows) = Screen!Height
      /\ DOMAIN scanoutFrame'.rows = 1 .. Screen!Height
  <2>1. \A n \in 1 .. Screen!Height : scanoutFrame'.rows[n] \in Cells
    <3> SUFFICES ASSUME NEW n \in 1 .. Screen!Height PROVE scanoutFrame'.rows[n] \in Cells
      OBVIOUS
    <3>1. CASE Screen!Captured(n - 1)
      BY <1>5, <3>1
    <3>2. CASE ~Screen!Captured(n - 1)
      <4>1. rows[n] \in Cells /\ scanoutFrame'.rows[n] =
              [at |-> IF rows[n].at < 2 THEN rows[n].at + 1 ELSE 2, from |-> rows[n].from]
        BY <1>5, <3>2
      <4> HIDE DEF rows
      <4> QED
        BY <4>1
    <3> QED
      BY <3>1, <3>2
  <2> HIDE DEF Cells
  <2>2. scanoutFrame'.rows \in [1 .. Screen!Height -> Cells]
    BY <1>4, <2>1
  <2> QED
    BY <1>1, <2>2
<1>7. Screen!TypeOK'
  BY <1>2, <1>4, <1>6 DEF Screen!TypeOK, Screen!Registers
<1>8. FieldInPlace'
  <2> SUFFICES ASSUME NEW n \in 1 .. Screen!Height,
                      ~Double(scanoutRegs) \/ (n - 1) % 2 = (IF scanoutOdd' THEN 1 ELSE 0)
               PROVE  scanoutFrame'.rows[n] = [at |-> 0, from |-> (scanoutRegs.start + n - 1) % Rows]
    BY <1>2, <1>6 DEF FieldInPlace
  <2>1. Screen!Captured(n - 1)
    BY <1>2, <1>5
  <2>2. scanoutRegs.start + (n - 1) = scanoutRegs.start + n - 1
    BY <1>1, <1>2 DEF Screen!Registers, Screen!ScanoutAssumption
  <2> QED
    BY <1>5, <2>1, <2>2
<1>9. Screen!Woven'
  <2> SUFFICES ASSUME scanoutShown = scanoutRegs, NEW n \in 1 .. Screen!Height
               PROVE  /\ scanoutFrame'.rows[n].from = (scanoutRegs.start + n - 1) % Rows
                      /\ scanoutFrame'.rows[n].at <= (IF Double(scanoutRegs) THEN 1 ELSE 0)
    BY <1>2, <1>4, <1>6 DEF Screen!Woven, Double
  <2>1. scanoutRegs.start + (n - 1) = scanoutRegs.start + n - 1
    BY <1>1, <1>2 DEF Screen!Registers, Screen!ScanoutAssumption
  <2>2. CASE Screen!Captured(n - 1)
    <3>1. scanoutFrame'.rows[n] = cell(n - 1)
      BY <1>5, <2>2
    <3> QED
      BY <2>1, <3>1
  <2>3. CASE ~Screen!Captured(n - 1)
    <3>1. (n - 1) % 2 = (IF scanoutOdd THEN 1 ELSE 0)
      <4>1. n - 1 \in Nat /\ (n - 1) % 2 \in {0, 1}
        BY <1>1
      <4>2. (n - 1) % 2 # (IF scanoutOdd THEN 0 ELSE 1)
        BY <1>5, <2>3
      <4> QED
        BY <1>2, <4>1, <4>2
    <3>2. rows[n] = [at |-> 0, from |-> (scanoutRegs.start + n - 1) % Rows]
      BY <1>2, <1>5, <2>3, <3>1 DEF ScanoutInv, FieldInPlace
    <3>3. scanoutFrame'.rows[n] =
            [at |-> IF rows[n].at < 2 THEN rows[n].at + 1 ELSE 2, from |-> rows[n].from]
          /\ Double(scanoutRegs)
      BY <1>5, <2>3
    <3> HIDE DEF rows
    <3> QED
      BY <3>2, <3>3
  <2> QED
    BY <2>2, <2>3
<1> QED
  BY <1>7, <1>8, <1>9 DEF ScanoutInv

(* Every register write and vertical blank keeps the fields in place.      *)
LEMMA ScanoutStep ==
  ASSUME Screen!ScanoutAssumption, ScanoutInv, Screen!Next \/ UNCHANGED Screen!vars
  PROVE  ScanoutInv'
<1>1. CASE Screen!EndField
  BY <1>1, Capture
<1>2. CASE Screen!SetDisplay
  <2>1. scanoutRegs' \in Screen!Registers
    BY <1>2 DEF Screen!SetDisplay, ScanoutInv, Screen!TypeOK, Screen!Registers
  <2> QED
    BY <1>2, <2>1 DEF Screen!SetDisplay, ScanoutInv, Screen!TypeOK, Screen!Woven,
       FieldInPlace
<1>3. CASE Screen!ResetDisplay
  <2>1. scanoutFrame'.rows = <<>> /\ scanoutFrame'.width = 0 /\ scanoutFrame'.height = 0
    BY <1>3 DEF Screen!ResetDisplay, Screen!NoFrame
  <2>2. <<>> \in Seq([at : 0 .. 2, from : 0 .. Rows - 1]) /\ Len(<<>>) = 0 /\ DOMAIN <<>> = {}
    OBVIOUS
  <2>3. Screen!TypeOK'
    BY <1>3, <2>1, <2>2 DEF Screen!ResetDisplay, Screen!TypeOK
  <2> QED
    BY <1>3, <2>1, <2>2, <2>3 DEF Screen!ResetDisplay, ScanoutInv, Screen!Woven,
       FieldInPlace
<1>4. CASE UNCHANGED Screen!vars
  BY <1>4 DEF Screen!vars, ScanoutInv, Screen!TypeOK, Screen!Woven, FieldInPlace
<1> QED
  BY <1>1, <1>2, <1>3, <1>4 DEF Screen!Next

(* The frame shown is woven from the fields the game displayed, row by row *)
(* (mod.rs:408-470), and video timing stays sane.                          *)
THEOREM FramesAreWoven == UnitsSpec => []FramesWoven
<1> DEFINE Inv == unit = "scanout" => ScanoutInv
<1>1. UnitsInit => Inv
  BY ScanoutStarts, HardwareAssumption DEF UnitsInit, HardwareAssumption
<1>2. Inv /\ [UnitsNext]_unitsVars => Inv'
  <2> SUFFICES ASSUME Inv, [UnitsNext]_unitsVars, unit' = "scanout" PROVE ScanoutInv'
    OBVIOUS
  <2>1. unit = "scanout"
    BY DEF UnitsNext, unitsVars
  <2>2. Screen!Next \/ UNCHANGED Screen!vars
    BY <2>1 DEF UnitsNext, unitsVars, scanoutVars, Screen!vars
  <2> QED
    BY <2>1, <2>2, ScanoutStep, HardwareAssumption DEF HardwareAssumption
<1>3. Inv => FramesWoven
  BY TimingIsSane, HardwareAssumption DEF FramesWoven, ScanoutInv, HardwareAssumption
<1> QED
  BY <1>1, <1>2, <1>3, PTL DEF UnitsSpec, unitsVars
-----------------------------------------------------------------------------
(* Gp0. *)

(* The parser's table of lengths is the hardware's description of the      *)
(* commands.                                                               *)
LEMMA Lengths ==
  ASSUME NEW op \in 0 .. 255
  PROVE  Fifo!CommandLength(op) = Fifo!HeadLength(op) /\ Fifo!HeadLength(op) \in 1 .. 12
<1>1. CASE op \in 32 .. 63
  BY <1>1 DEF Fifo!CommandLength, Fifo!HeadLength, Fifo!Bit, Fifo!One, Fifo!Vertices,
     Fifo!IsPolygon, Fifo!IsLine, Fifo!IsRect
<1>2. CASE op \in 64 .. 95
  BY <1>2 DEF Fifo!CommandLength, Fifo!HeadLength, Fifo!Bit, Fifo!One, Fifo!IsPolygon,
     Fifo!IsLine, Fifo!IsRect
<1>3. CASE op \in 96 .. 127
  BY <1>3 DEF Fifo!CommandLength, Fifo!HeadLength, Fifo!Bit, Fifo!One, Fifo!IsPolygon,
     Fifo!IsLine, Fifo!IsRect
<1>4. CASE op \notin 32 .. 127
  BY <1>4 DEF Fifo!CommandLength, Fifo!HeadLength, Fifo!IsPolygon, Fifo!IsLine,
     Fifo!IsRect
<1> QED
  BY <1>1, <1>2, <1>3, <1>4

(* What the program is sending: nothing, or a command it may send.         *)
Asked(s) ==
  /\ {"op", "sent", "size"} \subseteq DOMAIN s
  /\ s.op \in Opcodes /\ s.size \in Fifo!Sizes(s.op) /\ s.sent \in Nat
Command(s) == Asked(s) /\ s.sent <= Fifo!FullLength(s)

(* Where the parser is to be: at a command's first word, in the middle of  *)
(* its head, between two segments of a polyline, in the middle of an       *)
(* image's pixels.                                                         *)
Gouraud(s) == Fifo!Bit(s.op, 16)
Past(s) == s.sent - Fifo!HeadLength(s.op)
Cell(s, i) == [n |-> i, size |-> IF i = 3 THEN s.size ELSE 0]
VertexAt(s, j) == IF Gouraud(s) THEN 2 * j ELSE j + 1
ColorAt(s, j) == IF Gouraud(s) THEN 2 * j - 1 ELSE 1
Drawn(s) == IF Gouraud(s) THEN Past(s) \div 2 ELSE Past(s)

AtRest(g) == g.fifo = <<>> /\ g.load = Fifo!NoLoad /\ g.poly = Fifo!NoPoly
AtHead(g, s) ==
  /\ g.load = Fifo!NoLoad /\ g.poly = Fifo!NoPoly
  /\ g.fifo = [i \in 1 .. s.sent |-> Cell(s, i)] /\ g.op = s.op /\ g.needed = Fifo!HeadLength(s.op)
AtPoly(g, s) ==
  /\ g.load = Fifo!NoLoad
  /\ g.fifo = IF Gouraud(s) /\ Past(s) % 2 = 1 THEN <<Cell(s, s.sent)>> ELSE <<>>
  /\ {"on", "gouraud", "color", "vertex"} \subseteq DOMAIN g.poly
  /\ g.poly.on = TRUE /\ g.poly.gouraud = Gouraud(s)
  /\ g.poly.color = ColorAt(s, Drawn(s) + 2) /\ g.poly.vertex = VertexAt(s, Drawn(s) + 2)
AtPixels(g, s) ==
  /\ g.fifo = <<>> /\ g.poly = Fifo!NoPoly
  /\ {"cur", "total"} \subseteq DOMAIN g.load
  /\ g.load.cur = 2 * Past(s) /\ g.load.total = s.size
Parsing(g, s) ==
  IF s.sent \in {0, Fifo!FullLength(s)} THEN AtRest(g)
  ELSE IF Past(s) < 0 THEN AtHead(g, s)
  ELSE IF Fifo!IsPolyline(s.op) THEN AtPoly(g, s) ELSE AtPixels(g, s)

Registered(g) == {"fifo", "op", "needed", "load", "poly"} \subseteq DOMAIN g /\ g.needed \in 0 .. 12
Answers == Seq({"pixels", "info"} \X Nat)

Gp0Inv ==
  /\ Registered(gp0Gpu) /\ gp0Reads = gp0Owed /\ gp0Reads \in Answers
  /\ \/ gp0Sending.op = 0 /\ AtRest(gp0Gpu) /\ gp0Did = <<>>
     \/ /\ Command(gp0Sending) /\ gp0Sending.sent # 0
        /\ Parsing(gp0Gpu, gp0Sending) /\ gp0Did = Fifo!Meant(gp0Sending)

(* A command is never shorter than its head, and only a polyline and an    *)
(* image are longer.                                                       *)
LEMMA FullLengths ==
  ASSUME Fifo!Gp0Assumption, NEW s, Asked(s)
  PROVE  /\ s.op \in 1 .. 255 /\ s.size \in Nat /\ s.sent \in Nat
         /\ Fifo!HeadLength(s.op) \in 1 .. 12 /\ Fifo!CommandLength(s.op) = Fifo!HeadLength(s.op)
         /\ Fifo!FullLength(s) \in Nat \ {0} /\ Past(s) \in Int
         /\ Fifo!IsLine(s.op) => s.op \in 64 .. 95 /\ Fifo!HeadLength(s.op) = (IF Gouraud(s) THEN 4 ELSE 3)
         /\ Fifo!IsPolyline(s.op) => /\ Fifo!FullLength(s) = Fifo!HeadLength(s.op) + s.size * Fifo!PerSegment(s.op) + 1
                                /\ Fifo!IsLine(s.op) /\ Fifo!Bit(s.op, 8)
                                /\ Fifo!PerSegment(s.op) = (IF Gouraud(s) THEN 2 ELSE 1)
         /\ s.op \in 160 .. 191 => /\ Fifo!FullLength(s) = 3 + (s.size + 1) \div 2 /\ s.size \in Nat \ {0}
                                   /\ Fifo!HeadLength(s.op) = 3
         /\ ~Fifo!IsPolyline(s.op) /\ s.op \notin 160 .. 191 => Fifo!FullLength(s) = Fifo!HeadLength(s.op)
<1>1. s.op \in 1 .. 255 /\ s.size \in Nat
  <2>1. s.op \in 1 .. 255 /\ s.size \in Fifo!Sizes(s.op)
    BY DEF Asked, Fifo!Gp0Assumption
  <2>2. s.size \in ImageSizes \/ s.size \in 0 .. Segments \/ s.size = 0
    <3>1. CASE s.op \in 160 .. 223
      BY <2>1, <3>1 DEF Fifo!Sizes
    <3>2. CASE s.op \notin 160 .. 223 /\ Fifo!IsPolyline(s.op)
      BY <2>1, <3>2 DEF Fifo!Sizes
    <3>3. CASE s.op \notin 160 .. 223 /\ ~Fifo!IsPolyline(s.op)
      BY <2>1, <3>3 DEF Fifo!Sizes
    <3> QED
      BY <3>1, <3>2, <3>3
  <2>3. ImageSizes \subseteq Nat /\ Segments \in Nat
    BY DEF Fifo!Gp0Assumption
  <2>4. CASE s.size \in ImageSizes
    BY <2>1, <2>3, <2>4
  <2>5. CASE s.size \in 0 .. Segments
    BY <2>1, <2>3, <2>5
  <2> QED
    BY <2>1, <2>2, <2>4, <2>5
<1>2. Fifo!HeadLength(s.op) \in 1 .. 12 /\ Fifo!CommandLength(s.op) = Fifo!HeadLength(s.op)
  BY <1>1, Lengths
<1>3. /\ Fifo!IsPolyline(s.op) => Fifo!IsLine(s.op) /\ Fifo!Bit(s.op, 8)
      /\ Fifo!IsLine(s.op) => s.op \in 64 .. 95
  BY DEF Fifo!IsPolyline, Fifo!IsLine
<1>4. Fifo!PerSegment(s.op) = (IF Gouraud(s) THEN 2 ELSE 1)
  BY DEF Fifo!PerSegment, Gouraud, Fifo!One
<1>5. s.op \in 64 .. 95 => Fifo!HeadLength(s.op) = (IF Gouraud(s) THEN 4 ELSE 3)
  BY <1>1 DEF Fifo!HeadLength, Fifo!IsPolygon, Fifo!IsLine, Fifo!IsRect, Gouraud,
     Fifo!Bit, Fifo!One
<1>6. s.op \in 160 .. 191 => Fifo!HeadLength(s.op) = 3 /\ s.size \in Nat \ {0}
  BY DEF Fifo!HeadLength, Fifo!IsPolygon, Fifo!IsLine, Fifo!IsRect, Asked, Fifo!Sizes,
     Fifo!Gp0Assumption
<1>7. (s.size + 1) \div 2 \in Nat /\ s.size * 1 \in Nat /\ s.size * 2 \in Nat
  BY <1>1
<1>8. /\ Fifo!IsPolyline(s.op) => Fifo!FullLength(s) = Fifo!HeadLength(s.op) + s.size * Fifo!PerSegment(s.op) + 1
      /\ s.op \in 160 .. 191 => Fifo!FullLength(s) = 3 + (s.size + 1) \div 2
      /\ ~Fifo!IsPolyline(s.op) /\ s.op \notin 160 .. 191 => Fifo!FullLength(s) = Fifo!HeadLength(s.op)
  BY <1>3 DEF Fifo!FullLength
<1>9. Fifo!FullLength(s) \in Nat \ {0}
  BY <1>2, <1>4, <1>7, <1>8
<1>10. s.sent \in Nat /\ Past(s) \in Int
  BY <1>2, <1>9 DEF Asked, Past
<1> QED
  BY <1>1, <1>2, <1>3, <1>4, <1>5, <1>6, <1>8, <1>9, <1>10

(* What the hardware's description says of a command's first words.        *)
Word(s, w) ==
  /\ w.n = s.sent + 1 /\ w.size = (IF w.n = 3 THEN s.size ELSE 0)
  /\ w.n = 1 => w.top = s.op
  /\ Fifo!IsPolyline(s.op) /\ w.n > Fifo!HeadLength(s.op) => (w.term <=> w.n = Fifo!FullLength(s))

(* The words the program may send next.                                    *)
LEMMA WordsAre ==
  ASSUME NEW s, NEW w \in Fifo!Words(s) PROVE Word(s, w)
BY DEF Fifo!Words, Word

(* The command one word on. *)
Sent(s) == [s EXCEPT !.sent = @ + 1]
(* Sending a word leaves the command what it is.                           *)
LEMMA OneWordOn ==
  ASSUME Fifo!Gp0Assumption, NEW s, Command(s), s.sent < Fifo!FullLength(s)
  PROVE  /\ Sent(s).op = s.op /\ Sent(s).size = s.size /\ Sent(s).sent = s.sent + 1
         /\ Command(Sent(s)) /\ Fifo!FullLength(Sent(s)) = Fifo!FullLength(s)
         /\ Past(Sent(s)) = Past(s) + 1 /\ Gouraud(Sent(s)) = Gouraud(s)
         /\ \A i : Cell(Sent(s), i) = Cell(s, i)
<1>1. s.sent \in Nat /\ Fifo!FullLength(s) \in Nat /\ Fifo!HeadLength(s.op) \in Nat
  BY FullLengths DEF Command
<1>2. /\ Sent(s).op = s.op /\ Sent(s).size = s.size /\ Sent(s).sent = s.sent + 1
      /\ {"op", "sent", "size"} \subseteq DOMAIN Sent(s)
  BY DEF Sent, Command, Asked
<1>3. Fifo!FullLength(Sent(s)) = Fifo!FullLength(s)
  BY <1>2 DEF Fifo!FullLength
<1>4. Past(Sent(s)) = Past(s) + 1 /\ Gouraud(Sent(s)) = Gouraud(s)
  BY <1>1, <1>2 DEF Past, Gouraud
<1>5. \A i : Cell(Sent(s), i) = Cell(s, i)
  BY <1>2 DEF Cell
<1>6. Command(Sent(s))
  BY <1>1, <1>2, <1>3 DEF Command, Asked
<1> QED
  BY <1>2, <1>3, <1>4, <1>5, <1>6

(* A word of a command's head: kept, or the last one, which carries it     *)
(* out.                                                                    *)
First(s, k) == [i \in 1 .. k |-> Cell(s, i)]
(* What a word of a command's head does,                                   *)
LEMMA HeadWord ==
  ASSUME Fifo!Gp0Assumption, NEW s, Command(s), NEW w, Word(s, w), NEW g, Registered(g), Parsing(g, s),
         s.sent < Fifo!HeadLength(s.op)
  PROVE  /\ g.load = Fifo!NoLoad /\ g.poly = Fifo!NoPoly
         /\ s.sent + 1 < Fifo!HeadLength(s.op) =>
              Fifo!Gp0(g, w) = Fifo!Nothing([g EXCEPT !.fifo = First(s, s.sent + 1), !.op = s.op,
                                            !.needed = Fifo!HeadLength(s.op)])
         /\ s.sent + 1 = Fifo!HeadLength(s.op) =>
              Fifo!Gp0(g, w) = Fifo!ExecuteCommand([g EXCEPT !.fifo = <<>>, !.op = 0, !.needed = 0],
                                         s.op, First(s, s.sent + 1))
<1> DEFINE cells == First(s, s.sent)
<1>1. /\ s.op \in 1 .. 255 /\ s.sent \in Nat /\ Fifo!HeadLength(s.op) \in 1 .. 12
      /\ Fifo!CommandLength(s.op) = Fifo!HeadLength(s.op) /\ Fifo!HeadLength(s.op) <= Fifo!FullLength(s)
      /\ Fifo!FullLength(s) \in Nat
  BY FullLengths DEF Command
<1>2. /\ g.fifo = cells /\ g.load = Fifo!NoLoad /\ g.poly = Fifo!NoPoly
      /\ s.sent # 0 => g.op = s.op /\ g.needed = Fifo!HeadLength(s.op)
  <2>1. CASE s.sent = 0
    <3>1. cells = <<>>
      BY <2>1 DEF First
    <3> QED
      BY <2>1, <3>1 DEF Parsing, AtRest
  <2>2. CASE s.sent # 0
    BY <1>1, <2>2 DEF Parsing, AtHead, Past, First
  <2> QED
    BY <2>1, <2>2
<1>3. Append(cells, Fifo!Kept(w)) = First(s, s.sent + 1)
  <2>1. Fifo!Kept(w) = Cell(s, s.sent + 1)
    BY DEF Fifo!Kept, Cell, Word
  <2> QED
    BY <1>1, <2>1 DEF First
<1>4. (cells = <<>> <=> s.sent = 0) /\ Len(First(s, s.sent + 1)) = s.sent + 1
  BY <1>1 DEF First
<1> HIDE DEF cells
<1>5. g.load = Fifo!NoLoad /\ g.poly.on = FALSE /\ Append(g.fifo, Fifo!Kept(w)) = First(s, s.sent + 1)
  BY <1>2, <1>3 DEF Fifo!NoPoly
<1> DEFINE op == IF g.fifo = <<>> THEN w.top ELSE g.op
           needed == IF g.fifo = <<>> THEN Fifo!CommandLength(op) ELSE g.needed
           words == Append(g.fifo, Fifo!Kept(w))
<1>6. Fifo!Gp0(g, w) = IF Len(words) < needed
                  THEN Fifo!Nothing([g EXCEPT !.fifo = words, !.op = op, !.needed = needed])
                  ELSE Fifo!ExecuteCommand([g EXCEPT !.fifo = <<>>, !.op = 0, !.needed = 0], op, words)
  BY <1>5 DEF Fifo!Gp0
<1>7. op = s.op /\ needed = Fifo!HeadLength(s.op)
  <2>1. CASE s.sent = 0
    BY <1>1, <1>2, <1>4, <2>1 DEF Word
  <2>2. CASE s.sent # 0
    BY <1>2, <1>4, <2>2
  <2> QED
    BY <2>1, <2>2
<1>8. words = First(s, s.sent + 1) /\ Len(words) = s.sent + 1
  BY <1>4, <1>5
<1> HIDE DEF op, needed, words
<1> QED
  BY <1>1, <1>2, <1>6, <1>7, <1>8

(* when others are to follow.                                              *)
LEMMA HeadKept ==
  ASSUME Fifo!Gp0Assumption, NEW s, Command(s), NEW w, Word(s, w), NEW g, Registered(g), Parsing(g, s),
         s.sent + 1 < Fifo!HeadLength(s.op)
  PROVE  /\ Registered(Fifo!Gp0(g, w).g) /\ Parsing(Fifo!Gp0(g, w).g, Sent(s))
         /\ Fifo!Gp0(g, w).did = <<>> /\ Fifo!Gp0(g, w).reads = <<>>
<1> DEFINE h == [g EXCEPT !.fifo = First(s, s.sent + 1), !.op = s.op, !.needed = Fifo!HeadLength(s.op)]
<1>1. /\ s.sent \in Nat /\ Fifo!HeadLength(s.op) \in 1 .. 12 /\ Fifo!HeadLength(s.op) <= Fifo!FullLength(s)
      /\ Fifo!FullLength(s) \in Nat
  BY FullLengths DEF Command
<1>2. Fifo!Gp0(g, w) = Fifo!Nothing(h) /\ g.load = Fifo!NoLoad /\ g.poly = Fifo!NoPoly
  <2>1. s.sent < Fifo!HeadLength(s.op)
    BY <1>1
  <2> QED
    BY <2>1, HeadWord, Zenon
<1>3. /\ h.fifo = First(s, s.sent + 1) /\ h.op = s.op /\ h.needed = Fifo!HeadLength(s.op)
      /\ h.load = Fifo!NoLoad /\ h.poly = Fifo!NoPoly /\ Registered(h)
  BY <1>1, <1>2 DEF Registered
<1>4. First(s, s.sent + 1) = [i \in 1 .. Sent(s).sent |-> Cell(Sent(s), i)]
  BY <1>1, OneWordOn DEF First
<1> HIDE DEF h
<1>5. AtHead(h, Sent(s))
  BY <1>1, <1>3, <1>4, OneWordOn DEF AtHead
<1>6. Sent(s).sent \notin {0, Fifo!FullLength(Sent(s))} /\ Past(Sent(s)) < 0
  BY <1>1, OneWordOn DEF Past
<1> QED
  BY <1>2, <1>3, <1>5, <1>6 DEF Fifo!Nothing, Parsing

(* What a command is to have done, by the kind of command. *)
Pixel(k) == <<"pixels", 2 * k - 2, 3 + k>>
(* What the words sent amount to: nothing before the head is whole,        *)
LEMMA MeantNothing ==
  ASSUME Fifo!Gp0Assumption, NEW s, Command(s), Past(s) < 0 PROVE Fifo!Meant(s) = <<>>
BY DEF Fifo!Meant, Past

(* the segments of a polyline so far,                                      *)
LEMMA MeantLines ==
  ASSUME Fifo!Gp0Assumption, NEW s, Command(s), Past(s) >= 0, Fifo!IsPolyline(s.op)
  PROVE  Fifo!Meant(s) = [k \in 1 .. 1 + (IF s.sent = Fifo!FullLength(s) THEN s.size ELSE Drawn(s))
                       |-> Fifo!Segment(s.op, k)]
<1>1. s.op # 0 /\ ~(Past(s) < 0)
  BY FullLengths DEF Command
<1>2. Drawn(s) = Past(s) \div Fifo!PerSegment(s.op)
  BY FullLengths DEF Drawn, Command
<1>3. Fifo!Meant(s) = [k \in 1 .. 1 + (IF s.sent = Fifo!FullLength(s) THEN s.size
                                  ELSE Past(s) \div Fifo!PerSegment(s.op)) |-> Fifo!Segment(s.op, k)]
  BY <1>1 DEF Fifo!Meant, Past
<1> QED
  BY <1>2, <1>3

(* a line,                                                                 *)
LEMMA MeantLine ==
  ASSUME Fifo!Gp0Assumption, NEW s, Command(s), Past(s) >= 0, Fifo!IsLine(s.op), ~Fifo!IsPolyline(s.op)
  PROVE  Fifo!Meant(s) = <<Fifo!Segment(s.op, 1)>>
<1>1. s.op # 0 /\ ~(Past(s) < 0)
  BY FullLengths DEF Command
<1> QED
  BY <1>1 DEF Fifo!Meant, Past

(* an image's pixels so far,                                               *)
LEMMA MeantPixels ==
  ASSUME Fifo!Gp0Assumption, NEW s, Command(s), Past(s) >= 0, s.op \in 160 .. 191
  PROVE  Fifo!Meant(s) = <<Fifo!Whole(s.op)>> \o [k \in 1 .. Past(s) |-> Pixel(k)]
<1>1. s.op # 0 /\ ~(Past(s) < 0)
  BY FullLengths DEF Command
<1>2. ~Fifo!IsLine(s.op) /\ ~Fifo!IsPolyline(s.op)
  BY DEF Fifo!IsPolyline, Fifo!IsLine
<1> QED
  BY <1>1, <1>2 DEF Fifo!Meant, Past, Pixel

(* and else the command.                                                   *)
LEMMA MeantWhole ==
  ASSUME Fifo!Gp0Assumption, NEW s, Command(s), Past(s) >= 0, ~Fifo!IsLine(s.op), s.op \notin 160 .. 191
  PROVE  Fifo!Meant(s) = <<Fifo!Whole(s.op)>>
<1>1. s.op # 0 /\ ~(Past(s) < 0) /\ ~Fifo!IsPolyline(s.op)
  BY FullLengths DEF Command
<1> QED
  BY <1>1 DEF Fifo!Meant, Past

(* The last word of a head carries the command out. *)
Answer(s) == [i \in 1 .. (s.size + 1) \div 2 |-> <<"pixels", 2 * i - 2>>]

(* A line draws its first segment and may go on.                           *)
LEMMA LineExecuted ==
  ASSUME NEW g, NEW op, Fifo!IsLine(op), NEW cmd
  PROVE  /\ Fifo!ExecuteCommand(g, op, cmd).g = [g EXCEPT !.poly = Fifo!StartPoly(op, cmd)]
         /\ Fifo!ExecuteCommand(g, op, cmd).did = <<Fifo!FirstLine(op, cmd)>>
         /\ Fifo!ExecuteCommand(g, op, cmd).reads = <<>>
<1>1. Fifo!IsLine(op) /\ op \notin 160 .. 191 /\ op \notin 192 .. 223
  BY DEF Fifo!IsLine
<1>2. Fifo!ExecuteCommand(g, op, cmd).g = [g EXCEPT !.poly = Fifo!StartPoly(op, cmd)]
  BY <1>1 DEF Fifo!ExecuteCommand
<1>3. Fifo!ExecuteCommand(g, op, cmd).did = <<Fifo!FirstLine(op, cmd)>>
  BY <1>1 DEF Fifo!ExecuteCommand
<1>4. Fifo!ExecuteCommand(g, op, cmd).reads = <<>>
  BY <1>1 DEF Fifo!ExecuteCommand
<1> QED
  BY <1>2, <1>3, <1>4

(* The last word of a head carries the command out.                        *)
LEMMA HeadEnds ==
  ASSUME Fifo!Gp0Assumption, NEW s, Command(s), NEW w, Word(s, w), NEW g, Registered(g), Parsing(g, s),
         s.sent + 1 = Fifo!HeadLength(s.op)
  PROVE  /\ Registered(Fifo!Gp0(g, w).g) /\ Parsing(Fifo!Gp0(g, w).g, Sent(s))
         /\ Fifo!Gp0(g, w).did = Fifo!Meant(Sent(s))
         /\ Fifo!Gp0(g, w).reads = IF s.op \in 192 .. 223 THEN Answer(s) ELSE <<>>
<1> DEFINE cmd == First(s, Fifo!HeadLength(s.op))
           h == [g EXCEPT !.fifo = <<>>, !.op = 0, !.needed = 0]
           t == Sent(s)
<1>1. /\ s.op \in 1 .. 255 /\ s.sent \in Nat /\ Fifo!HeadLength(s.op) \in 1 .. 12
      /\ Fifo!HeadLength(s.op) <= Fifo!FullLength(s) /\ Fifo!FullLength(s) \in Nat /\ s.size \in Nat
  BY FullLengths DEF Command
<1>2. Fifo!Gp0(g, w) = Fifo!ExecuteCommand(h, s.op, cmd) /\ g.load = Fifo!NoLoad /\ g.poly = Fifo!NoPoly
  <2>1. s.sent < Fifo!HeadLength(s.op)
    BY <1>1
  <2>2. cmd = First(s, s.sent + 1)
    OBVIOUS
  <2> QED
    BY <2>1, <2>2, HeadWord, Zenon
<1>3. /\ h.fifo = <<>> /\ h.load = Fifo!NoLoad /\ h.poly = Fifo!NoPoly
      /\ Registered(h) /\ h.needed = 0
  BY <1>1, <1>2 DEF Registered
<1>4. /\ \A i \in 1 .. Fifo!HeadLength(s.op) : cmd[i].n = i
      /\ Fifo!HeadLength(s.op) >= 3 => cmd[3].size = s.size
      /\ Len(cmd) = Fifo!HeadLength(s.op) /\ DOMAIN cmd = 1 .. Fifo!HeadLength(s.op)
  BY <1>1 DEF First, Cell
<1>5. Fifo!Draw(s.op, cmd) = Fifo!Whole(s.op)
  BY <1>4 DEF Fifo!Draw, Fifo!Whole
<1>6. /\ t.op = s.op /\ t.size = s.size /\ t.sent = Fifo!HeadLength(s.op) /\ Past(t) = 0
      /\ Command(t) /\ Fifo!FullLength(t) = Fifo!FullLength(s) /\ Gouraud(t) = Gouraud(s)
  <2>1. s.sent < Fifo!FullLength(s)
    BY <1>1
  <2>2. Past(s) + 1 = 0
    BY <1>1 DEF Past
  <2> QED
    BY <2>1, <2>2, OneWordOn
<1> HIDE DEF cmd, h, t
<1>7. CASE Fifo!IsPolyline(s.op)
  <2>1. /\ s.op \in 64 .. 95 /\ Fifo!IsLine(s.op) /\ Fifo!Bit(s.op, 8) /\ t.sent # Fifo!FullLength(t) /\ t.sent # 0
        /\ Fifo!HeadLength(s.op) = (IF Gouraud(s) THEN 4 ELSE 3)
    BY <1>1, <1>6, <1>7, FullLengths DEF Command
  <2>8. s.op \notin 192 .. 223
    BY <2>1
  <2>2. /\ Fifo!Gp0(g, w).g = [h EXCEPT !.poly = Fifo!StartPoly(s.op, cmd)]
        /\ Fifo!Gp0(g, w).did = <<Fifo!FirstLine(s.op, cmd)>> /\ Fifo!Gp0(g, w).reads = <<>>
    <3>1. Fifo!IsLine(s.op)
      BY <2>1
    <3>2. /\ Fifo!ExecuteCommand(h, s.op, cmd).g = [h EXCEPT !.poly = Fifo!StartPoly(s.op, cmd)]
          /\ Fifo!ExecuteCommand(h, s.op, cmd).did = <<Fifo!FirstLine(s.op, cmd)>>
          /\ Fifo!ExecuteCommand(h, s.op, cmd).reads = <<>>
      BY ONLY <3>1, LineExecuted
    <3> QED
      BY <1>2, <3>2
  <2>3. Drawn(t) = 0
    BY <1>6 DEF Drawn
  <2>4. Fifo!StartPoly(s.op, cmd) = [on |-> TRUE, gouraud |-> Gouraud(t), color |-> ColorAt(t, Drawn(t) + 2),
                                vertex |-> VertexAt(t, Drawn(t) + 2)]
    <3>1. cmd[IF Fifo!Bit(s.op, 16) THEN 3 ELSE 1].n = ColorAt(t, Drawn(t) + 2)
      BY <1>4, <1>6, <2>1, <2>3 DEF Gouraud, ColorAt
    <3>2. cmd[Len(cmd)].n = VertexAt(t, Drawn(t) + 2)
      BY <1>1, <1>4, <1>6, <2>1, <2>3 DEF Gouraud, VertexAt
    <3>3. Fifo!Bit(s.op, 16) = Gouraud(t)
      BY <1>6 DEF Gouraud
    <3> QED
      BY <2>1, <3>1, <3>2, <3>3 DEF Fifo!StartPoly
  <2>5. AtPoly(Fifo!Gp0(g, w).g, t) /\ Registered(Fifo!Gp0(g, w).g)
    <3>1. /\ Fifo!Gp0(g, w).g.fifo = <<>> /\ Fifo!Gp0(g, w).g.load = Fifo!NoLoad /\ Registered(Fifo!Gp0(g, w).g)
          /\ Fifo!Gp0(g, w).g.poly = Fifo!StartPoly(s.op, cmd)
      BY <1>3, <2>2 DEF Registered
    <3>2. ~(Gouraud(t) /\ Past(t) % 2 = 1)
      BY <1>6
    <3> QED
      BY <2>4, <3>1, <3>2 DEF AtPoly
  <2>6. Fifo!FirstLine(s.op, cmd) = Fifo!Segment(s.op, 1)
    BY <1>4, <2>1 DEF Fifo!FirstLine, Fifo!Segment, Gouraud
  <2>7. Fifo!Meant(t) = <<Fifo!Segment(s.op, 1)>>
    <3>1. Fifo!Meant(t) = [k \in 1 .. 1 + 0 |-> Fifo!Segment(s.op, k)]
      <4>1. Fifo!IsPolyline(t.op)
        BY <1>6, <1>7
      <4>2. Fifo!Meant(t) = [k \in 1 .. 1 + (IF t.sent = Fifo!FullLength(t) THEN t.size ELSE Drawn(t))
                          |-> Fifo!Segment(t.op, k)]
        BY <1>6, <4>1, MeantLines
      <4> QED
        BY <1>6, <2>1, <2>3, <4>2
    <3> QED
      BY <3>1
  <2> QED
    BY <1>6, <1>7, <2>1, <2>2, <2>5, <2>6, <2>7, <2>8 DEF Parsing, t
<1>8. CASE Fifo!IsLine(s.op) /\ ~Fifo!IsPolyline(s.op)
  <2>1. /\ s.op \in 64 .. 95 /\ ~Fifo!Bit(s.op, 8) /\ t.sent = Fifo!FullLength(t)
        /\ Fifo!HeadLength(s.op) = (IF Gouraud(s) THEN 4 ELSE 3)
    <3>1. s.op \in 64 .. 95 /\ Fifo!HeadLength(s.op) = (IF Gouraud(s) THEN 4 ELSE 3)
      BY <1>8, FullLengths DEF Command
    <3>2. s.op \notin 160 .. 191
      BY <3>1
    <3>3. Fifo!FullLength(s) = Fifo!HeadLength(s.op)
      BY <1>8, <3>2, FullLengths DEF Command
    <3> QED
      BY <1>6, <1>8, <3>1, <3>3 DEF Fifo!IsPolyline
  <2>6. s.op \notin 192 .. 223
    BY <2>1
  <2>2. /\ Fifo!Gp0(g, w).g = [h EXCEPT !.poly = Fifo!NoPoly]
        /\ Fifo!Gp0(g, w).did = <<Fifo!FirstLine(s.op, cmd)>> /\ Fifo!Gp0(g, w).reads = <<>>
    <3>1. /\ Fifo!ExecuteCommand(h, s.op, cmd).g = [h EXCEPT !.poly = Fifo!StartPoly(s.op, cmd)]
          /\ Fifo!ExecuteCommand(h, s.op, cmd).did = <<Fifo!FirstLine(s.op, cmd)>>
          /\ Fifo!ExecuteCommand(h, s.op, cmd).reads = <<>>
      <4>1. Fifo!IsLine(s.op)
        BY <1>8
      <4> QED
        BY ONLY <4>1, LineExecuted
    <3>2. Fifo!StartPoly(s.op, cmd) = Fifo!NoPoly
      BY <2>1 DEF Fifo!StartPoly
    <3> QED
      BY <1>2, <3>1, <3>2
  <2>3. AtRest(Fifo!Gp0(g, w).g) /\ Registered(Fifo!Gp0(g, w).g)
    BY <1>2, <1>3, <2>2 DEF AtRest, Registered
  <2>4. Fifo!FirstLine(s.op, cmd) = Fifo!Segment(s.op, 1)
    BY <1>4, <2>1 DEF Fifo!FirstLine, Fifo!Segment, Gouraud
  <2>5. Fifo!Meant(t) = <<Fifo!Segment(s.op, 1)>>
    <3>1. Past(t) >= 0 /\ ~Fifo!IsPolyline(t.op) /\ Fifo!IsLine(t.op)
      BY <1>6, <1>8
    <3>2. Fifo!Meant(t) = <<Fifo!Segment(t.op, 1)>>
      BY <1>6, <3>1, MeantLine
    <3> QED
      BY <1>6, <3>2
  <2> QED
    BY <2>1, <2>2, <2>3, <2>4, <2>5, <2>6 DEF Parsing, t
<1>9. CASE s.op \in 160 .. 191
  <2>1. /\ Fifo!HeadLength(s.op) = 3 /\ Fifo!FullLength(t) # 3 /\ ~Fifo!IsLine(s.op) /\ ~Fifo!IsPolyline(s.op)
    <3>1. (s.size + 1) \div 2 >= 1
      BY <1>9, FullLengths DEF Command
    <3> QED
      BY <1>1, <1>6, <1>9, <3>1, FullLengths DEF Fifo!IsPolyline, Fifo!IsLine, Command
  <2>2. /\ Fifo!Gp0(g, w).g = [h EXCEPT !.load = [cur |-> 0, total |-> s.size]]
        /\ Fifo!Gp0(g, w).did = <<Fifo!Whole(s.op)>> /\ Fifo!Gp0(g, w).reads = <<>>
    <3>1. cmd[3].size = s.size
      BY <1>4, <2>1
    <3>2. ~Fifo!IsLine(s.op) /\ s.op \in 160 .. 191 /\ s.op \notin 192 .. 223
      BY <1>9, <2>1
    <3> QED
      BY <1>2, <1>5, <3>1, <3>2 DEF Fifo!ExecuteCommand
  <2>3. AtPixels(Fifo!Gp0(g, w).g, t) /\ Registered(Fifo!Gp0(g, w).g)
    BY <1>2, <1>3, <1>6, <2>2 DEF AtPixels, Registered
  <2>4. Fifo!Meant(t) = <<Fifo!Whole(s.op)>> \o [k \in 1 .. 0 |-> Pixel(k)]
    <3>1. Past(t) >= 0 /\ t.op \in 160 .. 191
      BY <1>6, <1>9
    <3>2. Fifo!Meant(t) = <<Fifo!Whole(t.op)>> \o [k \in 1 .. Past(t) |-> Pixel(k)]
      BY <1>6, <3>1, MeantPixels
    <3> QED
      BY <1>6, <3>2
  <2>5. <<Fifo!Whole(s.op)>> \o [k \in 1 .. 0 |-> Pixel(k)] = <<Fifo!Whole(s.op)>>
    OBVIOUS
  <2>6. s.op \notin 192 .. 223
    BY <1>9
  <2> QED
    BY <1>6, <2>1, <2>2, <2>3, <2>4, <2>5, <2>6 DEF Parsing, t
<1>10. CASE ~Fifo!IsLine(s.op) /\ s.op \notin 160 .. 191
  <2>1. ~Fifo!IsPolyline(s.op) /\ t.sent = Fifo!FullLength(t)
    BY <1>6, <1>10, FullLengths DEF Fifo!IsPolyline, Command
  <2>2. /\ Fifo!Gp0(g, w).g = h /\ Fifo!Gp0(g, w).did = <<Fifo!Whole(s.op)>>
        /\ Fifo!Gp0(g, w).reads = IF s.op \in 192 .. 223 THEN Answer(s) ELSE <<>>
    <3>1. CASE s.op \in 192 .. 223
      <4>1. Fifo!HeadLength(s.op) = 3
        BY <3>1 DEF Fifo!HeadLength, Fifo!IsPolygon, Fifo!IsLine, Fifo!IsRect
      <4>2. cmd[3].size = s.size
        BY <1>4, <4>1
      <4> QED
        BY <1>2, <1>5, <1>10, <3>1, <4>2 DEF Fifo!ExecuteCommand, Answer
    <3>2. CASE s.op \notin 192 .. 223
      BY <1>2, <1>5, <1>10, <3>2 DEF Fifo!ExecuteCommand
    <3> QED
      BY <3>1, <3>2
  <2>3. AtRest(h) /\ Registered(h)
    BY <1>3 DEF AtRest
  <2>4. Fifo!Meant(t) = <<Fifo!Whole(s.op)>>
    <3>1. Past(t) >= 0 /\ ~Fifo!IsLine(t.op) /\ t.op \notin 160 .. 191
      BY <1>6, <1>10
    <3>2. Fifo!Meant(t) = <<Fifo!Whole(t.op)>>
      BY <1>6, <3>1, MeantWhole
    <3> QED
      BY <1>6, <3>2
  <2> QED
    BY <2>1, <2>2, <2>3, <2>4 DEF Parsing, t
<1> QED
  BY <1>7, <1>8, <1>9, <1>10 DEF Fifo!IsPolyline

(* A number is twice its half, and perhaps one more.                       *)
LEMMA Halves ==
  ASSUME NEW p \in Nat
  PROVE  /\ p \div 2 \in Nat /\ p % 2 \in {0, 1} /\ p = 2 * (p \div 2) + (p % 2)
         /\ (p + 1) % 2 = 1 - (p % 2)
         /\ (p + 1) \div 2 = (p \div 2) + (p % 2)
<1>1. PICK q \in Nat : q = p \div 2
  OBVIOUS
<1>2. p % 2 = p - 2 * (p \div 2)
  OBVIOUS
<1>3. p - 2 * (p \div 2) \in 0 .. 1
  OBVIOUS
<1>4. (p = 2 * q /\ p % 2 = 0) \/ (p = 2 * q + 1 /\ p % 2 = 1)
  <2>1. p - 2 * q \in 0 .. 1 /\ p % 2 = p - 2 * q
    BY <1>1, <1>2, <1>3
  <2> QED
    BY <1>1, <2>1
<1>5. CASE p = 2 * q /\ p % 2 = 0
  <2>1. (p + 1) % 2 = 1 /\ (p + 1) \div 2 = q
    BY <1>1, <1>5
  <2> QED
    BY <1>1, <1>5, <2>1
<1>6. CASE p = 2 * q + 1 /\ p % 2 = 1
  <2> DEFINE r == q + 1
  <2>1. r \in Nat /\ p + 1 = 2 * r
    BY <1>1, <1>6
  <2>2. (p + 1) % 2 = 0 /\ (p + 1) \div 2 = r
    <3> HIDE DEF r
    <3> QED
      BY <2>1
  <2> QED
    BY <1>1, <1>6, <2>2
<1> QED
  BY <1>4, <1>5, <1>6

(* An effect, of whatever kind: what a command is to have done is a list.  *)
LEMMA MeantIsSeq ==
  ASSUME Fifo!Gp0Assumption, NEW s, Command(s) PROVE \E S : Fifo!Meant(s) \in Seq(S)
<1>1. s.sent \in Nat /\ Past(s) \in Int /\ s.size \in Nat /\ Fifo!FullLength(s) \in Nat
  BY FullLengths DEF Command
<1>2. CASE Past(s) < 0
  <2>1. Fifo!Meant(s) = <<>> /\ <<>> \in Seq({})
    BY <1>2, MeantNothing
  <2> QED
    BY <2>1
<1>3. CASE Past(s) >= 0 /\ Fifo!IsPolyline(s.op)
  <2> DEFINE m == 1 + (IF s.sent = Fifo!FullLength(s) THEN s.size ELSE Drawn(s))
             S == {Fifo!Segment(s.op, k) : k \in Nat}
  <2>1. m \in Nat
    BY <1>1, <1>3, Halves DEF Drawn
  <2>2. Fifo!Meant(s) = [k \in 1 .. m |-> Fifo!Segment(s.op, k)]
    BY <1>3, MeantLines
  <2>3. [k \in 1 .. m |-> Fifo!Segment(s.op, k)] \in Seq(S)
    <3> HIDE DEF m
    <3> QED
      BY <2>1
  <2> QED
    BY <2>2, <2>3
<1>4. CASE Past(s) >= 0 /\ Fifo!IsLine(s.op) /\ ~Fifo!IsPolyline(s.op)
  <2>1. Fifo!Meant(s) = <<Fifo!Segment(s.op, 1)>> /\ <<Fifo!Segment(s.op, 1)>> \in Seq({Fifo!Segment(s.op, 1)})
    BY <1>4, MeantLine
  <2> QED
    BY <2>1
<1>5. CASE Past(s) >= 0 /\ s.op \in 160 .. 191
  <2> DEFINE S == {Fifo!Whole(s.op)} \cup {Pixel(k) : k \in Nat}
             q == [k \in 1 .. Past(s) |-> Pixel(k)]
  <2>1. Fifo!Meant(s) = <<Fifo!Whole(s.op)>> \o q
    BY <1>5, MeantPixels
  <2>2. <<Fifo!Whole(s.op)>> \in Seq(S) /\ q \in Seq(S)
    BY <1>1, <1>5
  <2>3. <<Fifo!Whole(s.op)>> \o q \in Seq(S)
    <3> HIDE DEF q, S
    <3> QED
      BY <2>2
  <2> QED
    BY <2>1, <2>3
<1>6. CASE Past(s) >= 0 /\ ~Fifo!IsLine(s.op) /\ s.op \notin 160 .. 191
  <2>1. Fifo!Meant(s) = <<Fifo!Whole(s.op)>> /\ <<Fifo!Whole(s.op)>> \in Seq({Fifo!Whole(s.op)})
    BY <1>6, MeantWhole
  <2> QED
    BY <2>1
<1> QED
  BY <1>1, <1>2, <1>3, <1>4, <1>5, <1>6 DEF Fifo!IsPolyline

(* The words of a polyline's segments. *)
LEMMA PolyWord ==
  ASSUME Fifo!Gp0Assumption, NEW s, Command(s), NEW w, Word(s, w), NEW g, Registered(g), Parsing(g, s),
         Fifo!IsPolyline(s.op), s.sent >= Fifo!HeadLength(s.op),
         s.sent < Fifo!FullLength(s)
  PROVE  /\ Registered(Fifo!Gp0(g, w).g) /\ Parsing(Fifo!Gp0(g, w).g, Sent(s))
         /\ Fifo!Meant(s) \o Fifo!Gp0(g, w).did = Fifo!Meant(Sent(s))
         /\ Fifo!Gp0(g, w).reads = <<>>
<1> DEFINE t == Sent(s)
           D == Drawn(s)
           words == Append(g.fifo, Fifo!Kept(w))
           lines(m) == [k \in 1 .. m |-> Fifo!Segment(s.op, k)]
<1>1. /\ s.op \in 1 .. 255 /\ s.sent \in Nat /\ Fifo!FullLength(s) \in Nat /\ s.size \in Nat
      /\ Fifo!HeadLength(s.op) = (IF Gouraud(s) THEN 4 ELSE 3)
      /\ Fifo!FullLength(s) = Fifo!HeadLength(s.op) + s.size * Fifo!PerSegment(s.op) + 1
      /\ Fifo!PerSegment(s.op) = (IF Gouraud(s) THEN 2 ELSE 1)
      /\ Past(s) \in Nat /\ Past(s) = s.sent - Fifo!HeadLength(s.op)
  BY FullLengths DEF Past, Command
<1>2. AtPoly(g, s)
  BY <1>1 DEF Parsing
<1>3. /\ t.op = s.op /\ t.size = s.size /\ t.sent = s.sent + 1 /\ Past(t) = Past(s) + 1
      /\ Command(t) /\ Fifo!FullLength(t) = Fifo!FullLength(s) /\ Gouraud(t) = Gouraud(s)
      /\ \A i : Cell(t, i) = Cell(s, i)
  BY OneWordOn
<1>4. /\ D \in Nat /\ Past(s) % 2 \in {0, 1} /\ Past(t) % 2 = 1 - (Past(s) % 2)
      /\ Gouraud(s) => Past(s) = 2 * D + (Past(s) % 2) /\ Drawn(t) = D + (Past(s) % 2)
      /\ ~Gouraud(s) => Past(s) = D /\ Drawn(t) = D + 1
  <2>1. CASE Gouraud(s)
    BY <1>1, <1>3, <2>1, Halves DEF Drawn
  <2>2. CASE ~Gouraud(s)
    BY <1>1, <1>3, <2>2, Halves DEF Drawn
  <2> QED
    BY <2>1, <2>2
<1>5. Fifo!Kept(w) = Cell(s, s.sent + 1)
  BY DEF Fifo!Kept, Cell, Word
<1>6. g.load = Fifo!NoLoad /\ g.poly.on /\ Fifo!Gp0(g, w) = Fifo!Polyline(g, w)
  BY <1>2 DEF AtPoly, Fifo!Gp0
<1> HIDE DEF D, t
<1>7. Fifo!Meant(s) = lines(1 + D)
  <2>1. Past(s) >= 0 /\ s.sent # Fifo!FullLength(s)
    BY <1>1
  <2>2. Fifo!Meant(s) = [k \in 1 .. 1 + (IF s.sent = Fifo!FullLength(s) THEN s.size ELSE Drawn(s))
                      |-> Fifo!Segment(s.op, k)]
    BY <2>1, MeantLines
  <2> QED
    BY <2>1, <2>2 DEF D
<1>8. Fifo!Meant(t) = lines(1 + (IF t.sent = Fifo!FullLength(s) THEN s.size ELSE Drawn(t)))
  <2>1. Past(t) >= 0 /\ Fifo!IsPolyline(t.op)
    BY <1>1, <1>3
  <2>2. Fifo!Meant(t) = [k \in 1 .. 1 + (IF t.sent = Fifo!FullLength(t) THEN t.size ELSE Drawn(t))
                      |-> Fifo!Segment(t.op, k)]
    BY <1>3, <2>1, MeantLines
  <2> QED
    BY <1>3, <2>2
<1>9. CASE s.sent + 1 = Fifo!FullLength(s)
  <2>1. s.size = D
    <3> HIDE DEF D
    <3>1. CASE Gouraud(s)
      <4>1. Fifo!FullLength(s) = 4 + s.size * 2 + 1 /\ Past(s) = s.sent - 4
        BY <1>1, <3>1
      <4>2. Past(s) = 2 * s.size
        BY <1>1, <1>9, <4>1
      <4>3. Past(s) = 2 * D \/ Past(s) = 2 * D + 1
        BY <1>4, <3>1
      <4>4. D \in Nat /\ s.size \in Nat
        BY <1>1, <1>4
      <4> QED
        BY ONLY <4>2, <4>3, <4>4
    <3>2. CASE ~Gouraud(s)
      <4>1. Fifo!FullLength(s) = 3 + s.size * 1 + 1 /\ Past(s) = s.sent - 3
        BY <1>1, <3>2
      <4>2. D = Past(s) /\ s.size \in Nat /\ s.sent \in Nat
        BY <1>1, <1>4, <3>2
      <4>3. s.sent + 1 = 3 + s.size * 1 + 1
        BY <1>9, <4>1
      <4> QED
        BY ONLY <4>1, <4>2, <4>3
    <3> QED
      BY <3>1, <3>2
  <2>2. w.term
    BY <1>1, <1>9 DEF Word
  <2>3. /\ Fifo!Gp0(g, w).g = [g EXCEPT !.poly = Fifo!NoPoly, !.fifo = <<>>]
        /\ Fifo!Gp0(g, w).did = <<>> /\ Fifo!Gp0(g, w).reads = <<>>
    BY <1>6, <2>2 DEF Fifo!Polyline, Fifo!Nothing
  <2>4. AtRest(Fifo!Gp0(g, w).g) /\ Registered(Fifo!Gp0(g, w).g)
    BY <1>6, <2>3 DEF AtRest, Registered
  <2>5. Fifo!Meant(t) = Fifo!Meant(s)
    BY <1>3, <1>7, <1>8, <1>9, <2>1
  <2>6. lines(1 + D) \o <<>> = lines(1 + D)
    BY <1>4
  <2> QED
    BY <1>3, <1>7, <1>9, <2>3, <2>4, <2>5, <2>6 DEF Parsing, t
<1>10. CASE s.sent + 1 # Fifo!FullLength(s)
  <2>1. ~w.term
    BY <1>1, <1>10 DEF Word
  <2>2. t.sent \notin {0, Fifo!FullLength(t)} /\ ~(Past(t) < 0) /\ Fifo!IsPolyline(t.op)
    BY <1>1, <1>3, <1>10
  <2>3. /\ {"on", "gouraud", "color", "vertex"} \subseteq DOMAIN g.poly
        /\ g.poly.on = TRUE /\ g.poly.gouraud = Gouraud(s) /\ g.poly.color = ColorAt(s, D + 2)
        /\ g.poly.vertex = VertexAt(s, D + 2)
    BY <1>2 DEF AtPoly, D
  <2>4. CASE Gouraud(s) /\ Past(s) % 2 = 0
    <3>1. words = <<Cell(s, s.sent + 1)>> /\ Len(words) = 1
      <4>1. g.fifo = <<>>
        BY <1>2, <2>4 DEF AtPoly
      <4> QED
        BY <1>5, <4>1
    <3>2. /\ Fifo!Gp0(g, w).g = [g EXCEPT !.fifo = words]
          /\ Fifo!Gp0(g, w).did = <<>> /\ Fifo!Gp0(g, w).reads = <<>>
      BY <1>6, <2>1, <2>3, <2>4, <3>1 DEF Fifo!Polyline, Fifo!Nothing, Fifo!One
    <3>3. /\ Fifo!Gp0(g, w).g.fifo = words /\ Fifo!Gp0(g, w).g.load = Fifo!NoLoad /\ Registered(Fifo!Gp0(g, w).g)
          /\ Fifo!Gp0(g, w).g.poly = g.poly
      BY <1>6, <3>2 DEF Registered
    <3>4. Drawn(t) = D /\ Past(t) % 2 = 1 /\ Gouraud(t) /\ words = <<Cell(t, t.sent)>>
      <4>1. Drawn(t) = D /\ Past(t) % 2 = 1 /\ Gouraud(t)
        BY <1>3, <1>4, <2>4
      <4>2. words = <<Cell(t, t.sent)>>
        BY <1>3, <3>1
      <4> QED
        BY <4>1, <4>2
    <3>5. ColorAt(t, D + 2) = ColorAt(s, D + 2) /\ VertexAt(t, D + 2) = VertexAt(s, D + 2)
      BY <1>3 DEF ColorAt, VertexAt
    <3>6. AtPoly(Fifo!Gp0(g, w).g, t)
      BY <1>3, <2>3, <3>3, <3>4, <3>5 DEF AtPoly
    <3>7. lines(1 + D) \o <<>> = lines(1 + D)
      BY <1>4
    <3>8. Fifo!Meant(t) = Fifo!Meant(s)
      BY <1>3, <1>7, <1>8, <2>2, <3>4
    <3>9. Parsing(Fifo!Gp0(g, w).g, t)
      BY <2>2, <3>6 DEF Parsing
    <3>10. Fifo!Meant(s) \o Fifo!Gp0(g, w).did = Fifo!Meant(t)
      BY <1>7, <3>2, <3>7, <3>8
    <3> QED
      BY <3>2, <3>3, <3>9, <3>10 DEF t
  <2>5. CASE ~(Gouraud(s) /\ Past(s) % 2 = 0)
    <3>13. /\ Gouraud(s) => Past(s) % 2 = 1 /\ Past(s) = 2 * D + 1
           /\ ~Gouraud(s) => Past(s) = D
      BY <1>4, <2>5
    <3> DEFINE color == IF g.poly.gouraud THEN words[1].n ELSE g.poly.color
               vertex == words[Len(words)].n
               line == Fifo!Line(g.poly.vertex, vertex, g.poly.color, color)
    <3>1. /\ Len(words) = 1 + Fifo!One(g.poly.gouraud) /\ vertex = s.sent + 1
          /\ Gouraud(s) => words[1].n = s.sent
      <4>1. CASE Gouraud(s)
        <5>1. Len(words) = 2 /\ words[1] = Cell(s, s.sent) /\ words[2] = Cell(s, s.sent + 1)
          <6>1. g.fifo = <<Cell(s, s.sent)>>
            BY <1>2, <3>13, <4>1 DEF AtPoly
          <6>2. words = Append(<<Cell(s, s.sent)>>, Cell(s, s.sent + 1))
            BY <1>5, <6>1
          <6>3. ASSUME NEW a, NEW b
                PROVE  /\ Len(Append(<<a>>, b)) = 2
                       /\ Append(<<a>>, b)[1] = a /\ Append(<<a>>, b)[2] = b
            <7>1. <<a>> \in Seq({a, b}) /\ b \in {a, b} /\ Len(<<a>>) = 1 /\ <<a>>[1] = a
              OBVIOUS
            <7> QED
              BY <7>1
          <6> HIDE DEF words
          <6> QED
            BY ONLY <6>2, <6>3
        <5> QED
          BY <2>3, <4>1, <5>1 DEF Fifo!One, Cell
      <4>2. CASE ~Gouraud(s)
        <5>1. words = <<Cell(s, s.sent + 1)>>
          BY <1>2, <1>5, <4>2 DEF AtPoly
        <5> QED
          BY <2>3, <4>2, <5>1 DEF Fifo!One, Cell
      <4> QED
        BY <4>1, <4>2
    <3>2. /\ Fifo!Gp0(g, w).g = [g EXCEPT !.fifo = <<>>, !.poly.color = color, !.poly.vertex = vertex]
          /\ Fifo!Gp0(g, w).did = <<line>> /\ Fifo!Gp0(g, w).reads = <<>>
      <4>1. ~(Len(words) < 1 + Fifo!One(g.poly.gouraud))
        BY <3>1 DEF Fifo!One
      <4> HIDE DEF words
      <4>2. Fifo!Polyline(g, w) =
              [g |-> [g EXCEPT !.fifo = <<>>, !.poly.color = color, !.poly.vertex = vertex],
               did |-> <<line>>, reads |-> <<>>]
        BY <2>1, <4>1 DEF Fifo!Polyline, words
      <4> QED
        BY <1>6, <4>2
    <3>3. Drawn(t) = D + 1 /\ ~(Gouraud(t) /\ Past(t) % 2 = 1)
      <4>1. CASE Gouraud(s)
        BY <1>3, <1>4, <3>13, <4>1
      <4>2. CASE ~Gouraud(s)
        BY <1>3, <1>4, <4>2
      <4> QED
        BY <4>1, <4>2
    <3>4. color = ColorAt(s, D + 3) /\ vertex = VertexAt(s, D + 3)
      <4>1. CASE Gouraud(s)
        <5>1. s.sent = 2 * D + 5
          BY <1>1, <1>4, <3>13, <4>1
        <5>2. color = s.sent /\ vertex = s.sent + 1
          BY <2>3, <3>1, <4>1
        <5>3. ColorAt(s, D + 3) = 2 * (D + 3) - 1 /\ VertexAt(s, D + 3) = 2 * (D + 3)
          BY <4>1 DEF ColorAt, VertexAt
        <5> QED
          BY <1>4, <5>1, <5>2, <5>3
      <4>2. CASE ~Gouraud(s)
        <5>1. s.sent = D + 3
          BY <1>1, <1>4, <3>13, <4>2
        <5>2. color = 1
          BY <2>3, <4>2 DEF ColorAt
        <5>3. vertex = s.sent + 1 /\ ColorAt(s, D + 3) = 1 /\ VertexAt(s, D + 3) = D + 3 + 1
          BY <3>1, <4>2 DEF ColorAt, VertexAt
        <5> QED
          BY <5>1, <5>2, <5>3
      <4> QED
        BY <4>1, <4>2
    <3>5. /\ Fifo!Gp0(g, w).g.fifo = <<>> /\ Fifo!Gp0(g, w).g.load = Fifo!NoLoad /\ Registered(Fifo!Gp0(g, w).g)
          /\ {"on", "gouraud", "color", "vertex"} \subseteq DOMAIN Fifo!Gp0(g, w).g.poly
          /\ Fifo!Gp0(g, w).g.poly.on = TRUE /\ Fifo!Gp0(g, w).g.poly.gouraud = Gouraud(s)
          /\ Fifo!Gp0(g, w).g.poly.color = ColorAt(s, D + 3)
          /\ Fifo!Gp0(g, w).g.poly.vertex = VertexAt(s, D + 3)
      <4> HIDE DEF color, vertex, D
      <4>1. /\ Fifo!Gp0(g, w).g.fifo = <<>> /\ Fifo!Gp0(g, w).g.load = Fifo!NoLoad /\ Registered(Fifo!Gp0(g, w).g)
            /\ Fifo!Gp0(g, w).g.poly = [g.poly EXCEPT !.color = color, !.vertex = vertex]
        BY <1>6, <2>3, <3>2 DEF Registered
      <4> QED
        BY <2>3, <3>4, <4>1
    <3>6. /\ ColorAt(t, Drawn(t) + 2) = ColorAt(s, D + 3)
          /\ VertexAt(t, Drawn(t) + 2) = VertexAt(s, D + 3)
      BY <1>3, <1>4, <3>3 DEF ColorAt, VertexAt
    <3>7. AtPoly(Fifo!Gp0(g, w).g, t)
      BY <1>3, <3>3, <3>5, <3>6 DEF AtPoly
    <3>8. line = Fifo!Segment(s.op, D + 2)
      <4>1. D + 2 + 1 = D + 3
        BY <1>4
      <4> QED
        BY <2>3, <3>4, <4>1 DEF Fifo!Segment, ColorAt, VertexAt, Gouraud
    <3>9. lines(1 + D) \o <<Fifo!Segment(s.op, D + 2)>> = lines(1 + (D + 1))
      BY <1>4
    <3>10. Fifo!Meant(t) = lines(1 + (D + 1))
      BY <1>3, <1>8, <2>2, <3>3
    <3>11. Parsing(Fifo!Gp0(g, w).g, t)
      BY <2>2, <3>7 DEF Parsing
    <3>12. Fifo!Meant(s) \o Fifo!Gp0(g, w).did = Fifo!Meant(t)
      BY <1>7, <3>2, <3>8, <3>9, <3>10
    <3> QED
      BY <3>2, <3>5, <3>11, <3>12 DEF t
  <2> QED
    BY <2>4, <2>5
<1> QED
  BY <1>9, <1>10
(* The words of an image. *)
LEMMA PixelWord ==
  ASSUME Fifo!Gp0Assumption, NEW s, Command(s), NEW w, Word(s, w), NEW g, Registered(g), Parsing(g, s),
         s.op \in 160 .. 191, s.sent >= Fifo!HeadLength(s.op),
         s.sent < Fifo!FullLength(s)
  PROVE  /\ Registered(Fifo!Gp0(g, w).g) /\ Parsing(Fifo!Gp0(g, w).g, Sent(s))
         /\ Fifo!Meant(s) \o Fifo!Gp0(g, w).did = Fifo!Meant(Sent(s))
         /\ Fifo!Gp0(g, w).reads = <<>>
<1> DEFINE t == Sent(s)
           P == Past(s)
           H == (s.size + 1) \div 2
           pixels(m) == <<Fifo!Whole(s.op)>> \o [k \in 1 .. m |-> Pixel(k)]
<1>1. /\ s.sent \in Nat /\ Fifo!FullLength(s) = 3 + H /\ s.size \in Nat \ {0} /\ Fifo!HeadLength(s.op) = 3
      /\ P \in Nat /\ P = s.sent - 3 /\ H \in Nat /\ P < H
      /\ ~Fifo!IsLine(s.op) /\ ~Fifo!IsPolyline(s.op)
  <2>1. /\ s.sent \in Nat /\ Fifo!FullLength(s) = 3 + H /\ s.size \in Nat \ {0} /\ Fifo!HeadLength(s.op) = 3
    BY FullLengths DEF Command
  <2>2. H \in Nat
    BY <2>1
  <2>3. P = s.sent - 3
    BY <2>1 DEF Past
  <2>4. ~Fifo!IsLine(s.op) /\ ~Fifo!IsPolyline(s.op)
    BY DEF Fifo!IsLine, Fifo!IsPolyline
  <2> HIDE DEF P, H
  <2> QED
    BY <2>1, <2>2, <2>3, <2>4
<1>2. AtPixels(g, s)
  BY <1>1 DEF Parsing
<1>3. /\ t.op = s.op /\ t.size = s.size /\ t.sent = s.sent + 1 /\ Past(t) = P + 1
      /\ Command(t) /\ Fifo!FullLength(t) = Fifo!FullLength(s)
  BY OneWordOn
<1>4. /\ {"cur", "total"} \subseteq DOMAIN g.load
      /\ g.load.cur = 2 * P /\ g.load.total = s.size /\ g.load # Fifo!NoLoad /\ g.poly = Fifo!NoPoly /\ g.fifo = <<>>
  BY <1>1, <1>2 DEF AtPixels, Fifo!NoLoad
<1>5. Fifo!LoadEnds(g.load) <=> P + 1 = H
  <2>1. s.size + 1 = 2 * H \/ s.size + 1 = 2 * H + 1
    <3>1. s.size + 1 \in Nat
      BY <1>1
    <3> DEFINE z == s.size + 1
    <3>2. z \in Nat
      BY <3>1
    <3>3. z - 2 * (z \div 2) \in 0 .. 1 /\ z \div 2 \in Nat
      <4> HIDE DEF z
      <4> QED
        BY <3>2
    <3> QED
      BY <1>1, <3>1, <3>3
  <2>2. Fifo!LoadEnds(g.load) <=> 2 * P + 2 >= s.size
    BY <1>4 DEF Fifo!LoadEnds
  <2>3. s.size \in Nat /\ P \in Nat /\ H \in Nat /\ P < H
    BY <1>1
  <2> HIDE DEF P, H
  <2> QED
    BY ONLY <2>1, <2>2, <2>3
<1> HIDE DEF t, P, H
<1>6. /\ Fifo!Gp0(g, w).g = [g EXCEPT !.load = IF Fifo!LoadEnds(g.load) THEN Fifo!NoLoad
                                          ELSE [g.load EXCEPT !.cur = @ + 2]]
      /\ Fifo!Gp0(g, w).did = <<Pixel(P + 1)>> /\ Fifo!Gp0(g, w).reads = <<>>
  <2>1. Fifo!Gp0(g, w) = Fifo!ImageLoad(g, w)
    BY <1>4 DEF Fifo!Gp0
  <2>2. <<"pixels", g.load.cur, w.n>> = Pixel(P + 1)
    <3>1. g.load.cur = 2 * (P + 1) - 2 /\ w.n = 3 + (P + 1)
      BY <1>1, <1>4 DEF Word
    <3> QED
      BY <3>1 DEF Pixel
  <2>3. /\ Fifo!ImageLoad(g, w).g = [g EXCEPT !.load = IF Fifo!LoadEnds(g.load) THEN Fifo!NoLoad
                                                ELSE [g.load EXCEPT !.cur = @ + 2]]
        /\ Fifo!ImageLoad(g, w).did = <<<<"pixels", g.load.cur, w.n>>>> /\ Fifo!ImageLoad(g, w).reads = <<>>
    <3>1. "load" \in DOMAIN g
      BY DEF Registered
    <3>2. CASE Fifo!LoadEnds(g.load)
      BY <3>1, <3>2 DEF Fifo!ImageLoad
    <3>3. CASE ~Fifo!LoadEnds(g.load)
      BY <3>1, <3>3 DEF Fifo!ImageLoad
    <3> QED
      BY <3>2, <3>3
  <2> QED
    BY <2>1, <2>2, <2>3
<1>7. Fifo!Meant(s) = pixels(P) /\ Fifo!Meant(t) = pixels(P + 1)
  <2>1. Past(s) >= 0 /\ Past(t) >= 0 /\ t.op \in 160 .. 191
    BY <1>1, <1>3 DEF P
  <2>2. Fifo!Meant(s) = <<Fifo!Whole(s.op)>> \o [k \in 1 .. Past(s) |-> Pixel(k)]
    BY <2>1, MeantPixels
  <2>3. Fifo!Meant(t) = <<Fifo!Whole(t.op)>> \o [k \in 1 .. Past(t) |-> Pixel(k)]
    BY <1>3, <2>1, MeantPixels
  <2> QED
    BY <1>3, <2>2, <2>3 DEF P
<1>8. pixels(P) \o <<Pixel(P + 1)>> = pixels(P + 1)
  <2> DEFINE S == {Fifo!Whole(s.op)} \cup {Pixel(k) : k \in Nat}
             q(m) == [k \in 1 .. m |-> Pixel(k)]
  <2>1. P \in Nat
    BY <1>1
  <2>2. q(P) \in Seq(S) /\ <<Pixel(P + 1)>> \in Seq(S) /\ <<Fifo!Whole(s.op)>> \in Seq(S)
    BY <2>1
  <2>3. q(P) \o <<Pixel(P + 1)>> = q(P + 1)
    BY <2>1
  <2>4. ASSUME NEW a \in Seq(S), NEW b \in Seq(S), NEW c \in Seq(S)
        PROVE  (a \o b) \o c = a \o (b \o c)
    OBVIOUS
  <2>5. (<<Fifo!Whole(s.op)>> \o q(P)) \o <<Pixel(P + 1)>> = <<Fifo!Whole(s.op)>> \o (q(P) \o <<Pixel(P + 1)>>)
    BY <2>2, <2>4
  <2> QED
    BY <2>3, <2>5
<1>9. /\ Fifo!Gp0(g, w).g.fifo = <<>> /\ Fifo!Gp0(g, w).g.poly = Fifo!NoPoly /\ Registered(Fifo!Gp0(g, w).g)
  BY <1>4, <1>6 DEF Registered
<1>10. Parsing(Fifo!Gp0(g, w).g, t)
  <2>1. CASE P + 1 = H
    <3>1. Fifo!Gp0(g, w).g.load = Fifo!NoLoad /\ t.sent = Fifo!FullLength(t)
      BY <1>1, <1>3, <1>5, <1>6, <2>1 DEF Registered
    <3> QED
      BY <1>9, <3>1 DEF Parsing, AtRest
  <2>2. CASE P + 1 # H
    <3>1. /\ {"cur", "total"} \subseteq DOMAIN Fifo!Gp0(g, w).g.load
          /\ Fifo!Gp0(g, w).g.load.cur = 2 * (P + 1) /\ Fifo!Gp0(g, w).g.load.total = s.size
      <4>1. Fifo!Gp0(g, w).g.load = [g.load EXCEPT !.cur = @ + 2]
        BY <1>5, <1>6, <2>2 DEF Registered
      <4>2. 2 * P + 2 = 2 * (P + 1)
        BY <1>1
      <4> QED
        BY <1>4, <4>1, <4>2
    <3>2. t.sent \notin {0, Fifo!FullLength(t)} /\ ~(Past(t) < 0) /\ ~Fifo!IsPolyline(t.op)
      BY <1>1, <1>3, <2>2
    <3>3. AtPixels(Fifo!Gp0(g, w).g, t)
      BY <1>3, <1>9, <3>1 DEF AtPixels
    <3> QED
      BY <3>2, <3>3 DEF Parsing
  <2> QED
    BY <2>1, <2>2
<1> QED
  BY <1>6, <1>7, <1>8, <1>9, <1>10 DEF t

(* Whichever word it is, the parser takes it for what it was sent as.      *)
LEMMA WordTaken ==
  ASSUME Fifo!Gp0Assumption, NEW s, Command(s), NEW w, Word(s, w), NEW g, Registered(g), Parsing(g, s),
         s.sent < Fifo!FullLength(s)
  PROVE  /\ Registered(Fifo!Gp0(g, w).g) /\ Parsing(Fifo!Gp0(g, w).g, Sent(s))
         /\ Fifo!Meant(s) \o Fifo!Gp0(g, w).did = Fifo!Meant(Sent(s))
         /\ Fifo!Gp0(g, w).reads = IF s.op \in 192 .. 223 /\ s.sent + 1 = Fifo!FullLength(s)
                              THEN Answer(s) ELSE <<>>
<1>1. /\ s.sent \in Nat /\ Fifo!HeadLength(s.op) \in Nat /\ Fifo!FullLength(s) \in Nat
      /\ Fifo!HeadLength(s.op) <= Fifo!FullLength(s)
      /\ s.op \in 192 .. 223 => Fifo!FullLength(s) = Fifo!HeadLength(s.op)
  <2>1. s.op \in 192 .. 223 => ~Fifo!IsPolyline(s.op) /\ s.op \notin 160 .. 191
    BY DEF Fifo!IsPolyline, Fifo!IsLine
  <2> QED
    BY <2>1, FullLengths DEF Command
<1>2. CASE s.sent + 1 < Fifo!HeadLength(s.op)
  <2>1. Fifo!Meant(s) = <<>> /\ Fifo!Meant(Sent(s)) = <<>>
    <3>1. Past(s) < 0 /\ Past(Sent(s)) < 0 /\ Command(Sent(s))
      BY <1>1, <1>2, OneWordOn DEF Past
    <3> QED
      BY <3>1, MeantNothing
  <2>2. <<>> \o <<>> = <<>>
    OBVIOUS
  <2>3. /\ Registered(Fifo!Gp0(g, w).g) /\ Parsing(Fifo!Gp0(g, w).g, Sent(s))
        /\ Fifo!Gp0(g, w).did = <<>> /\ Fifo!Gp0(g, w).reads = <<>>
    BY <1>2, HeadKept, Zenon
  <2>4. ~(s.op \in 192 .. 223 /\ s.sent + 1 = Fifo!FullLength(s))
    BY <1>1, <1>2
  <2> QED
    BY <2>1, <2>2, <2>3, <2>4
<1>3. CASE s.sent + 1 = Fifo!HeadLength(s.op)
  <2>1. Fifo!Meant(s) = <<>> /\ Past(Sent(s)) = 0 /\ Command(Sent(s))
    <3>1. Past(s) < 0 /\ Past(Sent(s)) = 0 /\ Command(Sent(s))
      BY <1>1, <1>3, OneWordOn DEF Past
    <3> QED
      BY <3>1, MeantNothing
  <2>2. /\ Registered(Fifo!Gp0(g, w).g) /\ Parsing(Fifo!Gp0(g, w).g, Sent(s))
        /\ Fifo!Gp0(g, w).did = Fifo!Meant(Sent(s))
        /\ Fifo!Gp0(g, w).reads = IF s.op \in 192 .. 223 THEN Answer(s) ELSE <<>>
    BY <1>3, HeadEnds, Zenon
  <2>3. <<>> \o Fifo!Meant(Sent(s)) = Fifo!Meant(Sent(s))
    <3>1. \E S : Fifo!Meant(Sent(s)) \in Seq(S)
      BY <2>1, MeantIsSeq
    <3> QED
      BY <3>1
  <2> QED
    BY <1>1, <1>3, <2>1, <2>2, <2>3
<1>4. CASE s.sent >= Fifo!HeadLength(s.op)
  <2>1. s.op \notin 192 .. 223
    BY <1>1, <1>4
  <2>2. Fifo!IsPolyline(s.op) \/ s.op \in 160 .. 191
    BY <1>1, <1>4, FullLengths DEF Command
  <2>3. CASE Fifo!IsPolyline(s.op)
    BY <1>4, <2>1, <2>3, PolyWord
  <2>4. CASE s.op \in 160 .. 191
    <3>1. /\ Registered(Fifo!Gp0(g, w).g) /\ Parsing(Fifo!Gp0(g, w).g, Sent(s))
          /\ Fifo!Meant(s) \o Fifo!Gp0(g, w).did = Fifo!Meant(Sent(s))
          /\ Fifo!Gp0(g, w).reads = <<>>
      BY <1>4, <2>4, PixelWord, Zenon
    <3> QED
      BY <2>1, <3>1
  <2> QED
    BY <2>2, <2>3, <2>4
<1>5. s.sent + 1 < Fifo!HeadLength(s.op) \/ s.sent + 1 = Fifo!HeadLength(s.op) \/ s.sent >= Fifo!HeadLength(s.op)
  BY <1>1
<1> QED
  BY <1>2, <1>3, <1>4, <1>5, Zenon

(* A program sends a word: the next of its command, or the first of a new  *)
(* one.                                                                    *)
LEMMA SendKeeps ==
  ASSUME Fifo!Gp0Assumption, Registered(gp0Gpu), gp0Reads = gp0Owed, gp0Reads \in Answers,
         NEW s, Command(s), s.sent < Fifo!FullLength(s), Parsing(gp0Gpu, s),
         s.sent = 0 \/ gp0Did = Fifo!Meant(s), Fifo!Send(s)
  PROVE  Gp0Inv'
<1>1. /\ s.sent \in Nat /\ Fifo!FullLength(s) \in Nat /\ Fifo!HeadLength(s.op) \in 1 .. 12
      /\ s.size \in Nat /\ s.op # 0
  BY FullLengths DEF Command
<1>2. PICK w \in Fifo!Words(s) :
        LET after == Fifo!Gp0(gp0Gpu, w)
        IN /\ gp0Gpu' = after.g
           /\ gp0Did' = (IF s.sent = 0 THEN <<>> ELSE gp0Did) \o after.did
           /\ gp0Reads' = gp0Reads \o after.reads
           /\ gp0Sending' = [s EXCEPT !.sent = @ + 1]
           /\ gp0Owed' = IF s.op \in 192 .. 223 /\ s.sent + 1 = Fifo!FullLength(s)
                      THEN [i \in 1 .. (s.size + 1) \div 2 |-> <<"pixels", 2 * i - 2>>] ELSE gp0Owed
  BY DEF Fifo!Send
<1> DEFINE after == Fifo!Gp0(gp0Gpu, w)
           ends == s.op \in 192 .. 223 /\ s.sent + 1 = Fifo!FullLength(s)
<1>3. /\ gp0Gpu' = after.g /\ gp0Did' = (IF s.sent = 0 THEN <<>> ELSE gp0Did) \o after.did
      /\ gp0Reads' = gp0Reads \o after.reads /\ gp0Sending' = Sent(s)
      /\ gp0Owed' = IF ends THEN Answer(s) ELSE gp0Owed
  BY <1>2 DEF Sent, Answer
<1>4. Word(s, w)
  BY WordsAre
<1>5. /\ Registered(after.g) /\ Parsing(after.g, Sent(s))
      /\ Fifo!Meant(s) \o after.did = Fifo!Meant(Sent(s))
      /\ after.reads = IF ends THEN Answer(s) ELSE <<>>
  BY <1>4, WordTaken, Zenon
<1>6. Command(Sent(s)) /\ Sent(s).sent # 0
  BY <1>1, OneWordOn
<1>7. (IF s.sent = 0 THEN <<>> ELSE gp0Did) = Fifo!Meant(s)
  <2>1. CASE s.sent = 0
    <3>1. Past(s) < 0
      BY <1>1, <2>1 DEF Past
    <3> QED
      BY <2>1, <3>1, MeantNothing
  <2>2. CASE s.sent # 0
    BY <2>2
  <2> QED
    BY <2>1, <2>2
<1>8. Answer(s) \in Answers
  <2>1. (s.size + 1) \div 2 \in Nat
    BY <1>1
  <2>2. \A i \in 1 .. (s.size + 1) \div 2 : <<"pixels", 2 * i - 2>> \in {"pixels", "info"} \X Nat
    BY <2>1
  <2> QED
    BY <2>1, <2>2 DEF Answer, Answers
<1>9. gp0Reads' = gp0Owed' /\ gp0Reads' \in Answers
  <2>1. CASE ends
    <3>1. gp0Owed = <<>>
      BY <2>1 DEF Fifo!Send
    <3>2. gp0Reads' = <<>> \o Answer(s)
      BY <1>3, <1>5, <2>1, <3>1
    <3> QED
      BY <1>3, <1>8, <2>1, <3>2 DEF Answers
  <2>2. CASE ~ends
    <3>1. gp0Reads' = gp0Reads \o <<>>
      BY <1>3, <1>5, <2>2
    <3>2. gp0Reads \o <<>> = gp0Reads
      BY DEF Answers
    <3> QED
      BY <1>3, <2>2, <3>1, <3>2
  <2> QED
    BY <2>1, <2>2
<1> HIDE DEF after
<1>10. gp0Did' = Fifo!Meant(Sent(s))
  BY <1>3, <1>5, <1>7
<1> QED
  BY <1>3, <1>5, <1>6, <1>9, <1>10 DEF Gp0Inv

(* The port starts at rest.                                                *)
LEMMA Gp0Starts ==
  ASSUME Fifo!Gp0Assumption, Fifo!Init PROVE Gp0Inv
<1>1. Registered(Fifo!PowerOn) /\ AtRest(Fifo!PowerOn) /\ <<>> \in Answers
  BY DEF Registered, AtRest, Fifo!PowerOn, Answers
<1> QED
  BY <1>1 DEF Fifo!Init, Gp0Inv, Fifo!Idle

(* Every word and reset keeps port and program at the same place,          *)
LEMMA Gp0Step ==
  ASSUME Fifo!Gp0Assumption, Gp0Inv, Fifo!Next \/ UNCHANGED Fifo!vars PROVE Gp0Inv'
<1>1. CASE Fifo!StartCommand
  <2>7. PICK op \in Opcodes : \E size \in Fifo!Sizes(op) : Fifo!Send([op |-> op, sent |-> 0, size |-> size])
    BY <1>1 DEF Fifo!StartCommand
  <2>1. PICK size \in Fifo!Sizes(op) : Fifo!Send([op |-> op, sent |-> 0, size |-> size])
    BY <2>7
  <2> DEFINE s == [op |-> op, sent |-> 0, size |-> size]
  <2>2. Asked(s) /\ s.sent = 0
    BY DEF Asked
  <2>3. Fifo!FullLength(s) \in Nat \ {0}
    <3> HIDE DEF s
    <3> QED
      BY <2>2, FullLengths
  <2>4. AtRest(gp0Gpu)
    <3>1. gp0Sending.op # 0 => gp0Sending.sent = Fifo!FullLength(gp0Sending)
      BY <1>1 DEF Fifo!StartCommand
    <3>2. gp0Sending.op \in Opcodes => gp0Sending.op # 0
      BY DEF Fifo!Gp0Assumption
    <3> QED
      BY <3>1, <3>2 DEF Gp0Inv, Command, Asked, Parsing
  <2>5. Fifo!Send(s)
    BY <2>1
  <2> HIDE DEF s
  <2>6. Command(s) /\ s.sent < Fifo!FullLength(s) /\ Parsing(gp0Gpu, s)
    BY <2>2, <2>3, <2>4 DEF Command, Parsing
  <2> QED
    BY <2>2, <2>5, <2>6, SendKeeps DEF Gp0Inv
<1>2. CASE Fifo!SendWord
  BY <1>2, SendKeeps DEF Fifo!SendWord, Gp0Inv
<1>3. CASE Fifo!Read
  <2>1. gp0Owed # <<>> /\ gp0Reads' = Tail(gp0Reads) /\ gp0Owed' = Tail(gp0Owed) /\ UNCHANGED <<gp0Gpu, gp0Sending, gp0Did>>
    BY <1>3 DEF Fifo!Read, Gp0Inv
  <2>2. gp0Reads' = gp0Owed' /\ gp0Reads' \in Answers
    BY <2>1 DEF Gp0Inv, Answers
  <2> QED
    BY <2>1, <2>2 DEF Gp0Inv
<1>4. CASE Fifo!ResetGpu
  <2>1. Registered(Fifo!PowerOn) /\ AtRest(Fifo!PowerOn) /\ <<>> \in Answers
    BY DEF Registered, AtRest, Fifo!PowerOn, Answers
  <2> QED
    BY <1>4, <2>1 DEF Fifo!ResetGpu, Gp0Inv, Fifo!Idle
<1>5. CASE Fifo!ResetBuffer
  <2>1. gp0Gpu' = [gp0Gpu EXCEPT !.fifo = <<>>, !.op = 0, !.needed = 0, !.load = Fifo!NoLoad, !.poly = Fifo!NoPoly]
    BY <1>5 DEF Fifo!ResetBuffer
  <2>2. Registered(gp0Gpu') /\ AtRest(gp0Gpu')
    BY <2>1 DEF Gp0Inv, Registered, AtRest
  <2>3. gp0Sending' = Fifo!Idle /\ gp0Did' = <<>> /\ gp0Reads' = gp0Reads /\ gp0Owed' = gp0Owed
    BY <1>5 DEF Fifo!ResetBuffer
  <2> QED
    BY <2>2, <2>3 DEF Gp0Inv, Fifo!Idle
<1>6. CASE Fifo!Info
  <2>1. <<<<"info", 0>>>> \in Answers
    BY DEF Answers
  <2> QED
    BY <1>6, <2>1 DEF Fifo!Info, Gp0Inv
<1>7. CASE UNCHANGED Fifo!vars
  BY <1>7 DEF Fifo!vars, Gp0Inv
<1> QED
  BY <1>1, <1>2, <1>3, <1>4, <1>5, <1>6, <1>7 DEF Fifo!Next

(* from where the port has done what it was sent.                          *)
LEMMA Gp0InvIsSafe ==
  ASSUME Fifo!Gp0Assumption, Gp0Inv PROVE Fifo!TypeOK /\ Fifo!InSync /\ Fifo!ReadsWhatItAsked
<1>1. CASE gp0Sending.op = 0 /\ AtRest(gp0Gpu) /\ gp0Did = <<>>
  BY <1>1 DEF Gp0Inv, Registered, AtRest, Fifo!NoLoad, Fifo!NoPoly, Fifo!TypeOK,
     Fifo!InSync, Fifo!Meant, Fifo!ReadsWhatItAsked
<1>2. CASE Command(gp0Sending) /\ gp0Sending.sent # 0 /\ Parsing(gp0Gpu, gp0Sending) /\ gp0Did = Fifo!Meant(gp0Sending)
  <2> DEFINE s == gp0Sending
  <2>1. /\ s.op \in Opcodes /\ s.size \in Nat /\ s.sent \in Nat /\ Fifo!HeadLength(s.op) \in 1 .. 12
        /\ Past(s) \in Int /\ Past(s) = s.sent - Fifo!HeadLength(s.op)
    BY <1>2, FullLengths DEF Command, Asked, Past
  <2>2. /\ Len(gp0Gpu.fifo) < 12 /\ gp0Gpu.load.cur \in Nat /\ gp0Gpu.load.total \in {0} \cup ImageSizes
        /\ gp0Gpu.poly.on \in BOOLEAN
    <3>1. CASE AtRest(gp0Gpu)
      BY <3>1 DEF AtRest, Fifo!NoLoad, Fifo!NoPoly
    <3>2. CASE AtHead(gp0Gpu, s) /\ Past(s) < 0
      <4>1. s.sent < 12 /\ gp0Gpu.fifo = [i \in 1 .. s.sent |-> Cell(s, i)]
        BY <2>1, <3>2 DEF AtHead
      <4> QED
        BY <2>1, <3>2, <4>1 DEF AtHead, Fifo!NoLoad, Fifo!NoPoly
    <3>3. CASE AtPoly(gp0Gpu, s)
      <4>1. Len(gp0Gpu.fifo) < 12
        <5>1. gp0Gpu.fifo = <<Cell(s, s.sent)>> \/ gp0Gpu.fifo = <<>>
          BY <3>3 DEF AtPoly
        <5>2. CASE gp0Gpu.fifo = <<Cell(s, s.sent)>>
          <6>1. Len(gp0Gpu.fifo) = 1
            BY <5>2
          <6> QED
            BY <6>1
        <5>3. CASE gp0Gpu.fifo = <<>>
          <6>1. Len(gp0Gpu.fifo) = 0
            BY <5>3
          <6> QED
            BY <6>1
        <5> QED
          BY <5>1, <5>2, <5>3
      <4>2. gp0Gpu.load = Fifo!NoLoad /\ gp0Gpu.poly.on = TRUE
        BY <3>3 DEF AtPoly
      <4>3. gp0Gpu.load.cur = 0 /\ gp0Gpu.load.total = 0
        BY <4>2 DEF Fifo!NoLoad
      <4>4. gp0Gpu.poly.on \in BOOLEAN
        BY <4>2, Zenon
      <4> QED
        BY <4>1, <4>3, <4>4
    <3>4. CASE AtPixels(gp0Gpu, s) /\ ~(Past(s) < 0) /\ ~Fifo!IsPolyline(s.op) /\ s.sent # Fifo!FullLength(s)
      <4>1. s.op \in 160 .. 191
        <5>1. s.op \notin 160 .. 191 => Fifo!FullLength(s) = Fifo!HeadLength(s.op)
          BY <1>2, <3>4, FullLengths DEF Command
        <5>2. s.sent <= Fifo!FullLength(s)
          BY <1>2 DEF Command
        <5> QED
          BY <2>1, <3>4, <5>1, <5>2
      <4>2. s.size \in ImageSizes
        BY <1>2, <4>1 DEF Command, Asked, Fifo!Sizes
      <4>3. gp0Gpu.load.cur = 2 * Past(s) /\ gp0Gpu.load.total = s.size /\ gp0Gpu.poly = Fifo!NoPoly /\ gp0Gpu.fifo = <<>>
        BY <3>4 DEF AtPixels
      <4>4. 2 * Past(s) \in Nat
        BY <2>1, <3>4
      <4> QED
        BY <4>2, <4>3, <4>4 DEF Fifo!NoPoly
    <3> QED
      BY <1>2, <3>1, <3>2, <3>3, <3>4 DEF Parsing
  <2> QED
    BY <1>2, <2>1, <2>2 DEF Gp0Inv, Registered, Fifo!TypeOK, Fifo!InSync,
       Fifo!ReadsWhatItAsked
<1> QED
  BY <1>1, <1>2 DEF Gp0Inv

(* The command port never loses its place in the stream of words, and the  *)
(* read port answers what was asked (mod.rs:137-236, 655-716).             *)
THEOREM CommandsStayInSync == UnitsSpec => []CommandsInSync
<1> DEFINE Inv == unit = "gp0" => Gp0Inv
<1>1. UnitsInit => Inv
  BY Gp0Starts, HardwareAssumption DEF UnitsInit, HardwareAssumption
<1>2. Inv /\ [UnitsNext]_unitsVars => Inv'
  <2> SUFFICES ASSUME Inv, [UnitsNext]_unitsVars, unit' = "gp0" PROVE Gp0Inv'
    OBVIOUS
  <2>1. unit = "gp0"
    BY DEF UnitsNext, unitsVars
  <2>2. Fifo!Next \/ UNCHANGED Fifo!vars
    BY <2>1 DEF UnitsNext, unitsVars, gp0Vars, Fifo!vars
  <2> QED
    BY <2>1, <2>2, Gp0Step, HardwareAssumption DEF HardwareAssumption
<1>3. Inv => CommandsInSync
  BY Gp0InvIsSafe, HardwareAssumption DEF CommandsInSync, HardwareAssumption
<1> QED
  BY <1>1, <1>2, <1>3, PTL DEF UnitsSpec, unitsVars
-----------------------------------------------------------------------------
(* Spu. *)


Places == 0..(Blocks - 1)
Voice == [phase : Sound!Phases, vol : 0..Full, wait : Nat, at : Places, loop : Places, pos : 0..Span]
VoiceRegisters == [start : Places, pitch : 0..(Span - 1), adsr : Sound!Settings]

(* Every variable has its type; a voice and its registers as records.      *)
SpuTyped ==
    /\ spuVoice \in [Voices -> Voice] /\ spuRegs \in [Voices -> VoiceRegisters]
    /\ spuRam \in [Places -> SUBSET {"start", "end", "repeat"}]
    /\ spuEndx \subseteq Voices /\ spuOver \subseteq Voices
    /\ spuXfer \in Places /\ spuWatched \in Places
    /\ spuCnt \in [on : BOOLEAN, irq : BOOLEAN]
    /\ spuIrqFlag \in BOOLEAN

(* The types the proof needs are stronger than those of the run.           *)
LEMMA SpuTypedOK == SpuTyped => Sound!TypeOK
  BY DEF SpuTyped, Sound!TypeOK, Voice, Places
-----------------------------------------------------------------------------
(* The envelope. *)

(* Arithmetic of the envelope.                                             *)
LEMMA Division ==
  ASSUME NEW a \in Nat, NEW b \in Nat \ {0}
  PROVE  a \div b \in Nat
  OBVIOUS

(* Products of numbers,                                                    *)
LEMMA ProductOfNats ==
  ASSUME NEW a \in Nat, NEW b \in Nat
  PROVE  a * b \in Nat
  OBVIOUS

(* of a negative one,                                                      *)
LEMMA ProductNegative ==
  ASSUME NEW a \in Int, a < 0, NEW b \in Nat \ {0}
  PROVE  a * b \in Int /\ a * b < 0
  OBVIOUS

(* and of positive ones.                                                   *)
LEMMA ProductPositive ==
  ASSUME NEW a \in Nat \ {0}, NEW b \in Nat \ {0}
  PROVE  a * b \in Nat \ {0}
  OBVIOUS

(* A falling exponential step is never nothing.                            *)
LEMMA FallingFalls ==
  ASSUME Full \in Nat \ {0}, NEW step \in Int, step < 0, NEW level \in 0..Full
  PROVE  Sound!Falling(step, level) \in Int /\ Sound!Falling(step, level) < 0
<1> DEFINE cut == (-step * level) \div (Full + 1)
<1>1. -step * level \in Nat
  <2>1. -step \in Nat /\ level \in Nat
    OBVIOUS
  <2> QED
    BY <2>1, ProductOfNats
<1>2. cut \in Nat
  BY <1>1, Division
<1> HIDE DEF cut
<1>3. (IF cut = 0 THEN -1 ELSE -cut) \in Int /\ (IF cut = 0 THEN -1 ELSE -cut) < 0
  BY <1>2
<1> QED
  BY <1>3 DEF Sound!Falling, cut

(* What a step of the envelope is: a wait, and a change that falls when    *)
(* the course is a falling one.                                            *)
LEMMA StepOfCourse ==
  ASSUME Sound!SpuAssumption, NEW rate \in 0..127, NEW dec \in BOOLEAN, NEW exp \in BOOLEAN,
         NEW level \in 0..Full, NEW e, e = Sound!EnvelopeStep(rate, dec, exp, level)
  PROVE  e.wait \in Nat /\ e.step \in Int /\ (dec = TRUE => e.step < 0)
<1> DEFINE shift == rate \div 4
           low == rate % 4
           base == IF dec THEN low - 8 ELSE 7 - low
           raw == base * 2 ^ Sound!Above0(Pivot - shift)
           wait == 2 ^ Sound!Above0(shift - Pivot)
           slow == exp /\ ~ dec /\ 4 * level > 3 * (Full + 1)
<1>1. shift \in 0..31 /\ low \in 0..3
  OBVIOUS
<1>2. e = [wait |-> (IF slow THEN 4 * wait ELSE wait) - 1,
           step |-> IF exp /\ dec THEN Sound!Falling(raw, level) ELSE raw]
  BY DEF Sound!EnvelopeStep
<1> HIDE DEF shift, low
<1>3. Sound!Above0(Pivot - shift) \in 0..30 /\ Sound!Above0(shift - Pivot) \in 0..30
  BY <1>1 DEF Sound!SpuAssumption, Sound!Above0
<1>4. 2 ^ Sound!Above0(Pivot - shift) \in Nat \ {0} /\ wait \in Nat \ {0}
  BY <1>3, Zenon DEF Sound!SpuAssumption
<1>5. raw \in Int /\ (dec => raw < 0)
  <2>1. CASE dec
    BY <1>1, <1>4, <2>1, ProductNegative
  <2>2. CASE ~dec
    BY <1>1, <1>4, <2>2, ProductOfNats
  <2> QED
    BY <2>1, <2>2
<1> HIDE DEF raw, wait, slow
<1>6. (IF slow THEN 4 * wait ELSE wait) - 1 \in Nat
  BY <1>4
<1>7. dec => Sound!Falling(raw, level) \in Int /\ Sound!Falling(raw, level) < 0
  BY <1>5, FallingFalls DEF Sound!SpuAssumption
<1> QED
  BY <1>2, <1>5, <1>6, <1>7

(* The members of a triple.                                                *)
LEMMA Triples ==
  ASSUME NEW x, NEW y, NEW z, NEW c, c = <<x, y, z>>
  PROVE  c[1] = x /\ c[2] = y /\ c[3] = z
  OBVIOUS

(* A step of the envelope keeps the voice's type.  A released voice goes   *)
(* down or off; a voice at level zero that is released or off stays there. *)
LEMMA Ticks ==
  ASSUME Sound!SpuAssumption, NEW s \in Voice, s.phase # "off", NEW adsr \in Sound!Settings,
         NEW t, t = Sound!TickEnvelope(s, adsr)
  PROVE  /\ t \in Voice
         /\ s.phase = "release" =>
              /\ t.phase \in {"release", "off"}
              /\ t.phase = "off" => t.vol = 0
              /\ s.vol = 0 => t.vol = 0
              /\ s.wait = 0 => t.vol < s.vol \/ t.phase = "off"
         /\ s.phase # "release" => t.phase # "off"
<1> DEFINE c == Sound!Course(s.phase, adsr)
           e == Sound!EnvelopeStep(c[1], c[2], c[3], s.vol)
           vol == Sound!Clamp(s.vol + e.step)
<1>1. c[1] \in 0..127 /\ c[2] \in BOOLEAN /\ c[3] \in BOOLEAN /\ (s.phase = "release" => c[2] = TRUE)
  <2>1. s.phase \in {"attack", "decay", "sustain", "release"}
    BY DEF Voice, Sound!Phases
  <2>2. /\ adsr.attack \in 0..127 /\ adsr.decay \in 0..127 /\ adsr.sustain \in 0..127
        /\ adsr.release \in 0..127 /\ TRUE \in BOOLEAN /\ FALSE \in BOOLEAN
        /\ adsr.attackExp \in BOOLEAN /\ adsr.sustainDec \in BOOLEAN
        /\ adsr.sustainExp \in BOOLEAN /\ adsr.releaseExp \in BOOLEAN
    BY DEF Sound!Settings
  <2>3. CASE s.phase = "attack"
    <3>1. c = <<adsr.attack, FALSE, adsr.attackExp>>
      BY <2>3 DEF Sound!Course
    <3>2. c[1] = adsr.attack /\ c[2] = FALSE /\ c[3] = adsr.attackExp
      BY <3>1, Triples
    <3> HIDE DEF c
    <3> QED
      BY <2>2, <2>3, <3>2, Zenon
  <2>4. CASE s.phase = "decay"
    <3>1. c = <<adsr.decay, TRUE, TRUE>>
      BY <2>4 DEF Sound!Course
    <3>2. c[1] = adsr.decay /\ c[2] = TRUE /\ c[3] = TRUE
      BY <3>1, Triples
    <3> HIDE DEF c
    <3> QED
      BY <2>2, <2>4, <3>2, Zenon
  <2>5. CASE s.phase = "sustain"
    <3>1. c = <<adsr.sustain, adsr.sustainDec, adsr.sustainExp>>
      BY <2>5 DEF Sound!Course
    <3>2. c[1] = adsr.sustain /\ c[2] = adsr.sustainDec /\ c[3] = adsr.sustainExp
      BY <3>1, Triples
    <3> HIDE DEF c
    <3> QED
      BY <2>2, <2>5, <3>2, Zenon
  <2>6. CASE s.phase = "release"
    <3>1. c = <<adsr.release, TRUE, adsr.releaseExp>>
      BY <2>6 DEF Sound!Course
    <3>2. c[1] = adsr.release /\ c[2] = TRUE /\ c[3] = adsr.releaseExp
      BY <3>1, Triples
    <3> HIDE DEF c
    <3> QED
      BY <2>2, <2>6, <3>2, Zenon
  <2> HIDE DEF c
  <2> QED
    BY <2>1, <2>3, <2>4, <2>5, <2>6
<1>2. CASE s.wait > 0
  <2>1. t = [s EXCEPT !.wait = @ - 1]
    BY <1>2 DEF Sound!TickEnvelope
  <2> QED
    BY <1>2, <2>1 DEF Voice
<1>3. CASE ~(s.wait > 0)
  <2>1. t = [s EXCEPT !.wait = e.wait, !.vol = vol, !.phase = Sound!NextPhase(s.phase, vol, adsr)]
    BY <1>3 DEF Sound!TickEnvelope
  <2> HIDE DEF c
  <2>2. e.wait \in Nat /\ e.step \in Int /\ (c[2] = TRUE => e.step < 0)
    BY <1>1, StepOfCourse DEF Voice
  <2> HIDE DEF e
  <2>3. vol \in 0..Full /\ (e.step < 0 => vol < s.vol \/ vol = 0)
    BY <2>2 DEF Sound!Clamp, Sound!SpuAssumption, Voice
  <2> HIDE DEF vol
  <2>4. Sound!NextPhase(s.phase, vol, adsr) \in Sound!Phases
    BY DEF Sound!NextPhase, Sound!Phases, Voice
  <2>5. t \in Voice
    BY <2>1, <2>2, <2>3, <2>4 DEF Voice
  <2>6. t.vol = vol /\ t.phase = Sound!NextPhase(s.phase, vol, adsr)
    BY <2>1 DEF Voice
  <2>7. s.phase # "release" => t.phase # "off"
    BY <2>6 DEF Sound!NextPhase
  <2>8. s.phase = "release" => t.phase = IF vol = 0 THEN "off" ELSE "release"
    BY <2>6 DEF Sound!NextPhase
  <2> QED
    BY <1>1, <2>2, <2>3, <2>5, <2>6, <2>7, <2>8 DEF Voice
<1> QED
  BY <1>2, <1>3
-----------------------------------------------------------------------------
(* A sample. *)

(* What a voice keeps when it moves on in its sample,                      *)
LEMMA VoiceMoved ==
  ASSUME NEW s \in Voice, NEW b \in Places, NEW n \in 0..Span,
         NEW t, t \in {[s EXCEPT !.at = b], [s EXCEPT !.loop = b], [s EXCEPT !.pos = n]}
  PROVE  t \in Voice /\ t.phase = s.phase /\ t.vol = s.vol /\ t.wait = s.wait
  BY DEF Voice

(* and when its key goes off.                                              *)
LEMMA VoiceReleased ==
  ASSUME NEW s \in Voice, NEW t, t = [s EXCEPT !.phase = "release", !.wait = 0]
  PROVE  t \in Voice /\ t.vol = s.vol /\ t.phase = "release"
  BY DEF Voice, Sound!Phases

(* Where the loop flags send a voice, it stays a voice.                    *)
LEMMA Steers ==
  ASSUME Sound!SpuAssumption, SpuTyped, NEW s \in Voice, s.phase # "off",
         NEW t, t = Sound!Steered(Sound!Captured(s))
  PROVE  /\ t \in Voice /\ t.phase # "off" /\ t.wait = s.wait
         /\ s.phase = "release" => t.phase = "release"
         /\ t.vol = s.vol \/ (t.vol = 0 /\ t.phase = "release")
         /\ "end" \in spuRam[s.at] /\ "repeat" \notin spuRam[s.at] => t.vol = 0 /\ t.phase = "release"
<1> DEFINE r == Sound!Captured(s)
<1>1. r \in Voice /\ r.at = s.at /\ r.phase = s.phase /\ r.vol = s.vol /\ r.wait = s.wait
  BY DEF Sound!Captured, Voice
<1> HIDE DEF r
<1>2. (r.at + 1) % Blocks \in Places
  BY <1>1 DEF Voice, Places, Sound!SpuAssumption
<1>3. 0 \in 0..Full /\ 0 \in 0..Span /\ "release" \in Sound!Phases
  BY DEF Sound!SpuAssumption, Sound!Phases
<1>4. CASE "end" \notin spuRam[r.at]
  <2>1. t = [r EXCEPT !.at = (r.at + 1) % Blocks]
    BY <1>4 DEF Sound!Steered, r
  <2>2. t \in Voice /\ t.phase = r.phase /\ t.vol = r.vol /\ t.wait = r.wait
    BY <1>1, <1>2, <1>3, <2>1, VoiceMoved
  <2> QED
    BY <1>1, <1>4, <2>2
<1>5. CASE "end" \in spuRam[r.at] /\ "repeat" \in spuRam[r.at]
  <2>1. t = [r EXCEPT !.at = r.loop]
    BY <1>5 DEF Sound!Steered, r
  <2>2. r.loop \in Places
    BY <1>1 DEF Voice
  <2>3. t \in Voice /\ t.phase = r.phase /\ t.vol = r.vol /\ t.wait = r.wait
    BY <1>1, <1>3, <2>1, <2>2, VoiceMoved
  <2> QED
    BY <1>1, <1>5, <2>3
<1>6. CASE "end" \in spuRam[r.at] /\ "repeat" \notin spuRam[r.at]
  <2>1. t = [r EXCEPT !.at = r.loop, !.phase = "release", !.vol = 0]
    BY <1>6 DEF Sound!Steered, r
  <2> QED
    BY <1>1, <1>3, <1>6, <2>1 DEF Voice
<1> QED
  BY <1>4, <1>5, <1>6

(* What a sample makes of a voice.                                         *)
LEMMA Samples ==
  ASSUME Sound!SpuAssumption, SpuTyped, NEW v \in Voices
  PROVE  /\ Sound!Stepped(v) \in Voice
         /\ ~ Sound!Playing(v) => Sound!Stepped(v) = spuVoice[v]
         /\ Sound!Playing(v) /\ Sound!Stepped(v).phase = "off" => Sound!Stepped(v).vol = 0
         /\ spuVoice[v].phase = "release" =>
              /\ Sound!Stepped(v).phase \in {"release", "off"}
              /\ spuVoice[v].vol = 0 => Sound!Stepped(v).vol = 0
              /\ spuVoice[v].wait = 0 => Sound!Stepped(v).vol < spuVoice[v].vol \/ Sound!Stepped(v).phase = "off"
         /\ Sound!Fetches(v) /\ "end" \in spuRam[spuVoice[v].at] /\ "repeat" \notin spuRam[spuVoice[v].at] =>
              Sound!Stepped(v).phase \in {"release", "off"} /\ Sound!Stepped(v).vol = 0
<1>1. spuVoice[v] \in Voice /\ spuRegs[v].adsr \in Sound!Settings /\ spuRegs[v].pitch \in 0..(Span - 1)
  BY DEF SpuTyped, VoiceRegisters
<1>2. CASE ~ Sound!Playing(v)
  BY <1>1, <1>2 DEF Sound!Stepped, Sound!Playing, Sound!Fetches
<1>3. CASE Sound!Playing(v)
  <2> DEFINE s == spuVoice[v]
             moved == IF Sound!Fetches(v)
                      THEN Sound!Steered(Sound!Captured([s EXCEPT !.pos = @ + spuRegs[v].pitch - Span]))
                      ELSE [s EXCEPT !.pos = @ + spuRegs[v].pitch]
  <2>1. Sound!Stepped(v) = Sound!TickEnvelope(moved, spuRegs[v].adsr)
    BY <1>3 DEF Sound!Stepped
  <2>2. s.phase # "off" /\ s.pos \in 0..Span
    BY <1>1, <1>3 DEF Sound!Playing, Voice
  <2>3. /\ moved \in Voice /\ moved.phase # "off" /\ moved.wait = s.wait
        /\ s.phase = "release" => moved.phase = "release"
        /\ moved.vol = s.vol \/ (moved.vol = 0 /\ moved.phase = "release")
        /\ Sound!Fetches(v) /\ "end" \in spuRam[s.at] /\ "repeat" \notin spuRam[s.at] =>
              moved.vol = 0 /\ moved.phase = "release"
    <3>1. CASE Sound!Fetches(v)
      <4> DEFINE r == [s EXCEPT !.pos = @ + spuRegs[v].pitch - Span]
      <4>1. s.pos + spuRegs[v].pitch - Span \in 0..Span
        BY <1>1, <2>2, <3>1 DEF Sound!Fetches, Sound!SpuAssumption
      <4>2. r \in Voice /\ r.phase = s.phase /\ r.vol = s.vol /\ r.wait = s.wait /\ r.at = s.at
        BY <1>1, <4>1 DEF Voice
      <4>3. moved = Sound!Steered(Sound!Captured(r))
        BY <3>1
      <4> HIDE DEF r, moved
      <4> QED
        BY <2>2, <4>2, <4>3, Steers
    <3>2. CASE ~ Sound!Fetches(v)
      <4>1. s.pos + spuRegs[v].pitch \in 0..Span
        BY <1>1, <1>3, <2>2, <3>2 DEF Sound!Fetches, Sound!SpuAssumption
      <4>2. moved = [s EXCEPT !.pos = s.pos + spuRegs[v].pitch]
        BY <3>2
      <4>3. 0 \in Places
        BY DEF Places, Sound!SpuAssumption
      <4> HIDE DEF moved
      <4>4. moved \in Voice /\ moved.phase = s.phase /\ moved.vol = s.vol /\ moved.wait = s.wait
        BY <1>1, <4>1, <4>2, <4>3, VoiceMoved
      <4> QED
        BY <2>2, <3>2, <4>4
    <3> QED
      BY <3>1, <3>2
  <2> HIDE DEF moved
  <2>4. moved.vol \in 0..Full /\ s.vol \in 0..Full
    BY <1>1, <2>3 DEF Voice
  <2> QED
    BY <1>1, <1>3, <2>1, <2>2, <2>3, <2>4, Ticks DEF Voice
<1> QED
  BY <1>2, <1>3
-----------------------------------------------------------------------------
(* Every step. *)
SpuInv == SpuTyped /\ Sound!OneShotStaysSilent /\ Sound!FlagUnderEnable

(* All voices start off.                                                   *)
LEMMA SpuStarts == ASSUME Sound!SpuAssumption PROVE Sound!Init => SpuInv
<1> SUFFICES ASSUME Sound!Init PROVE SpuInv
  OBVIOUS
<1>1. 0 \in Places /\ 0 \in 0..Full /\ 0 \in 0..Span
  BY DEF Sound!SpuAssumption, Places
<1>2. Sound!Silent \in Voice
  BY <1>1 DEF Sound!Silent, Voice, Sound!Phases
<1>3. spuVoice \in [Voices -> Voice] /\ \A v \in Voices : spuVoice[v] = Sound!Silent
  BY <1>2 DEF Sound!Init
<1>4. spuRegs \in [Voices -> VoiceRegisters]
  <2>1. PICK e \in Envelopes : spuRegs = [v \in Voices |-> [start |-> 0, pitch |-> CHOOSE p \in Pitches : TRUE, adsr |-> e]]
    BY DEF Sound!Init
  <2>2. (CHOOSE p \in Pitches : TRUE) \in 0..(Span - 1) /\ e \in Sound!Settings
    BY DEF Sound!SpuAssumption
  <2> QED
    BY <1>1, <2>1, <2>2 DEF VoiceRegisters
<1>5. spuRam \in [Places -> SUBSET {"start", "end", "repeat"}]
  BY DEF Sound!Init, Places
<1>6. SpuTyped
  BY <1>1, <1>3, <1>4, <1>5 DEF Sound!Init, SpuTyped
<1>7. Sound!OneShotStaysSilent
  BY <1>3 DEF Sound!OneShotStaysSilent, Sound!Silent
<1> QED
  BY <1>6, <1>7 DEF SpuInv, Sound!FlagUnderEnable, Sound!Init

(* A sample lets released voices die away,                                 *)
LEMMA SampleKeeps ==
  ASSUME Sound!SpuAssumption, SpuInv, Sound!GenerateSample
  PROVE  SpuInv' /\ Sound!DiesAwayStep
<1>1. \A v \in Voices : spuVoice'[v] = Sound!Stepped(v)
  BY DEF Sound!GenerateSample
<1>2. spuVoice' \in [Voices -> Voice]
  BY Samples DEF Sound!GenerateSample, SpuInv
<1>3. UNCHANGED <<spuRegs, spuRam, spuXfer, spuCnt, spuWatched>>
  BY DEF Sound!GenerateSample
<1>4. spuEndx' \subseteq Voices /\ spuOver' \subseteq Voices
  BY DEF Sound!GenerateSample, SpuInv, SpuTyped
<1>5. spuIrqFlag' \in BOOLEAN /\ (spuIrqFlag' => spuCnt'.irq)
  BY DEF Sound!GenerateSample, Sound!Watching, SpuInv, SpuTyped, Sound!FlagUnderEnable
<1>6. Sound!OneShotStaysSilent'
  <2> SUFFICES ASSUME NEW v \in Voices, v \in spuOver' \/ spuVoice'[v].phase = "off"
               PROVE  spuVoice'[v].vol = 0 /\ spuVoice'[v].phase \in {"release", "off"}
    BY DEF Sound!OneShotStaysSilent, Sound!Playing
  <2>1. CASE ~ Sound!Playing(v)
    BY <1>1, <2>1, Samples DEF SpuInv, Sound!OneShotStaysSilent
  <2>2. CASE Sound!Playing(v) /\ v \in spuOver
    <3>1. spuVoice[v].vol = 0 /\ spuVoice[v].phase = "release"
      BY <2>2 DEF SpuInv, Sound!OneShotStaysSilent, Sound!Playing
    <3> QED
      BY <1>1, <3>1, Samples DEF SpuInv
  <2>3. CASE Sound!Playing(v) /\ v \in spuOver' \ spuOver
    <3>1. Sound!Fetches(v) /\ "end" \in spuRam[spuVoice[v].at] /\ "repeat" \notin spuRam[spuVoice[v].at]
      BY <2>3 DEF Sound!GenerateSample
    <3> QED
      BY <1>1, <3>1, Samples DEF SpuInv
  <2>4. CASE Sound!Playing(v) /\ spuVoice'[v].phase = "off"
    BY <1>1, <2>4, Samples DEF SpuInv
  <2> QED
    BY <2>1, <2>2, <2>3, <2>4
<1>7. Sound!DiesAwayStep
  BY <1>1, Samples DEF Sound!DiesAwayStep, SpuInv
<1> QED
  BY <1>2, <1>3, <1>4, <1>5, <1>6, <1>7 DEF SpuInv, SpuTyped, Sound!FlagUnderEnable

(* A write that leaves the voices alone.                                   *)
LEMMA KeepsVoices ==
  ASSUME SpuInv, UNCHANGED <<spuRegs, spuVoice, spuEndx, spuOver>>,
         spuRam' \in [Places -> SUBSET {"start", "end", "repeat"}],
         spuXfer' \in Places, spuWatched' \in Places, spuCnt' \in [on : BOOLEAN, irq : BOOLEAN],
         spuIrqFlag' \in BOOLEAN, spuIrqFlag' => spuCnt'.irq
  PROVE  SpuInv'
<1>1. SpuTyped'
  BY Zenon DEF SpuInv, SpuTyped
<1>2. Sound!OneShotStaysSilent'
  BY DEF SpuInv, Sound!OneShotStaysSilent, Sound!Playing
<1> QED
  BY <1>1, <1>2 DEF SpuInv, Sound!FlagUnderEnable

(* and no register access brings one back.                                 *)
LEMMA WritesKeep ==
  ASSUME Sound!SpuAssumption, SpuInv, [Sound!Next]_Sound!vars, ~ Sound!GenerateSample
  PROVE  SpuInv' /\ Sound!DiesAwayStep
<1>0. Sound!DiesAwayStep
  BY DEF Sound!DiesAwayStep
<1> USE DEF SpuInv
<1>1. ASSUME NEW mask \in SUBSET Voices, Sound!KeyOn(mask) PROVE SpuInv'
  <2>1. \A v \in Voices : spuVoice'[v] = IF v \in mask
                    THEN [phase |-> "attack", vol |-> 0, wait |-> 0,
                          at |-> spuRegs[v].start, loop |-> spuRegs[v].start, pos |-> Span]
                    ELSE spuVoice[v]
    BY <1>1 DEF Sound!KeyOn
  <2>2. spuVoice' \in [Voices -> Voice]
    <3>1. 0 \in 0..Full /\ Span \in 0..Span
      BY DEF Sound!SpuAssumption
    <3>2. \A v \in Voices : spuVoice'[v] \in Voice
      <4> SUFFICES ASSUME NEW v \in Voices PROVE spuVoice'[v] \in Voice
        OBVIOUS
      <4>1. spuRegs[v].start \in Places
        BY DEF SpuTyped, VoiceRegisters
      <4>2. [phase |-> "attack", vol |-> 0, wait |-> 0,
             at |-> spuRegs[v].start, loop |-> spuRegs[v].start, pos |-> Span] \in Voice
        BY <3>1, <4>1 DEF Voice, Sound!Phases
      <4>3. spuVoice[v] \in Voice
        BY DEF SpuTyped
      <4> QED
        BY <2>1, <4>2, <4>3
    <3> QED
      BY <1>1, <3>2 DEF Sound!KeyOn
  <2>3. SpuTyped'
    BY <1>1, <2>2 DEF Sound!KeyOn, SpuTyped
  <2>4. Sound!OneShotStaysSilent'
    BY <1>1, <2>1 DEF Sound!KeyOn, Sound!OneShotStaysSilent, Sound!Playing
  <2> QED
    BY <1>1, <2>3, <2>4 DEF Sound!KeyOn, Sound!FlagUnderEnable
<1>2. ASSUME NEW mask \in SUBSET Voices, Sound!KeyOff(mask) PROVE SpuInv'
  <2>1. \A v \in Voices :
          \/ spuVoice'[v] = spuVoice[v]
          \/ Sound!Playing(v) /\ spuVoice'[v] = [spuVoice[v] EXCEPT !.phase = "release", !.wait = 0]
    BY <1>2 DEF Sound!KeyOff
  <2>2. \A v \in Voices : /\ spuVoice'[v] \in Voice /\ spuVoice'[v].vol = spuVoice[v].vol
                          /\ spuVoice'[v].phase \in {spuVoice[v].phase, "release"}
                          /\ ~ Sound!Playing(v) => spuVoice'[v] = spuVoice[v]
                          /\ spuVoice'[v].phase = "off" => ~ Sound!Playing(v)
    <3> SUFFICES ASSUME NEW v \in Voices
                 PROVE  /\ spuVoice'[v] \in Voice /\ spuVoice'[v].vol = spuVoice[v].vol
                        /\ spuVoice'[v].phase \in {spuVoice[v].phase, "release"}
                        /\ ~ Sound!Playing(v) => spuVoice'[v] = spuVoice[v]
                        /\ spuVoice'[v].phase = "off" => ~ Sound!Playing(v)
      OBVIOUS
    <3>1. spuVoice[v] \in Voice
      BY DEF SpuTyped
    <3>2. CASE spuVoice'[v] = spuVoice[v]
      BY <3>1, <3>2 DEF Sound!Playing
    <3>3. CASE Sound!Playing(v) /\ spuVoice'[v] = [spuVoice[v] EXCEPT !.phase = "release", !.wait = 0]
      <4>1. spuVoice'[v] \in Voice /\ spuVoice'[v].vol = spuVoice[v].vol /\ spuVoice'[v].phase = "release"
        BY <3>1, <3>3, VoiceReleased
      <4> QED
        BY <3>3, <4>1
    <3> QED
      BY <2>1, <3>2, <3>3
  <2>3. spuVoice' \in [Voices -> Voice]
    BY <1>2, <2>2 DEF Sound!KeyOff
  <2>4. SpuTyped'
    BY <1>2, <2>3 DEF Sound!KeyOff, SpuTyped
  <2>5. Sound!OneShotStaysSilent'
    BY <1>2, <2>2 DEF Sound!KeyOff, Sound!OneShotStaysSilent, Sound!Playing
  <2> QED
    BY <1>2, <2>4, <2>5 DEF Sound!KeyOff, Sound!FlagUnderEnable
<1>3. ASSUME NEW v \in Voices, Sound!WriteVoice(v) PROVE SpuInv'
  <2>1. spuRegs' \in [Voices -> VoiceRegisters]
    <3>1. spuRegs[v] \in VoiceRegisters
      BY DEF SpuTyped
    <3>2. /\ \A b \in Places : [spuRegs[v] EXCEPT !.start = b] \in VoiceRegisters
          /\ \A p \in Pitches : [spuRegs[v] EXCEPT !.pitch = p] \in VoiceRegisters
      BY <3>1 DEF VoiceRegisters, Sound!SpuAssumption
    <3>3. \/ \E b \in Places : spuRegs' = [spuRegs EXCEPT ![v] = [spuRegs[v] EXCEPT !.start = b]]
          \/ \E p \in Pitches : spuRegs' = [spuRegs EXCEPT ![v] = [spuRegs[v] EXCEPT !.pitch = p]]
      BY <1>3, Zenon DEF Sound!WriteVoice, Places
    <3>4. \E x \in VoiceRegisters : spuRegs' = [spuRegs EXCEPT ![v] = x]
      <4>1. CASE \E b \in Places : spuRegs' = [spuRegs EXCEPT ![v] = [spuRegs[v] EXCEPT !.start = b]]
        BY <3>2, <4>1, Zenon DEF Sound!SpuAssumption
      <4>2. CASE \E p \in Pitches : spuRegs' = [spuRegs EXCEPT ![v] = [spuRegs[v] EXCEPT !.pitch = p]]
        BY <3>2, <4>2, Zenon DEF Sound!SpuAssumption
      <4> QED
        BY <3>3, <4>1, <4>2
    <3>5. spuRegs \in [Voices -> VoiceRegisters]
      BY DEF SpuTyped
    <3> QED
      BY <3>4, <3>5
  <2> QED
    BY <1>3, <2>1 DEF Sound!WriteVoice, SpuTyped, Sound!OneShotStaysSilent, Sound!Playing, Sound!FlagUnderEnable
<1>4. ASSUME NEW v \in Voices, Sound!WriteRepeat(v) PROVE SpuInv'
  <2>1. PICK b \in Places : spuVoice' = [spuVoice EXCEPT ![v].loop = b]
    BY <1>4 DEF Sound!WriteRepeat, Places
  <2>2. \A w \in Voices : /\ spuVoice'[w] \in Voice
                          /\ spuVoice'[w].phase = spuVoice[w].phase /\ spuVoice'[w].vol = spuVoice[w].vol
    BY <2>1 DEF SpuTyped, Voice
  <2>3. SpuTyped'
    BY <1>4, <2>1, <2>2 DEF Sound!WriteRepeat, SpuTyped
  <2> QED
    BY <1>4, <2>2, <2>3 DEF Sound!WriteRepeat, Sound!OneShotStaysSilent, Sound!Playing, Sound!FlagUnderEnable
<1> HIDE DEF SpuInv
<1>5. CASE Sound!WriteControl
  <2>1. UNCHANGED <<spuRegs, spuVoice, spuEndx, spuOver>>
    BY <1>5 DEF Sound!WriteControl
  <2>2. spuCnt' \in [on : BOOLEAN, irq : BOOLEAN] /\ spuIrqFlag' \in BOOLEAN /\ (spuIrqFlag' => spuCnt'.irq)
    BY <1>5, Zenon DEF Sound!WriteControl, SpuInv, SpuTyped
  <2>3. spuRam' \in [Places -> SUBSET {"start", "end", "repeat"}] /\ spuXfer' \in Places /\ spuWatched' \in Places
    BY <1>5 DEF Sound!WriteControl, SpuInv, SpuTyped
  <2> QED
    BY <1>0, <2>1, <2>2, <2>3, KeepsVoices
<1>6. CASE Sound!WriteAddress
  <2>1. UNCHANGED <<spuRegs, spuVoice, spuEndx, spuOver>>
    BY <1>6 DEF Sound!WriteAddress
  <2>2. spuCnt' \in [on : BOOLEAN, irq : BOOLEAN] /\ spuIrqFlag' \in BOOLEAN /\ (spuIrqFlag' => spuCnt'.irq)
    BY <1>6, Zenon DEF Sound!WriteAddress, SpuInv, SpuTyped, Sound!FlagUnderEnable
  <2>3. spuRam' \in [Places -> SUBSET {"start", "end", "repeat"}] /\ spuXfer' \in Places /\ spuWatched' \in Places
    BY <1>6 DEF Sound!WriteAddress, SpuInv, SpuTyped, Places
  <2> QED
    BY <1>0, <2>1, <2>2, <2>3, KeepsVoices
<1>7. CASE Sound!WriteData
  <2>1. UNCHANGED <<spuRegs, spuVoice, spuEndx, spuOver>>
    BY <1>7 DEF Sound!WriteData
  <2>2. spuCnt' \in [on : BOOLEAN, irq : BOOLEAN] /\ spuIrqFlag' \in BOOLEAN /\ (spuIrqFlag' => spuCnt'.irq)
    BY <1>7, Zenon DEF Sound!WriteData, Sound!Watching, SpuInv, SpuTyped, Sound!FlagUnderEnable
  <2>3. spuRam' \in [Places -> SUBSET {"start", "end", "repeat"}]
    BY <1>7 DEF Sound!WriteData, SpuInv, SpuTyped, Sound!SpuAssumption
  <2>4. spuXfer' \in Places /\ spuWatched' \in Places
    BY <1>7 DEF Sound!WriteData, SpuInv, SpuTyped, Places, Sound!SpuAssumption
  <2> QED
    BY <1>0, <2>1, <2>2, <2>3, <2>4, KeepsVoices
<1>8. CASE UNCHANGED Sound!vars
  <2>1. UNCHANGED <<spuRegs, spuVoice, spuEndx, spuOver>> /\ UNCHANGED <<spuRam, spuXfer, spuWatched, spuCnt, spuIrqFlag>>
    BY <1>8 DEF Sound!vars
  <2>2. spuCnt' \in [on : BOOLEAN, irq : BOOLEAN] /\ spuIrqFlag' \in BOOLEAN /\ (spuIrqFlag' => spuCnt'.irq)
    BY <2>1, Zenon DEF SpuInv, SpuTyped, Sound!FlagUnderEnable
  <2>3. spuRam' \in [Places -> SUBSET {"start", "end", "repeat"}] /\ spuXfer' \in Places /\ spuWatched' \in Places
    BY <2>1 DEF SpuInv, SpuTyped
  <2> QED
    BY <1>0, <2>1, <2>2, <2>3, KeepsVoices
<1> QED
  BY <1>1, <1>2, <1>3, <1>4, <1>5, <1>6, <1>7, <1>8, <1>0 DEF Sound!Next

(* A released voice goes down with every step of its envelope until it is  *)
(* off, one that ran off a one-shot sample stays silent, and the interrupt *)
(* flag is up only under its enable (spu.rs: tick_envelope, fetch_block,   *)
(* write16).                                                               *)
THEOREM VoicesDoEnd == UnitsSpec => VoicesEnd
<1> DEFINE Inv == unit = "spu" => SpuInv
           units == <<unit, machineVars, cpuVars, dmaVars, gp0Vars, scanoutVars,
                      rasterVars, mdecVars, spuVars>>
<1>1. UnitsInit => Inv
  BY SpuStarts, HardwareAssumption DEF UnitsInit, HardwareAssumption
<1>2. SpuInv /\ [Sound!Next]_Sound!vars => SpuInv' /\ [Sound!VoicesEndStep]_Sound!vars
  <2>1. SpuInv /\ [Sound!Next]_Sound!vars => SpuInv' /\ Sound!DiesAwayStep
    BY SampleKeeps, WritesKeep, HardwareAssumption DEF HardwareAssumption
  <2>2. SpuInv' => (Sound!TypeOK /\ Sound!OneShotStaysSilent /\ Sound!FlagUnderEnable)'
    BY SpuTypedOK, PTL DEF SpuInv
  <2> QED
    BY <2>1, <2>2 DEF Sound!VoicesEndStep
<1>3. Inv /\ [UnitsNext]_units => Inv' /\ [unit = "spu" => Sound!VoicesEndStep]_spuVars
  <2> SUFFICES ASSUME Inv, [UnitsNext]_units, unit = "spu" \/ unit' = "spu"
               PROVE  SpuInv' /\ [Sound!VoicesEndStep]_spuVars
    BY DEF UnitsNext
  <2>1. unit = "spu"
    BY DEF UnitsNext
  <2>2. [Sound!Next]_Sound!vars
    BY <2>1 DEF UnitsNext, spuVars, Sound!vars
  <2> QED
    BY <1>2, <2>1, <2>2 DEF Sound!vars, spuVars
<1> QED
  BY <1>1, <1>3, PTL DEF UnitsSpec, VoicesEnd
-----------------------------------------------------------------------------
(* The rasterizer (module Raster), for VRAM and drawing areas of every     *)
(* size, every offset, every vertex and every value.                       *)

(* Points of the plane, on VRAM or off it.                                 *)
Plane == Int \X Int

(* Turning with numbers: which side of bc the point a is on, the three     *)
(* turns about a point, and a point on bc.                                 *)
LEMMA TurnsOfNumbers ==
  ASSUME NEW a1 \in Int, NEW a2 \in Int, NEW b1 \in Int, NEW b2 \in Int,
         NEW c1 \in Int, NEW c2 \in Int, NEW p1 \in Int, NEW p2 \in Int
  PROVE  /\ (c1 - b1) * (a2 - b2) - (c2 - b2) * (a1 - b1)
              = (b1 - a1) * (c2 - a2) - (b2 - a2) * (c1 - a1)
         /\ (a1 - b1) * (p2 - b2) - (a2 - b2) * (p1 - b1)
              = -((b1 - a1) * (p2 - a2) - (b2 - a2) * (p1 - a1))
         /\ ((c1 - b1) * (p2 - b2) - (c2 - b2) * (p1 - b1))
              + ((a1 - c1) * (p2 - c2) - (a2 - c2) * (p1 - c1))
              + ((b1 - a1) * (p2 - a2) - (b2 - a2) * (p1 - a1))
              = (b1 - a1) * (c2 - a2) - (b2 - a2) * (c1 - a1)
<1>1. (c1 - b1) * (a2 - b2) - (c2 - b2) * (a1 - b1)
        = (b1 - a1) * (c2 - a2) - (b2 - a2) * (c1 - a1)
  OBVIOUS
<1>2. (a1 - b1) * (p2 - b2) - (a2 - b2) * (p1 - b1)
        = -((b1 - a1) * (p2 - a2) - (b2 - a2) * (p1 - a1))
  OBVIOUS
<1>3. ((c1 - b1) * (p2 - b2) - (c2 - b2) * (p1 - b1))
        + ((a1 - c1) * (p2 - c2) - (a2 - c2) * (p1 - c1))
        + ((b1 - a1) * (p2 - a2) - (b2 - a2) * (p1 - a1))
        = (b1 - a1) * (c2 - a2) - (b2 - a2) * (c1 - a1)
  OBVIOUS
<1> QED
  BY <1>1, <1>2, <1>3

(* A point on the line of bc, in numbers.                                  *)
LEMMA EdgeOfNumbers ==
  ASSUME NEW a1 \in Int, NEW a2 \in Int, NEW b1 \in Int, NEW b2 \in Int,
         NEW c1 \in Int, NEW c2 \in Int, NEW p1 \in Int, NEW p2 \in Int
  PROVE  /\ ((a1 - c1) * (p2 - c2) - (a2 - c2) * (p1 - c1)) * (c1 - b1)
              = ((b1 - a1) * (c2 - a2) - (b2 - a2) * (c1 - a1)) * (c1 - p1)
                + ((c1 - b1) * (p2 - b2) - (c2 - b2) * (p1 - b1)) * (a1 - c1)
         /\ ((a1 - c1) * (p2 - c2) - (a2 - c2) * (p1 - c1)) * (c2 - b2)
              = ((b1 - a1) * (c2 - a2) - (b2 - a2) * (c1 - a1)) * (c2 - p2)
                + ((c1 - b1) * (p2 - b2) - (c2 - b2) * (p1 - b1)) * (a2 - c2)
<1>1. ((a1 - c1) * (p2 - c2) - (a2 - c2) * (p1 - c1)) * (c1 - b1)
        = ((b1 - a1) * (c2 - a2) - (b2 - a2) * (c1 - a1)) * (c1 - p1)
          + ((c1 - b1) * (p2 - b2) - (c2 - b2) * (p1 - b1)) * (a1 - c1)
  OBVIOUS
<1>2. ((a1 - c1) * (p2 - c2) - (a2 - c2) * (p1 - c1)) * (c2 - b2)
        = ((b1 - a1) * (c2 - a2) - (b2 - a2) * (c1 - a1)) * (c2 - p2)
          + ((c1 - b1) * (p2 - b2) - (c2 - b2) * (p1 - b1)) * (a2 - c2)
  OBVIOUS
<1> QED
  BY <1>1, <1>2

(* A turn changes its sign with the order of its edge, is the same from    *)
(* every corner on, and those of a point about a triangle add up to the    *)
(* triangle's.                                                             *)
LEMMA TurnsAdd ==
  ASSUME NEW a \in Plane, NEW b \in Plane, NEW c \in Plane, NEW p \in Plane
  PROVE  /\ Pixels!Orient2d(a, b, p) \in Int
         /\ Pixels!Orient2d(b, a, p) = -Pixels!Orient2d(a, b, p)
         /\ Pixels!Orient2d(b, c, a) = Pixels!Orient2d(a, b, c)
         /\ Pixels!Orient2d(b, c, p) + Pixels!Orient2d(c, a, p) + Pixels!Orient2d(a, b, p)
              = Pixels!Orient2d(a, b, c)
<1>1. /\ a[1] \in Int /\ a[2] \in Int /\ b[1] \in Int /\ b[2] \in Int
      /\ c[1] \in Int /\ c[2] \in Int /\ p[1] \in Int /\ p[2] \in Int
  BY DEF Plane
<1>2. Pixels!Orient2d(a, b, p) \in Int
  BY <1>1 DEF Pixels!Orient2d
<1> QED
  BY <1>1, <1>2, TurnsOfNumbers DEF Pixels!Orient2d

(* On the line of bc, how far along it a point is tells its turn from ca.  *)
LEMMA OnTheEdge ==
  ASSUME NEW a \in Plane, NEW b \in Plane, NEW c \in Plane, NEW p \in Plane,
         Pixels!Orient2d(b, c, p) = 0, NEW k \in 1 .. 2
  PROVE  Pixels!Orient2d(c, a, p) * (c[k] - b[k])
           = Pixels!Orient2d(a, b, c) * (c[k] - p[k])
<1>1. /\ a[1] \in Int /\ a[2] \in Int /\ b[1] \in Int /\ b[2] \in Int
      /\ c[1] \in Int /\ c[2] \in Int /\ p[1] \in Int /\ p[2] \in Int
  BY DEF Plane
<1>2. CASE k = 1
  <2>1. Pixels!Orient2d(c, a, p) * (c[1] - b[1])
           = Pixels!Orient2d(a, b, c) * (c[1] - p[1])
             + Pixels!Orient2d(b, c, p) * (a[1] - c[1])
    BY <1>1, EdgeOfNumbers DEF Pixels!Orient2d
  <2>2. 0 * (a[1] - c[1]) = 0 /\ Pixels!Orient2d(a, b, c) * (c[1] - p[1]) \in Int
    BY <1>1 DEF Pixels!Orient2d
  <2> QED
    BY <1>2, <2>1, <2>2
<1>3. CASE k = 2
  <2>1. Pixels!Orient2d(c, a, p) * (c[2] - b[2])
           = Pixels!Orient2d(a, b, c) * (c[2] - p[2])
             + Pixels!Orient2d(b, c, p) * (a[2] - c[2])
    BY <1>1, EdgeOfNumbers DEF Pixels!Orient2d
  <2>2. 0 * (a[2] - c[2]) = 0 /\ Pixels!Orient2d(a, b, c) * (c[2] - p[2]) \in Int
    BY <1>1 DEF Pixels!Orient2d
  <2> QED
    BY <1>3, <2>1, <2>2
<1> QED
  BY <1>2, <1>3

(* Factors of equal products, the others of one sign, have one sign too.   *)
LEMMA SameSign ==
  ASSUME NEW x \in Int, NEW y \in Int, NEW u \in Int, NEW v \in Int,
         x * u = y * v, (u > 0 /\ v > 0) \/ (u < 0 /\ v < 0)
  PROVE  (y > 0 => x > 0) /\ (y < 0 => x < 0)
<1>1. ASSUME y > 0, x <= 0 PROVE FALSE
  <2>1. CASE u > 0 /\ v > 0
    <3>1. y * v > 0 /\ x * u <= 0
      BY <1>1, <2>1
    <3> QED
      BY <3>1
  <2>2. CASE u < 0 /\ v < 0
    <3>1. y * v < 0 /\ x * u >= 0
      BY <1>1, <2>2
    <3> QED
      BY <3>1
  <2> QED
    BY <2>1, <2>2
<1>2. ASSUME y < 0, x >= 0 PROVE FALSE
  <2>1. CASE u > 0 /\ v > 0
    <3>1. y * v < 0 /\ x * u >= 0
      BY <1>2, <2>1
    <3> QED
      BY <3>1
  <2>2. CASE u < 0 /\ v < 0
    <3>1. y * v > 0 /\ x * u <= 0
      BY <1>2, <2>2
    <3> QED
      BY <3>1
  <2> QED
    BY <2>1, <2>2
<1> QED
  BY <1>1, <1>2

(* A point of an edge other than its end is inside the edge that follows.  *)
LEMMA BeforeTheEnd ==
  ASSUME NEW a \in Plane, NEW b \in Plane, NEW c \in Plane, NEW p \in Plane,
         Pixels!Between(b, c, p)
  PROVE  /\ Pixels!Orient2d(a, b, c) > 0 => Pixels!Orient2d(c, a, p) > 0
         /\ Pixels!Orient2d(a, b, c) < 0 => Pixels!Orient2d(c, a, p) < 0
<1>1. /\ b[1] \in Int /\ b[2] \in Int /\ c[1] \in Int /\ c[2] \in Int
      /\ p[1] \in Int /\ p[2] \in Int
  BY DEF Plane
<1>2. Pixels!Orient2d(b, c, p) = 0 /\ p # c
  BY DEF Pixels!Between
<1>3. Pixels!Orient2d(c, a, p) \in Int /\ Pixels!Orient2d(a, b, c) \in Int
  BY TurnsAdd
<1>4. p[1] # c[1] \/ p[2] # c[2]
  BY <1>2 DEF Plane
<1>5. \A k \in 1 .. 2 :
        (b[k] <= p[k] /\ p[k] <= c[k]) \/ (c[k] <= p[k] /\ p[k] <= b[k])
  <2> SUFFICES ASSUME NEW k \in 1 .. 2
               PROVE  (b[k] <= p[k] /\ p[k] <= c[k]) \/ (c[k] <= p[k] /\ p[k] <= b[k])
    OBVIOUS
  <2>1. Pixels!Least(b[k], c[k]) <= p[k] /\ p[k] <= Pixels!Most(b[k], c[k])
    BY DEF Pixels!Between
  <2>2. b[k] \in Int /\ c[k] \in Int /\ p[k] \in Int
    BY <1>1
  <2> QED
    BY <2>1, <2>2 DEF Pixels!Least, Pixels!Most
<1>6. \E k \in 1 .. 2 : p[k] # c[k]
  BY <1>4
<1>7. PICK k \in 1 .. 2 : p[k] # c[k]
  BY <1>6
<1>8. c[k] \in Int /\ b[k] \in Int /\ p[k] \in Int
  BY <1>1
<1>9. (c[k] - b[k] > 0 /\ c[k] - p[k] > 0) \/ (c[k] - b[k] < 0 /\ c[k] - p[k] < 0)
  BY <1>5, <1>7, <1>8
<1>10. Pixels!Orient2d(c, a, p) * (c[k] - b[k]) = Pixels!Orient2d(a, b, c) * (c[k] - p[k])
  BY <1>2, OnTheEdge
<1> DEFINE x == Pixels!Orient2d(c, a, p)
           y == Pixels!Orient2d(a, b, c)
           u == c[k] - b[k]
           v == c[k] - p[k]
<1>11. /\ x \in Int /\ y \in Int /\ u \in Int /\ v \in Int /\ x * u = y * v
       /\ (u > 0 /\ v > 0) \/ (u < 0 /\ v < 0)
  BY <1>3, <1>8, <1>9, <1>10
<1>12. (y > 0 => x > 0) /\ (y < 0 => x < 0)
  <2> HIDE DEF x, y, u, v
  <2> QED
    BY <1>11, SameSign
<1> QED
  BY <1>12

(* Between the ends of an edge, whichever is first.                        *)
LEMMA BetweenEitherWay ==
  ASSUME NEW b \in Plane, NEW c \in Plane, NEW p \in Plane, Pixels!Between(b, c, p)
  PROVE  Pixels!Between(c, b, p)
<1>1. Pixels!Orient2d(b, c, p) \in Int /\ Pixels!Orient2d(c, b, p) = -Pixels!Orient2d(b, c, p)
  BY TurnsAdd
<1>2. \A k \in 1 .. 2 : b[k] \in Int /\ c[k] \in Int /\ p[k] \in Int
  BY DEF Plane
<1>3. \A k \in 1 .. 2 : /\ Pixels!Least(b[k], c[k]) = Pixels!Least(c[k], b[k])
                        /\ Pixels!Most(b[k], c[k]) = Pixels!Most(c[k], b[k])
  BY <1>2 DEF Pixels!Least, Pixels!Most
<1>4. /\ Pixels!Orient2d(b, c, p) = 0 /\ p # b /\ p # c
      /\ \A k \in 1 .. 2 : Pixels!Least(b[k], c[k]) <= p[k] /\ p[k] <= Pixels!Most(b[k], c[k])
  BY DEF Pixels!Between
<1>5. Pixels!Orient2d(c, b, p) = 0
  <2>1. \A x, y \in Int : x = -y => x + y = 0
    OBVIOUS
  <2>2. Pixels!Orient2d(c, b, p) \in Int
    BY TurnsAdd
  <2>3. Pixels!Orient2d(c, b, p) + Pixels!Orient2d(b, c, p) = 0
    BY <1>1, <2>1, <2>2
  <2> QED
    BY <1>4, <2>2, <2>3
<1>6. \A k \in 1 .. 2 : Pixels!Least(c[k], b[k]) <= p[k] /\ p[k] <= Pixels!Most(c[k], b[k])
  BY <1>3, <1>4
<1> QED
  BY <1>4, <1>5, <1>6 DEF Pixels!Between

(* A point between the ends of an edge lies within the two others.         *)
LEMMA BetweenTheEnds ==
  ASSUME NEW a \in Plane, NEW b \in Plane, NEW c \in Plane, NEW p \in Plane,
         Pixels!Between(b, c, p)
  PROVE  /\ Pixels!Orient2d(a, b, c) > 0
              => Pixels!Orient2d(c, a, p) > 0 /\ Pixels!Orient2d(a, b, p) > 0
         /\ Pixels!Orient2d(a, b, c) < 0
              => Pixels!Orient2d(c, a, p) < 0 /\ Pixels!Orient2d(a, b, p) < 0
<1>1. /\ Pixels!Orient2d(a, b, c) > 0 => Pixels!Orient2d(c, a, p) > 0
      /\ Pixels!Orient2d(a, b, c) < 0 => Pixels!Orient2d(c, a, p) < 0
  BY BeforeTheEnd
<1>2. /\ Pixels!Orient2d(a, c, b) > 0 => Pixels!Orient2d(b, a, p) > 0
      /\ Pixels!Orient2d(a, c, b) < 0 => Pixels!Orient2d(b, a, p) < 0
  BY BetweenEitherWay, BeforeTheEnd
<1>3. /\ Pixels!Orient2d(a, b, p) \in Int
      /\ Pixels!Orient2d(b, a, p) = -Pixels!Orient2d(a, b, p)
  BY TurnsAdd
<1>4. Pixels!Orient2d(a, c, b) = Pixels!Orient2d(b, a, c)
  BY TurnsAdd
<1>5. /\ Pixels!Orient2d(a, b, c) \in Int
      /\ Pixels!Orient2d(b, a, c) = -Pixels!Orient2d(a, b, c)
  BY TurnsAdd
<1> QED
  BY <1>1, <1>2, <1>3, <1>4, <1>5

(* The two ways along an edge never own the same point, and one of them    *)
(* owns a point between its ends.                                          *)
LEMMA OneWayOwns ==
  ASSUME NEW b \in Plane, NEW c \in Plane, NEW p \in Plane
  PROVE  /\ ~ (Pixels!Within(b, c, p) /\ Pixels!Within(c, b, p))
         /\ Pixels!Orient2d(b, c, p) > 0 => Pixels!Within(b, c, p)
         /\ Pixels!Orient2d(b, c, p) < 0 => Pixels!Within(c, b, p)
         /\ Pixels!Between(b, c, p) => Pixels!Within(b, c, p) \/ Pixels!Within(c, b, p)
<1>1. Pixels!Orient2d(b, c, p) \in Int /\ Pixels!Orient2d(c, b, p) = -Pixels!Orient2d(b, c, p)
  BY TurnsAdd
<1>2. b[1] \in Int /\ b[2] \in Int /\ c[1] \in Int /\ c[2] \in Int
  BY DEF Plane
<1>3. ~ (Pixels!IsTopLeft(b, c) /\ Pixels!IsTopLeft(c, b))
  BY <1>2 DEF Pixels!IsTopLeft
<1>4. Pixels!Between(b, c, p) => b[1] # c[1] \/ b[2] # c[2]
  <2> SUFFICES ASSUME Pixels!Between(b, c, p), b[1] = c[1], b[2] = c[2] PROVE FALSE
    OBVIOUS
  <2>1. \A k \in 1 .. 2 : b[k] \in Int /\ p[k] \in Int /\ b[k] = c[k]
    BY DEF Plane
  <2>2. \A k \in 1 .. 2 : Pixels!Least(b[k], c[k]) <= p[k] /\ p[k] <= Pixels!Most(b[k], c[k])
    BY DEF Pixels!Between
  <2>3. \A k \in 1 .. 2 : p[k] = b[k]
    BY <2>1, <2>2 DEF Pixels!Least, Pixels!Most
  <2>4. p = b
    BY <2>3 DEF Plane
  <2> QED
    BY <2>4 DEF Pixels!Between
<1>5. Pixels!Between(b, c, p) => Pixels!IsTopLeft(b, c) \/ Pixels!IsTopLeft(c, b)
  BY <1>2, <1>4 DEF Pixels!IsTopLeft
<1>6. Pixels!Between(b, c, p) => Pixels!Orient2d(b, c, p) = 0
  BY DEF Pixels!Between
<1>7. Pixels!Within(b, c, p) <=>
        Pixels!Orient2d(b, c, p) > 0
        \/ (Pixels!Orient2d(b, c, p) = 0 /\ Pixels!IsTopLeft(b, c))
  BY <1>1 DEF Pixels!Within
<1>8. Pixels!Within(c, b, p) <=>
        Pixels!Orient2d(b, c, p) < 0
        \/ (Pixels!Orient2d(b, c, p) = 0 /\ Pixels!IsTopLeft(c, b))
  BY <1>1 DEF Pixels!Within
<1> QED
  BY <1>1, <1>3, <1>5, <1>6, <1>7, <1>8

(* Whether a triangle is drawn at p.                                       *)
Covers(a, b, c, p) ==
  /\ p \in Pixels!Pixels /\ Pixels!InArea(p) /\ ~Pixels!Oversized({a, b, c})
  /\ \/ /\ Pixels!Orient2d(a, b, c) > 0
        /\ Pixels!Within(b, c, p) /\ Pixels!Within(c, a, p) /\ Pixels!Within(a, b, p)
     \/ /\ Pixels!Orient2d(a, b, c) < 0
        /\ Pixels!Within(a, c, p) /\ Pixels!Within(c, b, p) /\ Pixels!Within(b, a, p)

(* The three ways a triangle is wound (Gpu::triangle).                     *)
LEMMA TriangleIs ==
  ASSUME NEW a \in Plane, NEW b \in Plane, NEW c \in Plane, NEW s
  PROVE  /\ Pixels!Orient2d(a, b, c) = 0 => Pixels!Triangle(a, b, c, s) = <<>>
         /\ Pixels!Orient2d(a, b, c) > 0
              => Pixels!Triangle(a, b, c, s) = Pixels!Wound(a, b, c, s)
         /\ Pixels!Orient2d(a, b, c) < 0
              => Pixels!Triangle(a, b, c, s) = Pixels!Wound(b, a, c, <<s[2], s[1], s[3]>>)
<1>1. Pixels!Orient2d(a, b, c) \in Int
  BY TurnsAdd
<1>2. CASE Pixels!Orient2d(a, b, c) = 0
  BY <1>2 DEF Pixels!Triangle
<1>3. CASE Pixels!Orient2d(a, b, c) > 0
  BY <1>1, <1>3 DEF Pixels!Triangle
<1>4. CASE Pixels!Orient2d(a, b, c) < 0
  BY <1>1, <1>4 DEF Pixels!Triangle
<1> QED
  BY <1>1, <1>2, <1>3, <1>4

(* Where a triangle is drawn.                                              *)
LEMMA TriangleCovers ==
  ASSUME NEW a \in Plane, NEW b \in Plane, NEW c \in Plane, NEW s, NEW p
  PROVE  p \in DOMAIN Pixels!Triangle(a, b, c, s) <=> Covers(a, b, c, p)
<1>1. Pixels!Orient2d(a, b, c) \in Int
  BY TurnsAdd
<1>2. CASE Pixels!Orient2d(a, b, c) = 0
  <2>1. Pixels!Triangle(a, b, c, s) = <<>>
    BY <1>2, TriangleIs, Zenon
  <2>2. p \notin DOMAIN <<>>
    OBVIOUS
  <2>3. p \notin DOMAIN Pixels!Triangle(a, b, c, s)
    BY <2>1, <2>2
  <2> QED
    BY <1>2, <2>3 DEF Covers
<1>3. CASE Pixels!Orient2d(a, b, c) > 0
  <2>1. p \in DOMAIN Pixels!Wound(a, b, c, s) <=>
          /\ ~Pixels!Oversized({a, b, c}) /\ p \in Pixels!Pixels /\ Pixels!InArea(p)
          /\ Pixels!Within(b, c, p) /\ Pixels!Within(c, a, p) /\ Pixels!Within(a, b, p)
    BY DEF Pixels!Wound
  <2>2. Pixels!Triangle(a, b, c, s) = Pixels!Wound(a, b, c, s)
    BY <1>3, TriangleIs, Zenon
  <2> QED
    BY <1>1, <1>3, <2>1, <2>2 DEF Covers
<1>4. CASE Pixels!Orient2d(a, b, c) < 0
  <2> DEFINE t == <<s[2], s[1], s[3]>>
  <2> HIDE DEF t
  <2>1. p \in DOMAIN Pixels!Wound(b, a, c, t) <=>
          /\ ~Pixels!Oversized({b, a, c}) /\ p \in Pixels!Pixels /\ Pixels!InArea(p)
          /\ Pixels!Within(a, c, p) /\ Pixels!Within(c, b, p) /\ Pixels!Within(b, a, p)
    BY DEF Pixels!Wound
  <2>2. {b, a, c} = {a, b, c}
    OBVIOUS
  <2>3. Pixels!Triangle(a, b, c, s) = Pixels!Wound(b, a, c, t)
    BY <1>4, TriangleIs DEF t
  <2> QED
    BY <1>1, <1>4, <2>1, <2>2, <2>3 DEF Covers
<1> QED
  BY <1>1, <1>2, <1>3, <1>4

(* A triangle is drawn at every point strictly inside it.                  *)
LEMMA InsideIsCovered ==
  ASSUME NEW a \in Plane, NEW b \in Plane, NEW c \in Plane, NEW p \in Plane,
         p \in Pixels!Pixels, Pixels!InArea(p), ~Pixels!Oversized({a, b, c}),
         Pixels!Inside(a, b, c, p)
  PROVE  Covers(a, b, c, p)
<1> DEFINE x == Pixels!Orient2d(a, b, p)
           y == Pixels!Orient2d(b, c, p)
           z == Pixels!Orient2d(c, a, p)
<1>1. (x > 0 /\ y > 0 /\ z > 0) \/ (x < 0 /\ y < 0 /\ z < 0)
  BY DEF Pixels!Inside
<1>2. x \in Int /\ y \in Int /\ z \in Int /\ y + z + x = Pixels!Orient2d(a, b, c)
  BY TurnsAdd
<1>3. /\ x > 0 => Pixels!Within(a, b, p)
      /\ y > 0 => Pixels!Within(b, c, p)
      /\ z > 0 => Pixels!Within(c, a, p)
      /\ x < 0 => Pixels!Within(b, a, p)
      /\ y < 0 => Pixels!Within(c, b, p)
      /\ z < 0 => Pixels!Within(a, c, p)
  BY OneWayOwns
<1>4. /\ x > 0 /\ y > 0 /\ z > 0 => Pixels!Orient2d(a, b, c) > 0
      /\ x < 0 /\ y < 0 /\ z < 0 => Pixels!Orient2d(a, b, c) < 0
  <2> HIDE DEF x, y, z
  <2> QED
    BY <1>2
<1> QED
  BY <1>1, <1>3, <1>4 DEF Covers

(* Two numbers with a negative product.                                    *)
LEMMA OppositeSides ==
  ASSUME NEW x \in Int, NEW y \in Int, x * y < 0
  PROVE  (x > 0 /\ y < 0) \/ (x < 0 /\ y > 0)
<1>1. ASSUME x >= 0, y >= 0 PROVE FALSE
  <2>1. x * y >= 0
    BY <1>1
  <2> QED
    BY <2>1
<1>2. ASSUME x <= 0, y <= 0 PROVE FALSE
  <2>1. x * y >= 0
    BY <1>2
  <2> QED
    BY <2>1
<1> QED
  BY <1>1, <1>2

(* Triangles on either side of the edge bc are never drawn at one point,   *)
(* and one of them is at each point between its ends.                      *)
LEMMA HalvesMeet ==
  ASSUME NEW a \in Plane, NEW b \in Plane, NEW c \in Plane, NEW d \in Plane, NEW p \in Plane,
         Pixels!Orient2d(b, c, a) * Pixels!Orient2d(b, c, d) < 0
  PROVE  /\ ~(Covers(a, b, c, p) /\ Covers(b, c, d, p))
         /\ /\ p \in Pixels!Pixels /\ Pixels!InArea(p) /\ Pixels!Between(b, c, p)
            /\ ~Pixels!Oversized({a, b, c}) /\ ~Pixels!Oversized({b, c, d})
            => Covers(a, b, c, p) \/ Covers(b, c, d, p)
<1> DEFINE x == Pixels!Orient2d(a, b, c)
           y == Pixels!Orient2d(b, c, d)
<1>1. /\ x \in Int /\ y \in Int /\ Pixels!Orient2d(b, c, a) = x
      /\ Pixels!Orient2d(d, b, c) = y
  BY TurnsAdd
<1>2. (x > 0 /\ y < 0) \/ (x < 0 /\ y > 0)
  <2> HIDE DEF x, y
  <2>1. x * y < 0
    BY <1>1 DEF y
  <2> QED
    BY <1>1, <2>1, OppositeSides
<1>3. ~(Pixels!Within(b, c, p) /\ Pixels!Within(c, b, p))
  BY OneWayOwns
<1>4. /\ Covers(a, b, c, p) => \/ x > 0 /\ Pixels!Within(b, c, p)
                               \/ x < 0 /\ Pixels!Within(c, b, p)
      /\ Covers(b, c, d, p) => \/ y > 0 /\ Pixels!Within(b, c, p)
                               \/ y < 0 /\ Pixels!Within(c, b, p)
  BY DEF Covers
<1>5. ~(Covers(a, b, c, p) /\ Covers(b, c, d, p))
  <2> HIDE DEF x, y
  <2> QED
    BY <1>1, <1>2, <1>3, <1>4
<1>6. ASSUME p \in Pixels!Pixels, Pixels!InArea(p), Pixels!Between(b, c, p),
             ~Pixels!Oversized({a, b, c}), ~Pixels!Oversized({b, c, d})
      PROVE  Covers(a, b, c, p) \/ Covers(b, c, d, p)
  <2>1. Pixels!Within(b, c, p) \/ Pixels!Within(c, b, p)
    BY <1>6, OneWayOwns
  <2>2. /\ x > 0 => Pixels!Within(c, a, p) /\ Pixels!Within(a, b, p)
        /\ x < 0 => Pixels!Within(a, c, p) /\ Pixels!Within(b, a, p)
    BY <1>6, BetweenTheEnds, OneWayOwns
  <2>3. /\ y > 0 => Pixels!Within(c, d, p) /\ Pixels!Within(d, b, p)
        /\ y < 0 => Pixels!Within(d, c, p) /\ Pixels!Within(b, d, p)
    <3>1. /\ Pixels!Orient2d(d, b, c) > 0
               => Pixels!Orient2d(c, d, p) > 0 /\ Pixels!Orient2d(d, b, p) > 0
          /\ Pixels!Orient2d(d, b, c) < 0
               => Pixels!Orient2d(c, d, p) < 0 /\ Pixels!Orient2d(d, b, p) < 0
      BY <1>6, BetweenTheEnds
    <3> QED
      BY <1>1, <3>1, OneWayOwns
  <2> QED
    BY <1>2, <1>6, <2>1, <2>2, <2>3 DEF Covers
<1> QED
  BY <1>5, <1>6

(* What truncation leaves of a quotient stays between integers.            *)
LEMMA TruncBetween ==
  ASSUME NEW n \in Int, NEW w \in Int, w > 0, NEW lo \in Int, NEW hi \in Int,
         lo * w <= n, n <= hi * w
  PROVE  Pixels!Trunc(n, w) \in Int /\ lo <= Pixels!Trunc(n, w) /\ Pixels!Trunc(n, w) <= hi
<1>1. CASE n >= 0
  <2> DEFINE q == n \div w
  <2>1. q \in Int /\ n >= w * q /\ n < w * q + w
    BY <1>1
  <2>2. Pixels!Trunc(n, w) = q
    BY <1>1 DEF Pixels!Trunc
  <2> HIDE DEF q
  <2>3. ASSUME q < lo PROVE FALSE
    <3>1. q + 1 <= lo
      BY <2>1, <2>3
    <3>2. (q + 1) * w <= lo * w
      BY <2>1, <3>1
    <3> QED
      BY <2>1, <3>2
  <2>4. ASSUME q > hi PROVE FALSE
    <3>1. hi + 1 <= q
      BY <2>1, <2>4
    <3>2. (hi + 1) * w <= q * w
      BY <2>1, <3>1
    <3> QED
      BY <2>1, <3>2
  <2> QED
    BY <2>1, <2>2, <2>3, <2>4
<1>2. CASE n < 0
  <2> DEFINE m == -n
             q == m \div w
  <2>1. m \in Int /\ m >= 0 /\ m = -n
    BY <1>2
  <2>2. Pixels!Trunc(n, w) = -q
    BY <1>2 DEF Pixels!Trunc
  <2> HIDE DEF m
  <2>3. q \in Int /\ m >= w * q /\ m < w * q + w
    BY <2>1
  <2> HIDE DEF q
  <2>4. ASSUME -q < lo PROVE FALSE
    <3>1. 1 - q <= lo
      BY <2>3, <2>4
    <3>2. (1 - q) * w <= lo * w
      BY <2>3, <3>1
    <3> QED
      BY <2>1, <2>3, <3>2
  <2>5. ASSUME -q > hi PROVE FALSE
    <3>1. hi + 1 <= -q
      BY <2>3, <2>5
    <3>2. (hi + 1) * w <= (-q) * w
      BY <2>3, <3>1
    <3> QED
      BY <2>1, <2>3, <3>2
  <2> QED
    BY <2>2, <2>3, <2>4, <2>5
<1> QED
  BY <1>1, <1>2

(* A weighted sum lies between what the least and the greatest value       *)
(* would give.                                                             *)
LEMMA Weighed ==
  ASSUME NEW x \in Int, NEW y \in Int, NEW z \in Int, x >= 0, y >= 0, z >= 0,
         NEW lo \in Int, NEW hi \in Int,
         NEW r \in Int, NEW s \in Int, NEW t \in Int,
         lo <= r, r <= hi, lo <= s, s <= hi, lo <= t, t <= hi
  PROVE  /\ lo * (x + y + z) <= x * r + y * s + z * t
         /\ x * r + y * s + z * t <= hi * (x + y + z)
<1>1. \A u, v, k \in Int : u >= 0 /\ v <= k => u * v <= u * k
  OBVIOUS
<1>2. x * lo <= x * r /\ y * lo <= y * s /\ z * lo <= z * t
  BY <1>1
<1>3. x * r <= x * hi /\ y * s <= y * hi /\ z * t <= z * hi
  BY <1>1
<1>4. /\ lo * (x + y + z) = x * lo + y * lo + z * lo
      /\ hi * (x + y + z) = x * hi + y * hi + z * hi
  OBVIOUS
<1> QED
  BY <1>2, <1>3, <1>4

(* A pixel of a triangle has a value between those of its vertices.        *)
LEMMA WoundShades ==
  ASSUME Pixels!RasterAssumption,
         NEW a \in Plane, NEW b \in Plane, NEW c \in Plane, NEW s,
         NEW lo \in Int, NEW hi \in Int,
         \A i \in 1 .. 3 : s[i] \in Int /\ lo <= s[i] /\ s[i] <= hi,
         Pixels!Orient2d(a, b, c) > 0,
         NEW p \in DOMAIN Pixels!Wound(a, b, c, s)
  PROVE  /\ Pixels!Wound(a, b, c, s)[p] \in Int
         /\ lo <= Pixels!Wound(a, b, c, s)[p] /\ Pixels!Wound(a, b, c, s)[p] <= hi
<1>1. ~Pixels!Oversized({a, b, c})
  <2> SUFFICES ASSUME Pixels!Oversized({a, b, c}) PROVE FALSE
    OBVIOUS
  <2>1. Pixels!Wound(a, b, c, s) = <<>>
    BY DEF Pixels!Wound
  <2>2. p \notin DOMAIN <<>>
    OBVIOUS
  <2> QED
    BY <2>1, <2>2
<1>2. /\ p \in Pixels!Pixels /\ Pixels!Within(b, c, p) /\ Pixels!Within(c, a, p)
      /\ Pixels!Within(a, b, p)
      /\ Pixels!Wound(a, b, c, s)[p] = Pixels!Interpolated(a, b, c, s, p)
  BY <1>1 DEF Pixels!Wound
<1>3. p \in Plane
  BY <1>2 DEF Plane, Pixels!Pixels, Pixels!RasterAssumption
<1> DEFINE x == Pixels!Orient2d(b, c, p)
           y == Pixels!Orient2d(c, a, p)
           z == Pixels!Orient2d(a, b, p)
           w == Pixels!Orient2d(a, b, c)
           n == x * s[1] + y * s[2] + z * s[3]
<1>4. x \in Int /\ y \in Int /\ z \in Int /\ w \in Int /\ x + y + z = w
  BY <1>3, TurnsAdd
<1>5. x >= 0 /\ y >= 0 /\ z >= 0
  BY <1>2, <1>4 DEF Pixels!Within
<1>6. Pixels!Wound(a, b, c, s)[p] = Pixels!Trunc(n, w)
  BY <1>2 DEF Pixels!Interpolated
<1>7. w > 0
  OBVIOUS
<1> HIDE DEF x, y, z, w
<1>8. n \in Int /\ lo * w <= n /\ n <= hi * w
  <2> DEFINE r == s[1]
             u == s[2]
             v == s[3]
  <2>1. /\ r \in Int /\ u \in Int /\ v \in Int
        /\ lo <= r /\ r <= hi /\ lo <= u /\ u <= hi /\ lo <= v /\ v <= hi
    OBVIOUS
  <2>2. n = x * r + y * u + z * v
    OBVIOUS
  <2> HIDE DEF r, u, v, n
  <2>3. /\ lo * (x + y + z) <= x * r + y * u + z * v
        /\ x * r + y * u + z * v <= hi * (x + y + z)
    BY <1>4, <1>5, <2>1, Weighed
  <2>4. n \in Int
    BY <1>4, <2>1, <2>2
  <2> QED
    BY <1>4, <2>2, <2>3, <2>4
<1> HIDE DEF n
<1> QED
  BY <1>4, <1>6, <1>7, <1>8, TruncBetween

(* The same for a triangle wound either way: the swap of the vertices      *)
(* takes the values along.                                                 *)
LEMMA TriangleShades ==
  ASSUME Pixels!RasterAssumption,
         NEW a \in Plane, NEW b \in Plane, NEW c \in Plane, NEW s,
         NEW lo \in Int, NEW hi \in Int,
         \A i \in 1 .. 3 : s[i] \in Int /\ lo <= s[i] /\ s[i] <= hi,
         NEW p \in DOMAIN Pixels!Triangle(a, b, c, s)
  PROVE  /\ Pixels!Triangle(a, b, c, s)[p] \in Int
         /\ lo <= Pixels!Triangle(a, b, c, s)[p] /\ Pixels!Triangle(a, b, c, s)[p] <= hi
<1>1. /\ Pixels!Orient2d(a, b, c) \in Int
      /\ Pixels!Orient2d(b, a, c) = -Pixels!Orient2d(a, b, c)
  BY TurnsAdd
<1>2. CASE Pixels!Orient2d(a, b, c) = 0
  <2>1. Pixels!Triangle(a, b, c, s) = <<>>
    BY <1>2, TriangleIs, Zenon
  <2>2. p \notin DOMAIN <<>>
    OBVIOUS
  <2> QED
    BY <2>1, <2>2
<1>3. CASE Pixels!Orient2d(a, b, c) > 0
  <2>1. Pixels!Triangle(a, b, c, s) = Pixels!Wound(a, b, c, s)
    BY <1>3, TriangleIs, Zenon
  <2> QED
    BY <1>3, <2>1, WoundShades
<1>4. CASE Pixels!Orient2d(a, b, c) < 0
  <2> DEFINE t == <<s[2], s[1], s[3]>>
  <2>1. Pixels!Triangle(a, b, c, s) = Pixels!Wound(b, a, c, t)
    BY <1>4, TriangleIs
  <2>2. \A i \in 1 .. 3 : t[i] \in Int /\ lo <= t[i] /\ t[i] <= hi
    OBVIOUS
  <2> HIDE DEF t
  <2>3. Pixels!Orient2d(b, a, c) > 0
    BY <1>1, <1>4
  <2> QED
    BY <2>1, <2>2, <2>3, WoundShades
<1> QED
  BY <1>1, <1>2, <1>3, <1>4

(* VRAM with what the last command wrote.                                  *)
Canvas == [Pixels!Pixels -> [stp : BOOLEAN, val : Int, times : Nat]]

(* The canvas before a command: nothing written by it yet.                 *)
LEMMA UntouchedIs ==
  ASSUME Pixels!TypeOK
  PROVE  /\ Pixels!Untouched \in Canvas
         /\ \A p \in Pixels!Pixels : /\ Pixels!Untouched[p].times = 0
                                     /\ Pixels!Untouched[p].stp = rasterVram[p].stp
<1>1. rasterVram \in Canvas
  BY DEF Pixels!TypeOK, Canvas
<1>2. \A p \in Pixels!Pixels : rasterVram[p] \in [stp : BOOLEAN, val : Int, times : Nat]
  BY <1>1 DEF Canvas
<1>3. \A p \in Pixels!Pixels :
        /\ [rasterVram[p] EXCEPT !.times = 0] \in [stp : BOOLEAN, val : Int, times : Nat]
        /\ [rasterVram[p] EXCEPT !.times = 0].times = 0
        /\ [rasterVram[p] EXCEPT !.times = 0].stp = rasterVram[p].stp
  BY <1>2
<1>4. Pixels!Untouched = [p \in Pixels!Pixels |-> [rasterVram[p] EXCEPT !.times = 0]]
  BY DEF Pixels!Untouched
<1> QED
  BY <1>3, <1>4 DEF Canvas

(* What a primitive writes, pixel by pixel.                                *)
LEMMA PutIs ==
  ASSUME Pixels!TypeOK, NEW m \in Canvas, NEW value, NEW stp \in BOOLEAN,
         \A p \in DOMAIN value : value[p] \in Int
  PROVE  /\ Pixels!Put(m, value, stp) \in Canvas
         /\ \A p \in Pixels!Pixels :
              /\ p \in DOMAIN value /\ ~(rasterCheckMask /\ m[p].stp)
                   => /\ Pixels!Put(m, value, stp)[p].val = value[p]
                      /\ Pixels!Put(m, value, stp)[p].times = m[p].times + 1
              /\ ~(p \in DOMAIN value /\ ~(rasterCheckMask /\ m[p].stp))
                   => Pixels!Put(m, value, stp)[p] = m[p]
<1> DEFINE One(p) == [stp |-> stp \/ rasterForceMask, val |-> value[p],
                      times |-> m[p].times + 1]
           Of(p) == p \in DOMAIN value /\ ~(rasterCheckMask /\ m[p].stp)
<1>1. rasterForceMask \in BOOLEAN
  BY DEF Pixels!TypeOK
<1>2. \A p \in Pixels!Pixels : m[p] \in [stp : BOOLEAN, val : Int, times : Nat]
  BY DEF Canvas
<1>3. \A p \in Pixels!Pixels : p \in DOMAIN value =>
        /\ One(p) \in [stp : BOOLEAN, val : Int, times : Nat]
        /\ One(p).val = value[p] /\ One(p).times = m[p].times + 1
  <2> SUFFICES ASSUME NEW p \in Pixels!Pixels, p \in DOMAIN value
               PROVE  One(p) \in [stp : BOOLEAN, val : Int, times : Nat]
    OBVIOUS
  <2>1. (stp \/ rasterForceMask) \in BOOLEAN
    OBVIOUS
  <2>2. m[p].times + 1 \in Nat
    BY <1>2
  <2> QED
    BY <2>1, <2>2
<1> HIDE DEF One
<1>4. Pixels!Put(m, value, stp) = [p \in Pixels!Pixels |-> IF Of(p) THEN One(p) ELSE m[p]]
  BY DEF Pixels!Put, Pixels!Writable, One
<1>5. \A p \in Pixels!Pixels :
        /\ Of(p) => Pixels!Put(m, value, stp)[p] = One(p)
        /\ ~Of(p) => Pixels!Put(m, value, stp)[p] = m[p]
  BY <1>4
<1>6. \A p \in Pixels!Pixels :
        (IF Of(p) THEN One(p) ELSE m[p]) \in [stp : BOOLEAN, val : Int, times : Nat]
  BY <1>2, <1>3
<1>7. Pixels!Put(m, value, stp) \in Canvas
  <2> HIDE DEF Of
  <2> QED
    BY <1>4, <1>6 DEF Canvas
<1> QED
  BY <1>3, <1>5, <1>7

(* One half of a polygon, the triangle that begins at vertex i.            *)
Half(vs, i) ==
  Pixels!Triangle(Pixels!Moved(vs[i]), Pixels!Moved(vs[i + 1]), Pixels!Moved(vs[i + 2]),
                  SubSeq(Shades, i, i + 2))

(* Pixels, and vertices moved by the drawing offset, are points of the     *)
(* plane.                                                                  *)
LEMMA PixelPlaces ==
  ASSUME Pixels!RasterAssumption, Pixels!TypeOK
  PROVE  /\ \A v \in Pixels!Vertices : Pixels!Moved(v) \in Plane
         /\ Pixels!Pixels \subseteq Plane
         /\ Pixels!Vertices \subseteq Plane
<1>1. rasterOffset \in Int \X Int
  BY DEF Pixels!RasterAssumption, Pixels!TypeOK
<1>2. Pixels!Pixels \subseteq Plane /\ Pixels!Vertices \subseteq Plane
  <2>1. VramWidth \in Int /\ VramHeight \in Int /\ Coordinates \subseteq Int
    BY DEF Pixels!RasterAssumption
  <2>2. 0 .. (VramWidth - 1) \subseteq Int /\ 0 .. (VramHeight - 1) \subseteq Int
    BY <2>1
  <2>3. Pixels!Pixels \subseteq Plane
    BY <2>2 DEF Plane, Pixels!Pixels
  <2>4. Pixels!Vertices \subseteq Plane
    BY <2>1 DEF Plane, Pixels!Vertices
  <2> QED
    BY <2>3, <2>4
<1>3. \A v \in Plane : Pixels!Moved(v) \in Plane
  BY <1>1 DEF Plane, Pixels!Moved
<1> QED
  BY <1>2, <1>3

(* A polygon is its first half, and for a quad the second over it.         *)
LEMMA PaintedIs ==
  ASSUME Pixels!RasterAssumption, NEW n \in 3 .. 4, NEW vs \in [1 .. n -> Pixels!Vertices],
         NEW stp
  PROVE  /\ Len(vs) = n
         /\ n = 3 => Pixels!Painted(vs, stp) = Pixels!Put(Pixels!Untouched, Half(vs, 1), stp)
         /\ n = 4 => Pixels!Painted(vs, stp) =
              Pixels!Put(Pixels!Put(Pixels!Untouched, Half(vs, 1), stp), Half(vs, 2), stp)
<1>1. Len(vs) = n /\ DOMAIN vs = 1 .. n
  <2>1. vs \in Seq(Pixels!Vertices)
    BY SeqDef
  <2> QED
    BY <2>1, LenProperties
<1> DEFINE m == [i \in DOMAIN vs |-> Pixels!Moved(vs[i])]
<1>2. \A i \in 1 .. n : m[i] = Pixels!Moved(vs[i])
  BY <1>1
<1>3. Half(vs, 1) = Pixels!Triangle(m[1], m[2], m[3], SubSeq(Shades, 1, 3))
  BY <1>2 DEF Half
<1>4. n = 4 => Half(vs, 2) = Pixels!Triangle(m[2], m[3], m[4], SubSeq(Shades, 2, 4))
  BY <1>2 DEF Half
<1> DEFINE tri == Pixels!Triangle(m[1], m[2], m[3], SubSeq(Shades, 1, 3))
           two == Pixels!Triangle(m[2], m[3], m[4], SubSeq(Shades, 2, 4))
<1>5. Pixels!Painted(vs, stp) =
        IF Len(vs) = 3 THEN Pixels!Put(Pixels!Untouched, tri, stp)
        ELSE Pixels!Put(Pixels!Put(Pixels!Untouched, tri, stp), two, stp)
  BY DEF Pixels!Painted
<1> HIDE DEF tri, two
<1>6. n = 3 => Pixels!Painted(vs, stp) = Pixels!Put(Pixels!Untouched, tri, stp)
  BY <1>1, <1>5
<1>7. n = 4 => Pixels!Painted(vs, stp)
               = Pixels!Put(Pixels!Put(Pixels!Untouched, tri, stp), two, stp)
  BY <1>1, <1>5
<1> QED
  BY <1>1, <1>3, <1>4, <1>6, <1>7 DEF tri, two

(* A half is given values that lie where the polygon's do.                 *)
LEMMA HalfIs ==
  ASSUME Pixels!RasterAssumption, Pixels!TypeOK, NEW n \in 3 .. 4,
         NEW vs \in [1 .. n -> Pixels!Vertices], NEW i \in 1 .. n - 2,
         NEW lo \in Int, NEW hi \in Int,
         \A j \in 1 .. n : lo <= Shades[j] /\ Shades[j] <= hi
  PROVE  \A p \in DOMAIN Half(vs, i) :
           Half(vs, i)[p] \in Int /\ lo <= Half(vs, i)[p] /\ Half(vs, i)[p] <= hi
<1>1. /\ Pixels!Moved(vs[i]) \in Plane /\ Pixels!Moved(vs[i + 1]) \in Plane
      /\ Pixels!Moved(vs[i + 2]) \in Plane
  <2>1. vs[i] \in Pixels!Vertices /\ vs[i + 1] \in Pixels!Vertices
        /\ vs[i + 2] \in Pixels!Vertices
    OBVIOUS
  <2> QED
    BY <2>1, PixelPlaces
<1> DEFINE s == SubSeq(Shades, i, i + 2)
<1>2. Shades \in Seq(Int) /\ Len(Shades) \in Nat /\ Len(Shades) >= 4
  BY LenProperties DEF Pixels!RasterAssumption
<1>3. \A j \in 1 .. 3 : s[j] = Shades[i + j - 1]
  BY <1>2
<1>4. \A j \in 1 .. 3 : s[j] \in Int /\ lo <= s[j] /\ s[j] <= hi
  <2> SUFFICES ASSUME NEW j \in 1 .. 3 PROVE s[j] \in Int /\ lo <= s[j] /\ s[j] <= hi
    OBVIOUS
  <2>1. i + j - 1 \in 1 .. n /\ i + j - 1 \in 1 .. Len(Shades)
    BY <1>2
  <2>2. Shades[i + j - 1] \in Int
    BY <1>2, <2>1, ElementOfSeq
  <2> HIDE DEF s
  <2> QED
    BY <1>3, <2>1, <2>2
<1> HIDE DEF s
<1>5. Half(vs, i) = Pixels!Triangle(Pixels!Moved(vs[i]), Pixels!Moved(vs[i + 1]),
                                    Pixels!Moved(vs[i + 2]), s)
  BY DEF Half, s
<1> QED
  BY <1>1, <1>4, <1>5, TriangleShades

(* Where a half is drawn.                                                  *)
LEMMA HalfCovers ==
  ASSUME Pixels!RasterAssumption, Pixels!TypeOK, NEW n \in 3 .. 4,
         NEW vs \in [1 .. n -> Pixels!Vertices], NEW i \in 1 .. n - 2, NEW p
  PROVE  p \in DOMAIN Half(vs, i) <=>
           Covers(Pixels!Moved(vs[i]), Pixels!Moved(vs[i + 1]), Pixels!Moved(vs[i + 2]), p)
<1>1. /\ Pixels!Moved(vs[i]) \in Plane /\ Pixels!Moved(vs[i + 1]) \in Plane
      /\ Pixels!Moved(vs[i + 2]) \in Plane
  <2>1. vs[i] \in Pixels!Vertices /\ vs[i + 1] \in Pixels!Vertices
        /\ vs[i + 2] \in Pixels!Vertices
    OBVIOUS
  <2> QED
    BY <2>1, PixelPlaces
<1> QED
  BY <1>1, TriangleCovers DEF Half

(* The least and the greatest of the values a polygon is given.            *)
LEMMA Given ==
  ASSUME NEW n \in 3 .. 4, NEW f, \A i \in 1 .. n : f[i] \in Int
  PROVE  LET given == {f[i] : i \in 1 .. n}
         IN  /\ Pixels!Min(given) \in Int /\ Pixels!Max(given) \in Int
             /\ \A i \in 1 .. n : Pixels!Min(given) <= f[i] /\ f[i] <= Pixels!Max(given)
<1> DEFINE given == {f[i] : i \in 1 .. n}
<1>1. \A x \in given : x \in Int
  OBVIOUS
<1>2. \E x \in given : \A y \in given : x <= y
  <2>1. \E i \in 1 .. n : \A j \in 1 .. n : f[i] <= f[j]
    <3>1. f[1] \in Int /\ f[2] \in Int /\ f[3] \in Int /\ (n = 4 => f[4] \in Int)
      OBVIOUS
    <3>2. CASE n = 3
      <4>1. 1 .. n = {1, 2, 3}
        BY <3>2
      <4>2. \/ f[1] <= f[2] /\ f[1] <= f[3]
            \/ f[2] <= f[1] /\ f[2] <= f[3]
            \/ f[3] <= f[1] /\ f[3] <= f[2]
        BY <3>1
      <4> QED
        BY <3>1, <4>1, <4>2
    <3>3. CASE n = 4
      <4>1. 1 .. n = {1, 2, 3, 4}
        BY <3>3
      <4>2. \/ f[1] <= f[2] /\ f[1] <= f[3] /\ f[1] <= f[4]
            \/ f[2] <= f[1] /\ f[2] <= f[3] /\ f[2] <= f[4]
            \/ f[3] <= f[1] /\ f[3] <= f[2] /\ f[3] <= f[4]
            \/ f[4] <= f[1] /\ f[4] <= f[2] /\ f[4] <= f[3]
        BY <3>1, <3>3
      <4> QED
        BY <3>1, <3>3, <4>1, <4>2
    <3> QED
      BY <3>2, <3>3
  <2> QED
    BY <2>1
<1>3. \E x \in given : \A y \in given : x >= y
  <2>1. \E i \in 1 .. n : \A j \in 1 .. n : f[i] >= f[j]
    <3>1. f[1] \in Int /\ f[2] \in Int /\ f[3] \in Int /\ (n = 4 => f[4] \in Int)
      OBVIOUS
    <3>2. CASE n = 3
      <4>1. 1 .. n = {1, 2, 3}
        BY <3>2
      <4>2. \/ f[1] >= f[2] /\ f[1] >= f[3]
            \/ f[2] >= f[1] /\ f[2] >= f[3]
            \/ f[3] >= f[1] /\ f[3] >= f[2]
        BY <3>1
      <4> QED
        BY <3>1, <4>1, <4>2
    <3>3. CASE n = 4
      <4>1. 1 .. n = {1, 2, 3, 4}
        BY <3>3
      <4>2. \/ f[1] >= f[2] /\ f[1] >= f[3] /\ f[1] >= f[4]
            \/ f[2] >= f[1] /\ f[2] >= f[3] /\ f[2] >= f[4]
            \/ f[3] >= f[1] /\ f[3] >= f[2] /\ f[3] >= f[4]
            \/ f[4] >= f[1] /\ f[4] >= f[2] /\ f[4] >= f[3]
        BY <3>1, <3>3
      <4> QED
        BY <3>1, <3>3, <4>1, <4>2
    <3> QED
      BY <3>2, <3>3
  <2> QED
    BY <2>1
<1>4. \A i \in 1 .. n : f[i] \in given
  OBVIOUS
<1> HIDE DEF given
<1>5. Pixels!Min(given) \in given /\ \A y \in given : Pixels!Min(given) <= y
  BY <1>2 DEF Pixels!Min
<1>6. Pixels!Max(given) \in given /\ \A y \in given : Pixels!Max(given) >= y
  BY <1>3 DEF Pixels!Max
<1>7. /\ Pixels!Min(given) \in Int /\ Pixels!Max(given) \in Int
      /\ \A i \in 1 .. n : Pixels!Min(given) <= f[i] /\ f[i] <= Pixels!Max(given)
  BY <1>1, <1>4, <1>5, <1>6
<1> QED
  BY <1>7 DEF given

(* A polygon's vertices have values.                                       *)
LEMMA ShadesAreNumbers ==
  ASSUME Pixels!RasterAssumption, NEW n \in 3 .. 4
  PROVE  \A i \in 1 .. n : Shades[i] \in Int
<1>1. Shades \in Seq(Int) /\ Len(Shades) \in Nat /\ Len(Shades) >= 4
  BY LenProperties DEF Pixels!RasterAssumption
<1> QED
  BY <1>1, ElementOfSeq

(* What a half writes is a number.                                         *)
LEMMA HalfIsInt ==
  ASSUME Pixels!RasterAssumption, Pixels!TypeOK, NEW n \in 3 .. 4,
         NEW vs \in [1 .. n -> Pixels!Vertices]
  PROVE  \A i \in 1 .. n - 2 : \A q \in DOMAIN Half(vs, i) : Half(vs, i)[q] \in Int
<1> DEFINE given == {Shades[i] : i \in 1 .. n}
           lo == Pixels!Min(given)
           hi == Pixels!Max(given)
<1>1. lo \in Int /\ hi \in Int /\ \A i \in 1 .. n : lo <= Shades[i] /\ Shades[i] <= hi
  <2>1. \A i \in 1 .. n : Shades[i] \in Int
    BY ShadesAreNumbers
  <2> QED
    BY <2>1, Given
<1> HIDE DEF lo, hi
<1> QED
  BY <1>1, HalfIs

(* A painted canvas is one.                                                *)
LEMMA PaintedTyped ==
  ASSUME Pixels!RasterAssumption, Pixels!TypeOK, NEW n \in 3 .. 4,
         NEW vs \in [1 .. n -> Pixels!Vertices], NEW stp \in BOOLEAN
  PROVE  Pixels!Painted(vs, stp) \in Canvas
<1> DEFINE one == Pixels!Put(Pixels!Untouched, Half(vs, 1), stp)
<1>2. \A i \in 1 .. n - 2 : \A q \in DOMAIN Half(vs, i) : Half(vs, i)[q] \in Int
  BY HalfIsInt
<1>3. 1 \in 1 .. n - 2 /\ (n = 4 => 2 \in 1 .. n - 2)
  OBVIOUS
<1>4. one \in Canvas
  BY <1>2, <1>3, UntouchedIs, PutIs
<1> HIDE DEF one
<1>5. n = 4 => Pixels!Put(one, Half(vs, 2), stp) \in Canvas
  BY <1>2, <1>3, <1>4, PutIs
<1>6. n = 3 \/ n = 4
  OBVIOUS
<1> QED
  BY <1>4, <1>5, <1>6, PaintedIs DEF one

(* What a polygon leaves at a pixel: both of its halves, or one, wrote it. *)
LEMMA PolygonWrites ==
  ASSUME Pixels!RasterAssumption, Pixels!TypeOK, NEW n \in 3 .. 4,
         NEW vs \in [1 .. n -> Pixels!Vertices], NEW stp \in BOOLEAN,
         NEW p \in Pixels!Pixels
  PROVE  /\ Pixels!Painted(vs, stp)[p].times > 0
              => \E i \in 1 .. n - 2 : /\ p \in DOMAIN Half(vs, i)
                                      /\ Pixels!Painted(vs, stp)[p].val = Half(vs, i)[p]
         /\ rasterCheckMask /\ rasterVram[p].stp
              => Pixels!Painted(vs, stp)[p] = Pixels!Untouched[p]
         /\ n = 4 /\ ~rasterCheckMask /\ ~(p \in DOMAIN Half(vs, 1) /\ p \in DOMAIN Half(vs, 2))
              => /\ Pixels!Painted(vs, stp)[p].times <= 1
                 /\ p \in DOMAIN Half(vs, 1) \/ p \in DOMAIN Half(vs, 2)
                      => Pixels!Painted(vs, stp)[p].times = 1
<1> DEFINE u == Pixels!Untouched
           one == Pixels!Put(u, Half(vs, 1), stp)
           two == Pixels!Put(one, Half(vs, 2), stp)
           In1 == p \in DOMAIN Half(vs, 1)
           In2 == p \in DOMAIN Half(vs, 2)
<1>1. /\ u \in Canvas /\ u[p].times = 0 /\ u[p].stp = rasterVram[p].stp
  BY UntouchedIs
<1>2. \A i \in 1 .. n - 2 : \A q \in DOMAIN Half(vs, i) : Half(vs, i)[q] \in Int
  BY HalfIsInt
<1>3. 1 \in 1 .. n - 2 /\ (n = 4 => 2 \in 1 .. n - 2)
  OBVIOUS
<1> HIDE DEF u
<1>4. /\ one \in Canvas
      /\ In1 /\ ~(rasterCheckMask /\ u[p].stp)
           => one[p].val = Half(vs, 1)[p] /\ one[p].times = u[p].times + 1
      /\ ~(In1 /\ ~(rasterCheckMask /\ u[p].stp)) => one[p] = u[p]
  BY <1>1, <1>2, <1>3, PutIs
<1> HIDE DEF one
<1>5. n = 4 =>
      /\ two \in Canvas
      /\ In2 /\ ~(rasterCheckMask /\ one[p].stp)
           => two[p].val = Half(vs, 2)[p] /\ two[p].times = one[p].times + 1
      /\ ~(In2 /\ ~(rasterCheckMask /\ one[p].stp)) => two[p] = one[p]
  BY <1>2, <1>3, <1>4, PutIs
<1> HIDE DEF two
<1>6. /\ n = 3 => Pixels!Painted(vs, stp) = one
      /\ n = 4 => Pixels!Painted(vs, stp) = two
  BY PaintedIs DEF u, one, two
<1>7. one[p].times \in Nat /\ one[p].val \in Int
  BY <1>4 DEF Canvas
<1>8. one[p].times > 0 => In1 /\ one[p].val = Half(vs, 1)[p]
  BY <1>1, <1>4
<1>9. rasterCheckMask /\ rasterVram[p].stp => one[p] = u[p]
  BY <1>1, <1>4
<1>10. ~rasterCheckMask => one[p].times = IF In1 THEN 1 ELSE 0
  BY <1>1, <1>4
<1>11. CASE n = 3
  <2>1. Pixels!Painted(vs, stp) = one
    BY <1>6, <1>11
  <2> QED
    BY <1>3, <1>8, <1>9, <1>11, <2>1 DEF u
<1>12. CASE n = 4
  <2>1. Pixels!Painted(vs, stp) = two
    BY <1>6, <1>12
  <2>2. two[p].times > 0 => \/ In1 /\ two[p].val = Half(vs, 1)[p]
                            \/ In2 /\ two[p].val = Half(vs, 2)[p]
    BY <1>5, <1>8, <1>12
  <2>3. rasterCheckMask /\ rasterVram[p].stp => two[p] = u[p]
    BY <1>1, <1>5, <1>9, <1>12
  <2>4. ~rasterCheckMask /\ ~(In1 /\ In2)
          => two[p].times <= 1 /\ (In1 \/ In2 => two[p].times = 1)
    BY <1>5, <1>7, <1>10, <1>12
  <2> QED
    BY <1>3, <1>12, <2>1, <2>2, <2>3, <2>4 DEF u
<1>13. n = 3 \/ n = 4
  OBVIOUS
<1> QED
  BY <1>11, <1>12, <1>13

(* A polygon leaves a pixel alone whose mask is checked.                   *)
LEMMA PolygonSpares ==
  ASSUME Pixels!RasterAssumption, Pixels!TypeOK, NEW n \in 3 .. 4,
         NEW vs \in [1 .. n -> Pixels!Vertices], NEW stp \in BOOLEAN,
         NEW p \in Pixels!Pixels
  PROVE  rasterCheckMask /\ rasterVram[p].stp
           => Pixels!Painted(vs, stp)[p] = Pixels!Untouched[p]
  BY PolygonWrites, Zenon

(* Drawing a polygon keeps all that is claimed of the rasterizer.          *)
LEMMA PolygonStep ==
  ASSUME Pixels!RasterAssumption, Pixels!TypeOK, NEW n \in 3 .. 4,
         NEW vs \in [1 .. n -> Pixels!Vertices], NEW stp \in BOOLEAN,
         rasterEffort >= 2, Pixels!DrawPolygon(vs, stp)
  PROVE  /\ Pixels!TypeOK' /\ Pixels!WritesWhereAllowedStep
         /\ Pixels!QuadsMeet' /\ Pixels!ShadesWithinVertices' /\ Pixels!LineUnbroken'
<1> DEFINE c == Pixels!Painted(vs, stp)
           given == {Shades[i] : i \in 1 .. n}
<1>1. /\ rasterVram' = c /\ rasterLast' = <<"polygon", vs>>
      /\ rasterArea' = rasterArea /\ rasterOffset' = rasterOffset
      /\ rasterCheckMask' = rasterCheckMask /\ rasterForceMask' = rasterForceMask
      /\ rasterEffort' = rasterEffort - 2
  BY DEF Pixels!DrawPolygon, Pixels!Issue, Pixels!settings
<1>2. rasterLast'[1] = "polygon" /\ rasterLast'[2] = vs
  BY <1>1
<1>3. /\ Pixels!Min(given) \in Int /\ Pixels!Max(given) \in Int
      /\ \A i \in 1 .. n : Pixels!Min(given) <= Shades[i] /\ Shades[i] <= Pixels!Max(given)
  <2>1. \A i \in 1 .. n : Shades[i] \in Int
    BY ShadesAreNumbers
  <2> QED
    BY <2>1, Given
<1>4. \A p \in Pixels!Pixels : c[p].times > 0 => \E i \in 1 .. n - 2 :
        p \in DOMAIN Half(vs, i) /\ c[p].val = Half(vs, i)[p]
  BY PolygonWrites
<1>5. n = 4 /\ ~rasterCheckMask => \A p \in Pixels!Pixels :
         ~(p \in DOMAIN Half(vs, 1) /\ p \in DOMAIN Half(vs, 2))
           => /\ c[p].times <= 1
              /\ p \in DOMAIN Half(vs, 1) \/ p \in DOMAIN Half(vs, 2) => c[p].times = 1
  BY PolygonWrites
<1>6. \A p \in Pixels!Pixels :
         rasterCheckMask /\ rasterVram[p].stp => c[p] = Pixels!Untouched[p]
  BY PolygonSpares, Zenon
<1>7. Len(vs) = n /\ DOMAIN vs = 1 .. n /\ \A i \in 1 .. n : Pixels!Moved(vs[i]) \in Plane
  BY PaintedIs, PixelPlaces
<1>8. \A p : /\ p \in DOMAIN Half(vs, 1) <=>
                  Covers(Pixels!Moved(vs[1]), Pixels!Moved(vs[2]), Pixels!Moved(vs[3]), p)
             /\ n = 4 => (p \in DOMAIN Half(vs, 2) <=>
                  Covers(Pixels!Moved(vs[2]), Pixels!Moved(vs[3]), Pixels!Moved(vs[4]), p))
  <2>1. 1 \in 1 .. n - 2 /\ (n = 4 => 2 \in 1 .. n - 2)
    OBVIOUS
  <2>2. \A i \in 1 .. n - 2 : \A p :
          p \in DOMAIN Half(vs, i) <=>
            Covers(Pixels!Moved(vs[i]), Pixels!Moved(vs[i + 1]), Pixels!Moved(vs[i + 2]), p)
    BY HalfCovers
  <2> QED
    BY <2>1, <2>2
<1>9. Pixels!Painted(vs, stp) \in Canvas
  BY PaintedTyped
<1> HIDE DEF c, given
<1>10. Pixels!TypeOK'
  <2>1. c \in [Pixels!Pixels -> [stp : BOOLEAN, val : Int, times : Nat]]
    BY <1>9 DEF c, Canvas
  <2>2. rasterEffort - 2 \in 0 .. Effort
    BY DEF Pixels!TypeOK, Pixels!RasterAssumption
  <2> QED
    BY <1>1, <2>1, <2>2 DEF Pixels!TypeOK
<1>11. \A p : Pixels!InArea(p)' <=> Pixels!InArea(p)
  BY <1>1 DEF Pixels!InArea
<1>12. Pixels!WritesWhereAllowedStep
  <2>1. \A p \in Pixels!Pixels : rasterVram'[p].times > 0 => Pixels!InArea(p)
    BY <1>1, <1>4, <1>8 DEF Covers
  <2>2. rasterCheckMask => \A p \in Pixels!Pixels :
          rasterVram[p].stp => rasterVram'[p] = Pixels!Untouched[p]
    BY <1>1, <1>6
  <2> QED
    BY <2>1, <2>2 DEF Pixels!WritesWhereAllowedStep
<1>13. Pixels!LineUnbroken'
  BY <1>2 DEF Pixels!LineUnbroken
<1>14. Pixels!ShadesWithinVertices'
  <2>1. \A p \in Pixels!Pixels : rasterVram'[p].times > 0
          => Pixels!Min(given) <= rasterVram'[p].val /\ rasterVram'[p].val <= Pixels!Max(given)
    <3> DEFINE lo == Pixels!Min(given)
               hi == Pixels!Max(given)
    <3>1. lo \in Int /\ hi \in Int /\ \A i \in 1 .. n : lo <= Shades[i] /\ Shades[i] <= hi
      BY <1>3
    <3> HIDE DEF lo, hi
    <3>2. \A i \in 1 .. n - 2 : \A p \in DOMAIN Half(vs, i) :
            lo <= Half(vs, i)[p] /\ Half(vs, i)[p] <= hi
      BY <3>1, HalfIs
    <3> QED
      BY <1>1, <1>4, <3>2 DEF lo, hi
  <2>2. {Shades[i] : i \in DOMAIN rasterLast'[2]} = given
    BY <1>2, <1>7 DEF given
  <2> QED
    BY <2>1, <2>2 DEF Pixels!ShadesWithinVertices, Pixels!Drawn, Pixels!Drew
<1>15. Pixels!QuadsMeet'
  <2> DEFINE m1 == Pixels!Moved(vs[1])
             m2 == Pixels!Moved(vs[2])
             m3 == Pixels!Moved(vs[3])
             m4 == Pixels!Moved(vs[4])
  <2>1. \A i : Pixels!Corner(i)' = Pixels!Moved(vs[i])
    BY <1>1, <1>2 DEF Pixels!Corner, Pixels!Moved
  <2>2. Pixels!Corner(1)' = m1 /\ Pixels!Corner(2)' = m2 /\ Pixels!Corner(3)' = m3
        /\ Pixels!Corner(4)' = m4
    BY <2>1
  <2>3. n = 4 => m1 \in Plane /\ m2 \in Plane /\ m3 \in Plane /\ m4 \in Plane
    BY <1>7
  <2>4. \A p \in Pixels!Pixels : p \in Plane
    BY PixelPlaces
  <2> HIDE DEF m1, m2, m3, m4
  <2>5. ASSUME n = 4, ~rasterCheckMask,
               Pixels!Orient2d(m2, m3, m1) * Pixels!Orient2d(m2, m3, m4) < 0,
               ~Pixels!Oversized({m1, m2, m3}), ~Pixels!Oversized({m2, m3, m4}),
               NEW p \in Pixels!Pixels
        PROVE  /\ c[p].times <= 1
               /\ /\ Pixels!InArea(p)
                  /\ \/ Pixels!Inside(m1, m2, m3, p) \/ Pixels!Inside(m2, m3, m4, p)
                     \/ Pixels!Between(m2, m3, p)
                  => c[p].times = 1
    <3>1. ~(Covers(m1, m2, m3, p) /\ Covers(m2, m3, m4, p))
      BY <2>3, <2>4, <2>5, HalvesMeet
    <3>2. Pixels!InArea(p) /\ Pixels!Between(m2, m3, p)
            => Covers(m1, m2, m3, p) \/ Covers(m2, m3, m4, p)
      BY <2>3, <2>4, <2>5, HalvesMeet
    <3>3. Pixels!InArea(p) /\ Pixels!Inside(m1, m2, m3, p) => Covers(m1, m2, m3, p)
      BY <2>3, <2>4, <2>5, InsideIsCovered
    <3>4. Pixels!InArea(p) /\ Pixels!Inside(m2, m3, m4, p) => Covers(m2, m3, m4, p)
      BY <2>3, <2>4, <2>5, InsideIsCovered
    <3>5. /\ c[p].times <= 1
          /\ Covers(m1, m2, m3, p) \/ Covers(m2, m3, m4, p) => c[p].times = 1
      BY <1>8, <1>5, <2>5, <3>1 DEF m1, m2, m3, m4
    <3> QED
      BY <3>1, <3>2, <3>3, <3>4, <3>5
  <2>6. SUFFICES ASSUME Len(rasterLast'[2]) = 4, ~rasterCheckMask',
                        Pixels!Orient2d(m2, m3, m1) * Pixels!Orient2d(m2, m3, m4) < 0,
                        \A i \in 1 .. 2 : ~Pixels!Oversized(
                           {Pixels!Corner(i)', Pixels!Corner(i + 1)', Pixels!Corner(i + 2)'})
                 PROVE  \A p \in Pixels!Pixels :
                          /\ rasterVram'[p].times <= 1
                          /\ /\ Pixels!InArea(p)'
                             /\ \/ Pixels!Inside(m1, m2, m3, p)
                                \/ Pixels!Inside(m2, m3, m4, p)
                                \/ Pixels!Between(m2, m3, p)
                             => rasterVram'[p].times = 1
    BY <2>2 DEF Pixels!QuadsMeet, Pixels!OnTheQuad, Pixels!Drew
  <2>7. n = 4 /\ ~rasterCheckMask
    BY <1>1, <1>2, <1>7, <2>6
  <2>8. ~Pixels!Oversized({m1, m2, m3}) /\ ~Pixels!Oversized({m2, m3, m4})
    <3>1. 1 + 1 = 2 /\ 1 + 2 = 3 /\ 2 + 1 = 3 /\ 2 + 2 = 4
      OBVIOUS
    <3>2. ~Pixels!Oversized({Pixels!Corner(1)', Pixels!Corner(2)', Pixels!Corner(3)'})
      BY <2>6, <3>1
    <3>3. ~Pixels!Oversized({Pixels!Corner(2)', Pixels!Corner(3)', Pixels!Corner(4)'})
      BY <2>6, <3>1
    <3> QED
      BY <2>2, <3>2, <3>3
  <2> QED
    BY <1>1, <1>11, <2>5, <2>6, <2>7, <2>8
<1> QED
  BY <1>10, <1>12, <1>13, <1>14, <1>15

(* What holds of a step by which no polygon and no line is drawn.          *)
LEMMA OtherCommands ==
  ASSUME rasterLast'[1] \notin {"polygon", "line"}
  PROVE  Pixels!QuadsMeet' /\ Pixels!ShadesWithinVertices' /\ Pixels!LineUnbroken'
  BY DEF Pixels!QuadsMeet, Pixels!ShadesWithinVertices, Pixels!LineUnbroken

(* Drawing a rectangle does.                                               *)
LEMMA RectStep ==
  ASSUME Pixels!RasterAssumption, Pixels!TypeOK, NEW v, NEW size, NEW stp \in BOOLEAN,
         rasterEffort >= 1, Pixels!DrawRect(v, size, stp)
  PROVE  /\ Pixels!TypeOK' /\ Pixels!WritesWhereAllowedStep
         /\ Pixels!QuadsMeet' /\ Pixels!ShadesWithinVertices' /\ Pixels!LineUnbroken'
<1> DEFINE o == Pixels!Moved(v)
           inside == {p \in Pixels!Pixels : /\ Pixels!InArea(p)
                                            /\ p[1] - o[1] \in 0..(size[1] - 1)
                                            /\ p[2] - o[2] \in 0..(size[2] - 1)}
           value == [p \in inside |-> Shades[1]]
           c == Pixels!Put(Pixels!Untouched, value, stp)
<1>1. /\ rasterVram' = c /\ rasterLast' = <<"rect", <<v>>>>
      /\ rasterArea' = rasterArea /\ rasterOffset' = rasterOffset
      /\ rasterCheckMask' = rasterCheckMask /\ rasterForceMask' = rasterForceMask
      /\ rasterEffort' = rasterEffort - 1
  BY DEF Pixels!DrawRect, Pixels!Issue, Pixels!settings
<1>2. rasterLast'[1] = "rect"
  BY <1>1
<1>3. /\ DOMAIN value = inside /\ \A p \in DOMAIN value : value[p] \in Int
      /\ \A p \in inside : Pixels!InArea(p)
  <2>1. Shades[1] \in Int
    BY ShadesAreNumbers
  <2> QED
    BY <2>1
<1> HIDE DEF value, inside
<1>4. /\ Pixels!Untouched \in Canvas
      /\ \A p \in Pixels!Pixels : /\ Pixels!Untouched[p].times = 0
                                  /\ Pixels!Untouched[p].stp = rasterVram[p].stp
  BY UntouchedIs
<1>5. /\ c \in Canvas
      /\ \A p \in Pixels!Pixels :
           /\ c[p].times > 0 => p \in inside
           /\ rasterCheckMask /\ rasterVram[p].stp => c[p] = Pixels!Untouched[p]
  <2> DEFINE u == Pixels!Untouched
  <2> HIDE DEF u
  <2>1. /\ c \in Canvas
        /\ \A p \in Pixels!Pixels :
             ~(p \in DOMAIN value /\ ~(rasterCheckMask /\ u[p].stp)) => c[p] = u[p]
    BY <1>3, <1>4, PutIs DEF u
  <2> HIDE DEF c
  <2> QED
    BY <1>3, <1>4, <2>1 DEF u
<1> HIDE DEF c
<1>6. Pixels!TypeOK'
  <2>1. rasterEffort - 1 \in 0 .. Effort
    BY DEF Pixels!TypeOK, Pixels!RasterAssumption
  <2> QED
    BY <1>1, <1>5, <2>1 DEF Pixels!TypeOK, Canvas
<1>7. Pixels!WritesWhereAllowedStep
  BY <1>1, <1>3, <1>5 DEF Pixels!WritesWhereAllowedStep
<1> QED
  BY <1>2, <1>6, <1>7, OtherCommands

(* So does a fill,                                                         *)
LEMMA FillStep ==
  ASSUME Pixels!RasterAssumption, Pixels!TypeOK, NEW v, NEW size,
         rasterEffort >= 1, Pixels!FillRect(v, size)
  PROVE  /\ Pixels!TypeOK' /\ Pixels!WritesWhereAllowedStep
         /\ Pixels!QuadsMeet' /\ Pixels!ShadesWithinVertices' /\ Pixels!LineUnbroken'
<1> DEFINE Of(p) == /\ (p[1] - v[1]) % VramWidth < size[1]
                    /\ (p[2] - v[2]) % VramHeight < size[2]
           px == [stp |-> FALSE, val |-> Shades[1], times |-> 1]
           u == Pixels!Untouched
<1>1. /\ rasterVram' = [p \in Pixels!Pixels |-> IF Of(p) THEN px ELSE u[p]]
      /\ rasterLast' = <<"fill", <<v>>>>
      /\ rasterArea' = rasterArea /\ rasterOffset' = rasterOffset
      /\ rasterCheckMask' = rasterCheckMask /\ rasterForceMask' = rasterForceMask
      /\ rasterEffort' = rasterEffort - 1
  BY DEF Pixels!FillRect, Pixels!Issue, Pixels!settings
<1>2. rasterLast'[1] = "fill"
  BY <1>1
<1>3. px \in [stp : BOOLEAN, val : Int, times : Nat]
  <2>1. Shades[1] \in Int
    BY ShadesAreNumbers
  <2> QED
    BY <2>1
<1>4. u \in Canvas
  BY UntouchedIs
<1> HIDE DEF Of, px, u
<1>5. rasterVram' \in Canvas
  BY <1>1, <1>3, <1>4 DEF Canvas
<1>6. Pixels!TypeOK'
  <2>1. rasterEffort - 1 \in 0 .. Effort
    BY DEF Pixels!TypeOK, Pixels!RasterAssumption
  <2> QED
    BY <1>1, <1>5, <2>1 DEF Pixels!TypeOK, Canvas
<1>7. Pixels!WritesWhereAllowedStep
  BY <1>2 DEF Pixels!WritesWhereAllowedStep
<1> QED
  BY <1>2, <1>6, <1>7, OtherCommands

(* and a change of the mask settings.                                      *)
LEMMA MaskStep ==
  ASSUME Pixels!RasterAssumption, Pixels!TypeOK, rasterEffort >= 1, Pixels!MaskSettings
  PROVE  /\ Pixels!TypeOK' /\ Pixels!WritesWhereAllowedStep
         /\ Pixels!QuadsMeet' /\ Pixels!ShadesWithinVertices' /\ Pixels!LineUnbroken'
<1>1. /\ rasterVram' = Pixels!Untouched /\ rasterLast' = <<"mask", <<>>>>
      /\ rasterArea' = rasterArea /\ rasterOffset' = rasterOffset
      /\ rasterCheckMask' \in BOOLEAN /\ rasterForceMask' \in BOOLEAN
      /\ rasterEffort' = rasterEffort - 1
  BY DEF Pixels!MaskSettings, Pixels!Issue
<1>2. rasterLast'[1] = "mask"
  BY <1>1
<1>3. Pixels!TypeOK'
  <2>1. rasterEffort - 1 \in 0 .. Effort
    BY DEF Pixels!TypeOK, Pixels!RasterAssumption
  <2> QED
    BY <1>1, <2>1, UntouchedIs DEF Pixels!TypeOK, Canvas
<1>4. Pixels!WritesWhereAllowedStep
  BY <1>1, <1>2 DEF Pixels!WritesWhereAllowedStep
<1> QED
  BY <1>2, <1>3, <1>4, OtherCommands

(* Sizes of a block.                                                       *)
Sides == Nat \ {0}

(* The canvases that copying goes through, one for each pixel copied.      *)
Writing(src, dst, size) ==
  [i \in 1 .. size[1] * size[2] |->
     [m \in Canvas |->
        Pixels!WriteVram(m, Pixels!Wrapped(dst, <<(i - 1) % size[1], (i - 1) \div size[1]>>),
                         m[Pixels!Wrapped(src, <<(i - 1) % size[1], (i - 1) \div size[1]>>)])]]

(* The pixels whose mask bit is set.                                       *)
Masked(m) == {r \in Pixels!Pixels : m[r].stp}

(* Coordinates that wrap around stay in VRAM.                              *)
LEMMA WrappedIs ==
  ASSUME Pixels!RasterAssumption, NEW v \in Pixels!Pixels, NEW d1 \in Int, NEW d2 \in Int
  PROVE  Pixels!Wrapped(v, <<d1, d2>>) \in Pixels!Pixels
<1>1. /\ VramWidth \in Nat /\ VramHeight \in Nat /\ v[1] \in 0 .. VramWidth - 1 /\ v[2] \in 0 .. VramHeight - 1
  BY DEF Pixels!Pixels, Pixels!RasterAssumption
<1>2. (v[1] + d1) % VramWidth \in 0 .. VramWidth - 1 /\ (v[2] + d2) % VramHeight \in 0 .. VramHeight - 1
  <2>1. \A x \in Int, w \in Nat : w > 0 => x % w \in 0 .. w - 1
    OBVIOUS
  <2>2. VramWidth > 0 /\ VramHeight > 0 /\ v[1] + d1 \in Int /\ v[2] + d2 \in Int
    BY <1>1
  <2> QED
    BY <1>1, <2>1, <2>2
<1>3. Pixels!Wrapped(v, <<d1, d2>>) = <<(v[1] + d1) % VramWidth, (v[2] + d2) % VramHeight>>
  BY DEF Pixels!Wrapped
<1> QED
  BY <1>2, <1>3 DEF Pixels!Pixels

(* One write keeps a canvas, and a pixel whose mask is checked.            *)
LEMMA WriteVramIs ==
  ASSUME Pixels!TypeOK, NEW m \in Canvas, NEW p \in Pixels!Pixels, NEW q \in Pixels!Pixels
  PROVE  /\ Pixels!WriteVram(m, p, m[q]) \in Canvas
         /\ rasterCheckMask => \A r \in Masked(m) : Pixels!WriteVram(m, p, m[q])[r] = m[r]
<1> DEFINE px == [stp |-> m[q].stp \/ rasterForceMask, val |-> m[q].val,
                  times |-> m[p].times + 1]
<1>1. px \in [stp : BOOLEAN, val : Int, times : Nat]
  <2>1. /\ m[q] \in [stp : BOOLEAN, val : Int, times : Nat]
        /\ m[p] \in [stp : BOOLEAN, val : Int, times : Nat]
    BY DEF Canvas
  <2>2. (m[q].stp \/ rasterForceMask) \in BOOLEAN
    OBVIOUS
  <2>3. m[p].times + 1 \in Nat /\ m[q].val \in Int
    BY <2>1
  <2> QED
    BY <2>2, <2>3
<1>2. Pixels!WriteVram(m, p, m[q]) =
        IF rasterCheckMask /\ m[p].stp THEN m ELSE [m EXCEPT ![p] = px]
  BY DEF Pixels!WriteVram, Canvas
<1> HIDE DEF px
<1>3. [m EXCEPT ![p] = px] \in Canvas
  BY <1>1 DEF Canvas
<1>4. \A r \in Pixels!Pixels : r # p => [m EXCEPT ![p] = px][r] = m[r]
  BY DEF Canvas
<1>5. CASE rasterCheckMask /\ m[p].stp
  BY <1>2, <1>5
<1>6. CASE ~(rasterCheckMask /\ m[p].stp)
  <2>1. rasterCheckMask => \A r \in Masked(m) : r \in Pixels!Pixels /\ r # p
    BY <1>6 DEF Masked
  <2> QED
    BY <1>2, <1>3, <1>4, <1>6, <2>1
<1> QED
  BY <1>5, <1>6

(* Copying a pixel makes a canvas of a canvas and spares the pixels whose  *)
(* mask is checked.                                                        *)
LEMMA WritingIs ==
  ASSUME Pixels!RasterAssumption, Pixels!TypeOK,
         NEW src \in Pixels!Pixels, NEW dst \in Pixels!Pixels, NEW size \in Sides \X Sides
  PROVE  /\ size[1] * size[2] \in Nat
         /\ Writing(src, dst, size) \in [1 .. size[1] * size[2] -> [Canvas -> Canvas]]
         /\ rasterCheckMask => \A i \in 1 .. size[1] * size[2], m \in Canvas :
              \A r \in Masked(m) : Writing(src, dst, size)[i][m][r] = m[r]
<1> DEFINE N == size[1] * size[2]
           D(i) == <<(i - 1) % size[1], (i - 1) \div size[1]>>
           To(i) == Pixels!Wrapped(dst, D(i))
           From(i) == Pixels!Wrapped(src, D(i))
<1>1. N \in Nat
  <2>1. \A x, y \in Nat : x * y \in Nat
    OBVIOUS
  <2> QED
    BY <2>1 DEF Sides
<1>2. \A i \in 1 .. N : To(i) \in Pixels!Pixels /\ From(i) \in Pixels!Pixels
  <2> SUFFICES ASSUME NEW i \in 1 .. N PROVE To(i) \in Pixels!Pixels /\ From(i) \in Pixels!Pixels
    OBVIOUS
  <2>1. (i - 1) % size[1] \in Int /\ (i - 1) \div size[1] \in Int
    <3>1. i - 1 \in Int /\ size[1] \in Nat /\ size[1] > 0
      BY <1>1 DEF Sides
    <3>2. \A x \in Int, w \in Nat : w > 0 => x % w \in Int /\ x \div w \in Int
      OBVIOUS
    <3> QED
      BY <3>1, <3>2
  <2> QED
    BY <2>1, WrappedIs
<1> HIDE DEF N
<1>3. Writing(src, dst, size) =
        [i \in 1 .. N |-> [m \in Canvas |-> Pixels!WriteVram(m, To(i), m[From(i)])]]
  BY DEF Writing, N
<1> HIDE DEF To, From
<1>4. \A i \in 1 .. N, m \in Canvas :
        /\ Pixels!WriteVram(m, To(i), m[From(i)]) \in Canvas
        /\ rasterCheckMask =>
             \A r \in Masked(m) : Pixels!WriteVram(m, To(i), m[From(i)])[r] = m[r]
  <2> SUFFICES ASSUME NEW i \in 1 .. N, NEW m \in Canvas
               PROVE  /\ Pixels!WriteVram(m, To(i), m[From(i)]) \in Canvas
                      /\ rasterCheckMask =>
                           \A r \in Masked(m) : Pixels!WriteVram(m, To(i), m[From(i)])[r] = m[r]
    OBVIOUS
  <2>1. To(i) \in Pixels!Pixels /\ From(i) \in Pixels!Pixels
    BY <1>2
  <2> QED
    BY <2>1, WriteVramIs
<1>5. Writing(src, dst, size) \in [1 .. N -> [Canvas -> Canvas]]
  BY <1>3, <1>4
<1>6. \A i \in 1 .. N, m \in Canvas :
        Writing(src, dst, size)[i][m] = Pixels!WriteVram(m, To(i), m[From(i)])
  BY <1>3
<1>7. rasterCheckMask => \A i \in 1 .. N, m \in Canvas :
        \A r \in Masked(m) : Writing(src, dst, size)[i][m][r] = m[r]
  BY <1>4, <1>6
<1> QED
  BY <1>1, <1>5, <1>7 DEF N

(* A copy comes to the end of such a course (Gpu::vram_copy).              *)
LEMMA CopyIs ==
  ASSUME Pixels!RasterAssumption, Pixels!TypeOK,
         NEW src \in Pixels!Pixels, NEW dst \in Pixels!Pixels, NEW size \in Sides \X Sides,
         Pixels!VramCopy(src, dst, size)
  PROVE  \E f \in Courses(size[1] * size[2], Canvas, Pixels!Untouched, Writing(src, dst, size)) :
            rasterVram' = f[size[1] * size[2]]
<1> DEFINE N == size[1] * size[2]
           u == Pixels!Untouched
           d(i) == <<(i - 1) % size[1], (i - 1) \div size[1]>>
           OneCopy(m, e) == Pixels!WriteVram(m, Pixels!Wrapped(dst, e), m[Pixels!Wrapped(src, e)])
           Runs(h) == h = [i \in 0 .. N |-> IF i = 0 THEN u ELSE OneCopy(h[i - 1], d(i))]
           g == CHOOSE h : Runs(h)
           G == Writing(src, dst, size)
<1>1. rasterVram' = g[N]
  BY DEF Pixels!VramCopy
<1>2. N \in Nat /\ u \in Canvas /\ G \in [1 .. N -> [Canvas -> Canvas]]
  BY WritingIs, UntouchedIs
<1>3. \A i \in 1 .. N, m \in Canvas : G[i][m] = OneCopy(m, d(i))
  BY DEF Writing
<1> HIDE DEF N, G, u, OneCopy, d
<1>4. PICK f \in Courses(N, Canvas, u, G) : TRUE
  <2>1. Courses(N, Canvas, u, G) # {}
    BY <1>2, UptoRecursion
  <2> QED
    BY <2>1
<1>5. f \in [0 .. N -> Canvas] /\ f[0] = u /\ \A n \in 1 .. N : f[n] = G[n][f[n - 1]]
  BY <1>4 DEF Courses
<1>6. Runs(f)
  <2>1. \A i \in 0 .. N : f[i] = IF i = 0 THEN u ELSE OneCopy(f[i - 1], d(i))
    <3> SUFFICES ASSUME NEW i \in 0 .. N, i # 0 PROVE f[i] = OneCopy(f[i - 1], d(i))
      BY <1>5
    <3>1. i \in 1 .. N /\ i - 1 \in 0 .. N
      BY <1>2
    <3>2. f[i - 1] \in Canvas
      BY <1>5, <3>1
    <3> QED
      BY <1>3, <1>5, <3>1, <3>2
  <2> QED
    BY <1>5, <2>1
<1>7. Runs(g)
  <2> HIDE DEF Runs
  <2> QED
    BY <1>6
<1> HIDE DEF g
<1>8. \A i \in 0 .. N : g[i] = IF i = 0 THEN u ELSE OneCopy(g[i - 1], d(i))
  BY <1>7
<1>9. g[N] = f[N]
  <2> HIDE DEF Runs
  <2> DEFINE T == {m \in 0 .. N : g[m] = f[m]}
  <2>1. 0 \in T
    BY <1>2, <1>5, <1>8
  <2>2. ASSUME NEW m \in 0 .. N, m < N, m \in T PROVE m + 1 \in T
    <3>1. PICK n : n = m + 1
      OBVIOUS
    <3>2. n \in 1 .. N /\ n - 1 = m /\ n # 0 /\ n \in 0 .. N
      BY <1>2, <2>2, <3>1
    <3>3. g[n] = OneCopy(g[m], d(n)) /\ f[n] = G[n][f[m]]
      BY <1>5, <1>8, <3>2
    <3>4. f[m] \in Canvas /\ g[m] = f[m]
      BY <1>5, <2>2
    <3>5. G[n][f[m]] = OneCopy(f[m], d(n))
      BY <1>3, <3>2, <3>4
    <3> QED
      BY <3>1, <3>2, <3>3, <3>4, <3>5
  <2> HIDE DEF T
  <2>3. 0 .. N \subseteq T
    BY <1>2, <2>1, <2>2, UptoInduction
  <2> QED
    BY <1>2, <2>3 DEF T
<1> QED
  BY <1>1, <1>4, <1>9 DEF N, G, u

(* Copying within VRAM keeps all that is claimed of the rasterizer.        *)
LEMMA CopyStep ==
  ASSUME Pixels!RasterAssumption, Pixels!TypeOK, rasterEffort >= 2,
         NEW src \in Pixels!Pixels, NEW dst \in Pixels!Pixels, NEW size \in Sides \X Sides,
         Pixels!VramCopy(src, dst, size)
  PROVE  /\ Pixels!TypeOK' /\ Pixels!WritesWhereAllowedStep
         /\ Pixels!QuadsMeet' /\ Pixels!ShadesWithinVertices' /\ Pixels!LineUnbroken'
<1> DEFINE N == size[1] * size[2]
           u == Pixels!Untouched
           G == Writing(src, dst, size)
<1>1. /\ rasterLast'[1] = "copy"
      /\ rasterArea' = rasterArea /\ rasterOffset' = rasterOffset
      /\ rasterCheckMask' = rasterCheckMask /\ rasterForceMask' = rasterForceMask
      /\ rasterEffort' = rasterEffort - 2
  BY DEF Pixels!VramCopy, Pixels!Issue, Pixels!settings
<1>2. PICK f \in Courses(N, Canvas, u, G) : rasterVram' = f[N]
  BY CopyIs
<1>3. /\ N \in Nat /\ u \in Canvas
      /\ \A p \in Pixels!Pixels : u[p].stp = rasterVram[p].stp
  BY WritingIs, UntouchedIs
<1>4. rasterCheckMask => \A i \in 1 .. N, m \in Canvas :
        \A r \in Masked(m) : G[i][m][r] = m[r]
  BY WritingIs
<1> HIDE DEF N, G, u
<1>5. f \in [0 .. N -> Canvas] /\ f[0] = u /\ \A n \in 1 .. N : f[n] = G[n][f[n - 1]]
  BY <1>2 DEF Courses
<1>6. ASSUME rasterCheckMask, NEW r \in Masked(u)
      PROVE  f[N][r] = u[r]
  <2> DEFINE T == {m \in 0 .. N : f[m][r] = u[r]}
  <2>1. 0 \in T
    BY <1>3, <1>5
  <2>2. ASSUME NEW m \in 0 .. N, m < N, m \in T PROVE m + 1 \in T
    <3>1. PICK n : n = m + 1
      OBVIOUS
    <3>2. n \in 1 .. N /\ n - 1 = m /\ n \in 0 .. N
      BY <1>3, <2>2, <3>1
    <3>3. f[n] = G[n][f[m]] /\ f[m] \in Canvas /\ f[m][r] = u[r]
      BY <1>5, <2>2, <3>2
    <3>4. r \in Masked(f[m])
      BY <1>6, <3>3 DEF Masked
    <3>5. G[n][f[m]][r] = f[m][r]
      BY <1>4, <1>6, <3>2, <3>3, <3>4
    <3> QED
      BY <3>1, <3>2, <3>3, <3>5
  <2> HIDE DEF T
  <2>3. 0 .. N \subseteq T
    BY <1>3, <2>1, <2>2, UptoInduction
  <2> QED
    BY <1>3, <2>3 DEF T
<1>7. Pixels!TypeOK'
  <2>1. rasterEffort - 2 \in 0 .. Effort
    BY DEF Pixels!TypeOK, Pixels!RasterAssumption
  <2>2. rasterVram' \in Canvas
    BY <1>2, <1>3, <1>5
  <2> QED
    BY <1>1, <2>1, <2>2 DEF Pixels!TypeOK, Canvas
<1>8. Pixels!WritesWhereAllowedStep
  <2>1. rasterCheckMask => \A p \in Pixels!Pixels :
          rasterVram[p].stp => rasterVram'[p] = u[p]
    <3> SUFFICES ASSUME rasterCheckMask, NEW p \in Pixels!Pixels, rasterVram[p].stp
                 PROVE  rasterVram'[p] = u[p]
      OBVIOUS
    <3>1. p \in Masked(u)
      BY <1>3 DEF Masked
    <3> QED
      BY <1>2, <1>6, <3>1
  <2> QED
    BY <1>1, <2>1 DEF Pixels!WritesWhereAllowedStep, u
<1> QED
  BY <1>1, <1>7, <1>8, OtherCommands

(* A quotient rounded down stays between integers.                         *)
LEMMA FloorBetween ==
  ASSUME NEW n \in Int, NEW w \in Int, w > 0, NEW lo \in Int, NEW hi \in Int,
         lo * w <= n, n < hi * w + w
  PROVE  n \div w \in Int /\ lo <= n \div w /\ n \div w <= hi
<1> DEFINE q == n \div w
<1>1. q \in Int /\ n >= w * q /\ n < w * q + w
  OBVIOUS
<1> HIDE DEF q
<1>2. ASSUME q < lo PROVE FALSE
  <2>1. q + 1 <= lo
    BY <1>1, <1>2
  <2>2. (q + 1) * w <= lo * w
    BY <1>1, <2>1
  <2> QED
    BY <1>1, <2>2
<1>3. ASSUME q > hi PROVE FALSE
  <2>1. hi + 1 <= q
    BY <1>1, <1>3
  <2>2. (hi + 1) * w <= q * w
    BY <1>1, <2>1
  <2> QED
    BY <1>1, <2>2
<1>4. q \in Int /\ lo <= q /\ q <= hi
  BY <1>1, <1>2, <1>3
<1> QED
  BY <1>4 DEF q

(* Lines.  The slope on an axis, a distance in fractions over the steps.   *)
LEMMA SlopeIs ==
  ASSUME NEW f \in Int, NEW d \in Int, NEW s \in Int, f > 0, s > 0, -s <= d, d <= s
  PROVE  LET t == Pixels!Trunc(d * f, s)
         IN  /\ t \in Int /\ -f <= t /\ t <= f
             /\ d >= 0 => 0 <= t /\ s * t <= d * f /\ d * f < s * t + s
             /\ d <= 0 => t <= 0 /\ s * t >= d * f /\ d * f > s * t - s
             /\ d = s => t = f
             /\ d = -s => t = -f
<1> DEFINE n == d * f
           g == -f
           t == Pixels!Trunc(n, s)
<1>1. n \in Int /\ g \in Int /\ g * s <= n /\ n <= f * s
  <2>1. \A x, y, z \in Int : x <= y /\ z > 0 => x * z <= y * z
    OBVIOUS
  <2>2. (-s) * f <= d * f /\ d * f <= s * f
    BY <2>1
  <2>3. (-s) * f = (-f) * s /\ s * f = f * s
    OBVIOUS
  <2> QED
    BY <2>2, <2>3
<1>2. /\ d = s => f * s <= n
      /\ d = -s => n <= g * s
      /\ d >= 0 => n >= 0
      /\ d <= 0 => n <= 0
  OBVIOUS
<1>3. t \in Int /\ g <= t /\ t <= f
  <2> HIDE DEF n, g
  <2> QED
    BY <1>1, TruncBetween
<1>4. d = s => t = f
  <2> HIDE DEF n, g
  <2>1. d = s => f <= t /\ t <= f
    BY <1>1, <1>2, TruncBetween
  <2> HIDE DEF t
  <2> QED
    BY <1>3, <2>1
<1>5. d = -s => t = g
  <2> HIDE DEF n, g
  <2>1. d = -s => g <= t /\ t <= g
    BY <1>1, <1>2, TruncBetween
  <2> HIDE DEF t
  <2> QED
    BY <1>1, <1>3, <2>1
<1>6. ASSUME n >= 0 PROVE 0 <= t /\ s * t <= n /\ n < s * t + s
  <2> HIDE DEF n
  <2>1. t = n \div s
    BY <1>6 DEF Pixels!Trunc
  <2>2. s * (n \div s) <= n /\ n < s * (n \div s) + s /\ n \div s >= 0
    BY <1>1, <1>6
  <2> QED
    BY <2>1, <2>2
<1>7. ASSUME n < 0 PROVE t <= 0 /\ s * t >= n /\ n > s * t - s
  <2> HIDE DEF n
  <2> DEFINE m == -n
             q == m \div s
  <2>1. m \in Int /\ m > 0 /\ n = -m
    BY <1>1, <1>7
  <2>2. t = -q
    BY <1>1, <1>7 DEF Pixels!Trunc
  <2> HIDE DEF m
  <2>3. q \in Int /\ s * q <= m /\ m < s * q + s /\ q >= 0
    BY <2>1
  <2> HIDE DEF q, t
  <2>4. s * t = -(s * q)
    BY <2>2, <2>3
  <2> QED
    BY <1>1, <2>1, <2>2, <2>3, <2>4
<1>8. n = 0 => t = 0
  <2> HIDE DEF n
  <2>1. 0 \div s = 0
    OBVIOUS
  <2> QED
    BY <2>1 DEF Pixels!Trunc
<1>9. d >= 0 => 0 <= t /\ s * t <= n /\ n < s * t + s
  BY <1>2, <1>6
<1>10. d <= 0 => t <= 0 /\ s * t >= n /\ n > s * t - s
  <2>1. CASE n = 0
    <3> HIDE DEF n, t
    <3>1. t = 0 /\ s * t = 0
      BY <1>8, <2>1
    <3> QED
      BY <2>1, <3>1
  <2>2. CASE n # 0
    <3> HIDE DEF n, t
    <3> QED
      BY <1>1, <1>2, <1>7, <2>2
  <2> QED
    BY <2>1, <2>2
<1> HIDE DEF t
<1> QED
  BY <1>3, <1>4, <1>5, <1>9, <1>10 DEF t

(* Where that slope has got to after i of s steps, in whole pixels: on the *)
(* way to d, by at most one more at every step.                            *)
LEMMA DriftIs ==
  ASSUME NEW f \in Int, NEW d \in Int, NEW s \in Int, f > 0, s > 0, s <= f,
         NEW t \in Int, -f <= t, t <= f,
         d >= 0 => 0 <= t /\ s * t <= d * f /\ d * f < s * t + s,
         d <= 0 => t <= 0 /\ s * t >= d * f /\ d * f > s * t - s,
         NEW i \in 0 .. s
  PROVE  LET y == (i * t) \div f
             z == ((i + 1) * t) \div f
         IN  /\ y \in Int
             /\ d >= 0 => 0 <= y /\ y <= d
             /\ d <= 0 => d <= y /\ y <= 0
             /\ i = s => d - 1 <= y /\ y <= d + 1
             /\ i = 0 => y = 0
             /\ t = f => y = i
             /\ t = -f => y = -i
             /\ z \in Int /\ -1 <= z - y /\ z - y <= 1
<1> DEFINE x == i * t
           e == s * t
           df == d * f
           y == x \div f
<1>1. x \in Int /\ e \in Int /\ df \in Int /\ (i + 1) * t = x + t /\ 0 * f = 0
  OBVIOUS
<1>2. t >= 0 => 0 <= x /\ x <= e
  <2>1. \A a, b, c \in Int : a <= b /\ c >= 0 => a * c <= b * c
    OBVIOUS
  <2>2. t >= 0 => 0 * t <= i * t /\ i * t <= s * t
    BY <2>1
  <2> QED
    BY <2>2
<1>3. t <= 0 => x <= 0 /\ e <= x
  <2>1. \A a, b, c \in Int : a <= b /\ c <= 0 => a * c >= b * c
    OBVIOUS
  <2>2. t <= 0 => 0 * t >= i * t /\ i * t >= s * t
    BY <2>1
  <2> QED
    BY <2>2
<1>4. /\ i = s => x = e
      /\ i = 0 => x = 0
      /\ t = f => x = i * f
      /\ t = -f => x = (-i) * f
  OBVIOUS
<1>5. /\ d >= 0 => 0 <= t /\ e <= df /\ df < e + s
      /\ d <= 0 => t <= 0 /\ e >= df /\ df > e - s
  OBVIOUS
<1>6. (d - 1) * f = df - f /\ (d + 1) * f = df + f /\ d * f = df
  OBVIOUS
<1> HIDE DEF x, e, df
<1>7. y \in Int /\ f * y <= x /\ x < f * y + f
  BY <1>1
<1>8. /\ d >= 0 => 0 <= y /\ y <= d
      /\ d <= 0 => d <= y /\ y <= 0
  <2>1. ASSUME d >= 0 PROVE 0 <= y /\ y <= d
    <3>1. 0 * f <= x /\ x < d * f + f
      BY <1>1, <1>2, <1>5, <1>6, <2>1
    <3> QED
      BY <1>1, <3>1, FloorBetween
  <2>2. ASSUME d <= 0 PROVE d <= y /\ y <= 0
    <3>1. d * f <= x /\ x < 0 * f + f
      BY <1>1, <1>3, <1>5, <1>6, <2>2
    <3> QED
      BY <1>1, <3>1, FloorBetween
  <2> QED
    BY <2>1, <2>2
<1>9. ASSUME i = s PROVE d - 1 <= y /\ y <= d + 1
  <2>1. (d - 1) * f <= x /\ x < (d + 1) * f + f
    BY <1>1, <1>4, <1>5, <1>6, <1>9
  <2> QED
    BY <1>1, <2>1, FloorBetween
<1>10. i = 0 => y = 0
  <2>1. i = 0 => 0 * f <= x /\ x < 0 * f + f
    BY <1>1, <1>4
  <2>2. i = 0 => 0 <= y /\ y <= 0
    BY <1>1, <2>1, FloorBetween
  <2> QED
    BY <1>7, <2>2
<1>11. t = f => y = i
  <2>1. t = f => i * f <= x /\ x < i * f + f
    BY <1>1, <1>4
  <2>2. t = f => i <= y /\ y <= i
    BY <1>1, <2>1, FloorBetween
  <2> QED
    BY <1>7, <2>2
<1>12. t = -f => y = -i
  <2> DEFINE j == -i
  <2>1. j \in Int /\ (t = -f => j * f <= x /\ x < j * f + f)
    BY <1>1, <1>4
  <2> HIDE DEF j
  <2>2. t = -f => j <= y /\ y <= j
    BY <1>1, <2>1, FloorBetween
  <2>3. t = -f => y = j
    BY <1>7, <2>1, <2>2
  <2> QED
    BY <2>3 DEF j
<1>13. LET z == (x + t) \div f IN z \in Int /\ y - 1 <= z /\ z <= y + 1
  <2> HIDE DEF y
  <2>1. (y - 1) * f = f * y - f /\ (y + 1) * f = f * y + f /\ y - 1 \in Int /\ y + 1 \in Int
    BY <1>7
  <2>2. (y - 1) * f <= x + t /\ x + t < (y + 1) * f + f
    BY <1>1, <1>7, <2>1
  <2> QED
    BY <1>1, <2>1, <2>2, FloorBetween
<1> HIDE DEF y
<1>14. LET z == (x + t) \div f IN z \in Int /\ -1 <= z - y /\ z - y <= 1
  BY <1>7, <1>13
<1> QED
  BY <1>1, <1>7, <1>8, <1>9, <1>10, <1>11, <1>12, <1>14 DEF x, y

(* A line on one axis: it stays between its ends, ends within a pixel,     *)
(* crosses the longer axis a pixel at a step and no axis faster.           *)
LEMMA AlongIs ==
  ASSUME NEW a, NEW b, NEW s \in Int, NEW k, a[k] \in Int, b[k] \in Int,
         s > 0, s <= Pixels!Fraction, -s <= b[k] - a[k], b[k] - a[k] <= s,
         NEW i \in 0 .. s
  PROVE  LET p == Pixels!Along(a, b, s, i, k)
             q == Pixels!Along(a, b, s, i + 1, k)
         IN  /\ p \in Int /\ q \in Int
             /\ Pixels!Least(a[k], b[k]) <= p /\ p <= Pixels!Most(a[k], b[k])
             /\ i = s => Pixels!Sized(p - b[k]) <= 1
             /\ i = 0 => p = a[k]
             /\ b[k] - a[k] = s => p = a[k] + i
             /\ b[k] - a[k] = -s => p = a[k] - i
             /\ Pixels!Sized(q - p) <= 1
<1> DEFINE f == Pixels!Fraction
           d == b[k] - a[k]
           t == Pixels!Trunc(d * f, s)
           y == (i * t) \div f
           z == ((i + 1) * t) \div f
<1>1. f \in Int /\ f > 0 /\ d \in Int
  BY DEF Pixels!Fraction
<1> HIDE DEF f, d
<1>2. /\ t \in Int /\ -f <= t /\ t <= f
      /\ d >= 0 => 0 <= t /\ s * t <= d * f /\ d * f < s * t + s
      /\ d <= 0 => t <= 0 /\ s * t >= d * f /\ d * f > s * t - s
      /\ d = s => t = f
      /\ d = -s => t = -f
  <2>1. -s <= d /\ d <= s
    BY DEF d
  <2> QED
    BY <1>1, <2>1, SlopeIs
<1> HIDE DEF t
<1>3. /\ y \in Int
      /\ d >= 0 => 0 <= y /\ y <= d
      /\ d <= 0 => d <= y /\ y <= 0
      /\ i = s => d - 1 <= y /\ y <= d + 1
      /\ i = 0 => y = 0
      /\ t = f => y = i
      /\ t = -f => y = -i
      /\ z \in Int /\ -1 <= z - y /\ z - y <= 1
  <2>1. s <= f
    BY DEF f
  <2> QED
    BY <1>1, <1>2, <2>1, DriftIs
<1>4. \A x \in Int : (a[k] * f + x) \div f = a[k] + (x \div f)
  <2> SUFFICES ASSUME NEW x \in Int PROVE (a[k] * f + x) \div f = a[k] + (x \div f)
    OBVIOUS
  <2> DEFINE v == x \div f
             c == a[k]
             l == c + v
             n == c * f + x
  <2>1. v \in Int /\ f * v <= x /\ x < f * v + f
    BY <1>1
  <2>2. c \in Int
    OBVIOUS
  <2> HIDE DEF v, c
  <2>3. l \in Int /\ l * f = c * f + f * v
    BY <1>1, <2>1, <2>2
  <2>4. n \in Int /\ l * f <= n /\ n < l * f + f
    BY <1>1, <2>1, <2>2, <2>3
  <2> HIDE DEF l, n
  <2>5. n \div f \in Int /\ l <= n \div f /\ n \div f <= l
    BY <1>1, <2>3, <2>4, FloorBetween
  <2>6. n \div f = l
    BY <2>3, <2>5
  <2> QED
    BY <2>6 DEF n, l, v, c
<1>5. Pixels!Along(a, b, s, i, k) = a[k] + y /\ Pixels!Along(a, b, s, i + 1, k) = a[k] + z
  <2>1. i * t \in Int /\ (i + 1) * t \in Int
    BY <1>2
  <2>2. /\ Pixels!Along(a, b, s, i, k) = (a[k] * f + i * t) \div f
        /\ Pixels!Along(a, b, s, i + 1, k) = (a[k] * f + (i + 1) * t) \div f
    BY DEF Pixels!Along, f, d, t
  <2> QED
    BY <1>4, <2>1, <2>2
<1> HIDE DEF y, z
<1> DEFINE p == Pixels!Along(a, b, s, i, k)
           q == Pixels!Along(a, b, s, i + 1, k)
<1>6. p = a[k] + y /\ q = a[k] + z /\ b[k] = a[k] + d
  BY <1>5 DEF d
<1> HIDE DEF p, q
<1> DEFINE c == a[k]
           e == b[k]
<1>7. c \in Int /\ e \in Int /\ p = c + y /\ q = c + z /\ e = c + d
  BY <1>6
<1> HIDE DEF c, e
<1>8. p \in Int /\ q \in Int
  BY <1>3, <1>7
<1>9. Pixels!Least(c, e) <= p /\ p <= Pixels!Most(c, e)
  <2>1. CASE d >= 0
    BY <1>1, <1>3, <1>7, <2>1 DEF Pixels!Least, Pixels!Most
  <2>2. CASE d < 0
    BY <1>1, <1>3, <1>7, <2>2 DEF Pixels!Least, Pixels!Most
  <2> QED
    BY <1>1, <2>1, <2>2
<1>10. i = s => Pixels!Sized(p - e) <= 1
  BY <1>1, <1>3, <1>7 DEF Pixels!Sized
<1>11. Pixels!Sized(q - p) <= 1
  BY <1>3, <1>7 DEF Pixels!Sized
<1>12. /\ i = 0 => p = c
       /\ d = s => p = c + i
       /\ d = -s => p = c - i
  BY <1>2, <1>3, <1>7
<1> QED
  BY <1>8, <1>9, <1>10, <1>11, <1>12 DEF c, d, e, p, q

(* The longer axis of a line.                                              *)
Longer(a, b) == IF Pixels!Spread({a, b}, 1) >= Pixels!Spread({a, b}, 2) THEN 1 ELSE 2

(* The extent of two vertices on an axis.                                  *)
LEMMA SpreadIs ==
  ASSUME NEW a \in Plane, NEW b \in Plane, NEW k \in 1 .. 2
  PROVE  Pixels!Spread({a, b}, k) = Pixels!Sized(b[k] - a[k])
<1> DEFINE ns == {v[k] : v \in {a, b}}
<1>1. a[k] \in Int /\ b[k] \in Int
  BY DEF Plane
<1>2. ns = {a[k], b[k]}
  OBVIOUS
<1> DEFINE c == a[k]
           e == b[k]
<1>3. c \in Int /\ e \in Int /\ ns = {c, e}
  BY <1>1, <1>2
<1> HIDE DEF ns, c, e
<1>4. Pixels!Max(ns) = Pixels!Most(c, e)
  <2>1. Pixels!Most(c, e) \in ns /\ \A x \in ns : Pixels!Most(c, e) >= x
    BY <1>3 DEF Pixels!Most
  <2>2. Pixels!Max(ns) \in ns /\ \A x \in ns : Pixels!Max(ns) >= x
    BY <2>1 DEF Pixels!Max
  <2>3. \A x \in ns : x \in Int
    BY <1>3
  <2>4. Pixels!Max(ns) >= Pixels!Most(c, e) /\ Pixels!Most(c, e) >= Pixels!Max(ns)
    BY <2>1, <2>2
  <2>5. Pixels!Max(ns) \in Int /\ Pixels!Most(c, e) \in Int
    BY <2>1, <2>2, <2>3
  <2> QED
    BY <2>4, <2>5
<1>5. Pixels!Min(ns) = Pixels!Least(c, e)
  <2>1. Pixels!Least(c, e) \in ns /\ \A x \in ns : Pixels!Least(c, e) <= x
    BY <1>3 DEF Pixels!Least
  <2>2. Pixels!Min(ns) \in ns /\ \A x \in ns : Pixels!Min(ns) <= x
    BY <2>1 DEF Pixels!Min
  <2>3. \A x \in ns : x \in Int
    BY <1>3
  <2>4. Pixels!Min(ns) <= Pixels!Least(c, e) /\ Pixels!Least(c, e) <= Pixels!Min(ns)
    BY <2>1, <2>2
  <2>5. Pixels!Min(ns) \in Int /\ Pixels!Least(c, e) \in Int
    BY <2>1, <2>2, <2>3
  <2> QED
    BY <2>4, <2>5
<1>6. Pixels!Most(c, e) - Pixels!Least(c, e) = Pixels!Sized(e - c)
  BY <1>3 DEF Pixels!Most, Pixels!Least, Pixels!Sized
<1>7. Pixels!Spread({a, b}, k) = Pixels!Max(ns) - Pixels!Min(ns)
  BY DEF Pixels!Spread, ns
<1> QED
  BY <1>4, <1>5, <1>6, <1>7 DEF c, e

(* A size is an integer.                                                   *)
LEMMA SizedIsInt ==
  ASSUME NEW n \in Int
  PROVE  Pixels!Sized(n) \in Int
  BY DEF Pixels!Sized

(* A line takes as many steps as its longer axis has pixels, one at        *)
(* least, and no more than a pixel has fractions if it is drawn at all.    *)
LEMMA StepsIs ==
  ASSUME NEW a \in Plane, NEW b \in Plane
  PROVE  LET s == Pixels!Steps(a, b)
         IN  /\ s \in Int /\ s >= 1
             /\ \A k \in 1 .. 2 : -s <= b[k] - a[k] /\ b[k] - a[k] <= s
             /\ a = b => s = 1 /\ Pixels!Spread({a, b}, Longer(a, b)) = 0
             /\ a # b => /\ Pixels!Spread({a, b}, Longer(a, b)) = s
                         /\ \/ b[Longer(a, b)] - a[Longer(a, b)] = s
                            \/ b[Longer(a, b)] - a[Longer(a, b)] = -s
             /\ Pixels!RasterAssumption /\ ~Pixels!Oversized({a, b}) => s <= Pixels!Fraction
<1> DEFINE s == Pixels!Steps(a, b)
           d == b[1] - a[1]
           e == b[2] - a[2]
<1>1. a[1] \in Int /\ a[2] \in Int /\ b[1] \in Int /\ b[2] \in Int /\ d \in Int /\ e \in Int
  BY DEF Plane
<1>2. /\ Pixels!Spread({a, b}, 1) = Pixels!Sized(d)
      /\ Pixels!Spread({a, b}, 2) = Pixels!Sized(e)
  BY SpreadIs
<1>3. a = b <=> d = 0 /\ e = 0
  <2>1. a = b => d = 0 /\ e = 0
    BY <1>1
  <2>2. d = 0 /\ e = 0 => a[1] = b[1] /\ a[2] = b[2]
    BY <1>1
  <2>3. a[1] = b[1] /\ a[2] = b[2] => a = b
    BY DEF Plane
  <2> QED
    BY <2>1, <2>2, <2>3
<1>4. s = Pixels!Most(Pixels!Most(Pixels!Sized(d), Pixels!Sized(e)), 1)
  BY DEF Pixels!Steps
<1>5. Longer(a, b) = (IF Pixels!Sized(d) >= Pixels!Sized(e) THEN 1 ELSE 2)
  BY <1>2 DEF Longer
<1>6. Pixels!Fraction \in Int /\ Pixels!Fraction >= 1
  BY DEF Pixels!Fraction
<1>7. Pixels!RasterAssumption => Reach \in Int /\ Reach <= Pixels!Fraction
  <2>1. Pixels!RasterAssumption => Reach \in 0 .. Pixels!Fraction
    BY DEF Pixels!RasterAssumption
  <2> QED
    BY <1>6, <2>1
<1>8. /\ Pixels!RasterAssumption /\ ~Pixels!Oversized({a, b})
           => Pixels!Sized(d) <= Reach /\ Pixels!Sized(e) <= Reach
  <2>1. ~Pixels!Oversized({a, b}) =>
          ~(Pixels!Spread({a, b}, 1) > Reach) /\ ~(Pixels!Spread({a, b}, 2) > Reach)
    BY DEF Pixels!Oversized
  <2>2. Pixels!Sized(d) \in Int /\ Pixels!Sized(e) \in Int
    <3> HIDE DEF s, d, e
    <3> QED
      BY <1>1, SizedIsInt
  <2> HIDE DEF s, d, e
  <2> QED
    BY <1>2, <1>7, <2>1, <2>2
<1>9. b[Longer(a, b)] - a[Longer(a, b)] = (IF Pixels!Sized(d) >= Pixels!Sized(e) THEN d ELSE e)
  BY <1>5
<1>10. Pixels!Spread({a, b}, Longer(a, b))
         = (IF Pixels!Sized(d) >= Pixels!Sized(e) THEN Pixels!Sized(d) ELSE Pixels!Sized(e))
  BY <1>2, <1>5
<1> HIDE DEF s, d, e
<1>11. /\ s \in Int /\ s >= 1 /\ -s <= d /\ d <= s /\ -s <= e /\ e <= s
  BY <1>1, <1>4 DEF Pixels!Most, Pixels!Sized
<1>12. a = b => s = 1 /\ Pixels!Spread({a, b}, Longer(a, b)) = 0
  BY <1>3, <1>4, <1>10 DEF Pixels!Most, Pixels!Sized
<1>13. a # b => /\ Pixels!Spread({a, b}, Longer(a, b)) = s
                /\ \/ b[Longer(a, b)] - a[Longer(a, b)] = s
                   \/ b[Longer(a, b)] - a[Longer(a, b)] = -s
  BY <1>1, <1>3, <1>4, <1>9, <1>10 DEF Pixels!Most, Pixels!Sized
<1>14. Pixels!RasterAssumption /\ ~Pixels!Oversized({a, b}) => s <= Pixels!Fraction
  BY <1>1, <1>4, <1>6, <1>7, <1>8 DEF Pixels!Most, Pixels!Sized
<1>15. \A k \in 1 .. 2 : -s <= b[k] - a[k] /\ b[k] - a[k] <= s
  BY <1>11 DEF d, e
<1> QED
  BY <1>11, <1>12, <1>13, <1>14, <1>15 DEF s

(* Truncated quotients are integers.                                       *)
LEMMA TruncInt ==
  ASSUME NEW n \in Int, NEW w \in Int, w > 0
  PROVE  Pixels!Trunc(n, w) \in Int
<1>1. n \div w \in Int /\ (-n) \div w \in Int
  OBVIOUS
<1> QED
  BY <1>1 DEF Pixels!Trunc

(* What a line writes, whatever the area leaves of it.                     *)
LEMMA LineValuesAre ==
  ASSUME Pixels!RasterAssumption, NEW a \in Plane, NEW b \in Plane
  PROVE  /\ \A p \in DOMAIN Pixels!LineValues(a, b) :
              Pixels!LineValues(a, b)[p] \in Int /\ Pixels!InArea(p)
         /\ Pixels!Oversized({a, b}) => DOMAIN Pixels!LineValues(a, b) = {}
         /\ ~Pixels!Oversized({a, b}) =>
              \A p : p \in DOMAIN Pixels!LineValues(a, b) <=>
                       /\ Pixels!InArea(p)
                       /\ \E i \in 0 .. Pixels!Steps(a, b) :
                            p = Pixels!Point(a, b, Pixels!Steps(a, b), i)
<1> DEFINE s == Pixels!Steps(a, b)
           at == Pixels!Points(a, b)
           Ats == {at[i] : i \in DOMAIN at}
           index == [p \in Ats |-> CHOOSE i \in DOMAIN at : at[i] = p]
           vals == [p \in {q \in DOMAIN index : Pixels!InArea(q)} |->
                      IF a = b THEN Shades[1]
                      ELSE Shades[1] + Pixels!Trunc((Shades[2] - Shades[1]) * index[p], s)]
<1>1. Pixels!LineValues(a, b) = IF Pixels!Oversized({a, b}) THEN <<>> ELSE vals
  BY DEF Pixels!LineValues
<1>2. s \in Int /\ s >= 1
  BY StepsIs
<1>3. DOMAIN at = 0 .. s /\ \A i \in 0 .. s : at[i] = Pixels!Point(a, b, s, i)
  BY DEF Pixels!Points
<1>4. \A p \in Ats : index[p] \in 0 .. s
  BY <1>3
<1>5. \A p \in DOMAIN vals : vals[p] \in Int /\ Pixels!InArea(p)
  <2> SUFFICES ASSUME NEW p \in DOMAIN vals PROVE vals[p] \in Int /\ Pixels!InArea(p)
    OBVIOUS
  <2>1. p \in Ats /\ Pixels!InArea(p)
    OBVIOUS
  <2>2. Shades[1] \in Int /\ Shades[2] \in Int
    BY ShadesAreNumbers
  <2> DEFINE x == index[p]
             r == Shades[1]
             w == Shades[2]
             n == (w - r) * x
  <2>3. x \in Int
    <3>1. index[p] \in 0 .. s
      BY <1>4, <2>1
    <3> HIDE DEF index, s
    <3> QED
      BY <1>2, <3>1
  <2>4. vals[p] = IF a = b THEN r ELSE r + Pixels!Trunc(n, s)
    OBVIOUS
  <2>5. r \in Int /\ w \in Int
    BY <2>2
  <2> HIDE DEF x, r, w, vals, index
  <2>6. n \in Int
    BY <2>3, <2>5
  <2> HIDE DEF n
  <2>7. Pixels!Trunc(n, s) \in Int
    BY <1>2, <2>6, TruncInt
  <2> QED
    BY <2>1, <2>4, <2>5, <2>7
<1>6. \A p : p \in DOMAIN vals <=> p \in Ats /\ Pixels!InArea(p)
  OBVIOUS
<1>7. \A p : p \in Ats <=> \E i \in 0 .. s : p = Pixels!Point(a, b, s, i)
  <2> HIDE DEF s, at
  <2> QED
    BY <1>3
<1> HIDE DEF vals, Ats
<1>8. CASE Pixels!Oversized({a, b})
  <2>1. Pixels!LineValues(a, b) = <<>>
    BY <1>1, <1>8
  <2>2. DOMAIN <<>> = {}
    OBVIOUS
  <2>3. DOMAIN Pixels!LineValues(a, b) = {}
    BY <2>1, <2>2
  <2> QED
    BY <1>8, <2>3
<1>9. CASE ~Pixels!Oversized({a, b})
  <2>1. Pixels!LineValues(a, b) = vals
    BY <1>1, <1>9
  <2> QED
    BY <1>5, <1>6, <1>7, <1>9, <2>1
<1> QED
  BY <1>8, <1>9

(* The points a line is made of.                                           *)
Stroke(a, b) ==
  {Pixels!Point(a, b, Pixels!Steps(a, b), i) : i \in 0 .. Pixels!Steps(a, b)}

(* The points of a line, one after another.                                *)
LEMMA PointIs ==
  ASSUME NEW a \in Plane, NEW b \in Plane, Pixels!Steps(a, b) <= Pixels!Fraction,
         NEW i \in 0 .. Pixels!Steps(a, b)
  PROVE  LET s == Pixels!Steps(a, b)
             p == Pixels!Point(a, b, s, i)
             q == Pixels!Point(a, b, s, i + 1)
         IN  /\ p \in Plane
             /\ \A k \in 1 .. 2 :
                  /\ Pixels!Least(a[k], b[k]) <= p[k] /\ p[k] <= Pixels!Most(a[k], b[k])
                  /\ i = s => Pixels!Sized(p[k] - b[k]) <= 1
                  /\ i = 0 => p[k] = a[k]
                  /\ b[k] - a[k] = s => p[k] = a[k] + i
                  /\ b[k] - a[k] = -s => p[k] = a[k] - i
                  /\ Pixels!Sized(q[k] - p[k]) <= 1
<1> DEFINE s == Pixels!Steps(a, b)
           p == Pixels!Point(a, b, s, i)
           q == Pixels!Point(a, b, s, i + 1)
<1>1. /\ s \in Int /\ s >= 1
      /\ \A k \in 1 .. 2 : -s <= b[k] - a[k] /\ b[k] - a[k] <= s
  BY StepsIs
<1>2. /\ \A k \in 1 .. 2 : a[k] \in Int /\ b[k] \in Int
      /\ i \in 0 .. s /\ s <= Pixels!Fraction
  BY DEF Plane
<1>3. /\ p = <<Pixels!Along(a, b, s, i, 1), Pixels!Along(a, b, s, i, 2)>>
      /\ q = <<Pixels!Along(a, b, s, i + 1, 1), Pixels!Along(a, b, s, i + 1, 2)>>
  BY DEF Pixels!Point
<1>4. \A k \in 1 .. 2 : /\ p[k] = Pixels!Along(a, b, s, i, k)
                        /\ q[k] = Pixels!Along(a, b, s, i + 1, k)
  BY <1>3
<1> HIDE DEF s, p, q
<1>5. \A k \in 1 .. 2 :
        /\ p[k] \in Int
        /\ Pixels!Least(a[k], b[k]) <= p[k] /\ p[k] <= Pixels!Most(a[k], b[k])
        /\ i = s => Pixels!Sized(p[k] - b[k]) <= 1
        /\ i = 0 => p[k] = a[k]
        /\ b[k] - a[k] = s => p[k] = a[k] + i
        /\ b[k] - a[k] = -s => p[k] = a[k] - i
        /\ Pixels!Sized(q[k] - p[k]) <= 1
  <2> SUFFICES ASSUME NEW k \in 1 .. 2
               PROVE  /\ p[k] \in Int
                      /\ Pixels!Least(a[k], b[k]) <= p[k] /\ p[k] <= Pixels!Most(a[k], b[k])
                      /\ i = s => Pixels!Sized(p[k] - b[k]) <= 1
                      /\ i = 0 => p[k] = a[k]
                      /\ b[k] - a[k] = s => p[k] = a[k] + i
                      /\ b[k] - a[k] = -s => p[k] = a[k] - i
                      /\ Pixels!Sized(q[k] - p[k]) <= 1
    OBVIOUS
  <2>1. /\ a[k] \in Int /\ b[k] \in Int /\ s > 0
        /\ -s <= b[k] - a[k] /\ b[k] - a[k] <= s
    BY <1>1, <1>2
  <2> DEFINE x == Pixels!Along(a, b, s, i, k)
             y == Pixels!Along(a, b, s, i + 1, k)
  <2>2. s \in Int /\ s <= Pixels!Fraction /\ i \in 0 .. s
    BY <1>1, <1>2
  <2>3. /\ x \in Int /\ y \in Int
        /\ Pixels!Least(a[k], b[k]) <= x /\ x <= Pixels!Most(a[k], b[k])
        /\ i = s => Pixels!Sized(x - b[k]) <= 1
        /\ i = 0 => x = a[k]
        /\ b[k] - a[k] = s => x = a[k] + i
        /\ b[k] - a[k] = -s => x = a[k] - i
        /\ Pixels!Sized(y - x) <= 1
    BY <2>1, <2>2, AlongIs
  <2>4. p[k] = x /\ q[k] = y
    BY <1>4
  <2> HIDE DEF x, y
  <2> QED
    BY <2>3, <2>4
<1>6. p \in Plane
  <2>1. p[1] \in Int /\ p[2] \in Int
    BY <1>5
  <2>2. p = <<p[1], p[2]>>
    BY <1>3
  <2> QED
    BY <2>1, <2>2 DEF Plane
<1> QED
  BY <1>5, <1>6 DEF s, p, q

(* A line between two pixels of the area stays in it.                      *)
LEMMA StrokeInArea ==
  ASSUME Pixels!RasterAssumption, Pixels!TypeOK, NEW a \in Pixels!Pixels,
         NEW b \in Pixels!Pixels, Pixels!InArea(a), Pixels!InArea(b),
         ~Pixels!Oversized({a, b})
  PROVE  /\ Stroke(a, b) \subseteq Pixels!Pixels
         /\ DOMAIN Pixels!LineValues(a, b) = Stroke(a, b)
<1> DEFINE s == Pixels!Steps(a, b)
           pt(i) == Pixels!Point(a, b, s, i)
<1>1. a \in Plane /\ b \in Plane
  BY PixelPlaces
<1>2. s <= Pixels!Fraction
  BY <1>1, StepsIs
<1>3. \A i \in 0 .. s : /\ pt(i) \in Plane
                        /\ \A k \in 1 .. 2 : /\ Pixels!Least(a[k], b[k]) <= pt(i)[k]
                                             /\ pt(i)[k] <= Pixels!Most(a[k], b[k])
  BY <1>1, <1>2, PointIs
<1> HIDE DEF pt, s
<1>4. /\ rasterArea[1][1] \in Int /\ rasterArea[1][2] \in Int
      /\ rasterArea[2][1] \in Int /\ rasterArea[2][2] \in Int
  BY DEF Pixels!RasterAssumption, Pixels!TypeOK
<1>5. \A c \in Pixels!Pixels : /\ c[1] \in Int /\ 0 <= c[1] /\ c[1] <= VramWidth - 1
                               /\ c[2] \in Int /\ 0 <= c[2] /\ c[2] <= VramHeight - 1
  BY DEF Pixels!Pixels, Pixels!RasterAssumption
<1>6. \A lo, hi, x, y, z \in Int :
        /\ lo <= x /\ x <= hi /\ lo <= y /\ y <= hi
        /\ Pixels!Least(x, y) <= z /\ z <= Pixels!Most(x, y)
        => lo <= z /\ z <= hi
  BY DEF Pixels!Least, Pixels!Most
<1>7. ASSUME NEW i \in 0 .. s PROVE pt(i) \in Pixels!Pixels /\ Pixels!InArea(pt(i))
  <2>1. PICK c : c = pt(i)
    OBVIOUS
  <2>2. /\ c \in Plane /\ c[1] \in Int /\ c[2] \in Int
        /\ Pixels!Least(a[1], b[1]) <= c[1] /\ c[1] <= Pixels!Most(a[1], b[1])
        /\ Pixels!Least(a[2], b[2]) <= c[2] /\ c[2] <= Pixels!Most(a[2], b[2])
    BY <1>3, <2>1 DEF Plane
  <2>3. /\ a[1] \in Int /\ a[2] \in Int /\ b[1] \in Int /\ b[2] \in Int
        /\ 0 <= a[1] /\ a[1] <= VramWidth - 1 /\ 0 <= a[2] /\ a[2] <= VramHeight - 1
        /\ 0 <= b[1] /\ b[1] <= VramWidth - 1 /\ 0 <= b[2] /\ b[2] <= VramHeight - 1
    BY <1>5
  <2>4. VramWidth - 1 \in Int /\ VramHeight - 1 \in Int
    BY DEF Pixels!RasterAssumption
  <2>5. 0 <= c[1] /\ c[1] <= VramWidth - 1 /\ 0 <= c[2] /\ c[2] <= VramHeight - 1
    BY <1>6, <2>2, <2>3, <2>4
  <2>6. c \in Pixels!Pixels
    <3>1. c[1] \in 0 .. VramWidth - 1 /\ c[2] \in 0 .. VramHeight - 1
      BY <2>2, <2>4, <2>5
    <3> QED
      BY <2>2, <3>1 DEF Plane, Pixels!Pixels
  <2>7. /\ rasterArea[1][1] <= a[1] /\ a[1] <= rasterArea[2][1]
        /\ rasterArea[1][2] <= a[2] /\ a[2] <= rasterArea[2][2]
        /\ rasterArea[1][1] <= b[1] /\ b[1] <= rasterArea[2][1]
        /\ rasterArea[1][2] <= b[2] /\ b[2] <= rasterArea[2][2]
    BY DEF Pixels!InArea
  <2>8. Pixels!InArea(c)
    <3>1. rasterArea[1][1] <= c[1] /\ c[1] <= rasterArea[2][1]
      BY <1>4, <1>6, <2>2, <2>3, <2>7
    <3>2. rasterArea[1][2] <= c[2] /\ c[2] <= rasterArea[2][2]
      BY <1>4, <1>6, <2>2, <2>3, <2>7
    <3> QED
      BY <3>1, <3>2 DEF Pixels!InArea
  <2> QED
    BY <2>1, <2>6, <2>8
<1>8. Stroke(a, b) = {pt(i) : i \in 0 .. s}
  BY DEF Stroke, pt, s
<1>9. \A p : p \in DOMAIN Pixels!LineValues(a, b) <=>
               Pixels!InArea(p) /\ \E i \in 0 .. s : p = pt(i)
  BY <1>1, LineValuesAre DEF pt, s
<1>10. \A p : p \in DOMAIN Pixels!LineValues(a, b) <=> p \in Stroke(a, b)
  BY <1>7, <1>8, <1>9
<1> QED
  BY <1>7, <1>8, <1>10

(* A line has one point more than its longer axis has steps, each once.    *)
LEMMA StrokeCounted ==
  ASSUME Pixels!RasterAssumption, NEW a \in Plane, NEW b \in Plane,
         ~Pixels!Oversized({a, b})
  PROVE  /\ Pixels!Cardinality(Stroke(a, b)) = Pixels!Spread({a, b}, Longer(a, b)) + 1
         /\ a = b => Stroke(a, b) = {a}
         /\ a # b => \A i, j \in 0 .. Pixels!Steps(a, b) :
              Pixels!Point(a, b, Pixels!Steps(a, b), i)
                = Pixels!Point(a, b, Pixels!Steps(a, b), j) => i = j
<1> DEFINE s == Pixels!Steps(a, b)
           pt(i) == Pixels!Point(a, b, s, i)
           n == Pixels!Spread({a, b}, Longer(a, b))
           k == Longer(a, b)
<1>1. /\ s \in Int /\ s >= 1 /\ s <= Pixels!Fraction /\ k \in 1 .. 2
      /\ a = b => s = 1 /\ n = 0
      /\ a # b => n = s /\ (b[k] - a[k] = s \/ b[k] - a[k] = -s)
  <2>1. k \in 1 .. 2
    BY DEF Longer
  <2> QED
    BY <2>1, StepsIs
<1>2. \A i \in 0 .. s :
        /\ pt(i) \in Plane
        /\ \A j \in 1 .. 2 :
             /\ Pixels!Least(a[j], b[j]) <= pt(i)[j] /\ pt(i)[j] <= Pixels!Most(a[j], b[j])
             /\ i = 0 => pt(i)[j] = a[j]
             /\ b[j] - a[j] = s => pt(i)[j] = a[j] + i
             /\ b[j] - a[j] = -s => pt(i)[j] = a[j] - i
  BY <1>1, PointIs
<1>3. Stroke(a, b) = {pt(i) : i \in 0 .. s}
  BY DEF Stroke
<1> HIDE DEF n, k, s, pt
<1>4. Pixels!Cardinality(Stroke(a, b)) = Cardinality(Stroke(a, b))
  BY DEF Pixels!Cardinality, Cardinality
<1>5. \A j \in 1 .. 2 : a[j] \in Int /\ b[j] \in Int
  BY DEF Plane
<1>6. ASSUME a = b PROVE Stroke(a, b) = {a}
  <2>1. \A i \in 0 .. s : pt(i) = a
    <3> SUFFICES ASSUME NEW i \in 0 .. s PROVE pt(i) = a
      OBVIOUS
    <3>1. PICK c : c = pt(i)
      OBVIOUS
    <3>2. c \in Plane /\ \A j \in 1 .. 2 : Pixels!Least(a[j], a[j]) <= c[j]
                                         /\ c[j] <= Pixels!Most(a[j], a[j])
      BY <1>2, <1>6, <3>1
    <3>3. \A j \in 1 .. 2 : c[j] = a[j]
      <4>1. \A j \in 1 .. 2 : c[j] \in Int /\ a[j] \in Int
        BY <3>2 DEF Plane
      <4> QED
        BY <3>2, <4>1 DEF Pixels!Least, Pixels!Most
    <3>4. c = a
      BY <3>2, <3>3 DEF Plane
    <3> QED
      BY <3>1, <3>4
  <2>2. 0 \in 0 .. s
    BY <1>1
  <2> QED
    BY <1>3, <2>1, <2>2
<1>7. ASSUME a # b, NEW i \in 0 .. s, NEW j \in 0 .. s, pt(i) = pt(j) PROVE i = j
  <2>1. pt(i)[k] = pt(j)[k] /\ a[k] \in Int /\ b[k] \in Int
    BY <1>1, <1>5, <1>7
  <2>2. CASE b[k] - a[k] = s
    <3>1. pt(i)[k] = a[k] + i /\ pt(j)[k] = a[k] + j
      BY <1>1, <1>2, <2>2
    <3>2. i \in Int /\ j \in Int
      BY <1>1
    <3>3. a[k] + i = a[k] + j
      BY <2>1, <3>1, Zenon
    <3> QED
      BY <2>1, <3>2, <3>3
  <2>3. CASE b[k] - a[k] = -s
    <3>1. pt(i)[k] = a[k] - i /\ pt(j)[k] = a[k] - j
      BY <1>1, <1>2, <2>3
    <3>2. i \in Int /\ j \in Int
      BY <1>1
    <3>3. a[k] - i = a[k] - j
      BY <2>1, <3>1, Zenon
    <3> QED
      BY <2>1, <3>2, <3>3
  <2> QED
    BY <1>1, <1>7, <2>2, <2>3
<1>8. Cardinality(Stroke(a, b)) = n + 1
  <2>1. CASE a = b
    <3>1. Cardinality({a}) = 1
      BY FS_Singleton
    <3> QED
      BY <1>1, <1>6, <2>1, <3>1
  <2>2. CASE a # b
    <3> DEFINE g == [i \in 0 .. s |-> pt(i)]
    <3>1. g \in Bijection(0 .. s, Stroke(a, b))
      <4>1. g \in [0 .. s -> Stroke(a, b)]
        BY <1>3
      <4>2. \A i, j \in 0 .. s : g[i] = g[j] => i = j
        BY <1>7, <2>2
      <4>3. \A p \in Stroke(a, b) : \E i \in 0 .. s : g[i] = p
        BY <1>3
      <4> HIDE DEF g
      <4> QED
        BY <4>1, <4>2, <4>3 DEF Bijection, Injection, Surjection, IsInjective
    <3>2. ExistsBijection(0 .. s, Stroke(a, b))
      BY <3>1 DEF ExistsBijection
    <3>3. IsFiniteSet(0 .. s) /\ Cardinality(0 .. s) = s + 1
      <4>1. IsFiniteSet(0 .. s) /\ Cardinality(0 .. s) = IF 0 > s THEN 0 ELSE s - 0 + 1
        BY <1>1, FS_Interval
      <4> QED
        BY <1>1, <4>1
    <3>4. Cardinality(Stroke(a, b)) = Cardinality(0 .. s)
      BY <3>2, <3>3, FS_Bijection
    <3> QED
      BY <1>1, <2>2, <3>3, <3>4
  <2> QED
    BY <2>1, <2>2
<1> QED
  BY <1>4, <1>6, <1>7, <1>8 DEF n, pt, s

(* What LineUnbroken says of the points of a line: it begins at its first  *)
(* vertex, ends within a pixel of the second, and every other point of it  *)
(* has a neighbour.                                                        *)
LEMMA StrokeUnbroken ==
  ASSUME Pixels!RasterAssumption, NEW a \in Plane, NEW b \in Plane,
         ~Pixels!Oversized({a, b})
  PROVE  /\ a \in Stroke(a, b)
         /\ \E p \in Stroke(a, b) : \A k \in 1 .. 2 : Pixels!Sized(p[k] - b[k]) <= 1
         /\ \A p \in Stroke(a, b) \ {a} : \E q \in Stroke(a, b) \ {p} :
              \A k \in 1 .. 2 : Pixels!Sized(p[k] - q[k]) <= 1
<1> DEFINE s == Pixels!Steps(a, b)
           pt(i) == Pixels!Point(a, b, s, i)
<1>1. s \in Int /\ s >= 1 /\ s <= Pixels!Fraction
  BY StepsIs
<1>2. \A i \in 0 .. s :
        /\ pt(i) \in Plane
        /\ \A k \in 1 .. 2 : /\ i = s => Pixels!Sized(pt(i)[k] - b[k]) <= 1
                             /\ i = 0 => pt(i)[k] = a[k]
                             /\ Pixels!Sized(pt(i + 1)[k] - pt(i)[k]) <= 1
  BY <1>1, PointIs
<1>3. Stroke(a, b) = {pt(i) : i \in 0 .. s}
  BY DEF Stroke
<1>4. /\ a = b => Stroke(a, b) = {a}
      /\ a # b => \A i, j \in 0 .. s : pt(i) = pt(j) => i = j
  BY StrokeCounted
<1> HIDE DEF pt, s
<1>5. pt(0) = a
  <2>1. pt(0) \in Plane /\ \A k \in 1 .. 2 : pt(0)[k] = a[k]
    BY <1>1, <1>2
  <2>2. \A x, y \in Plane : x[1] = y[1] /\ x[2] = y[2] => x = y
    BY DEF Plane
  <2> QED
    BY <2>1, <2>2
<1>6. a \in Stroke(a, b)
  BY <1>1, <1>3, <1>5
<1>7. \E p \in Stroke(a, b) : \A k \in 1 .. 2 : Pixels!Sized(p[k] - b[k]) <= 1
  <2>1. s \in 0 .. s
    BY <1>1
  <2> QED
    BY <1>2, <1>3, <2>1
<1>8. ASSUME NEW p \in Stroke(a, b) \ {a}
      PROVE  \E q \in Stroke(a, b) \ {p} : \A k \in 1 .. 2 : Pixels!Sized(p[k] - q[k]) <= 1
  <2>1. a # b
    BY <1>4, <1>8
  <2>2. PICK i \in 0 .. s : p = pt(i)
    BY <1>3, <1>8
  <2>3. i # 0
    BY <1>5, <1>8, <2>2
  <2>4. PICK j : j = i - 1
    OBVIOUS
  <2>5. j \in 0 .. s /\ j + 1 = i /\ j # i
    BY <1>1, <2>3, <2>4
  <2>6. pt(j) # p
    BY <1>4, <2>1, <2>2, <2>5
  <2>7. pt(j) \in Stroke(a, b) \ {p}
    BY <1>3, <2>5, <2>6
  <2>8. \A k \in 1 .. 2 : Pixels!Sized(p[k] - pt(j)[k]) <= 1
    BY <1>2, <2>2, <2>5
  <2> QED
    BY <2>7, <2>8
<1> QED
  BY <1>6, <1>7, <1>8

(* Drawing a line keeps all that is claimed of the rasterizer.             *)
LEMMA LineStep ==
  ASSUME Pixels!RasterAssumption, Pixels!TypeOK, NEW v \in Pixels!Vertices,
         NEW w \in Pixels!Vertices, rasterEffort >= 2, Pixels!DrawLine(v, w)
  PROVE  /\ Pixels!TypeOK' /\ Pixels!WritesWhereAllowedStep
         /\ Pixels!QuadsMeet' /\ Pixels!ShadesWithinVertices' /\ Pixels!LineUnbroken'
<1> DEFINE a == Pixels!Moved(v)
           b == Pixels!Moved(w)
           value == Pixels!LineValues(a, b)
           u == Pixels!Untouched
           c == Pixels!Stroked(a, b)
<1>1. /\ rasterVram' = c /\ rasterLast' = <<"line", <<v, w>>>>
      /\ rasterArea' = rasterArea /\ rasterOffset' = rasterOffset
      /\ rasterCheckMask' = rasterCheckMask /\ rasterForceMask' = rasterForceMask
      /\ rasterEffort' = rasterEffort - 2
  BY DEF Pixels!DrawLine, Pixels!Issue, Pixels!settings
<1>2. /\ rasterLast'[1] = "line" /\ rasterLast'[2] = <<v, w>>
      /\ rasterLast'[2][1] = v /\ rasterLast'[2][2] = w
  BY <1>1
<1>3. a \in Plane /\ b \in Plane
  BY PixelPlaces
<1>4. Pixels!Corner(1)' = a /\ Pixels!Corner(2)' = b
  BY <1>1, <1>2 DEF Pixels!Corner, Pixels!Moved
<1> HIDE DEF a, b
<1>5. \A p \in DOMAIN value : value[p] \in Int /\ Pixels!InArea(p)
  BY <1>3, LineValuesAre
<1>6. Pixels!Oversized({a, b}) => DOMAIN value = {}
  BY <1>3, LineValuesAre
<1>7. ASSUME a \in Pixels!Pixels, b \in Pixels!Pixels, Pixels!InArea(a), Pixels!InArea(b),
             ~Pixels!Oversized({a, b})
      PROVE  Stroke(a, b) \subseteq Pixels!Pixels /\ DOMAIN value = Stroke(a, b)
  BY <1>7, StrokeInArea
<1> DEFINE once == Pixels!Put(u, value, FALSE)
           again == [p \in DOMAIN value |-> Shades[2]]
           twice == Pixels!Put(once, again, FALSE)
<1>15. c = IF a = b THEN twice ELSE once
  BY DEF Pixels!Stroked
<1>16. DOMAIN again = DOMAIN value /\ \A p \in DOMAIN again : again[p] \in Int
  <2>1. Shades[2] \in Int
    BY ShadesAreNumbers
  <2> HIDE DEF value
  <2> QED
    BY <2>1
<1> HIDE DEF value, again, c
<1>8. /\ u \in Canvas
      /\ \A p \in Pixels!Pixels : u[p].times = 0 /\ u[p].stp = rasterVram[p].stp
  BY UntouchedIs
<1> HIDE DEF u
<1>9. /\ c \in Canvas
      /\ \A p \in Pixels!Pixels :
           /\ p \in DOMAIN value /\ ~(rasterCheckMask /\ u[p].stp)
                => c[p].times > 0
           /\ ~(p \in DOMAIN value /\ ~(rasterCheckMask /\ u[p].stp)) => c[p] = u[p]
  <2> DEFINE z == FALSE
  <2>1. z \in BOOLEAN /\ once = Pixels!Put(u, value, z) /\ twice = Pixels!Put(once, again, z)
    OBVIOUS
  <2> HIDE DEF z, once, twice
  <2>2. /\ once \in Canvas
        /\ \A p \in Pixels!Pixels :
             /\ p \in DOMAIN value /\ ~(rasterCheckMask /\ u[p].stp)
                  => once[p].times = u[p].times + 1
             /\ ~(p \in DOMAIN value /\ ~(rasterCheckMask /\ u[p].stp)) => once[p] = u[p]
    BY <1>5, <1>8, <2>1, PutIs
  <2>3. /\ twice \in Canvas
        /\ \A p \in Pixels!Pixels :
             /\ p \in DOMAIN value /\ ~(rasterCheckMask /\ once[p].stp)
                  => twice[p].times = once[p].times + 1
             /\ ~(p \in DOMAIN value /\ ~(rasterCheckMask /\ once[p].stp))
                  => twice[p] = once[p]
    BY <1>16, <2>1, <2>2, PutIs
  <2>4. \A p \in Pixels!Pixels : once[p].times \in Nat
    BY <2>2 DEF Canvas
  <2>5. CASE a # b
    BY <1>8, <1>15, <2>2, <2>5
  <2>6. CASE a = b
    <3>1. c = twice
      BY <1>15, <2>6
    <3>2. ASSUME NEW p \in Pixels!Pixels, p \in DOMAIN value, ~(rasterCheckMask /\ u[p].stp)
          PROVE  twice[p].times > 0
      <4>1. once[p].times > 0 /\ once[p].times \in Nat
        BY <1>8, <2>2, <2>4, <3>2
      <4>2. twice[p].times = once[p].times + 1 \/ twice[p] = once[p]
        BY <2>3, <3>2
      <4> QED
        BY <4>1, <4>2
    <3>3. ASSUME NEW p \in Pixels!Pixels,
                 ~(p \in DOMAIN value /\ ~(rasterCheckMask /\ u[p].stp))
          PROVE  twice[p] = u[p]
      <4>1. once[p] = u[p]
        BY <2>2, <3>3
      <4>2. twice[p] = once[p]
        BY <2>3, <3>3, <4>1
      <4> QED
        BY <4>1, <4>2
    <3> QED
      BY <2>3, <3>1, <3>2, <3>3
  <2> QED
    BY <2>5, <2>6
<1>10. \A p \in Pixels!Pixels :
         /\ c[p].times > 0 => p \in DOMAIN value
         /\ ~rasterCheckMask /\ p \in DOMAIN value => c[p].times > 0
  BY <1>8, <1>9
<1>11. Pixels!TypeOK'
  <2>1. rasterEffort - 2 \in 0 .. Effort
    BY DEF Pixels!TypeOK, Pixels!RasterAssumption
  <2> QED
    BY <1>1, <1>9, <2>1 DEF Pixels!TypeOK, Canvas
<1>12. Pixels!WritesWhereAllowedStep
  <2>1. \A p \in Pixels!Pixels : rasterVram'[p].times > 0 => Pixels!InArea(p)
    BY <1>1, <1>5, <1>10
  <2>2. rasterCheckMask => \A p \in Pixels!Pixels :
          rasterVram[p].stp => rasterVram'[p] = Pixels!Untouched[p]
    BY <1>1, <1>8, <1>9 DEF u
  <2> QED
    BY <2>1, <2>2 DEF Pixels!WritesWhereAllowedStep
<1>13. Pixels!QuadsMeet' /\ Pixels!ShadesWithinVertices'
  BY <1>2 DEF Pixels!QuadsMeet, Pixels!ShadesWithinVertices
<1>14. Pixels!LineUnbroken'
  <2> DEFINE D == {p \in Pixels!Pixels : c[p].times > 0}
  <2>1. Pixels!Drawn' = D
    BY <1>1 DEF Pixels!Drawn, Pixels!Drew
  <2>2. \A p : Pixels!InArea(p)' <=> Pixels!InArea(p)
    BY <1>1 DEF Pixels!InArea
  <2>3. (IF Pixels!Flat' THEN 1 ELSE 2) = Longer(a, b)
    BY <1>4 DEF Pixels!Flat, Longer
  <2> SUFFICES ASSUME ~rasterCheckMask', D # {},
                      \A i \in 1 .. 2 : Pixels!Corner(i)' \in Pixels!Pixels
                                        /\ Pixels!InArea(Pixels!Corner(i))'
               PROVE  /\ a \in D
                      /\ \E p \in D : \A k \in 1 .. 2 : Pixels!Sized(p[k] - b[k]) <= 1
                      /\ Pixels!Cardinality(D) = Pixels!Spread({a, b}, Longer(a, b)) + 1
                      /\ \A p \in D \ {a} : \E q \in D \ {p} :
                           \A k \in 1 .. 2 : Pixels!Sized(p[k] - q[k]) <= 1
    BY <1>4, <2>1, <2>3 DEF Pixels!LineUnbroken
  <2>4. ~rasterCheckMask
    BY <1>1
  <2>5. Pixels!InArea(a) /\ Pixels!InArea(b) /\ a \in Pixels!Pixels /\ b \in Pixels!Pixels
    <3>1. Pixels!InArea(Pixels!Corner(1))' /\ Pixels!InArea(Pixels!Corner(2))'
      OBVIOUS
    <3>2. Pixels!InArea(a) /\ Pixels!InArea(b)
      BY <1>1, <1>4, <3>1 DEF Pixels!InArea
    <3> QED
      BY <1>4, <3>2
  <2>6. ~Pixels!Oversized({a, b})
    BY <1>6, <1>10
  <2>7. D = Stroke(a, b)
    BY <1>7, <1>10, <2>4, <2>5, <2>6
  <2> HIDE DEF D
  <2> QED
    BY <1>3, <2>6, <2>7, StrokeUnbroken, StrokeCounted
<1> QED
  BY <1>11, <1>12, <1>13, <1>14

(* VRAM as it is loaded.                                                   *)
LEMMA RasterStarts ==
  ASSUME Pixels!RasterAssumption, Pixels!Init
  PROVE  Pixels!TypeOK
<1>1. PICK masked \in {{}, {<<1, 1>>}} :
        rasterVram = [p \in Pixels!Pixels |-> [Pixels!Blank EXCEPT !.stp = p \in masked]]
  BY DEF Pixels!Init
<1>2. rasterVram \in [Pixels!Pixels -> [stp : BOOLEAN, val : Int, times : Nat]]
  <2>1. \A x : [Pixels!Blank EXCEPT !.stp = x \in masked] \in [stp : BOOLEAN, val : Int, times : Nat]
    <3> SUFFICES ASSUME NEW x
                 PROVE  [Pixels!Blank EXCEPT !.stp = x \in masked]
                          \in [stp : BOOLEAN, val : Int, times : Nat]
      OBVIOUS
    <3>1. (x \in masked) \in BOOLEAN
      OBVIOUS
    <3> DEFINE y == x \in masked
    <3>2. y \in BOOLEAN
      BY <3>1
    <3> HIDE DEF y
    <3>3. [Pixels!Blank EXCEPT !.stp = y] = [stp |-> y, val |-> 0, times |-> 0]
      BY DEF Pixels!Blank
    <3>4. [Pixels!Blank EXCEPT !.stp = y] \in [stp : BOOLEAN, val : Int, times : Nat]
      BY <3>2, <3>3
    <3> QED
      BY <3>4 DEF y
  <2> QED
    BY <1>1, <2>1
<1> QED
  BY <1>2 DEF Pixels!Init, Pixels!TypeOK, Pixels!RasterAssumption

(* Every command of the rasterizer keeps what is claimed of it.            *)
LEMMA RasterStep ==
  ASSUME Pixels!RasterAssumption, Pixels!TypeOK, Pixels!Next
  PROVE  /\ Pixels!TypeOK' /\ Pixels!WritesWhereAllowedStep
         /\ Pixels!QuadsMeet' /\ Pixels!ShadesWithinVertices' /\ Pixels!LineUnbroken'
<1>1. CASE rasterEffort >= 2 /\ \E vs \in Pixels!Polygons, stp \in Texels :
             Pixels!DrawPolygon(vs, stp)
  <2>1. PICK vs \in Pixels!Polygons, stp \in Texels : Pixels!DrawPolygon(vs, stp)
    BY <1>1
  <2>2. stp \in BOOLEAN
    BY DEF Pixels!RasterAssumption
  <2>3. CASE vs \in [1 .. 3 -> Pixels!Vertices]
    <3>1. 3 \in 3 .. 4
      OBVIOUS
    <3> QED
      BY <1>1, <2>1, <2>2, <2>3, <3>1, PolygonStep
  <2>4. CASE vs \in [1 .. 4 -> Pixels!Vertices]
    <3>1. 4 \in 3 .. 4
      OBVIOUS
    <3> QED
      BY <1>1, <2>1, <2>2, <2>4, <3>1, PolygonStep
  <2> QED
    BY <2>3, <2>4 DEF Pixels!Polygons
<1>2. CASE rasterEffort >= 2 /\ \E v \in Corners, w \in Pixels!Vertices : Pixels!DrawLine(v, w)
  <2>1. Corners \subseteq Pixels!Vertices
    BY DEF Pixels!RasterAssumption
  <2> QED
    BY <1>2, <2>1, LineStep
<1>3. CASE rasterEffort >= 2 /\ \E v, w \in Pixels!Pixels : Pixels!VramCopy(v, w, <<2, 1>>)
  <2>1. <<2, 1>> \in Sides \X Sides
    BY DEF Sides
  <2> QED
    BY <1>3, <2>1, CopyStep
<1>4. CASE rasterEffort >= 1 /\ \E v \in Pixels!Vertices, size \in Pixels!Sizes, stp \in BOOLEAN :
             Pixels!DrawRect(v, size, stp)
  BY <1>4, RectStep
<1>5. CASE rasterEffort >= 1 /\ \E v \in Pixels!Pixels, size \in Pixels!Sizes :
             Pixels!FillRect(v, size)
  BY <1>5, FillStep
<1>6. CASE rasterEffort >= 1 /\ Pixels!MaskSettings
  BY <1>6, MaskStep
<1> QED
  BY <1>1, <1>2, <1>3, <1>4, <1>5, <1>6 DEF Pixels!Next

(* Every primitive is drawn as given: the halves of a quad leave no seam   *)
(* and overlap nowhere, a shaded pixel lies between the vertices' values,  *)
(* a line has no gaps, and nothing is written where the area or the mask   *)
(* forbid it (Gpu::triangle, draw_line_command, put_pixel).                *)
THEOREM PrimitivesAreDrawn == UnitsSpec => DrawnAsGiven
<1> DEFINE Inv == unit = "raster" => Pixels!TypeOK
           units == <<unit, machineVars, cpuVars, dmaVars, gp0Vars, scanoutVars,
                      rasterVars, mdecVars, spuVars>>
           PixelsDrawn == /\ Pixels!WritesWhereAllowedStep
                    /\ (Pixels!TypeOK /\ Pixels!QuadsMeet)'
                    /\ (Pixels!ShadesWithinVertices /\ Pixels!LineUnbroken)'
<1>1. UnitsInit => Inv
  BY RasterStarts, HardwareAssumption DEF UnitsInit, HardwareAssumption
<1>2. Pixels!TypeOK /\ [Pixels!Next]_rasterVars => Pixels!TypeOK' /\ [PixelsDrawn]_rasterVars
  <2>1. Pixels!TypeOK /\ Pixels!Next => Pixels!TypeOK' /\ PixelsDrawn
    BY RasterStep, HardwareAssumption DEF HardwareAssumption
  <2>2. Pixels!TypeOK /\ UNCHANGED rasterVars => Pixels!TypeOK'
    BY DEF Pixels!TypeOK, rasterVars
  <2> QED
    BY <2>1, <2>2
<1>3. Inv /\ [UnitsNext]_units => Inv' /\ [unit = "raster" => PixelsDrawn]_rasterVars
  <2> SUFFICES ASSUME Inv, [UnitsNext]_units, unit = "raster" \/ unit' = "raster"
               PROVE  Pixels!TypeOK' /\ [PixelsDrawn]_rasterVars
    BY DEF UnitsNext
  <2>1. unit = "raster"
    BY DEF UnitsNext
  <2>2. [Pixels!Next]_rasterVars
    BY <2>1 DEF UnitsNext, rasterVars
  <2> QED
    BY <1>2, <2>1, <2>2
<1> QED
  BY <1>1, <1>3, PTL DEF UnitsSpec, DrawnAsGiven
=============================================================================
