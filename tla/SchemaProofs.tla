----------------------------- MODULE SchemaProofs ----------------------------
(***************************************************************************)
(* What the schema is turned into.  Of Generators: a run that ends well    *)
(* leaves its files current.  Of Codec: every packet of the schema's types *)
(* is encoded where the schema, the host's constants and the firmware's    *)
(* header say, and decoded to itself.                                      *)
(***************************************************************************)
EXTENDS Generators, Codec, ProtocolProofs, TLAPS

IsDone(t, i) == disk[Outputs(t)[i]] = Render(Outputs(t)[i], loaded[t])

(* The files a run has behind it are those of its schema. *)
BehindIsDone ==
  \A t \in Tools : pc[t] # "idle" => \A i \in 1..(at[t] - 1) : IsDone(t, i)

(* The file a program has open is cut short. *)
OpenIsTorn ==
  \A t \in Tools : pc[t] = "write" => at[t] <= Len(Outputs(t)) /\ disk[File(t)] = Torn

(* Where no run has broken off, the twins differ only while a run is at them. *)
TwinsDifferInPassing ==
  \A t \in Tools :
    ~broke[t] => \/ disk[Twins(t)[1]] = disk[Twins(t)[2]]
                 \/ pc[t] # "idle" /\ at[t] <= 2

(* A file is cut inside a character only where a run broke off and none has ended
   well since. *)
MangledIsBroken ==
  \A t \in Tools : ~broke[t] => \A i \in 1..Len(Outputs(t)) : disk[Outputs(t)[i]] # Mangled

RunningHasNotEnded ==
  \A t \in Tools : pc[t] # "idle" => exit[t] = "none"

IInv ==
  /\ TypeOK
  /\ RunningHasNotEnded
  /\ OkMeansCurrent
  /\ BehindIsDone
  /\ OpenIsTorn
  /\ TwinsDifferInPassing
  /\ MangledIsBroken
  /\ FailsOnlyForCause

-----------------------------------------------------------------------------
(* What the two lists of files are. *)
LEMMA OutputsAre ==
  /\ Len(Outputs("codegen")) = 5 /\ Len(Outputs("golden_gen")) = 2
  /\ \A t \in Tools : Len(Outputs(t)) \in 2..5
  /\ \A t \in Tools : \A i \in 1..Len(Outputs(t)) : Outputs(t)[i] \in Files
  /\ \A t \in Tools : Twins(t)[1] = Outputs(t)[1] /\ Twins(t)[2] = Outputs(t)[2]
BY DEF Outputs, Tools, Files, Twins

LEMMA OutputsDiffer ==
  ASSUME NEW t \in Tools, NEW u \in Tools,
         NEW i \in 1..Len(Outputs(t)), NEW j \in 1..Len(Outputs(u)),
         Outputs(t)[i] = Outputs(u)[j]
  PROVE  t = u /\ i = j
BY DEF Outputs, Tools

(* The twins say the same of a schema, and no template of theirs raises. *)
LEMMA TwinsRenderAlike ==
  ASSUME NEW t \in Tools, NEW s \in Schemas
  PROVE  /\ Render(Twins(t)[1], s) = Render(Twins(t)[2], s)
         /\ \A i \in 1..2 : ~RenderRaises(Outputs(t)[i], s)
BY DEF Tools, Twins, Outputs, Render, RenderRaises

LEMMA RenderIsText ==
  ASSUME NEW f \in Files, NEW s \in Schemas
  PROVE  Render(f, s) \in Texts
BY GeneratorsAssumption DEF Schemas, Render, Texts

LEMMA TextIsNotTorn ==
  ASSUME NEW x \in Texts
  PROVE  x # Torn /\ x # Mangled /\ Torn # Mangled
BY DEF Texts, Torn, Mangled

(* A step that changes one file of one program's leaves all the others. *)
LEMMA ElsewhereUnchanged ==
  ASSUME TypeOK, NEW t \in Tools, NEW x, at[t] <= Len(Outputs(t)),
         disk' = [disk EXCEPT ![File(t)] = x]
  PROVE  /\ disk'[File(t)] = x
         /\ \A u \in Tools : \A i \in 1..Len(Outputs(u)) :
              ~(u = t /\ i = at[t]) => disk'[Outputs(u)[i]] = disk[Outputs(u)[i]]
<1>0. at[t] \in 1..6
  BY DEF TypeOK
<1>1. at[t] \in 1..Len(Outputs(t))
  BY <1>0, OutputsAre
<1>2. File(t) \in Files
  BY <1>1, OutputsAre DEF File
<1>3. ASSUME NEW u \in Tools, NEW i \in 1..Len(Outputs(u)), ~(u = t /\ i = at[t])
      PROVE  Outputs(u)[i] # File(t)
  BY <1>1, <1>3, OutputsDiffer DEF File
<1>4. \A u \in Tools : \A i \in 1..Len(Outputs(u)) : Outputs(u)[i] \in Files
  BY OutputsAre
<1> QED BY <1>2, <1>3, <1>4 DEF TypeOK

(* With the twins done, they agree. *)
LEMMA DoneTwinsAgree ==
  ASSUME TypeOK, NEW t \in Tools, IsDone(t, 1), IsDone(t, 2)
  PROVE  disk[Twins(t)[1]] = disk[Twins(t)[2]]
<1>1. loaded[t] \in Schemas
  BY DEF TypeOK
<1>2. Twins(t)[1] = Outputs(t)[1] /\ Twins(t)[2] = Outputs(t)[2]
  BY OutputsAre
<1> QED BY <1>1, <1>2, TwinsRenderAlike DEF IsDone

(* A step of t alone can only break what the last two parts say of t. *)
LEMMA CausesKept ==
  ASSUME IInv, NEW t \in Tools,
         \A u \in Tools \ {t} :
           /\ loaded'[u] = loaded[u] /\ exit'[u] = exit[u] /\ broke'[u] = broke[u]
           /\ \A i \in 1..Len(Outputs(u)) : disk'[Outputs(u)[i]] = disk[Outputs(u)[i]],
         exit'[t] = "error" => HasCause(t)',
         ~broke'[t] => \A i \in 1..Len(Outputs(t)) : disk'[Outputs(t)[i]] # Mangled
  PROVE  MangledIsBroken' /\ FailsOnlyForCause'
<1>1. MangledIsBroken'
  BY DEF IInv, MangledIsBroken
<1>2. FailsOnlyForCause'
  <2> SUFFICES ASSUME NEW u \in Tools, exit'[u] = "error" PROVE HasCause(u)'
    BY DEF FailsOnlyForCause
  <2>1. CASE u = t
    BY <2>1
  <2>2. CASE u # t
    <3>1. HasCause(u)
      BY <2>2 DEF IInv, FailsOnlyForCause
    <3> QED BY <2>2, <3>1 DEF HasCause
  <2> QED BY <2>1, <2>2
<1> QED BY <1>1, <1>2

(* A run over a file that is Mangled, and whose end may be put down to it. *)
LEMMA MangledIsCause ==
  ASSUME IInv, NEW t \in Tools, at[t] <= Len(Outputs(t)), Unreadable(t)
  PROVE  broke[t] /\ HasCause(t)
<1>1. at[t] \in 1..6 /\ Len(Outputs(t)) \in 2..5
  BY OutputsAre DEF IInv, TypeOK
<1>2. at[t] \in 1..Len(Outputs(t))
  BY <1>1
<1>3. disk[Outputs(t)[at[t]]] = Mangled
  BY DEF Unreadable, File
<1>4. broke[t] /\ broke[t] \in BOOLEAN
  BY <1>2, <1>3 DEF IInv, MangledIsBroken, TypeOK
<1> QED BY <1>2, <1>3, <1>4 DEF HasCause

-----------------------------------------------------------------------------
LEMMA InitIInv == Init => IInv
<1> SUFFICES ASSUME Init PROVE IInv
  OBVIOUS
<1>1. schema \in Schemas
  BY DEF Init
<1>2. disk \in [Files -> Texts \union {Absent, Torn, Mangled}]
  <2>1. \A f \in Files : Render(f, schema) \in Texts
    BY <1>1, RenderIsText
  <2> QED BY <2>1 DEF Init
<1>3. TypeOK
  BY <1>1, <1>2, OutputsAre, GeneratorsAssumption DEF Init, TypeOK
<1>4. RunningHasNotEnded /\ OkMeansCurrent /\ BehindIsDone /\ OpenIsTorn
  BY DEF Init, RunningHasNotEnded, OkMeansCurrent, BehindIsDone, OpenIsTorn
<1>5. TwinsDifferInPassing
  <2> SUFFICES ASSUME NEW t \in Tools
               PROVE  disk[Twins(t)[1]] = disk[Twins(t)[2]]
    BY DEF TwinsDifferInPassing
  <2>1. Twins(t)[1] \in Files /\ Twins(t)[2] \in Files
    BY OutputsAre
  <2>2. Render(Twins(t)[1], schema) = Render(Twins(t)[2], schema)
    BY <1>1, TwinsRenderAlike
  <2> QED BY <2>1, <2>2 DEF Init
<1>6. FailsOnlyForCause
  BY DEF Init, FailsOnlyForCause
<1>7. MangledIsBroken
  <2> SUFFICES ASSUME NEW f \in Files PROVE disk[f] # Mangled
    BY OutputsAre DEF MangledIsBroken
  <2>1. Render(f, schema) \in Texts /\ Render(f, schema) # Mangled
    BY <1>1, RenderIsText, TextIsNotTorn
  <2>2. Absent # Mangled
    BY DEF Absent, Mangled
  <2> QED BY <2>1, <2>2 DEF Init
<1> QED BY <1>3, <1>4, <1>5, <1>6, <1>7 DEF IInv

(* Going on to the next file. *)
LEMMA AtAdvances ==
  ASSUME at \in [Tools -> 1..6], \A u \in Tools : at[u] <= Len(Outputs(u)) + 1,
         NEW t \in Tools, at[t] <= Len(Outputs(t)),
         at' = [at EXCEPT ![t] = @ + 1]
  PROVE  at' \in [Tools -> 1..6] /\ \A u \in Tools : at'[u] <= Len(Outputs(u)) + 1
<1>1. at[t] \in 1..6 /\ Len(Outputs(t)) \in 2..5
  BY OutputsAre
<1>2. at[t] + 1 \in 1..6
  <2> DEFINE n == Len(Outputs(t))
  <2>1. n \in 2..5 /\ at[t] <= n
    BY <1>1
  <2> HIDE DEF n
  <2> QED BY <1>1, <2>1
<1>3. at' \in [Tools -> 1..6]
  BY <1>2
<1>4. ASSUME NEW u \in Tools PROVE at'[u] <= Len(Outputs(u)) + 1
  <2>1. Len(Outputs(u)) \in Nat /\ at[u] \in 1..6
    BY OutputsAre
  <2>2. CASE u = t
    BY <2>1, <2>2
  <2>3. CASE u # t
    BY <2>1, <2>3
  <2> QED BY <2>2, <2>3
<1> QED BY <1>3, <1>4

(* Every action keeps the types. *)
LEMMA NextTypeOK == TypeOK /\ OpenIsTorn /\ [Next]_vars => TypeOK'
<1> SUFFICES ASSUME TypeOK, OpenIsTorn, [Next]_vars PROVE TypeOK'
  OBVIOUS
<1>1. ASSUME NEW s \in Schemas, Edit(s) PROVE TypeOK'
  BY <1>1, GeneratorsAssumption DEF TypeOK, Edit, jobVars
<1>2. ASSUME NEW t \in Tools, Start(t) PROVE TypeOK'
  <2>1. \A u \in Tools : 1 <= Len(Outputs(u)) + 1
    BY OutputsAre
  <2>2. loaded' \in [Tools -> Schemas] /\ schema' \in Schemas
    BY <1>2 DEF TypeOK, Start
  <2>3. pc' \in [Tools -> {"idle", "render", "write"}]
    BY <1>2 DEF TypeOK, Start, End
  <2>4. exit' \in [Tools -> {"none", "ok", "error", "broken"}]
    BY <1>2 DEF TypeOK, Start, End
  <2>5. at' \in [Tools -> 1..6] /\ \A u \in Tools : at'[u] <= Len(Outputs(u)) + 1
    BY <1>2, <2>1 DEF TypeOK, Start
  <2>6. runs' \in [Tools -> 0..MaxRuns]
    BY <1>2, GeneratorsAssumption DEF TypeOK, Start
  <2>7. UNCHANGED << disk, broke, edits >>
    BY <1>2 DEF Start
  <2> QED BY <2>2, <2>3, <2>4, <2>5, <2>6, <2>7 DEF TypeOK
<1>3. ASSUME NEW t \in Tools, RenderFails(t) PROVE TypeOK'
  BY <1>3 DEF TypeOK, RenderFails, End
<1>4. ASSUME NEW t \in Tools, WriteIfChanged(t) PROVE TypeOK'
  <2>1. CASE IsCurrent(t)
    <3>1. /\ at' = [at EXCEPT ![t] = @ + 1]
          /\ UNCHANGED << schema, disk, pc, loaded, exit, broke, runs, edits >>
      BY <1>4, <2>1 DEF WriteIfChanged
    <3>2. at[t] \in 1..6 /\ at[t] <= Len(Outputs(t)) /\ Len(Outputs(t)) \in 2..5
      BY <1>4, OutputsAre DEF WriteIfChanged, HasNext, TypeOK
    <3>3. at' \in [Tools -> 1..6] /\ \A u \in Tools : at'[u] <= Len(Outputs(u)) + 1
      BY <3>1, <3>2, AtAdvances DEF TypeOK
    <3> QED BY <3>1, <3>3 DEF TypeOK
  <2>2. CASE ~IsCurrent(t)
    BY <1>4, <2>2 DEF TypeOK, WriteIfChanged
  <2> QED BY <2>1, <2>2
<1>5. ASSUME NEW t \in Tools, Written(t) PROVE TypeOK'
  <2>1. at[t] \in 1..6 /\ at[t] <= Len(Outputs(t)) /\ Len(Outputs(t)) \in 2..5
    BY <1>5, OutputsAre DEF Written, OpenIsTorn, TypeOK
  <2>2. at' \in [Tools -> 1..6] /\ \A u \in Tools : at'[u] <= Len(Outputs(u)) + 1
    BY <1>5, <2>1, AtAdvances DEF TypeOK, Written
  <2>3. Text(t) \in Texts
    <3>1. at[t] \in 1..Len(Outputs(t)) /\ loaded[t] \in Schemas
      BY <2>1 DEF TypeOK
    <3>2. File(t) \in Files
      BY <3>1, OutputsAre DEF File
    <3> QED BY <3>1, <3>2, RenderIsText DEF Text
  <2>4. disk' \in [Files -> Texts \union {Absent, Torn, Mangled}]
    BY <1>5, <2>3 DEF TypeOK, Written
  <2>5. pc' \in [Tools -> {"idle", "render", "write"}]
    BY <1>5 DEF TypeOK, Written
  <2>6. UNCHANGED << schema, loaded, exit, broke, runs, edits >>
    BY <1>5 DEF Written
  <2> QED BY <2>2, <2>4, <2>5, <2>6 DEF TypeOK
<1>6. ASSUME NEW t \in Tools, Finish(t) PROVE TypeOK'
  BY <1>6 DEF TypeOK, Finish, End
<1>7. ASSUME NEW t \in Tools, BreakOff(t) PROVE TypeOK'
  <2>1. disk' \in [Files -> Texts \union {Absent, Torn, Mangled}]
    BY <1>7 DEF TypeOK, BreakOff
  <2> QED BY <1>7, <2>1 DEF TypeOK, BreakOff, End
<1>8. ASSUME NEW t \in Tools, ReadFails(t) PROVE TypeOK'
  BY <1>8 DEF TypeOK, ReadFails, End
<1>9. CASE UNCHANGED vars
  BY <1>9 DEF TypeOK, vars, jobVars
<1> QED BY <1>1, <1>2, <1>3, <1>4, <1>5, <1>6, <1>7, <1>8, <1>9 DEF Next

(* A step of one program over its at-th file, after which that file is done,
   keeps what the other parts of IInv say; the rest of the step is in at'. *)
LEMMA AdvanceIInv ==
  ASSUME IInv, TypeOK', NEW t \in Tools, pc[t] # "idle", at[t] <= Len(Outputs(t)),
         disk' = disk \/ disk' = [disk EXCEPT ![File(t)] = Text(t)],
         disk'[File(t)] = Text(t),
         at' = [at EXCEPT ![t] = @ + 1], pc' = [pc EXCEPT ![t] = "render"],
         UNCHANGED << loaded, exit, broke >>
  PROVE  IInv'
<1>1. TypeOK /\ at[t] \in 1..6 /\ Len(Outputs(t)) \in 2..5
  BY OutputsAre DEF IInv, TypeOK
<1>2. \A u \in Tools : \A i \in 1..Len(Outputs(u)) :
        ~(u = t /\ i = at[t]) => disk'[Outputs(u)[i]] = disk[Outputs(u)[i]]
  BY <1>1, ElsewhereUnchanged
<1>3. /\ at'[t] = at[t] + 1 /\ pc'[t] = "render"
      /\ \A u \in Tools \ {t} : at'[u] = at[u] /\ pc'[u] = pc[u]
  BY DEF IInv, TypeOK
<1>4. exit[t] = "none"
  BY DEF IInv, RunningHasNotEnded
<1>5. RunningHasNotEnded'
  BY <1>3, <1>4 DEF IInv, RunningHasNotEnded
<1>6. OkMeansCurrent'
  <2> SUFFICES ASSUME NEW u \in Tools, exit'[u] = "ok", NEW i \in 1..Len(Outputs(u))
               PROVE  disk'[Outputs(u)[i]] = Render(Outputs(u)[i], loaded'[u])
    BY DEF OkMeansCurrent
  <2>1. u # t
    BY <1>4
  <2> QED BY <2>1, <1>2 DEF IInv, OkMeansCurrent
<1>7. disk'[Outputs(t)[at[t]]] = Render(Outputs(t)[at[t]], loaded'[t])
  BY <1>1 DEF IsDone, File, Text
<1>8. BehindIsDone'
  <2> SUFFICES ASSUME NEW u \in Tools, pc'[u] # "idle", NEW i \in 1..(at'[u] - 1)
               PROVE  IsDone(u, i)'
    BY DEF BehindIsDone
  <2>1. CASE u = t /\ i = at[t]
    BY <2>1, <1>7 DEF IsDone
  <2>2. CASE ~(u = t /\ i = at[t])
    <3>1. at[u] \in 1..6 /\ at[u] <= Len(Outputs(u)) + 1 /\ Len(Outputs(u)) \in 2..5
      BY OutputsAre DEF IInv, TypeOK
    <3>2. pc[u] # "idle" /\ i \in 1..(at[u] - 1)
      BY <2>2, <1>1, <1>3, <3>1
    <3>3. i \in 1..Len(Outputs(u))
      <4> DEFINE n == Len(Outputs(u))
      <4>1. n \in 2..5 /\ at[u] <= n + 1
        BY <3>1
      <4> HIDE DEF n
      <4>2. i \in 1..n
        BY <3>1, <3>2, <4>1
      <4> QED BY <4>2 DEF n
    <3>4. IsDone(u, i)
      BY <3>2 DEF IInv, BehindIsDone
    <3> QED BY <2>2, <1>2, <3>3, <3>4 DEF IsDone
  <2> QED BY <2>1, <2>2
<1>9. OpenIsTorn'
  <2> SUFFICES ASSUME NEW u \in Tools, pc'[u] = "write"
               PROVE  at'[u] <= Len(Outputs(u)) /\ disk'[Outputs(u)[at'[u]]] = Torn
    BY DEF OpenIsTorn, File
  <2>1. u # t /\ at'[u] = at[u] /\ pc[u] = "write"
    BY <1>3
  <2>2. at[u] <= Len(Outputs(u)) /\ disk[Outputs(u)[at[u]]] = Torn
    BY <2>1 DEF IInv, OpenIsTorn, File
  <2>3. at[u] \in 1..6 /\ Len(Outputs(u)) \in 2..5
    BY OutputsAre DEF IInv, TypeOK
  <2>4. at[u] \in 1..Len(Outputs(u))
    BY <2>2, <2>3
  <2> QED BY <2>1, <2>2, <2>4, <1>2
<1>10. TwinsDifferInPassing'
  <2> SUFFICES ASSUME NEW u \in Tools, ~broke'[u],
                      ~(pc'[u] # "idle" /\ at'[u] <= 2)
               PROVE  disk'[Twins(u)[1]] = disk'[Twins(u)[2]]
    BY DEF TwinsDifferInPassing
  <2>1. Twins(u)[1] = Outputs(u)[1] /\ Twins(u)[2] = Outputs(u)[2] /\ Len(Outputs(u)) \in 2..5
    BY OutputsAre
  <2>2. CASE u = t
    <3>1. at'[t] \in 3..7 /\ pc'[t] # "idle"
      BY <2>2, <1>1, <1>3
    <3>2. IsDone(t, 1)' /\ IsDone(t, 2)'
      BY <3>1, <1>8 DEF BehindIsDone
    <3>3. loaded'[t] \in Schemas
      BY DEF TypeOK
    <3> QED BY <2>2, <3>2, <3>3, <2>1, TwinsRenderAlike DEF IsDone
  <2>3. CASE u # t
    <3>1. disk[Twins(u)[1]] = disk[Twins(u)[2]]
      BY <2>3, <1>3 DEF IInv, TwinsDifferInPassing
    <3>2. 1 \in 1..Len(Outputs(u)) /\ 2 \in 1..Len(Outputs(u))
      BY <2>1
    <3> QED BY <2>3, <3>1, <3>2, <2>1, <1>2
  <2> QED BY <2>2, <2>3
<1>11. MangledIsBroken' /\ FailsOnlyForCause'
  <2>1. ASSUME ~broke[t], NEW i \in 1..Len(Outputs(t))
        PROVE  disk'[Outputs(t)[i]] # Mangled
    <3>1. disk[Outputs(t)[i]] # Mangled
      BY <2>1 DEF IInv, MangledIsBroken
    <3>2. Text(t) # Mangled
      <4>1. at[t] \in 1..Len(Outputs(t)) /\ loaded[t] \in Schemas
        BY <1>1 DEF TypeOK
      <4>2. File(t) \in Files
        BY <4>1, OutputsAre DEF File
      <4> QED BY <4>1, <4>2, RenderIsText, TextIsNotTorn DEF Text
    <3>3. CASE i = at[t]
      BY <3>2, <3>3 DEF File
    <3>4. CASE i # at[t]
      BY <1>2, <3>1, <3>4
    <3> QED BY <3>3, <3>4
  <2> QED BY <1>2, <1>4, <2>1, CausesKept
<1> QED BY <1>5, <1>6, <1>8, <1>9, <1>10, <1>11 DEF IInv

(* Opening the next file leaves it cut short; nothing behind it changes. *)
LEMMA OpenIInv ==
  ASSUME IInv, TypeOK', NEW t \in Tools, pc[t] = "render", at[t] <= Len(Outputs(t)),
         disk' = [disk EXCEPT ![File(t)] = Torn], pc' = [pc EXCEPT ![t] = "write"],
         UNCHANGED << loaded, at, exit, broke >>
  PROVE  IInv'
<1>1. TypeOK /\ at[t] \in 1..6 /\ Len(Outputs(t)) \in 2..5
  BY OutputsAre DEF IInv, TypeOK
<1>2. /\ disk'[File(t)] = Torn
      /\ \A u \in Tools : \A i \in 1..Len(Outputs(u)) :
           ~(u = t /\ i = at[t]) => disk'[Outputs(u)[i]] = disk[Outputs(u)[i]]
  BY <1>1, ElsewhereUnchanged
<1>3. pc'[t] = "write" /\ \A u \in Tools \ {t} : pc'[u] = pc[u]
  BY DEF IInv, TypeOK
<1>4. exit[t] = "none"
  BY DEF IInv, RunningHasNotEnded
<1>5. RunningHasNotEnded'
  BY <1>3, <1>4 DEF IInv, RunningHasNotEnded
<1>6. OkMeansCurrent'
  <2> SUFFICES ASSUME NEW u \in Tools, exit'[u] = "ok", NEW i \in 1..Len(Outputs(u))
               PROVE  disk'[Outputs(u)[i]] = Render(Outputs(u)[i], loaded'[u])
    BY DEF OkMeansCurrent
  <2>1. u # t
    BY <1>4
  <2> QED BY <2>1, <1>2 DEF IInv, OkMeansCurrent
<1>7. BehindIsDone'
  <2> SUFFICES ASSUME NEW u \in Tools, pc'[u] # "idle", NEW i \in 1..(at[u] - 1)
               PROVE  IsDone(u, i)'
    BY DEF BehindIsDone
  <2>1. at[u] \in 1..6 /\ at[u] <= Len(Outputs(u)) + 1 /\ Len(Outputs(u)) \in 2..5
    BY OutputsAre DEF IInv, TypeOK
  <2>2. pc[u] # "idle" /\ ~(u = t /\ i = at[t])
    BY <2>1, <1>3
  <2>3. i \in 1..Len(Outputs(u))
    <3> DEFINE n == Len(Outputs(u))
    <3>1. n \in 2..5 /\ at[u] <= n + 1
      BY <2>1
    <3> HIDE DEF n
    <3>2. i \in 1..n
      BY <2>1, <3>1
    <3> QED BY <3>2 DEF n
  <2>4. IsDone(u, i)
    BY <2>2 DEF IInv, BehindIsDone
  <2> QED BY <2>2, <2>3, <2>4, <1>2 DEF IsDone
<1>8. OpenIsTorn'
  <2> SUFFICES ASSUME NEW u \in Tools, pc'[u] = "write"
               PROVE  at[u] <= Len(Outputs(u)) /\ disk'[Outputs(u)[at[u]]] = Torn
    BY DEF OpenIsTorn, File
  <2>1. CASE u = t
    BY <2>1, <1>2 DEF File
  <2>2. CASE u # t
    <3>1. at[u] <= Len(Outputs(u)) /\ disk[Outputs(u)[at[u]]] = Torn
      BY <2>2, <1>3 DEF IInv, OpenIsTorn, File
    <3>2. at[u] \in 1..6 /\ Len(Outputs(u)) \in 2..5
      BY OutputsAre DEF IInv, TypeOK
    <3>3. at[u] \in 1..Len(Outputs(u))
      BY <3>1, <3>2
    <3> QED BY <2>2, <3>1, <3>3, <1>2
  <2> QED BY <2>1, <2>2
<1>9. TwinsDifferInPassing'
  <2> SUFFICES ASSUME NEW u \in Tools, ~broke[u], ~(pc'[u] # "idle" /\ at[u] <= 2)
               PROVE  disk'[Twins(u)[1]] = disk'[Twins(u)[2]]
    BY DEF TwinsDifferInPassing
  <2>1. Twins(u)[1] = Outputs(u)[1] /\ Twins(u)[2] = Outputs(u)[2] /\ Len(Outputs(u)) \in 2..5
    BY OutputsAre
  <2>2. 1 \in 1..Len(Outputs(u)) /\ 2 \in 1..Len(Outputs(u))
    BY <2>1
  <2>3. ~(u = t /\ at[t] <= 2) /\ (pc[u] # "idle" <=> pc'[u] # "idle")
    BY <1>3
  <2>4. disk[Twins(u)[1]] = disk[Twins(u)[2]]
    BY <2>3 DEF IInv, TwinsDifferInPassing
  <2>5. ~(u = t /\ 1 = at[t]) /\ ~(u = t /\ 2 = at[t])
    BY <2>3
  <2> QED BY <2>1, <2>2, <2>4, <2>5, <1>2
<1>10. MangledIsBroken' /\ FailsOnlyForCause'
  <2>1. ASSUME ~broke[t], NEW i \in 1..Len(Outputs(t))
        PROVE  disk'[Outputs(t)[i]] # Mangled
    <3>1. disk[Outputs(t)[i]] # Mangled /\ Torn # Mangled
      BY <2>1 DEF IInv, MangledIsBroken, Torn, Mangled
    <3>2. CASE i = at[t]
      BY <1>2, <3>1, <3>2 DEF File
    <3>3. CASE i # at[t]
      BY <1>2, <3>1, <3>3
    <3> QED BY <3>2, <3>3
  <2> QED BY <1>2, <1>4, <2>1, CausesKept
<1> QED BY <1>5, <1>6, <1>7, <1>8, <1>9, <1>10 DEF IInv

(* A run ends, or is broken off, which may change the files it has open. *)
LEMMA EndIInv ==
  ASSUME IInv, TypeOK', NEW t \in Tools, NEW how \in {"ok", "error", "broken"}, End(t, how),
         UNCHANGED << loaded, at >>,
         how = "ok" => \A i \in 1..Len(Outputs(t)) : IsDone(t, i)',
         how = "error" => HasCause(t)',
         \A u \in Tools \ {t} :
           /\ broke'[u] = broke[u]
           /\ \A i \in 1..Len(Outputs(u)) : disk'[Outputs(u)[i]] = disk[Outputs(u)[i]],
         ~broke'[t] => /\ disk'[Twins(t)[1]] = disk'[Twins(t)[2]]
                       /\ \A i \in 1..Len(Outputs(t)) : disk'[Outputs(t)[i]] # Mangled
  PROVE  IInv'
<1>1. /\ pc'[t] = "idle" /\ exit'[t] = how
      /\ \A u \in Tools \ {t} : pc'[u] = pc[u] /\ exit'[u] = exit[u]
  BY DEF IInv, TypeOK, End
<1>2. RunningHasNotEnded'
  BY <1>1 DEF IInv, RunningHasNotEnded
<1>3. OkMeansCurrent'
  <2> SUFFICES ASSUME NEW u \in Tools, exit'[u] = "ok", NEW i \in 1..Len(Outputs(u))
               PROVE  disk'[Outputs(u)[i]] = Render(Outputs(u)[i], loaded[u])
    BY DEF OkMeansCurrent
  <2>1. CASE u = t
    BY <2>1, <1>1 DEF IsDone
  <2>2. CASE u # t
    BY <2>2, <1>1 DEF IInv, OkMeansCurrent
  <2> QED BY <2>1, <2>2
<1>4. ASSUME NEW u \in Tools \ {t}, pc[u] # "idle", NEW i \in 1..(at[u] - 1)
      PROVE  IsDone(u, i)'
  <2>1. at[u] \in 1..6 /\ at[u] <= Len(Outputs(u)) + 1 /\ Len(Outputs(u)) \in 2..5
    BY OutputsAre DEF IInv, TypeOK
  <2>2. i \in 1..Len(Outputs(u))
    <3> DEFINE n == Len(Outputs(u))
    <3>1. n \in 2..5 /\ at[u] <= n + 1
      BY <2>1
    <3> HIDE DEF n
    <3>2. i \in 1..n
      BY <2>1, <3>1
    <3> QED BY <3>2 DEF n
  <2>3. IsDone(u, i)
    BY <1>4 DEF IInv, BehindIsDone
  <2> QED BY <2>2, <2>3 DEF IsDone
<1>5. BehindIsDone'
  BY <1>1, <1>4 DEF BehindIsDone
<1>6. OpenIsTorn'
  <2> SUFFICES ASSUME NEW u \in Tools, pc'[u] = "write"
               PROVE  at[u] <= Len(Outputs(u)) /\ disk'[Outputs(u)[at[u]]] = Torn
    BY DEF OpenIsTorn, File
  <2>1. u # t /\ pc[u] = "write"
    BY <1>1
  <2>2. at[u] <= Len(Outputs(u)) /\ disk[Outputs(u)[at[u]]] = Torn
    BY <2>1 DEF IInv, OpenIsTorn, File
  <2>3. at[u] \in 1..6 /\ Len(Outputs(u)) \in 2..5
    BY OutputsAre DEF IInv, TypeOK
  <2>4. at[u] \in 1..Len(Outputs(u))
    BY <2>2, <2>3
  <2> QED BY <2>1, <2>2, <2>4
<1>7. TwinsDifferInPassing'
  <2> SUFFICES ASSUME NEW u \in Tools, ~broke'[u], ~(pc'[u] # "idle" /\ at[u] <= 2)
               PROVE  disk'[Twins(u)[1]] = disk'[Twins(u)[2]]
    BY DEF TwinsDifferInPassing
  <2>1. CASE u = t
    BY <2>1
  <2>2. CASE u # t
    <3>1. disk[Twins(u)[1]] = disk[Twins(u)[2]]
      BY <2>2, <1>1 DEF IInv, TwinsDifferInPassing
    <3>2. Twins(u)[1] = Outputs(u)[1] /\ Twins(u)[2] = Outputs(u)[2] /\ Len(Outputs(u)) \in 2..5
      BY OutputsAre
    <3>3. 1 \in 1..Len(Outputs(u)) /\ 2 \in 1..Len(Outputs(u))
      BY <3>2
    <3> QED BY <2>2, <3>1, <3>2, <3>3
  <2> QED BY <2>1, <2>2
<1>8. MangledIsBroken' /\ FailsOnlyForCause'
  BY <1>1, CausesKept
<1> QED BY <1>2, <1>3, <1>5, <1>6, <1>7, <1>8 DEF IInv

LEMMA StartIInv ==
  ASSUME IInv, TypeOK', NEW t \in Tools, Start(t)
  PROVE  IInv'
<1>1. /\ pc[t] = "idle" /\ at'[t] = 1 /\ UNCHANGED << disk, broke >>
      /\ \A u \in Tools \ {t} : at'[u] = at[u] /\ loaded'[u] = loaded[u]
  BY DEF Start, IInv, TypeOK
<1>2. /\ \/ pc'[t] = "idle" /\ exit'[t] = "error"
         \/ pc'[t] = "render" /\ exit'[t] = "none"
      /\ \A u \in Tools \ {t} : pc'[u] = pc[u] /\ exit'[u] = exit[u]
  BY DEF Start, End, IInv, TypeOK
<1>3. RunningHasNotEnded'
  BY <1>2 DEF IInv, RunningHasNotEnded
<1>4. OkMeansCurrent'
  BY <1>1, <1>2 DEF IInv, OkMeansCurrent
<1>5. BehindIsDone'
  <2> SUFFICES ASSUME NEW u \in Tools, pc'[u] # "idle", NEW i \in 1..(at'[u] - 1)
               PROVE  IsDone(u, i)'
    BY DEF BehindIsDone
  <2>1. u # t
    BY <1>1
  <2> QED BY <2>1, <1>1, <1>2 DEF IInv, BehindIsDone, IsDone
<1>6. OpenIsTorn'
  BY <1>1, <1>2 DEF IInv, OpenIsTorn, File
<1>7. TwinsDifferInPassing'
  BY <1>1, <1>2 DEF IInv, TwinsDifferInPassing
<1>8. exit'[t] = "error" => HasCause(t)'
  BY DEF Start, End, IInv, TypeOK, HasCause
<1>9. MangledIsBroken' /\ FailsOnlyForCause'
  BY <1>1, <1>2, <1>8, CausesKept DEF IInv, MangledIsBroken
<1> QED BY <1>3, <1>4, <1>5, <1>6, <1>7, <1>9 DEF IInv

(* Where a run is past its twins, they agree. *)
LEMMA PastTwinsAgree ==
  ASSUME IInv, NEW t \in Tools, pc[t] # "idle", at[t] > 2
  PROVE  disk[Twins(t)[1]] = disk[Twins(t)[2]]
<1>1. TypeOK /\ at[t] \in 1..6
  BY DEF IInv, TypeOK
<1>2. IsDone(t, 1) /\ IsDone(t, 2)
  BY <1>1 DEF IInv, BehindIsDone
<1> QED BY <1>1, <1>2, DoneTwinsAgree

LEMMA NextIInv == IInv /\ [Next]_vars => IInv'
<1> SUFFICES ASSUME IInv, [Next]_vars PROVE IInv'
  OBVIOUS
<1>1. TypeOK /\ TypeOK'
  BY NextTypeOK DEF IInv
<1>2. ASSUME NEW s \in Schemas, Edit(s) PROVE IInv'
  BY <1>1, <1>2 DEF IInv, Edit, jobVars, RunningHasNotEnded, OkMeansCurrent, BehindIsDone,
                    OpenIsTorn, TwinsDifferInPassing, MangledIsBroken, FailsOnlyForCause,
                    HasCause, IsDone, File
<1>3. ASSUME NEW t \in Tools, Start(t) PROVE IInv'
  BY <1>1, <1>3, StartIInv
<1>4. ASSUME NEW t \in Tools, RenderFails(t) PROVE IInv'
  <2>1. /\ pc[t] = "render" /\ at[t] <= Len(Outputs(t))
        /\ RenderRaises(Outputs(t)[at[t]], loaded[t])
        /\ End(t, "error") /\ UNCHANGED << disk, loaded, at, broke >>
    BY <1>4 DEF RenderFails, HasNext, File
  <2>2. at[t] \in 1..6 /\ loaded[t] \in Schemas
    BY <1>1 DEF TypeOK
  <2>3. at[t] > 2
    BY <2>1, <2>2, TwinsRenderAlike
  <2>4. disk[Twins(t)[1]] = disk[Twins(t)[2]]
    BY <2>1, <2>3, PastTwinsAgree
  <2>5. HasCause(t)'
    <3> DEFINE n == Len(Outputs(t))
    <3>1. n \in 2..5 /\ at[t] <= n
      BY <2>1, OutputsAre
    <3> HIDE DEF n
    <3>2. at[t] \in 1..n
      BY <2>2, <3>1
    <3>3. at[t] \in 1..Len(Outputs(t))
      BY <3>2 DEF n
    <3> QED BY <2>1, <3>3 DEF HasCause
  <2> QED BY <1>1, <2>1, <2>4, <2>5, EndIInv DEF IInv, MangledIsBroken
<1>5. ASSUME NEW t \in Tools, WriteIfChanged(t) PROVE IInv'
  <2>1. pc[t] = "render" /\ at[t] <= Len(Outputs(t)) /\ UNCHANGED << loaded, exit, broke >>
    BY <1>5 DEF WriteIfChanged, HasNext
  <2>2. CASE IsCurrent(t)
    <3>1. disk' = disk /\ at' = [at EXCEPT ![t] = @ + 1] /\ pc' = pc /\ disk[File(t)] = Text(t)
      BY <1>5, <2>2 DEF WriteIfChanged, IsCurrent
    <3>2. pc' = [pc EXCEPT ![t] = "render"]
      BY <1>1, <2>1, <3>1 DEF TypeOK
    <3> QED BY <1>1, <2>1, <3>1, <3>2, AdvanceIInv
  <2>3. CASE ~IsCurrent(t)
    <3>1. disk' = [disk EXCEPT ![File(t)] = Torn] /\ pc' = [pc EXCEPT ![t] = "write"] /\ at' = at
      BY <1>5, <2>3 DEF WriteIfChanged
    <3> QED BY <1>1, <2>1, <3>1, OpenIInv
  <2> QED BY <2>2, <2>3
<1>6. ASSUME NEW t \in Tools, Written(t) PROVE IInv'
  <2>1. /\ pc[t] = "write" /\ disk' = [disk EXCEPT ![File(t)] = Text(t)]
        /\ pc' = [pc EXCEPT ![t] = "render"] /\ at' = [at EXCEPT ![t] = @ + 1]
        /\ UNCHANGED << loaded, exit, broke >>
    BY <1>6 DEF Written
  <2>2. at[t] <= Len(Outputs(t))
    BY <2>1 DEF IInv, OpenIsTorn
  <2>3. disk'[File(t)] = Text(t)
    BY <1>1, <2>1, <2>2, ElsewhereUnchanged
  <2> QED BY <1>1, <2>1, <2>2, <2>3, AdvanceIInv
<1>7. ASSUME NEW t \in Tools, Finish(t) PROVE IInv'
  <2>1. /\ pc[t] = "render" /\ at[t] > Len(Outputs(t)) /\ End(t, "ok")
        /\ broke' = [broke EXCEPT ![t] = FALSE] /\ UNCHANGED << disk, loaded, at >>
    BY <1>7 DEF Finish
  <2>2. at[t] \in 1..6 /\ Len(Outputs(t)) \in 2..5
    BY <1>1, OutputsAre DEF TypeOK
  <2>3. \A i \in 1..Len(Outputs(t)) : IsDone(t, i)
    <3>1. \A i \in 1..(at[t] - 1) : IsDone(t, i)
      BY <2>1 DEF IInv, BehindIsDone
    <3> DEFINE n == Len(Outputs(t))
    <3>2. n \in 2..5 /\ at[t] > n
      BY <2>1, <2>2
    <3> HIDE DEF n
    <3>3. 1..n \subseteq 1..(at[t] - 1)
      BY <2>2, <3>2
    <3> QED BY <3>1, <3>3 DEF n
  <2>4. disk[Twins(t)[1]] = disk[Twins(t)[2]]
    <3>1. IsDone(t, 1) /\ IsDone(t, 2)
      <4>1. 1 \in 1..Len(Outputs(t)) /\ 2 \in 1..Len(Outputs(t))
        <5> DEFINE n == Len(Outputs(t))
        <5>1. n \in 2..5
          BY <2>2
        <5> HIDE DEF n
        <5>2. 1 \in 1..n /\ 2 \in 1..n
          BY <5>1
        <5> QED BY <5>2 DEF n
      <4> QED BY <2>3, <4>1, Zenon
    <3> QED BY <1>1, <3>1, DoneTwinsAgree
  <2>5. \A u \in Tools \ {t} : broke'[u] = broke[u]
    BY <1>1, <2>1 DEF TypeOK
  <2>6. ASSUME NEW i \in 1..Len(Outputs(t)) PROVE disk[Outputs(t)[i]] # Mangled
    <3>1. Outputs(t)[i] \in Files /\ loaded[t] \in Schemas
      BY <1>1, OutputsAre DEF TypeOK
    <3> QED BY <2>3, <3>1, RenderIsText, TextIsNotTorn DEF IsDone
  <2>7. \A i \in 1..Len(Outputs(t)) : IsDone(t, i)'
    BY <2>1, <2>3 DEF IsDone
  <2> QED BY <1>1, <2>1, <2>4, <2>5, <2>6, <2>7, EndIInv
<1>8. ASSUME NEW t \in Tools, BreakOff(t) PROVE IInv'
  <2>1. /\ End(t, "broken") /\ broke' = [broke EXCEPT ![t] = TRUE]
        /\ UNCHANGED << loaded, at >>
    BY <1>8 DEF BreakOff
  <2>2. broke'[t] = TRUE /\ \A u \in Tools \ {t} : broke'[u] = broke[u]
    BY <1>1, <2>1 DEF TypeOK
  <2>3. \A u \in Tools \ {t} : \A i \in 1..Len(Outputs(u)) :
          disk'[Outputs(u)[i]] = disk[Outputs(u)[i]]
    <3>1. CASE UNCHANGED disk
      BY <3>1
    <3>2. CASE pc[t] = "write" /\ disk' = [disk EXCEPT ![File(t)] = Mangled]
      <4>1. at[t] <= Len(Outputs(t))
        BY <3>2 DEF IInv, OpenIsTorn
      <4> QED BY <1>1, <3>2, <4>1, ElsewhereUnchanged
    <3> QED BY <1>8, <3>1, <3>2 DEF BreakOff
  <2> QED BY <1>1, <2>1, <2>2, <2>3, EndIInv
<1>9. ASSUME NEW t \in Tools, ReadFails(t) PROVE IInv'
  <2>1. /\ pc[t] = "render" /\ at[t] <= Len(Outputs(t)) /\ Unreadable(t)
        /\ End(t, "error") /\ UNCHANGED << disk, loaded, at, broke >>
    BY <1>9 DEF ReadFails, HasNext
  <2>2. broke[t] /\ HasCause(t)
    BY <2>1, MangledIsCause
  <2>3. HasCause(t)'
    BY <2>1, <2>2 DEF HasCause
  <2> QED BY <1>1, <2>1, <2>2, <2>3, EndIInv
<1>10. CASE UNCHANGED vars
  BY <1>1, <1>10 DEF IInv, vars, jobVars, RunningHasNotEnded, OkMeansCurrent, BehindIsDone,
                    OpenIsTorn, TwinsDifferInPassing, MangledIsBroken, FailsOnlyForCause,
                    HasCause, IsDone, File
<1> QED BY <1>2, <1>3, <1>4, <1>5, <1>6, <1>7, <1>8, <1>9, <1>10 DEF Next

THEOREM Inductive == Spec => []IInv
BY InitIInv, NextIInv, PTL DEF Spec

-----------------------------------------------------------------------------
(* The generators' variables keep their types: in particular every file is absent,
   cut short, or the text of some schema. *)
THEOREM TypeCorrect == Spec => []TypeOK
<1>1. IInv => TypeOK
  BY DEF IInv
<1> QED BY <1>1, Inductive, PTL

(* A run of codegen.py or golden_gen.py that ends well has brought all its files to
   the schema it loaded, whatever runs before it left behind. *)
THEOREM OkIsCurrent == Spec => []OkMeansCurrent
<1>1. IInv => OkMeansCurrent
  BY DEF IInv
<1> QED BY <1>1, Inductive, PTL

(* A run over a good schema ends in an error only over a file that an earlier run
   left cut inside a character: absent and truncated files do not stop it. *)
THEOREM FailuresExplained == Spec => []FailsOnlyForCause
<1>1. IInv => FailsOnlyForCause
  BY DEF IInv
<1> QED BY <1>1, Inductive, PTL

(* Only a run that is broken off can part the host's header from the firmware's, or
   the two forms of the golden vectors. *)
THEOREM TwinsTogether == Spec => []TwinsAgree
<1>1. IInv => TwinsAgree
  BY DEF IInv, TwinsDifferInPassing, TwinsAgree
<1> QED BY <1>1, Inductive, PTL

(* The file a program has open is not the text it writes. *)
LEMMA OpenIsNotDone ==
  ASSUME IInv, NEW u \in Tools, pc[u] = "write"
  PROVE  at[u] <= Len(Outputs(u)) /\ disk[File(u)] # Text(u)
<1>1. at[u] <= Len(Outputs(u)) /\ disk[File(u)] = Torn
  BY DEF IInv, OpenIsTorn
<1>2. at[u] \in 1..6 /\ Len(Outputs(u)) \in 2..5 /\ loaded[u] \in Schemas
  BY OutputsAre DEF IInv, TypeOK
<1>3. at[u] \in 1..Len(Outputs(u))
  BY <1>1, <1>2
<1>4. File(u) \in Files
  BY <1>3, OutputsAre DEF File
<1>5. Text(u) # Torn
  BY <1>2, <1>4, RenderIsText, TextIsNotTorn DEF Text
<1> QED BY <1>1, <1>5

(* A program whose files are current leaves them untouched, and so does the other
   program. *)
LEMMA StepLeavesCurrent ==
  ASSUME IInv, [Next]_vars, NEW t \in Tools,
         \A i \in 1..Len(Outputs(t)) : disk[Outputs(t)[i]] = Render(Outputs(t)[i], loaded[t]),
         NEW i \in 1..Len(Outputs(t))
  PROVE  disk'[Outputs(t)[i]] = disk[Outputs(t)[i]]
<1>1. TypeOK
  BY DEF IInv
<1>2. ASSUME NEW u \in Tools, NEW x, at[u] <= Len(Outputs(u)),
             disk' = [disk EXCEPT ![File(u)] = x], disk[File(u)] # Text(u)
      PROVE  disk'[Outputs(t)[i]] = disk[Outputs(t)[i]]
  <2>1. at[u] \in 1..6 /\ Len(Outputs(u)) \in 2..5
    BY <1>1, OutputsAre DEF TypeOK
  <2>2. at[u] \in 1..Len(Outputs(u))
    BY <2>1, <1>2
  <2>3. ~(t = u /\ i = at[u])
    BY <1>2, <2>2 DEF File, Text
  <2> QED BY <1>1, <1>2, <2>3, ElsewhereUnchanged
<1>3. ASSUME NEW u \in Tools, WriteIfChanged(u) PROVE disk'[Outputs(t)[i]] = disk[Outputs(t)[i]]
  <2>1. CASE IsCurrent(u)
    BY <1>3, <2>1 DEF WriteIfChanged
  <2>2. CASE ~IsCurrent(u)
    BY <1>2, <1>3, <2>2 DEF WriteIfChanged, HasNext, IsCurrent
  <2> QED BY <2>1, <2>2
<1>4. ASSUME NEW u \in Tools, Written(u) PROVE disk'[Outputs(t)[i]] = disk[Outputs(t)[i]]
  <2>1. at[u] <= Len(Outputs(u)) /\ disk[File(u)] # Text(u)
    BY <1>4, OpenIsNotDone DEF Written
  <2> QED BY <1>2, <1>4, <2>1 DEF Written
<1>5. ASSUME NEW u \in Tools, Start(u) \/ RenderFails(u) \/ ReadFails(u) \/ Finish(u)
      PROVE  disk' = disk
  BY <1>5 DEF Start, RenderFails, ReadFails, Finish
<1>6. ASSUME NEW s \in Schemas, Edit(s) PROVE disk' = disk
  BY <1>6 DEF Edit
<1>7. CASE UNCHANGED vars
  BY <1>7 DEF vars
<1>8. ASSUME NEW u \in Tools, BreakOff(u) PROVE disk'[Outputs(t)[i]] = disk[Outputs(t)[i]]
  <2>1. CASE UNCHANGED disk
    BY <2>1
  <2>2. CASE pc[u] = "write" /\ disk' = [disk EXCEPT ![File(u)] = Mangled]
    <3>1. at[u] <= Len(Outputs(u)) /\ disk[File(u)] # Text(u)
      BY <2>2, OpenIsNotDone
    <3> QED BY <1>2, <2>2, <3>1
  <2> QED BY <1>8, <2>1, <2>2 DEF BreakOff
<1> QED BY <1>3, <1>4, <1>5, <1>6, <1>7, <1>8 DEF Next

(* No file of a program is touched while they are current, so that a build may read
   them during a run. *)
THEOREM CurrentStays == Spec => CurrentIsNotTouched
<1> DEFINE Step ==
      \A t \in Tools :
        pc[t] # "idle" /\ (\A i \in 1..Len(Outputs(t)) :
                             disk[Outputs(t)[i]] = Render(Outputs(t)[i], loaded[t]))
          => \A i \in 1..Len(Outputs(t)) : disk'[Outputs(t)[i]] = disk[Outputs(t)[i]]
<1>1. IInv /\ [Next]_vars => [Step]_vars
  BY StepLeavesCurrent
<1>2. [][Step]_vars <=> CurrentIsNotTouched
  BY DEF CurrentIsNotTouched
<1> QED BY <1>1, <1>2, Inductive, PTL DEF Spec

-----------------------------------------------------------------------------
(* A function that is defined step by step along 1..n: it exists, and a solution
   of its equation has its values in S. *)
StaysIn(S, n, next) == \A i \in 2..n : \A x \in S : next[i][x] \in S

IsChain(f, S, n, base, next) ==
  /\ f \in [1..n -> S] /\ f[1] = base
  /\ \A i \in 2..n : f[i] = next[i][f[i - 1]]

LEMMA ChainExists ==
  ASSUME NEW S, NEW n \in Nat \ {0}, NEW base \in S, NEW next, StaysIn(S, n, next)
  PROVE  \E f : IsChain(f, S, n, base, next)
<1> DEFINE UpTo(f, m) ==
             /\ f \in [1..m -> S] /\ f[1] = base
             /\ \A i \in 2..m : f[i] = next[i][f[i - 1]]
           Missing == { m \in 1..n : ~ \E f : UpTo(f, m) }
<1>1. \E f : UpTo(f, 1)
  <2> DEFINE f == [i \in 1..1 |-> base]
  <2>1. UpTo(f, 1)
    OBVIOUS
  <2> HIDE DEF f, UpTo
  <2> QED BY <2>1
<1>2. ASSUME NEW m \in 1..n, m # n, NEW f, UpTo(f, m)
      PROVE  \E g : UpTo(g, m + 1)
  <2> DEFINE g == [i \in 1..(m + 1) |-> IF i = m + 1 THEN next[i][f[m]] ELSE f[i]]
  <2>1. m \in 1..m /\ m + 1 \in 2..n
    BY <1>2
  <2>2. f[m] \in S /\ next[m + 1][f[m]] \in S
    BY <1>2, <2>1 DEF StaysIn
  <2>3. \A i \in 1..(m + 1) : i = m + 1 \/ (i \in 1..m /\ i # m + 1)
    BY <2>1
  <2>4. g \in [1..(m + 1) -> S]
    BY <1>2, <2>2, <2>3
  <2>5. \A i \in 1..m : g[i] = f[i]
    BY <1>2
  <2>6. g[m + 1] = next[m + 1][f[m]]
    BY <1>2
  <2>7. 1 \in 1..m
    BY <1>2
  <2> HIDE DEF g
  <2>8. g[1] = base
    BY <1>2, <2>5, <2>7
  <2>9. ASSUME NEW i \in 2..(m + 1) PROVE g[i] = next[i][g[i - 1]]
    <3>1. CASE i = m + 1
      <4>1. i - 1 = m
        BY <1>2, <3>1
      <4> QED BY <2>1, <2>5, <2>6, <3>1, <4>1
    <3>2. CASE i # m + 1
      <4>1. i \in 2..m /\ i \in 1..m /\ i - 1 \in 1..m
        BY <1>2, <3>2
      <4> QED BY <1>2, <2>5, <4>1
    <3> QED BY <3>1, <3>2
  <2>10. UpTo(g, m + 1)
    BY <2>4, <2>8, <2>9
  <2> HIDE DEF UpTo
  <2> QED BY <2>10
<1> HIDE DEF UpTo
<1>3. /\ Missing \in SUBSET Nat
      /\ \A m \in Missing : m \in 1..n /\ ~ \E f : UpTo(f, m)
      /\ \A m \in 1..n : m \notin Missing => \E f : UpTo(f, m)
  OBVIOUS
<1> HIDE DEF Missing
<1>4. Missing = {}
  <2> SUFFICES ASSUME Missing # {} PROVE FALSE
    OBVIOUS
  <2>1. PICK m \in Missing : \A k \in Missing : m <= k
    BY <1>3, LeastElement
  <2>2. m \in 1..n /\ m # 1
    BY <1>1, <1>3
  <2>3. m - 1 \in 1..n /\ m - 1 # n /\ ~(m <= m - 1) /\ (m - 1) + 1 = m
    BY <2>2
  <2>4. m - 1 \notin Missing
    BY <2>1, <2>3
  <2>5. PICK f : UpTo(f, m - 1)
    BY <1>3, <2>3, <2>4
  <2>6. \E g : UpTo(g, m)
    BY <1>2, <2>3, <2>5
  <2> QED BY <1>3, <2>6
<1>5. PICK f : UpTo(f, n)
  <2>1. n \in 1..n
    OBVIOUS
  <2> QED BY <1>3, <1>4, <2>1
<1> QED BY <1>5 DEF UpTo, IsChain

LEMMA ChainTyped ==
  ASSUME NEW S, NEW n \in Nat \ {0}, NEW h, h[1] \in S,
         \A i \in 2..n : h[i - 1] \in S => h[i] \in S
  PROVE  \A i \in 1..n : h[i] \in S
<1> DEFINE Wrong == { i \in 1..n : h[i] \notin S }
<1>1. Wrong = {}
  <2> SUFFICES ASSUME Wrong # {} PROVE FALSE
    OBVIOUS
  <2>1. PICK i \in Wrong : \A k \in Wrong : i <= k
    <3>1. Wrong \in SUBSET Nat
      OBVIOUS
    <3> HIDE DEF Wrong
    <3> QED BY <3>1, LeastElement
  <2>2. i \in 1..n /\ h[i] \notin S /\ i # 1
    BY <2>1
  <2>3. i \in 2..n /\ i - 1 \in 1..n /\ ~(i <= i - 1)
    BY <2>2
  <2>4. i - 1 \notin Wrong
    BY <2>1, <2>3
  <2>5. h[i - 1] \in S
    BY <2>3, <2>4
  <2> QED BY <2>2, <2>3, <2>5
<1> QED BY <1>1

(* The sums of sizes that ComputeLayout and OffsetOf are. *)
SumStep(f, size, i) == IF i = 1 THEN 0 ELSE f[i - 1] + size[i - 1]

LEMMA SumUnfold ==
  ASSUME NEW n \in Nat, NEW size \in [1..n -> Nat]
  PROVE  LET f == CHOOSE f : f = [i \in 1..(n + 1) |-> SumStep(f, size, i)]
         IN  /\ f \in [1..(n + 1) -> Nat] /\ f[1] = 0
             /\ \A i \in 1..n : f[i + 1] = f[i] + size[i]
<1> DEFINE Solves(f) == f = [i \in 1..(n + 1) |-> SumStep(f, size, i)]
           sum == CHOOSE f : Solves(f)
<1>1. Solves(sum)
  <2> DEFINE next == [i \in 2..(n + 1) |-> [x \in Nat |-> x + size[i - 1]]]
  <2>1. \A i \in 2..(n + 1) : i - 1 \in 1..n /\ size[i - 1] \in Nat
    OBVIOUS
  <2>2. \A i \in 2..(n + 1) : \A x \in Nat : next[i][x] = x + size[i - 1]
    OBVIOUS
  <2> HIDE DEF next
  <2>3. ASSUME NEW i \in 2..(n + 1), NEW x \in Nat PROVE next[i][x] \in Nat
    <3>1. size[i - 1] \in Nat /\ next[i][x] = x + size[i - 1]
      BY <2>1, <2>2
    <3> QED BY <3>1
  <2> HIDE DEF next
  <2>5. PICK f \in [1..(n + 1) -> Nat] :
          f[1] = 0 /\ \A i \in 2..(n + 1) : f[i] = next[i][f[i - 1]]
    <3>1. PICK m \in Nat \ {0} : m = n + 1
      OBVIOUS
    <3>2. StaysIn(Nat, m, next) /\ 0 \in Nat
      BY <2>3, <3>1 DEF StaysIn
    <3>3. \E f : IsChain(f, Nat, m, 0, next)
      BY <3>2, ChainExists, Zenon
    <3> QED BY <3>1, <3>3 DEF IsChain
  <2>6. \A i \in 1..(n + 1) : f[i] = SumStep(f, size, i)
    <3> SUFFICES ASSUME NEW i \in 1..(n + 1) PROVE f[i] = SumStep(f, size, i)
      OBVIOUS
    <3>1. CASE i = 1
      BY <2>5, <3>1 DEF SumStep
    <3>2. CASE i # 1
      <4>1. i \in 2..(n + 1) /\ i - 1 \in 1..(n + 1)
        BY <3>2
      <4>2. f[i - 1] \in Nat
        BY <4>1
      <4> QED BY <2>2, <2>5, <3>2, <4>1, <4>2 DEF SumStep
    <3> QED BY <3>1, <3>2
  <2>7. Solves(f)
    BY <2>6
  <2> HIDE DEF Solves
  <2> QED BY <2>7
<1> HIDE DEF sum
<1>2. sum = [i \in 1..(n + 1) |-> SumStep(sum, size, i)]
  BY <1>1, Zenon
<1>3. \A i \in 1..(n + 1) : sum[i] = SumStep(sum, size, i)
  BY <1>2, Zenon
<1>4. sum[1] = 0
  <2>1. 1 \in 1..(n + 1)
    OBVIOUS
  <2> QED BY <1>3, <2>1 DEF SumStep
<1>5. ASSUME NEW i \in 1..n PROVE sum[i + 1] = sum[i] + size[i]
  <2>1. i + 1 \in 1..(n + 1) /\ i + 1 # 1 /\ (i + 1) - 1 = i
    OBVIOUS
  <2> QED BY <1>3, <2>1 DEF SumStep
<1>6. \A i \in 1..(n + 1) : sum[i] \in Nat
  <2>1. ASSUME NEW i \in 2..(n + 1), sum[i - 1] \in Nat PROVE sum[i] \in Nat
    <3>1. i - 1 \in 1..n /\ (i - 1) + 1 = i
      OBVIOUS
    <3>2. sum[i] = sum[i - 1] + size[i - 1]
      BY <1>5, <3>1
    <3> QED BY <2>1, <3>1, <3>2
  <2>2. sum[1] \in Nat /\ n + 1 \in Nat \ {0}
    BY <1>4
  <2> QED BY <2>1, <2>2, ChainTyped
<1>7. sum \in [1..(n + 1) -> Nat]
  <2> DEFINE e(i) == SumStep(sum, size, i)
  <2>1. sum = [i \in 1..(n + 1) |-> e(i)] /\ \A i \in 1..(n + 1) : e(i) \in Nat
    BY <1>2, <1>3, <1>6
  <2> HIDE DEF e
  <2> QED BY <2>1, Zenon
<1> QED BY <1>4, <1>5, <1>7 DEF sum

LEMMA LayoutUnfold ==
  ASSUME NEW fields, Len(fields) \in Nat, \A i \in 1..Len(fields) : SizeOf(fields[i]) \in Nat
  PROVE  /\ ComputeLayout(fields) \in [1..(Len(fields) + 1) -> Nat]
         /\ ComputeLayout(fields)[1] = 0
         /\ \A i \in 1..Len(fields) :
              ComputeLayout(fields)[i + 1] = ComputeLayout(fields)[i] + SizeOf(fields[i])
<1>1. PICK n \in Nat : n = Len(fields)
  OBVIOUS
<1> DEFINE size == [i \in 1..n |-> SizeOf(fields[i])]
<1>2. size \in [1..n -> Nat] /\ \A i \in 1..n : size[i] = SizeOf(fields[i])
  BY <1>1
<1>3. ComputeLayout(fields) = CHOOSE f : f = [i \in 1..(n + 1) |-> SumStep(f, size, i)]
  <2>1. ASSUME NEW f, NEW i \in 1..(n + 1)
        PROVE  SumStep(f, size, i) = IF i = 1 THEN 0 ELSE f[i - 1] + SizeOf(fields[i - 1])
    <3>1. CASE i = 1
      BY <3>1 DEF SumStep
    <3>2. CASE i # 1
      <4>1. i - 1 \in 1..n
        BY <3>2
      <4> QED BY <1>2, <3>2, <4>1 DEF SumStep
    <3> QED BY <3>1, <3>2
  <2>2. \A f : [i \in 1..(n + 1) |-> SumStep(f, size, i)] =
                 [i \in 1..(n + 1) |-> IF i = 1 THEN 0 ELSE f[i - 1] + SizeOf(fields[i - 1])]
    BY <2>1
  <2> HIDE DEF size
  <2> QED BY <1>1, <2>2 DEF ComputeLayout
<1> HIDE DEF size
<1>4. LET f == CHOOSE f : f = [i \in 1..(n + 1) |-> SumStep(f, size, i)]
      IN  /\ f \in [1..(n + 1) -> Nat] /\ f[1] = 0
          /\ \A i \in 1..n : f[i + 1] = f[i] + size[i]
  BY <1>2, SumUnfold, Zenon
<1>5. LET f == ComputeLayout(fields)
      IN  /\ f \in [1..(n + 1) -> Nat] /\ f[1] = 0
          /\ \A i \in 1..n : f[i + 1] = f[i] + size[i]
  BY <1>3, <1>4, Zenon
<1> QED BY <1>1, <1>2, <1>5

LEMMA StructUnfold ==
  ASSUME NEW struct, Len(struct) \in Nat, \A i \in 1..Len(struct) : struct[i][2] \in Nat
  PROVE  /\ OffsetOf(struct) \in [1..(Len(struct) + 1) -> Nat]
         /\ OffsetOf(struct)[1] = 0
         /\ \A i \in 1..Len(struct) :
              OffsetOf(struct)[i + 1] = OffsetOf(struct)[i] + struct[i][2]
<1>1. PICK n \in Nat : n = Len(struct)
  OBVIOUS
<1> DEFINE size == [i \in 1..n |-> struct[i][2]]
<1>2. size \in [1..n -> Nat] /\ \A i \in 1..n : size[i] = struct[i][2]
  BY <1>1
<1>3. OffsetOf(struct) = CHOOSE f : f = [i \in 1..(n + 1) |-> SumStep(f, size, i)]
  <2>1. ASSUME NEW f, NEW i \in 1..(n + 1)
        PROVE  SumStep(f, size, i) = IF i = 1 THEN 0 ELSE f[i - 1] + struct[i - 1][2]
    <3>1. CASE i = 1
      BY <3>1 DEF SumStep
    <3>2. CASE i # 1
      <4>1. i - 1 \in 1..n
        BY <3>2
      <4> QED BY <1>2, <3>2, <4>1 DEF SumStep
    <3> QED BY <3>1, <3>2
  <2>2. \A f : [i \in 1..(n + 1) |-> SumStep(f, size, i)] =
                 [i \in 1..(n + 1) |-> IF i = 1 THEN 0 ELSE f[i - 1] + struct[i - 1][2]]
    BY <2>1
  <2> HIDE DEF size
  <2> QED BY <1>1, <2>2 DEF OffsetOf
<1> HIDE DEF size
<1>4. LET f == CHOOSE f : f = [i \in 1..(n + 1) |-> SumStep(f, size, i)]
      IN  /\ f \in [1..(n + 1) -> Nat] /\ f[1] = 0
          /\ \A i \in 1..n : f[i + 1] = f[i] + size[i]
  BY <1>2, SumUnfold, Zenon
<1>5. LET f == OffsetOf(struct)
      IN  /\ f \in [1..(n + 1) -> Nat] /\ f[1] = 0
          /\ \A i \in 1..n : f[i + 1] = f[i] + size[i]
  BY <1>3, <1>4, Zenon
<1> QED BY <1>1, <1>2, <1>5

-----------------------------------------------------------------------------
(* FlattenSeq lays its strings one behind the other. *)
LEMMA FlattenUnfold ==
  ASSUME NEW n \in Nat \ {0}, NEW s \in [1..n -> Seq(Byte)]
  PROVE  \E f \in [1..n -> Seq(Byte)] :
           /\ FlattenSeq(s) = f[n]
           /\ f[1] = s[1] /\ \A i \in 2..n : f[i] = f[i - 1] \o s[i]
<1> DEFINE Step(f, i) == IF i = 1 THEN s[i] ELSE f[i - 1] \o s[i]
           Solves(f) == f = [i \in 1..n |-> Step(f, i)]
           flat == CHOOSE f : Solves(f)
<1>1. FlattenSeq(s) = flat[n]
  <2>1. s \in Seq(Seq(Byte)) /\ Len(s) = n
    OBVIOUS
  <2>2. Len(s) # 0
    BY <2>1
  <2> QED BY <2>1, <2>2 DEF FlattenSeq
<1>2. Solves(flat)
  <2> DEFINE next == [i \in 2..n |-> [x \in Seq(Byte) |-> x \o s[i]]]
  <2>1. \A i \in 2..n : s[i] \in Seq(Byte)
    OBVIOUS
  <2>2. ASSUME NEW i \in 2..n, NEW x \in Seq(Byte) PROVE x \o s[i] \in Seq(Byte)
    BY <2>1, Joined
  <2>3. \A i \in 2..n : \A x \in Seq(Byte) : next[i][x] = x \o s[i]
    OBVIOUS
  <2>4. \A i \in 2..n : \A x \in Seq(Byte) : next[i][x] \in Seq(Byte)
    BY <2>2, <2>3, Zenon
  <2>5. s[1] \in Seq(Byte)
    OBVIOUS
  <2> HIDE DEF next
  <2>6. PICK f \in [1..n -> Seq(Byte)] :
          f[1] = s[1] /\ \A i \in 2..n : f[i] = next[i][f[i - 1]]
    <3>1. StaysIn(Seq(Byte), n, next)
      BY <2>4, Zenon DEF StaysIn
    <3>2. \E f : IsChain(f, Seq(Byte), n, s[1], next)
      BY <2>5, <3>1, ChainExists, Zenon
    <3> QED BY <3>2 DEF IsChain
  <2>7. \A i \in 1..n : f[i] = Step(f, i)
    <3> SUFFICES ASSUME NEW i \in 1..n PROVE f[i] = Step(f, i)
      OBVIOUS
    <3>1. CASE i = 1
      BY <2>6, <3>1
    <3>2. CASE i # 1
      <4>1. i \in 2..n /\ i - 1 \in 1..n
        BY <3>2
      <4>2. f[i - 1] \in Seq(Byte)
        BY <4>1
      <4> QED BY <2>3, <2>6, <3>2, <4>1, <4>2
    <3> QED BY <3>1, <3>2
  <2>8. Solves(f)
    BY <2>7
  <2> HIDE DEF Solves
  <2> QED BY <2>8
<1> HIDE DEF flat, Step
<1>3. flat = [i \in 1..n |-> Step(flat, i)]
  BY <1>2, Zenon
<1>4. \A i \in 1..n : flat[i] = Step(flat, i)
  BY <1>3, Zenon
<1>5. flat[1] = s[1] /\ \A i \in 2..n : flat[i] = flat[i - 1] \o s[i]
  <2>1. flat[1] = s[1]
    <3>1. 1 \in 1..n
      OBVIOUS
    <3> QED BY <1>4, <3>1 DEF Step
  <2>2. ASSUME NEW i \in 2..n PROVE flat[i] = flat[i - 1] \o s[i]
    <3>1. i \in 1..n /\ i # 1
      OBVIOUS
    <3>2. flat[i] = Step(flat, i)
      BY <1>4, <3>1
    <3> QED BY <3>1, <3>2 DEF Step
  <2> QED BY <2>1, <2>2
<1>6. \A i \in 1..n : flat[i] \in Seq(Byte)
  <2>1. ASSUME NEW i \in 2..n, flat[i - 1] \in Seq(Byte) PROVE flat[i] \in Seq(Byte)
    <3>1. i \in 1..n
      OBVIOUS
    <3>2. s[i] \in Seq(Byte) /\ flat[i] = flat[i - 1] \o s[i]
      BY <1>5, <3>1
    <3>3. flat[i - 1] \o s[i] \in Seq(Byte)
      BY <2>1, <3>2, Joined, Zenon
    <3> QED BY <3>2, <3>3
  <2>2. flat[1] \in Seq(Byte)
    BY <1>5
  <2> QED BY <2>1, <2>2, ChainTyped
<1>7. flat \in [1..n -> Seq(Byte)]
  <2>1. \A i \in 1..n : Step(flat, i) \in Seq(Byte)
    BY <1>4, <1>6
  <2> QED BY <1>3, <2>1, Zenon
<1> QED BY <1>1, <1>5, <1>7

(* Where the strings start is the sum of the lengths before them. *)
LEMMA FlattenedAt ==
  ASSUME NEW n \in Nat \ {0}, NEW s \in [1..n -> Seq(Byte)],
         NEW off \in [1..(n + 1) -> Nat], off[1] = 0,
         \A i \in 1..n : off[i + 1] = off[i] + Len(s[i])
  PROVE  /\ FlattenSeq(s) \in Seq(Byte) /\ Len(FlattenSeq(s)) = off[n + 1]
         /\ \A i \in 1..n : \A k \in 1..Len(s[i]) :
              off[i] + k \in 1..off[n + 1] /\ FlattenSeq(s)[off[i] + k] = s[i][k]
<1>1. PICK f \in [1..n -> Seq(Byte)] :
        /\ FlattenSeq(s) = f[n]
        /\ f[1] = s[1] /\ \A i \in 2..n : f[i] = f[i - 1] \o s[i]
  BY FlattenUnfold
<1> DEFINE Right(m) ==
             /\ Len(f[m]) = off[m + 1]
             /\ \A i \in 1..m : \A k \in 1..Len(s[i]) :
                  off[i] + k \in 1..off[m + 1] /\ f[m][off[i] + k] = s[i][k]
           Wrong == { m \in 1..n : ~Right(m) }
<1>2. \A i \in 1..n : Len(s[i]) \in Nat /\ s[i] \in Seq(Byte)
  BY LenProperties
<1>3. Right(1)
  <2>1. 1 \in 1..n /\ \A i \in 1..1 : i = 1
    OBVIOUS
  <2>2. off[1 + 1] = 0 + Len(s[1]) /\ Len(s[1]) \in Nat
    BY <1>2, <2>1
  <2>3. PICK l \in Nat : l = Len(s[1]) /\ off[1 + 1] = l
    BY <2>2
  <2>4. \A k \in 1..l : 0 + k = k
    OBVIOUS
  <2> QED BY <1>1, <2>1, <2>3, <2>4
<1>4. ASSUME NEW m \in 2..n, Right(m - 1) PROVE Right(m)
  <2>1. m \in 1..n /\ m - 1 \in 1..n /\ (m - 1) + 1 = m /\ m \in 1..(n + 1) /\ m + 1 \in 1..(n + 1)
    OBVIOUS
  <2>2. PICK a \in Seq(Byte), b \in Seq(Byte), u \in Seq(Byte) :
          a = f[m - 1] /\ b = s[m] /\ u = f[m] /\ u = a \o b
    <3>1. f[m] = f[m - 1] \o s[m]
      BY <1>1
    <3>2. f[m] \in Seq(Byte) /\ f[m - 1] \in Seq(Byte) /\ s[m] \in Seq(Byte)
      BY <2>1
    <3> QED BY <3>1, <3>2, Zenon
  <2>3. PICK x \in Nat, y \in Nat : x = off[m] /\ y = off[m + 1]
    BY <2>1
  <2>4. PICK l \in Nat : l = Len(b) /\ y = x + l
    BY <1>2, <2>1, <2>2, <2>3
  <2>5. Len(a) = x
    BY <1>4, <2>1, <2>2, <2>3
  <2>6. /\ Len(u) = x + l
        /\ \A j \in 1..x : u[j] = a[j]
        /\ \A j \in 1..l : u[x + j] = b[j]
    <3>1. /\ Len(a \o b) = Len(a) + Len(b)
          /\ \A j \in 1..Len(a) : (a \o b)[j] = a[j]
          /\ \A j \in 1..Len(b) : (a \o b)[Len(a) + j] = b[j]
      BY Joined
    <3>2. Len(b) = l
      BY <2>4
    <3> QED BY <2>2, <2>5, <3>1, <3>2, Zenon
  <2>7. ASSUME NEW i \in 1..m, NEW k \in 1..Len(s[i])
        PROVE  off[i] + k \in 1..y /\ u[off[i] + k] = s[i][k]
    <3>1. CASE i = m
      <4>1. k \in 1..l
        BY <2>2, <2>4, <3>1
      <4>2. x + k \in 1..y
        BY <2>4, <4>1
      <4> QED BY <2>2, <2>3, <2>6, <3>1, <4>1, <4>2
    <3>2. CASE i # m
      <4>1. i \in 1..(m - 1)
        BY <3>2
      <4>2. PICK j \in 1..x : j = off[i] + k /\ a[j] = s[i][k]
        BY <1>4, <2>1, <2>2, <2>3, <4>1
      <4>3. j \in 1..y
        BY <2>4
      <4> QED BY <2>6, <4>2, <4>3
    <3> QED BY <3>1, <3>2
  <2>8. Len(f[m]) = off[m + 1]
    BY <2>2, <2>3, <2>4, <2>6
  <2> QED BY <2>2, <2>3, <2>7, <2>8
<1> HIDE DEF Right
<1>5. Wrong = {}
  <2> SUFFICES ASSUME Wrong # {} PROVE FALSE
    OBVIOUS
  <2>1. PICK m \in Wrong : \A k \in Wrong : m <= k
    <3>1. Wrong \in SUBSET Nat
      OBVIOUS
    <3> HIDE DEF Wrong
    <3> QED BY <3>1, LeastElement
  <2>2. m \in 1..n /\ ~Right(m) /\ m # 1
    BY <1>3, <2>1
  <2>3. m \in 2..n /\ m - 1 \in 1..n /\ ~(m <= m - 1)
    BY <2>2
  <2>4. m - 1 \notin Wrong
    BY <2>1, <2>3
  <2>5. Right(m - 1)
    BY <2>3, <2>4
  <2> QED BY <1>4, <2>2, <2>3, <2>5
<1>6. Right(n)
  <2>1. n \in 1..n
    OBVIOUS
  <2> QED BY <1>5, <2>1
<1>7. f[n] \in Seq(Byte)
  OBVIOUS
<1> QED BY <1>1, <1>6, <1>7 DEF Right

-----------------------------------------------------------------------------
(* What the tables say: the schema's fields, the order of the put calls and the
   members of the packed structs agree, and the names differ. *)
FieldOK(field) == field.type \in {"u8", "f32"} /\ field.count \in Nat \ {0}

LEMMA CmdTables ==
  /\ Len(CmdFields) = 12 /\ Len(CmdPuts) = 12 /\ Len(CmdPacketStruct) = 12
  /\ \A i \in 1..12 :
       /\ FieldOK(CmdFields[i]) /\ CmdPuts[i] = CmdFields[i].name
       /\ CmdPacketStruct[i] = << CmdFields[i].name, SizeOf(CmdFields[i]) >>
  /\ \A i, j \in 1..12 : CmdFields[i].name = CmdFields[j].name => i = j
BY DEF CmdFields, CmdPuts, CmdPacketStruct, U8, F32, FieldOK, SizeOf, TYPE_SIZE

LEMMA TeleTables ==
  /\ Len(TeleFields) = 25 /\ Len(TelePuts) = 25 /\ Len(TelemetryPacketStruct) = 25
  /\ \A i \in 1..25 :
       /\ FieldOK(TeleFields[i]) /\ TelePuts[i] = TeleFields[i].name
       /\ TelemetryPacketStruct[i] = << TeleFields[i].name, SizeOf(TeleFields[i]) >>
  /\ \A i, j \in 1..25 : TeleFields[i].name = TeleFields[j].name => i = j
BY DEF TeleFields, TelePuts, TelemetryPacketStruct, U8, F32, FieldOK, SizeOf, TYPE_SIZE

(* Adding up the sizes gives the offsets that are written down everywhere. *)
LEMMA CmdOffsets ==
  ASSUME NEW off \in [1..13 -> Nat], off[1] = 0,
         \A i \in 1..12 : off[i + 1] = off[i] + SizeOf(CmdFields[i])
  PROVE  off[13] = 52 /\ \A i \in 1..12 : off[i] = CmdGets[CmdFields[i].name]
<1>1. /\ SizeOf(CmdFields[1]) = 1 /\ SizeOf(CmdFields[2]) = 1
      /\ SizeOf(CmdFields[3]) = 2 /\ SizeOf(CmdFields[12]) = 16
      /\ \A i \in 4..11 : SizeOf(CmdFields[i]) = 4
  <2>1. /\ CmdFields[1] = U8("mode", 1) /\ CmdFields[2] = U8("armed", 1)
        /\ CmdFields[3] = U8("reserved", 2) /\ CmdFields[12] = U8("reserved_tail", 16)
    BY DEF CmdFields
  <2>2. \A i \in 4..11 : CmdFields[i].type = "f32" /\ CmdFields[i].count = 1
    BY DEF CmdFields, F32
  <2> QED BY <2>1, <2>2 DEF U8, SizeOf, TYPE_SIZE
<1>2. /\ off[2] = 1 /\ off[3] = 2 /\ off[4] = 4 /\ off[5] = 8 /\ off[6] = 12 /\ off[7] = 16
      /\ off[8] = 20 /\ off[9] = 24 /\ off[10] = 28 /\ off[11] = 32 /\ off[12] = 36
      /\ off[13] = 52
  BY <1>1
<1> QED BY <1>2 DEF CmdFields, CmdGets, U8, F32

LEMMA TeleOffsets ==
  ASSUME NEW off \in [1..26 -> Nat], off[1] = 0,
         \A i \in 1..25 : off[i + 1] = off[i] + SizeOf(TeleFields[i])
  PROVE  off[26] = 128 /\ \A i \in 1..25 : off[i] = TeleGets[TeleFields[i].name]
<1>1. /\ \A i \in 1..19 : SizeOf(TeleFields[i]) = 4
      /\ SizeOf(TeleFields[20]) = 32 /\ SizeOf(TeleFields[25]) = 16
      /\ \A i \in 21..24 : SizeOf(TeleFields[i]) = 1
  BY DEF TeleFields, U8, F32, SizeOf, TYPE_SIZE
<1>2. /\ off[2] = 4 /\ off[3] = 8 /\ off[4] = 12 /\ off[5] = 16 /\ off[6] = 20
      /\ off[7] = 24 /\ off[8] = 28 /\ off[9] = 32 /\ off[10] = 36 /\ off[11] = 40
      /\ off[12] = 44 /\ off[13] = 48 /\ off[14] = 52 /\ off[15] = 56 /\ off[16] = 60
      /\ off[17] = 64 /\ off[18] = 68 /\ off[19] = 72 /\ off[20] = 76
  BY <1>1
<1>3. /\ off[21] = 108 /\ off[22] = 109 /\ off[23] = 110 /\ off[24] = 111
      /\ off[25] = 112 /\ off[26] = 128
  BY <1>1, <1>2
<1> QED BY <1>2, <1>3 DEF TeleFields, TeleGets, U8, F32

Struct == [Cmd |-> CmdPacketStruct, Tele |-> TelemetryPacketStruct]

(* Both kinds at once. *)
LEMMA Tables ==
  ASSUME NEW kind \in Kinds
  PROVE  LET n == Len(Fields[kind])
         IN  /\ n \in Nat \ {0} /\ Len(Puts[kind]) = n /\ Len(Struct[kind]) = n
             /\ \A i \in 1..n :
                  /\ FieldOK(Fields[kind][i]) /\ Puts[kind][i] = Fields[kind][i].name
                  /\ Struct[kind][i] = << Fields[kind][i].name, SizeOf(Fields[kind][i]) >>
             /\ \A i, j \in 1..n : Fields[kind][i].name = Fields[kind][j].name => i = j
<1>1. CASE kind = "Cmd"
  <2>1. Fields[kind] = CmdFields /\ Puts[kind] = CmdPuts /\ Struct[kind] = CmdPacketStruct
    BY <1>1 DEF Fields, Puts, Struct
  <2>2. Len(Fields[kind]) = 12 /\ Len(Puts[kind]) = 12 /\ Len(Struct[kind]) = 12
    BY <2>1, CmdTables
  <2>3. \A i \in 1..12 :
          /\ FieldOK(Fields[kind][i]) /\ Puts[kind][i] = Fields[kind][i].name
          /\ Struct[kind][i] = << Fields[kind][i].name, SizeOf(Fields[kind][i]) >>
    BY <2>1, CmdTables
  <2>4. \A i, j \in 1..12 : Fields[kind][i].name = Fields[kind][j].name => i = j
    BY <2>1, CmdTables
  <2>5. PICK n \in Nat \ {0} : n = 12 /\ n = Len(Fields[kind])
    BY <2>2
  <2>6. \A i \in 1..n :
          /\ FieldOK(Fields[kind][i]) /\ Puts[kind][i] = Fields[kind][i].name
          /\ Struct[kind][i] = << Fields[kind][i].name, SizeOf(Fields[kind][i]) >>
    BY <2>3, <2>5
  <2>7. \A i, j \in 1..n : Fields[kind][i].name = Fields[kind][j].name => i = j
    BY <2>4, <2>5
  <2>8. Len(Puts[kind]) = n /\ Len(Struct[kind]) = n
    BY <2>2, <2>5
  <2> QED BY <2>5, <2>6, <2>7, <2>8, Zenon
<1>2. CASE kind = "Tele"
  <2>1. Fields[kind] = TeleFields /\ Puts[kind] = TelePuts
        /\ Struct[kind] = TelemetryPacketStruct
    BY <1>2 DEF Fields, Puts, Struct
  <2>2. Len(Fields[kind]) = 25 /\ Len(Puts[kind]) = 25 /\ Len(Struct[kind]) = 25
    BY <2>1, TeleTables
  <2>3. \A i \in 1..25 :
          /\ FieldOK(Fields[kind][i]) /\ Puts[kind][i] = Fields[kind][i].name
          /\ Struct[kind][i] = << Fields[kind][i].name, SizeOf(Fields[kind][i]) >>
    BY <2>1, TeleTables
  <2>4. \A i, j \in 1..25 : Fields[kind][i].name = Fields[kind][j].name => i = j
    BY <2>1, TeleTables
  <2>5. PICK n \in Nat \ {0} : n = 25 /\ n = Len(Fields[kind])
    BY <2>2
  <2>6. \A i \in 1..n :
          /\ FieldOK(Fields[kind][i]) /\ Puts[kind][i] = Fields[kind][i].name
          /\ Struct[kind][i] = << Fields[kind][i].name, SizeOf(Fields[kind][i]) >>
    BY <2>3, <2>5
  <2>7. \A i, j \in 1..n : Fields[kind][i].name = Fields[kind][j].name => i = j
    BY <2>4, <2>5
  <2>8. Len(Puts[kind]) = n /\ Len(Struct[kind]) = n
    BY <2>2, <2>5
  <2> QED BY <2>5, <2>6, <2>7, <2>8, Zenon
<1> QED BY <1>1, <1>2 DEF Kinds

LEMMA FieldSize ==
  ASSUME NEW field, FieldOK(field)
  PROVE  /\ TYPE_SIZE[field.type] \in {1, 4} /\ field.count \in Nat \ {0}
         /\ TYPE_SIZE[field.type] = IF field.type = "u8" THEN 1 ELSE 4
         /\ SizeOf(field) = TYPE_SIZE[field.type] * field.count
         /\ SizeOf(field) \in Nat \ {0}
<1>1. field.type \in {"u8", "f32"} /\ field.count \in Nat \ {0}
  BY DEF FieldOK
<1>2. TYPE_SIZE[field.type] = IF field.type = "u8" THEN 1 ELSE 4
  BY <1>1 DEF TYPE_SIZE
<1>3. CASE field.type = "u8"
  BY <1>1, <1>2, <1>3 DEF SizeOf
<1>4. CASE field.type # "u8"
  BY <1>1, <1>2, <1>4 DEF SizeOf
<1> QED BY <1>3, <1>4

LEMMA NamedField ==
  ASSUME NEW kind \in Kinds, NEW i \in 1..Len(Fields[kind])
  PROVE  FieldNamed(kind, Fields[kind][i].name) = Fields[kind][i]
<1>1. \A j \in 1..Len(Fields[kind]) : Fields[kind][j].name = Fields[kind][i].name => j = i
  BY Tables
<1>2. (CHOOSE j \in 1..Len(Fields[kind]) : Fields[kind][j].name = Fields[kind][i].name) = i
  BY <1>1
<1> QED BY <1>2 DEF FieldNamed

(* The offset table of a kind is what codegen.py computes, also for the struct. *)
Off(kind) == ComputeLayout(Fields[kind])

IsLayout(off, kind, n) ==
  /\ off \in [1..(n + 1) -> Nat] /\ off[1] = 0 /\ off[n + 1] = PayloadSize[kind]
  /\ \A i \in 1..n : /\ off[i + 1] = off[i] + SizeOf(Fields[kind][i])
                     /\ off[i] = Gets[kind][Fields[kind][i].name]

HasFields(kind, n) == n = Len(Fields[kind])

LEMMA LayoutIs ==
  ASSUME NEW kind \in Kinds, NEW n \in Nat, HasFields(kind, n),
         NEW off \in [1..(n + 1) -> Nat], off[1] = 0,
         \A i \in 1..n : off[i + 1] = off[i] + SizeOf(Fields[kind][i])
  PROVE  IsLayout(off, kind, n)
<1>1. CASE kind = "Cmd"
  <2>1. /\ Fields[kind] = CmdFields /\ Gets[kind] = CmdGets /\ PayloadSize[kind] = 52
        /\ n = 12
    BY <1>1, CmdTables DEF Fields, Gets, PayloadSize, kCmdPayloadSize, HasFields
  <2>2. off \in [1..13 -> Nat] /\ n + 1 = 13
    BY <2>1
  <2>3. \A i \in 1..12 : off[i + 1] = off[i] + SizeOf(CmdFields[i])
    BY <2>1
  <2>4. off[13] = 52 /\ \A i \in 1..12 : off[i] = CmdGets[CmdFields[i].name]
    BY <2>2, <2>3, CmdOffsets
  <2> QED BY <2>1, <2>2, <2>4 DEF IsLayout
<1>2. CASE kind = "Tele"
  <2>1. /\ Fields[kind] = TeleFields /\ Gets[kind] = TeleGets /\ PayloadSize[kind] = 128
        /\ n = 25
    BY <1>2, TeleTables DEF Fields, Gets, PayloadSize, kTelePayloadSize, HasFields
  <2>2. off \in [1..26 -> Nat] /\ n + 1 = 26
    BY <2>1
  <2>3. \A i \in 1..25 : off[i + 1] = off[i] + SizeOf(TeleFields[i])
    BY <2>1
  <2>4. off[26] = 128 /\ \A i \in 1..25 : off[i] = TeleGets[TeleFields[i].name]
    BY <2>2, <2>3, TeleOffsets
  <2> QED BY <2>1, <2>2, <2>4 DEF IsLayout
<1> QED BY <1>1, <1>2 DEF Kinds

LEMMA Offsets ==
  ASSUME NEW kind \in Kinds
  PROVE  IsLayout(Off(kind), kind, Len(Fields[kind]))
<1>1. PICK n \in Nat \ {0} : n = Len(Fields[kind])
  BY Tables
<1>2. \A i \in 1..n : SizeOf(Fields[kind][i]) \in Nat
  BY <1>1, Tables, FieldSize
<1>3. PICK off \in [1..(n + 1) -> Nat] :
        /\ off = ComputeLayout(Fields[kind]) /\ off[1] = 0
        /\ \A i \in 1..n : off[i + 1] = off[i] + SizeOf(Fields[kind][i])
  BY <1>1, <1>2, LayoutUnfold
<1>4. IsLayout(off, kind, n)
  BY <1>1, <1>3, LayoutIs DEF HasFields
<1> QED BY <1>1, <1>3, <1>4 DEF Off

(* The compiler puts the members of the packed struct where the fields are. *)
LEMMA StructOffsets ==
  ASSUME NEW kind \in Kinds
  PROVE  IsLayout(OffsetOf(Struct[kind]), kind, Len(Fields[kind]))
<1>1. PICK n \in Nat \ {0} : n = Len(Fields[kind]) /\ Len(Struct[kind]) = n
  BY Tables
<1>2. \A i \in 1..n : SizeOf(Fields[kind][i]) \in Nat
  BY <1>1, Tables, FieldSize
<1>3. \A i \in 1..n : Struct[kind][i][2] = SizeOf(Fields[kind][i])
  BY <1>1, Tables
<1>4. PICK off \in [1..(n + 1) -> Nat] :
        /\ off = OffsetOf(Struct[kind]) /\ off[1] = 0
        /\ \A i \in 1..n : off[i + 1] = off[i] + Struct[kind][i][2]
  <2> DEFINE struct == Struct[kind]
  <2>1. Len(struct) = n /\ \A i \in 1..n : struct[i][2] \in Nat
    BY <1>1, <1>2, <1>3
  <2> HIDE DEF struct
  <2>2. /\ OffsetOf(struct) \in [1..(n + 1) -> Nat] /\ OffsetOf(struct)[1] = 0
        /\ \A i \in 1..n : OffsetOf(struct)[i + 1] = OffsetOf(struct)[i] + struct[i][2]
    BY <2>1, StructUnfold
  <2> QED BY <2>2, Zenon DEF struct
<1>5. \A i \in 1..n : off[i + 1] = off[i] + SizeOf(Fields[kind][i])
  BY <1>3, <1>4
<1>6. IsLayout(off, kind, n)
  BY <1>1, <1>4, <1>5, LayoutIs DEF HasFields
<1> QED BY <1>1, <1>4, <1>6

LEMMA GetsNames ==
  ASSUME NEW kind \in Kinds
  PROVE  DOMAIN Gets[kind] = FieldNames(kind)
<1>1. CASE kind = "Cmd"
  <2>1. FieldNames(kind) = { CmdFields[i].name : i \in 1..12 }
    <3>1. Fields[kind] = CmdFields /\ Len(Fields[kind]) = 12
      BY <1>1, CmdTables DEF Fields
    <3> QED BY <3>1 DEF FieldNames
  <2>2. DOMAIN Gets[kind] = DOMAIN CmdGets
    BY <1>1 DEF Gets
  <2>3. { CmdFields[i].name : i \in 1..12 } =
          {"mode", "armed", "reserved", "surge", "sway", "heave", "yaw", "target_depth",
           "target_heading", "target_north", "target_east", "reserved_tail"}
    BY DEF CmdFields, U8, F32
  <2> QED BY <2>1, <2>2, <2>3 DEF CmdGets
<1>2. CASE kind = "Tele"
  <2>1. FieldNames(kind) = { TeleFields[i].name : i \in 1..25 }
    <3>1. Fields[kind] = TeleFields /\ Len(Fields[kind]) = 25
      BY <1>2, TeleTables DEF Fields
    <3> QED BY <3>1 DEF FieldNames
  <2>2. DOMAIN Gets[kind] = DOMAIN TeleGets
    BY <1>2 DEF Gets
  <2>3. { TeleFields[i].name : i \in 1..25 } =
          {"roll", "pitch", "heading", "yaw_rate", "depth", "altitude", "north", "east",
           "vn", "ve", "vd", "voltage", "current", "percent", "temperature", "water_temp",
           "salinity", "pressure_bar", "cable_tension", "thr", "leak", "armed", "mode",
           "reserved", "reserved_tail"}
    BY DEF TeleFields, U8, F32
  <2> QED BY <2>1, <2>2, <2>3 DEF TeleGets
<1> QED BY <1>1, <1>2 DEF Kinds
-----------------------------------------------------------------------------
(* Names for the halves of a word, so that the provers see them as they are. *)
Low(w)       == w % 256
High(w)      == w \div 256
Joint(lo, hi) == lo + 256 * hi

LEMMA Halves ==
  ASSUME NEW w \in Word
  PROVE  Low(w) \in Byte /\ High(w) \in Byte /\ Joint(Low(w), High(w)) = w
BY TwoBytes DEF Low, High, Joint, Byte

LEMMA HighHalf ==
  ASSUME NEW lo \in Byte, NEW hi \in Byte
  PROVE  High(Joint(lo, hi)) = hi
<1>1. lo \in 0..255 /\ hi \in 0..255
  BY DEF Byte
<1> QED BY <1>1 DEF High, Joint

LEMMA SameWord ==
  ASSUME NEW a \in Byte, NEW b \in Byte, NEW c \in Byte, NEW d \in Byte,
         Joint(a, b) = Joint(c, d)
  PROVE  a = c /\ b = d
<1>1. b = d
  BY HighHalf
<1>2. a \in Int /\ c \in Int /\ a + 256 * b = c + 256 * b
  BY <1>1 DEF Joint, Byte
<1>3. 256 * b \in Int
  BY DEF Byte
<1> QED BY <1>1, <1>2, <1>3

LEMMA FourBytes ==
  ASSUME NEW a \in Byte, NEW b \in Byte, NEW c \in Byte, NEW d \in Byte
  PROVE  << a, b >> \o << c, d >> = << a, b, c, d >>
<1> DEFINE x == << a, b >>
           y == << c, d >>
           z == << a, b, c, d >>
<1>1. x \in Seq(Byte) /\ Len(x) = 2 /\ x[1] = a /\ x[2] = b
  OBVIOUS
<1>2. y \in Seq(Byte) /\ Len(y) = 2 /\ y[1] = c /\ y[2] = d
  OBVIOUS
<1>3. z \in Seq(Byte) /\ Len(z) = 4 /\ z[1] = a /\ z[2] = b /\ z[3] = c /\ z[4] = d
  OBVIOUS
<1> HIDE DEF x, y, z
<1>4. /\ x \o y \in Seq(Byte) /\ Len(x \o y) = Len(x) + Len(y)
      /\ \A i \in 1..Len(x) : (x \o y)[i] = x[i]
      /\ \A i \in 1..Len(y) : (x \o y)[Len(x) + i] = y[i]
  BY <1>1, <1>2, Joined
<1> DEFINE u == x \o y
<1>5. u \in Seq(Byte) /\ Len(u) = 4
  BY <1>1, <1>2, <1>4
<1>6. u[1] = a /\ u[2] = b /\ u[3] = c /\ u[4] = d
  <2>1. u[1] = x[1] /\ u[2] = x[2] /\ u[2 + 1] = y[1] /\ u[2 + 2] = y[2]
    BY <1>1, <1>2, <1>4
  <2> HIDE DEF u
  <2> QED BY <1>1, <1>2, <2>1
<1> HIDE DEF u
<1>7. \A i \in 1..4 : u[i] = z[i]
  BY <1>3, <1>6
<1>8. u = z
  BY <1>3, <1>5, <1>7, SeqEqual
<1> QED BY <1>8 DEF u, x, y, z

(* An element is written as its type's size of bytes, by golden_gen.py too. *)
LEMMA ElementBytes ==
  ASSUME NEW type \in {"u8", "f32"}, NEW v \in Element(type)
  PROVE  /\ PutElement(type, v) \in Seq(Byte)
         /\ Len(PutElement(type, v)) = TYPE_SIZE[type]
         /\ Pack(type, v) = PutElement(type, v)
<1>1. CASE type = "u8"
  BY <1>1 DEF Element, PutElement, Pack, TYPE_SIZE
<1>2. CASE type = "f32"
  <2>1. PICK lo \in Word, hi \in Word : v = << lo, hi >>
    BY <1>2 DEF Element
  <2>2. PICK a \in Byte, b \in Byte : a = Low(lo) /\ b = High(lo)
    BY Halves
  <2>3. PICK c \in Byte, d \in Byte : c = Low(hi) /\ d = High(hi)
    BY Halves
  <2>4. v[1] = lo /\ v[2] = hi
    BY <2>1
  <2>5. Pack(type, v) = << a, b, c, d >>
    BY <1>2, <2>2, <2>3, <2>4 DEF Pack, Low, High
  <2>6. PutElement(type, v) = << a, b >> \o << c, d >>
    BY <1>2, <2>2, <2>3, <2>4 DEF PutElement, PutF32LE, PutU16LE, Low, High
  <2>7. << a, b >> \o << c, d >> = << a, b, c, d >>
    BY FourBytes
  <2>8. << a, b, c, d >> \in Seq(Byte) /\ Len(<< a, b, c, d >>) = 4
    OBVIOUS
  <2>9. TYPE_SIZE[type] = 4
    BY <1>2 DEF TYPE_SIZE
  <2> QED BY <2>5, <2>6, <2>7, <2>8, <2>9
<1> QED BY <1>1, <1>2

(* The four bytes of a float, read where they were written, are the float. *)
LEMMA FloatReadsBack ==
  ASSUME NEW v \in Word \X Word, NEW b, NEW o \in Nat,
         \A q \in 1..4 : b[o + q] = PutF32LE(v)[q]
  PROVE  GetF32LE(b, o) = v
<1>1. PICK lo \in Word, hi \in Word : v = << lo, hi >>
  OBVIOUS
<1>2. PICK a0 \in Byte, a1 \in Byte : a0 = Low(lo) /\ a1 = High(lo) /\ Joint(a0, a1) = lo
  BY Halves
<1>3. PICK c0 \in Byte, c1 \in Byte : c0 = Low(hi) /\ c1 = High(hi) /\ Joint(c0, c1) = hi
  BY Halves
<1>4. v[1] = lo /\ v[2] = hi
  BY <1>1
<1>5. PutF32LE(v) = << a0, a1 >> \o << c0, c1 >>
  BY <1>2, <1>3, <1>4 DEF PutF32LE, PutU16LE, Low, High
<1>6. << a0, a1 >> \o << c0, c1 >> = << a0, a1, c0, c1 >>
  BY FourBytes
<1>7. b[o + 1] = a0 /\ b[o + 2] = a1 /\ b[o + 3] = c0 /\ b[o + 4] = c1
  BY <1>5, <1>6
<1>8. (o + 2) + 1 = o + 3 /\ (o + 2) + 2 = o + 4
  OBVIOUS
<1>9. GetU16LE(b, o) = lo /\ GetU16LE(b, o + 2) = hi
  BY <1>2, <1>3, <1>7, <1>8 DEF GetU16LE, Joint
<1> QED BY <1>1, <1>9 DEF GetF32LE

(* The elements of a field, one behind the other. *)
FieldString(field, v) == FlattenSeq([j \in 1..field.count |-> PutElement(field.type, v[j])])

ElementsLieIn(s, field, v) ==
  \A j \in 1..field.count : \A q \in 1..TYPE_SIZE[field.type] :
    s[TYPE_SIZE[field.type] * (j - 1) + q] = PutElement(field.type, v[j])[q]

LEMMA FieldBytes ==
  ASSUME NEW field, FieldOK(field), NEW v \in [1..field.count -> Element(field.type)]
  PROVE  /\ FieldString(field, v) \in Seq(Byte)
         /\ Len(FieldString(field, v)) = SizeOf(field)
         /\ ElementsLieIn(FieldString(field, v), field, v)
<1>1. PICK type \in {"u8", "f32"}, n \in Nat \ {0} : type = field.type /\ n = field.count
  BY DEF FieldOK
<1>2. PICK size \in {1, 4} : size = TYPE_SIZE[type] /\ SizeOf(field) = size * n
  BY <1>1, FieldSize
<1> DEFINE parts == [j \in 1..n |-> PutElement(type, v[j])]
           off == [j \in 1..(n + 1) |-> size * (j - 1)]
<1>3. \A j \in 1..n : PutElement(type, v[j]) \in Seq(Byte) /\ Len(PutElement(type, v[j])) = size
  <2>1. \A j \in 1..n : v[j] \in Element(type)
    BY <1>1
  <2> QED BY <1>2, <2>1, ElementBytes
<1>4. /\ parts \in [1..n -> Seq(Byte)]
      /\ \A j \in 1..n : parts[j] = PutElement(type, v[j]) /\ Len(parts[j]) = size
  BY <1>3
<1>5. /\ off \in [1..(n + 1) -> Nat] /\ off[1] = 0
      /\ \A j \in 1..n : off[j + 1] = off[j] + size /\ off[j] = size * (j - 1)
      /\ off[n + 1] = size * n
  <2>1. CASE size = 1
    BY <2>1
  <2>2. CASE size = 4
    BY <2>2
  <2> QED BY <2>1, <2>2
<1> HIDE DEF parts, off
<1>6. \A j \in 1..n : off[j + 1] = off[j] + Len(parts[j])
  BY <1>4, <1>5
<1>7. /\ FlattenSeq(parts) \in Seq(Byte) /\ Len(FlattenSeq(parts)) = off[n + 1]
      /\ \A j \in 1..n : \A q \in 1..Len(parts[j]) :
           off[j] + q \in 1..off[n + 1] /\ FlattenSeq(parts)[off[j] + q] = parts[j][q]
  BY <1>4, <1>5, <1>6, FlattenedAt
<1>8. FieldString(field, v) = FlattenSeq(parts)
  BY <1>1 DEF parts, FieldString
<1>9. ASSUME NEW j \in 1..n, NEW q \in 1..size
      PROVE  FlattenSeq(parts)[size * (j - 1) + q] = PutElement(type, v[j])[q]
  <2>1. parts[j] = PutElement(type, v[j]) /\ q \in 1..Len(parts[j])
    BY <1>4
  <2>2. FlattenSeq(parts)[off[j] + q] = parts[j][q]
    BY <1>7, <2>1
  <2>3. off[j] = size * (j - 1)
    BY <1>5
  <2> QED BY <2>1, <2>2, <2>3, Zenon
<1>10. Len(FlattenSeq(parts)) = SizeOf(field)
  BY <1>2, <1>5, <1>7
<1>11. ASSUME NEW j \in 1..field.count, NEW q \in 1..TYPE_SIZE[field.type]
       PROVE  FieldString(field, v)[TYPE_SIZE[field.type] * (j - 1) + q] =
                PutElement(field.type, v[j])[q]
  <2>1. TYPE_SIZE[field.type] = size /\ field.count = n /\ field.type = type
    BY <1>1, <1>2
  <2>2. j \in 1..n /\ q \in 1..size
    BY <2>1
  <2>3. FlattenSeq(parts)[size * (j - 1) + q] = PutElement(type, v[j])[q]
    BY <1>9, <2>2
  <2> QED BY <1>8, <2>1, <2>3, Zenon
<1>12. ElementsLieIn(FieldString(field, v), field, v)
  BY <1>11, Zenon DEF ElementsLieIn
<1> QED BY <1>7, <1>8, <1>10, <1>12, Zenon

(* A field is read back wherever its bytes are. *)
LEMMA FieldReadsBack ==
  ASSUME NEW field, FieldOK(field), NEW v \in [1..field.count -> Element(field.type)],
         NEW s, s = FieldString(field, v),
         NEW b, NEW o \in Nat, \A k \in 1..SizeOf(field) : b[o + k] = s[k]
  PROVE  Elements(field, b, o) = v
<1>1. PICK type \in {"u8", "f32"}, n \in Nat \ {0} : type = field.type /\ n = field.count
  BY DEF FieldOK
<1>2. PICK size \in {1, 4} : /\ size = TYPE_SIZE[type] /\ SizeOf(field) = size * n
                             /\ size = IF type = "u8" THEN 1 ELSE 4
  BY <1>1, FieldSize
<1>3. \A j \in 1..n : \A q \in 1..size : s[size * (j - 1) + q] = PutElement(type, v[j])[q]
  <2>1. ElementsLieIn(s, field, v)
    BY FieldBytes
  <2>2. TYPE_SIZE[field.type] = size
    BY <1>1, <1>2
  <2> QED BY <1>1, <2>1, <2>2, Zenon DEF ElementsLieIn
<1>4. ASSUME NEW j \in 1..n
      PROVE  (IF type = "u8" THEN b[o + j] ELSE GetF32LE(b, o + 4 * (j - 1))) = v[j]
  <2>1. v[j] \in Element(type)
    BY <1>1
  <2>2. CASE type = "u8"
    <3>1. size = 1 /\ SizeOf(field) = n
      BY <1>2, <2>2
    <3>2. s[1 * (j - 1) + 1] = PutElement(type, v[j])[1]
      BY <1>3, <3>1
    <3>3. 1 * (j - 1) + 1 = j
      OBVIOUS
    <3>4. b[o + j] = s[j]
      BY <3>1
    <3>5. PutElement(type, v[j])[1] = v[j]
      BY <2>2 DEF PutElement
    <3> QED BY <2>2, <3>2, <3>3, <3>4, <3>5
  <2>3. CASE type = "f32"
    <3>1. size = 4 /\ SizeOf(field) = 4 * n
      BY <1>2, <2>3
    <3>2. PICK m \in Nat : m = 4 * (j - 1) /\ \A q \in 1..4 : m + q \in 1..(4 * n)
      OBVIOUS
    <3>3. ASSUME NEW q \in 1..4 PROVE b[(o + m) + q] = PutF32LE(v[j])[q]
      <4>1. s[m + q] = PutElement(type, v[j])[q]
        BY <1>3, <3>1, <3>2
      <4>2. (o + m) + q = o + (m + q)
        OBVIOUS
      <4>3. b[o + (m + q)] = s[m + q]
        BY <3>1, <3>2
      <4> QED BY <2>3, <4>1, <4>2, <4>3 DEF PutElement
    <3>4. v[j] \in Word \X Word /\ o + m \in Nat
      BY <2>1, <2>3 DEF Element
    <3>5. GetF32LE(b, o + m) = v[j]
      BY <3>3, <3>4, FloatReadsBack
    <3> QED BY <2>3, <3>2, <3>5
  <2> QED BY <2>2, <2>3
<1>5. Elements(field, b, o) =
        [j \in 1..n |-> IF type = "u8" THEN b[o + j] ELSE GetF32LE(b, o + 4 * (j - 1))]
  BY <1>1 DEF Elements
<1>6. v = [j \in 1..n |-> v[j]]
  BY <1>1
<1> QED BY <1>4, <1>5, <1>6

-----------------------------------------------------------------------------
(* The payload, and where the fields lie in it. *)
Payload(kind, value) ==
  FlattenSeq([i \in 1..Len(Puts[kind]) |-> PutField(kind, Puts[kind][i], value[Puts[kind][i]])])

FieldsLieIn(s, kind, value, from) ==
  \A i \in 1..Len(Fields[kind]) : \A k \in 1..SizeOf(Fields[kind][i]) :
    s[from + Off(kind)[i] + k] = FieldString(Fields[kind][i], value[Fields[kind][i].name])[k]

(* No field reaches out of the payload. *)
FieldsFit(kind) ==
  \A i \in 1..Len(Fields[kind]) : \A k \in 1..SizeOf(Fields[kind][i]) :
    Off(kind)[i] + k \in 1..PayloadSize[kind]

LEMMA ValueTyped ==
  ASSUME NEW kind \in Kinds, NEW value, ValueOK(kind, value), NEW i \in 1..Len(Fields[kind])
  PROVE  /\ FieldOK(Fields[kind][i])
         /\ value[Fields[kind][i].name] \in
              [1..Fields[kind][i].count -> Element(Fields[kind][i].type)]
<1>1. FieldOK(Fields[kind][i])
  BY Tables
<1> QED BY <1>1 DEF ValueOK

LEMMA PutFieldIs ==
  ASSUME NEW kind \in Kinds, NEW value, ValueOK(kind, value), NEW i \in 1..Len(Fields[kind])
  PROVE  PutField(kind, Puts[kind][i], value[Puts[kind][i]]) =
           FieldString(Fields[kind][i], value[Fields[kind][i].name])
<1> DEFINE field == Fields[kind][i]
           name  == field.name
<1>1. Puts[kind][i] = name /\ FieldNamed(kind, name) = field
  BY Tables, NamedField
<1>2. FieldOK(field) /\ value[name] \in [1..field.count -> Element(field.type)]
  BY ValueTyped
<1> HIDE DEF field, name
<1>3. Len(value[name]) = field.count
  BY <1>2 DEF FieldOK
<1>4. PutField(kind, name, value[name]) = FieldString(field, value[name])
  BY <1>1, <1>3 DEF PutField, FieldString
<1> QED BY <1>1, <1>4 DEF field, name

LEMMA PayloadBytes ==
  ASSUME NEW kind \in Kinds, NEW value, ValueOK(kind, value)
  PROVE  /\ Payload(kind, value) \in Seq(Byte)
         /\ Len(Payload(kind, value)) = PayloadSize[kind]
         /\ FieldsLieIn(Payload(kind, value), kind, value, 0) /\ FieldsFit(kind)
<1>1. PICK n \in Nat \ {0} : n = Len(Fields[kind]) /\ n = Len(Puts[kind])
  BY Tables
<1> DEFINE part(i) == FieldString(Fields[kind][i], value[Fields[kind][i].name])
           parts == [i \in 1..n |-> part(i)]
<1>2. \A i \in 1..n : part(i) \in Seq(Byte) /\ Len(part(i)) = SizeOf(Fields[kind][i])
  BY <1>1, ValueTyped, FieldBytes
<1>3. Payload(kind, value) = FlattenSeq(parts)
  <2>1. \A i \in 1..n : PutField(kind, Puts[kind][i], value[Puts[kind][i]]) = part(i)
    BY <1>1, PutFieldIs
  <2> HIDE DEF part
  <2> QED BY <1>1, <2>1 DEF Payload
<1> HIDE DEF part
<1>4. parts \in [1..n -> Seq(Byte)] /\ \A i \in 1..n : parts[i] = part(i)
  BY <1>2
<1> HIDE DEF parts
<1>5. PICK off \in [1..(n + 1) -> Nat] :
        /\ off = Off(kind) /\ off[1] = 0 /\ off[n + 1] = PayloadSize[kind]
        /\ \A i \in 1..n : off[i + 1] = off[i] + SizeOf(Fields[kind][i])
  <2>1. IsLayout(Off(kind), kind, n)
    BY <1>1, Offsets
  <2> QED BY <2>1 DEF IsLayout
<1>6. \A i \in 1..n : off[i + 1] = off[i] + Len(parts[i])
  BY <1>2, <1>4, <1>5
<1>7. /\ FlattenSeq(parts) \in Seq(Byte) /\ Len(FlattenSeq(parts)) = off[n + 1]
      /\ \A i \in 1..n : \A k \in 1..Len(parts[i]) :
           off[i] + k \in 1..off[n + 1] /\ FlattenSeq(parts)[off[i] + k] = parts[i][k]
  BY <1>4, <1>5, <1>6, FlattenedAt
<1>8. FieldsLieIn(FlattenSeq(parts), kind, value, 0)
  <2> SUFFICES ASSUME NEW i \in 1..n, NEW k \in 1..SizeOf(Fields[kind][i])
               PROVE  FlattenSeq(parts)[0 + off[i] + k] = part(i)[k]
    BY <1>1, <1>5 DEF FieldsLieIn, part
  <2>1. off[i] \in Nat
    BY <1>5
  <2>2. 0 + off[i] + k = off[i] + k
    BY <2>1
  <2>3. parts[i] = part(i) /\ Len(parts[i]) = SizeOf(Fields[kind][i])
    BY <1>2, <1>4
  <2>4. FlattenSeq(parts)[off[i] + k] = parts[i][k]
    BY <1>7, <2>3
  <2> QED BY <2>2, <2>3, <2>4
<1>9. FieldsFit(kind)
  <2> SUFFICES ASSUME NEW i \in 1..n, NEW k \in 1..SizeOf(Fields[kind][i])
               PROVE  off[i] + k \in 1..off[n + 1]
    BY <1>1, <1>5 DEF FieldsFit
  <2> QED BY <1>2, <1>4, <1>7
<1> QED BY <1>3, <1>5, <1>7, <1>8, <1>9

(* A frame that holds the fields is read back, by the schema's offsets. *)
LEMMA ReadBack ==
  ASSUME NEW kind \in Kinds, NEW value, ValueOK(kind, value), NEW s,
         FieldsLieIn(s, kind, value, kHeader), NEW i \in 1..Len(Fields[kind])
  PROVE  /\ Elements(Fields[kind][i], s, kHeader + Off(kind)[i]) = value[Fields[kind][i].name]
         /\ Off(kind)[i] = Gets[kind][Fields[kind][i].name]
<1> DEFINE field == Fields[kind][i]
           v == value[field.name]
<1>1. FieldOK(field) /\ v \in [1..field.count -> Element(field.type)]
  BY ValueTyped
<1>2. PICK o \in Nat : o = Off(kind)[i] /\ o = Gets[kind][field.name]
  <2>1. PICK n \in Nat : n = Len(Fields[kind])
    BY Tables
  <2>2. IsLayout(Off(kind), kind, n) /\ i \in 1..n /\ i \in 1..(n + 1)
    BY <2>1, Offsets
  <2> QED BY <2>2 DEF IsLayout, field
<1>3. \A k \in 1..SizeOf(field) : s[kHeader + o + k] = FieldString(field, v)[k]
  BY <1>2 DEF FieldsLieIn
<1> HIDE DEF field, v
<1>4. PICK p \in Nat : p = kHeader + o
  BY DEF kHeader
<1>5. Elements(field, s, p) = v
  <2>1. \A k \in 1..SizeOf(field) : s[p + k] = FieldString(field, v)[k]
    BY <1>3, <1>4
  <2> QED BY <1>1, <2>1, FieldReadsBack
<1> QED BY <1>2, <1>4, <1>5 DEF field, v

(* What a decoder that takes the frame gives is the packet. *)
LEMMA GotBack ==
  ASSUME NEW kind \in Kinds, NEW value, ValueOK(kind, value), NEW s,
         FieldsLieIn(s, kind, value, kHeader)
  PROVE  [name \in DOMAIN Gets[kind] |-> GetField(kind, name, s)] = value
<1>1. ASSUME NEW name \in FieldNames(kind) PROVE GetField(kind, name, s) = value[name]
  <2>1. PICK i \in 1..Len(Fields[kind]) : name = Fields[kind][i].name
    BY DEF FieldNames
  <2>2. FieldNamed(kind, name) = Fields[kind][i]
    BY <2>1, NamedField
  <2>3. Elements(Fields[kind][i], s, kHeader + Gets[kind][name]) = value[name]
    BY <2>1, ReadBack
  <2> QED BY <2>2, <2>3 DEF GetField
<1>2. [name \in FieldNames(kind) |-> GetField(kind, name, s)] =
        [name \in FieldNames(kind) |-> value[name]]
  BY <1>1
<1>3. value = [name \in FieldNames(kind) |-> value[name]]
  BY Zenon DEF ValueOK
<1> QED BY <1>2, <1>3, GetsNames, Zenon

(* The head of a packet's frame. *)
HasHead(f, kind) ==
  /\ f[1] = kStx0 /\ f[2] = kStx1 /\ f[3] = kProtocolVersion
  /\ f[4] = PayloadSize[kind] /\ f[5] = TypeByte[kind]

LEMMA Sizes ==
  ASSUME NEW kind \in Kinds
  PROVE  /\ PayloadSize[kind] \in 1..255 /\ TypeByte[kind] \in 1..2
         /\ \A other \in Kinds : PayloadSize[other] = PayloadSize[kind] => other = kind
BY DEF Kinds, PayloadSize, TypeByte, kTypeCmd, kTypeTele, kCmdPayloadSize, kTelePayloadSize

LEMMA EncodedPacket ==
  ASSUME CrcIsWord, NEW kind \in Kinds, NEW value, ValueOK(kind, value), NEW x \in Seq(Byte)
  PROVE  /\ Encode(kind, value) \in Seq(Byte)
         /\ Len(Encode(kind, value)) = kFrameOverhead + PayloadSize[kind]
         /\ HasHead(Encode(kind, value), kind)
         /\ ValidateFrameHeader(Encode(kind, value), TypeByte[kind], PayloadSize[kind])
         /\ FieldsLieIn(Encode(kind, value) \o x, kind, value, kHeader)
         /\ FieldsLieIn(Encode(kind, value), kind, value, kHeader)
<1>1. PICK p \in Seq(Byte) :
        /\ p = Payload(kind, value) /\ Len(p) = PayloadSize[kind]
        /\ FieldsLieIn(p, kind, value, 0)
  BY PayloadBytes
<1>2. FieldsFit(kind)
  BY PayloadBytes
<1>3. PICK n \in 1..255, t \in Byte :
        n = PayloadSize[kind] /\ t = TypeByte[kind] /\ n = Len(p)
  <2>1. TypeByte[kind] \in Byte
    BY Sizes DEF Byte
  <2> QED BY <1>1, <2>1, Sizes
<1>0. Len(p) <= 255
  <2>1. n <= 255
    OBVIOUS
  <2> QED BY <1>3, <2>1
<1>4. Encode(kind, value) = EncodeFrame(p, t)
  BY <1>1, <1>3 DEF Encode, Payload
<1>5. /\ EncodeFrame(p, t) \in Seq(Byte) /\ Len(EncodeFrame(p, t)) = kFrameOverhead + Len(p)
      /\ ValidateFrameHeader(EncodeFrame(p, t), t, Len(p))
  BY <1>0, EncodedIsFrame, ZenonT(40)
<1>6. PICK f \in Seq(Byte) : f = EncodeFrame(p, t) /\ Len(f) = n + 7
  <2>1. kFrameOverhead + n = n + 7
    BY DEF kFrameOverhead
  <2> QED BY <1>3, <1>5, <2>1, Zenon
<1>7. /\ f[1] = kStx0 /\ f[2] = kStx1 /\ f[3] = kProtocolVersion /\ f[4] = n /\ f[5] = t
      /\ SubSeq(f, 3, n + 5) = << kProtocolVersion, n, t >> \o p
  <2> DEFINE e == EncodeFrame(p, t)
             l == Len(p)
  <2>1. /\ e[1] = kStx0 /\ e[2] = kStx1 /\ e[3] = kProtocolVersion
        /\ e[4] = l /\ e[5] = t
        /\ SubSeq(e, 3, l + 5) = << kProtocolVersion, l, t >> \o p
    BY <1>0, EncodedBytes, ZenonT(40)
  <2>2. e = f /\ l = n
    BY <1>3, <1>6
  <2> HIDE DEF e, l
  <2> QED BY <2>1, <2>2, Zenon
<1>8. \A k \in 1..n : f[kHeader + k] = p[k]
  <2>1. PICK head \in Seq(Byte) : head = << kProtocolVersion, n, t >> /\ Len(head) = 3
    <3>1. kProtocolVersion \in Byte /\ n \in Byte
      BY DEF kProtocolVersion, Byte
    <3>2. << kProtocolVersion, n, t >> \in Seq(Byte)
      BY <3>1
    <3>3. Len(<< kProtocolVersion, n, t >>) = 3
      OBVIOUS
    <3> QED BY <3>2, <3>3, Zenon
  <2>2. \A k \in 1..Len(p) : (head \o p)[Len(head) + k] = p[k]
    BY Joined
  <2>3. \A k \in 1..n : SubSeq(f, 3, n + 5)[3 + k] = p[k]
    BY <1>3, <1>7, <2>1, <2>2
  <2>4. \A k \in 1..n : SubSeq(f, 3, n + 5)[3 + k] = f[3 + (3 + k) - 1]
    <3>1. \A j \in 1..(n + 5) - 3 + 1 : SubSeq(f, 3, n + 5)[j] = f[3 + j - 1]
      BY <1>6, SubSeqProperties
    <3>2. \A k \in 1..n : 3 + k \in 1..(n + 5) - 3 + 1
      OBVIOUS
    <3> QED BY <3>1, <3>2
  <2>5. \A k \in 1..n : 3 + (3 + k) - 1 = kHeader + k
    BY DEF kHeader
  <2> QED BY <2>3, <2>4, <2>5
<1>9. \A g : (\A k \in 1..n : g[kHeader + k] = f[kHeader + k])
              => FieldsLieIn(g, kind, value, kHeader)
  <2> SUFFICES ASSUME NEW g, \A k \in 1..n : g[kHeader + k] = f[kHeader + k],
                      NEW i \in 1..Len(Fields[kind]), NEW k \in 1..SizeOf(Fields[kind][i])
               PROVE  g[kHeader + Off(kind)[i] + k] =
                        FieldString(Fields[kind][i], value[Fields[kind][i].name])[k]
    BY DEF FieldsLieIn
  <2>1. Off(kind)[i] + k \in 1..n
    BY <1>2, <1>3 DEF FieldsFit
  <2>2. PICK o \in Nat : o = Off(kind)[i]
    <3>1. PICK m \in Nat : m = Len(Fields[kind])
      BY Tables
    <3>2. IsLayout(Off(kind), kind, m) /\ i \in 1..(m + 1)
      BY <3>1, Offsets
    <3> QED BY <3>2 DEF IsLayout
  <2>3. k \in Int
    OBVIOUS
  <2>4. PICK j \in 1..n : j = o + k
    BY <2>1, <2>2
  <2>6. 0 + o + k = j /\ kHeader + o + k = kHeader + j
    BY <2>3, <2>4 DEF kHeader
  <2>5. p[0 + o + k] = FieldString(Fields[kind][i], value[Fields[kind][i].name])[k]
    BY <1>1, <2>2 DEF FieldsLieIn
  <2> QED BY <1>8, <2>2, <2>4, <2>5, <2>6
<1>10. FieldsLieIn(f, kind, value, kHeader)
  BY <1>9
<1>11. FieldsLieIn(f \o x, kind, value, kHeader)
  <2>1. \A j \in 1..Len(f) : (f \o x)[j] = f[j]
    BY Joined
  <2>2. \A k \in 1..n : kHeader + k \in 1..Len(f)
    BY <1>6 DEF kHeader
  <2> QED BY <1>9, <2>1, <2>2
<1>12. HasHead(f, kind)
  BY <1>3, <1>7 DEF HasHead
<1>13. ValidateFrameHeader(f, TypeByte[kind], PayloadSize[kind])
  BY <1>3, <1>5, <1>6
<1>14. Len(f) = kFrameOverhead + PayloadSize[kind]
  <2>1. kFrameOverhead + n = n + 7
    BY DEF kFrameOverhead
  <2> QED BY <1>3, <1>6, <2>1, Zenon
<1> QED BY <1>4, <1>6, <1>10, <1>11, <1>12, <1>13, <1>14

-----------------------------------------------------------------------------
(* golden_gen.py's encoder makes the same frame, where its checksum is the same. *)
LEMMA GoldenEncodes ==
  ASSUME \A m \in Seq(Byte) : GoldenCrc(m) = Crc16(m),
         NEW kind \in Kinds, NEW value, ValueOK(kind, value)
  PROVE  BuildFrame(BuildPayload(Fields[kind], value), TypeByte[kind]) = Encode(kind, value)
<1>1. PICK n \in Nat \ {0} : n = Len(Fields[kind]) /\ n = Len(Puts[kind])
  BY Tables
<1>2. ASSUME NEW i \in 1..n
      PROVE  FlattenSeq([j \in 1..Fields[kind][i].count |->
                           Pack(Fields[kind][i].type, value[Fields[kind][i].name][j])])
               = PutField(kind, Puts[kind][i], value[Puts[kind][i]])
  <2> DEFINE field == Fields[kind][i]
             v == value[field.name]
  <2>1. FieldOK(field) /\ v \in [1..field.count -> Element(field.type)]
    BY <1>1, ValueTyped
  <2>2. PutField(kind, Puts[kind][i], value[Puts[kind][i]]) = FieldString(field, v)
    BY <1>1, PutFieldIs
  <2> HIDE DEF field, v
  <2>3. \A j \in 1..field.count : Pack(field.type, v[j]) = PutElement(field.type, v[j])
    <3>1. field.type \in {"u8", "f32"} /\ \A j \in 1..field.count : v[j] \in Element(field.type)
      BY <2>1 DEF FieldOK
    <3> QED BY <3>1, ElementBytes
  <2>4. [j \in 1..field.count |-> Pack(field.type, v[j])] =
          [j \in 1..field.count |-> PutElement(field.type, v[j])]
    BY <2>3
  <2>5. FlattenSeq([j \in 1..field.count |-> Pack(field.type, v[j])]) = FieldString(field, v)
    BY <2>4 DEF FieldString
  <2> QED BY <2>2, <2>5 DEF field, v
<1>3. BuildPayload(Fields[kind], value) = Payload(kind, value)
  <2> DEFINE golden(i) == FlattenSeq([j \in 1..Fields[kind][i].count |->
                            Pack(Fields[kind][i].type, value[Fields[kind][i].name][j])])
             put(i) == PutField(kind, Puts[kind][i], value[Puts[kind][i]])
  <2>1. \A i \in 1..n : golden(i) = put(i)
    BY <1>2
  <2>2. BuildPayload(Fields[kind], value) = FlattenSeq([i \in 1..n |-> golden(i)])
    BY <1>1 DEF BuildPayload
  <2>3. Payload(kind, value) = FlattenSeq([i \in 1..n |-> put(i)])
    BY <1>1 DEF Payload
  <2> HIDE DEF golden, put
  <2>4. [i \in 1..n |-> golden(i)] = [i \in 1..n |-> put(i)]
    BY <2>1
  <2> QED BY <2>2, <2>3, <2>4
<1>4. PICK p \in Seq(Byte), l \in 1..255, t \in Byte :
        p = Payload(kind, value) /\ l = Len(p) /\ t = TypeByte[kind]
  <2>1. TypeByte[kind] \in Byte
    BY Sizes DEF Byte
  <2> QED BY <2>1, PayloadBytes, Sizes
<1>5. Encode(kind, value) = EncodeFrame(p, t)
  BY <1>4 DEF Encode, Payload
<1>6. BuildFrame(p, t) = EncodeFrame(p, t)
  <2>1. PICK body \in Seq(Byte) : body = << 2, l, t >> \o p
    <3>1. 2 \in Byte /\ l \in Byte
      BY DEF Byte
    <3>2. << 2, l, t >> \in Seq(Byte)
      BY <3>1
    <3> QED BY <3>2, Joined
  <2>2. << kProtocolVersion, Len(p) % 256, t >> \o p = body
    <3>1. l % 256 = l
      OBVIOUS
    <3>2. Len(p) % 256 = l
      BY <1>4, <3>1, Zenon
    <3> QED BY <2>1, <3>2, Zenon DEF kProtocolVersion
  <2>3. EncodeFrame(p, t) = << 170, 85 >> \o body \o << Crc16(body) % 256, Crc16(body) \div 256 >>
    BY <2>2, Zenon DEF EncodeFrame, PutU16LE, kStx0, kStx1
  <2>4. BuildFrame(p, t) =
          << 170, 85 >> \o body \o << GoldenCrc(body) % 256, GoldenCrc(body) \div 256 >>
    <3>1. << 2, Len(p), t >> \o p = body
      BY <1>4, <2>1, Zenon
    <3> QED BY <3>1, Zenon DEF BuildFrame
  <2>5. GoldenCrc(body) = Crc16(body)
    OBVIOUS
  <2> QED BY <2>3, <2>4, <2>5
<1> QED BY <1>3, <1>4, <1>5, <1>6

-----------------------------------------------------------------------------
(* A frame with bytes behind it passes the checks it passed without them, and the
   frame of one packet never passes the other's. *)
IsBody(m, g, n) ==
  /\ m \in Seq(Byte) /\ Len(m) = n + 3
  /\ \A j \in 1..(n + 3) : m[j] = g[j + 2]

LEMMA BodyBytes ==
  ASSUME NEW g \in Seq(Byte), NEW n \in 1..255, Len(g) >= n + 7
  PROVE  IsBody(SubSeq(g, 3, 5 + n), g, n)
<1>1. PICK e \in Nat : e = 5 + n
  OBVIOUS
<1>2. PICK l \in Nat : l = Len(g)
  BY LenProperties
<1>3. 3 \in 1..(l + 1) /\ e \in 2..l /\ e - 3 + 1 = n + 3
  BY <1>1, <1>2
<1>4. /\ SubSeq(g, 3, e) \in Seq(Byte) /\ Len(SubSeq(g, 3, e)) = n + 3
      /\ \A j \in 1..(n + 3) : SubSeq(g, 3, e)[j] = g[3 + j - 1]
  BY <1>2, <1>3, SubSeqProperties
<1>5. \A j \in 1..(n + 3) : 3 + j - 1 = j + 2
  OBVIOUS
<1> HIDE <1>2
<1>6. \A j \in 1..(n + 3) : SubSeq(g, 3, e)[j] = g[j + 2]
  BY <1>4, <1>5
<1> QED BY <1>1, <1>4, <1>6, Zenon DEF IsBody

LEMMA HeaderBehind ==
  ASSUME NEW f \in Seq(Byte), NEW x \in Seq(Byte), NEW t \in Byte, NEW n \in 1..255,
         Len(f) = kFrameOverhead + n, ValidateFrameHeader(f, t, n)
  PROVE  ValidateFrameHeader(f \o x, t, n)
<1>1. Len(f) = n + 7
  BY DEF kFrameOverhead
<1>2. PICK g \in Seq(Byte), m \in Nat :
        g = f \o x /\ m = Len(x) /\ Len(g) = n + 7 + m /\ \A j \in 1..(n + 7) : g[j] = f[j]
  <2>1. /\ f \o x \in Seq(Byte) /\ Len(f \o x) = Len(f) + Len(x)
        /\ \A i \in 1..Len(f) : (f \o x)[i] = f[i]
    BY Joined
  <2>2. Len(x) \in Nat
    BY LenProperties
  <2> QED BY <1>1, <2>1, <2>2
<1>3. SubSeq(g, 3, 5 + n) = SubSeq(f, 3, 5 + n)
  <2>1. n + 7 >= n + 7 /\ n + 7 + m >= n + 7
    OBVIOUS
  <2>2. PICK u, v : /\ u = SubSeq(f, 3, 5 + n) /\ IsBody(u, f, n)
                    /\ v = SubSeq(g, 3, 5 + n) /\ IsBody(v, g, n)
    BY <1>1, <1>2, <2>1, BodyBytes
  <2>3. \A j \in 1..(n + 3) : j + 2 \in 1..(n + 7)
    OBVIOUS
  <2>4. /\ u \in Seq(Byte) /\ v \in Seq(Byte) /\ Len(u) = Len(v) /\ Len(u) = n + 3
        /\ \A j \in 1..(n + 3) : u[j] = v[j]
    BY <1>2, <2>2, <2>3, Zenon DEF IsBody
  <2> QED BY <2>2, <2>4, SeqEqual
<1>4. /\ g[1] = f[1] /\ g[2] = f[2] /\ g[3] = f[3] /\ g[4] = f[4] /\ g[5] = f[5]
      /\ g[n + 6] = f[n + 6] /\ g[n + 7] = f[n + 7]
  <2>1. /\ 1 \in 1..(n + 7) /\ 2 \in 1..(n + 7) /\ 3 \in 1..(n + 7) /\ 4 \in 1..(n + 7)
        /\ 5 \in 1..(n + 7) /\ n + 6 \in 1..(n + 7) /\ n + 7 \in 1..(n + 7)
    OBVIOUS
  <2> QED BY <1>2, <2>1, Zenon
<1>5. /\ f[1] = kStx0 /\ f[2] = kStx1 /\ f[3] = kProtocolVersion /\ f[4] = n /\ f[5] = t
      /\ Crc16(SubSeq(f, 3, 5 + n)) = f[n + 6] + 256 * f[n + 7]
  <2>1. kFrameOverhead + n - 2 + 1 = n + 6 /\ kFrameOverhead + n - 2 + 2 = n + 7
    BY DEF kFrameOverhead
  <2> QED BY <2>1 DEF ValidateFrameHeader, StxAt, VerAt, GetU16LE
<1>6. ValidateFrameHeader(g, t, n)
  <2>1. kFrameOverhead + n - 2 + 1 = n + 6 /\ kFrameOverhead + n - 2 + 2 = n + 7
    BY DEF kFrameOverhead
  <2>2. Len(g) >= kFrameOverhead + n
    BY <1>2 DEF kFrameOverhead
  <2>3. GetU16LE(g, kFrameOverhead + n - 2) = g[n + 6] + 256 * g[n + 7]
    BY <2>1 DEF GetU16LE
  <2>4. StxAt(g, 0) /\ VerAt(g, 0) = kProtocolVersion /\ g[4] = n /\ g[5] = t
    BY <1>4, <1>5 DEF StxAt, VerAt
  <2>5. Crc16(SubSeq(g, 3, 5 + n)) = g[n + 6] + 256 * g[n + 7]
    BY <1>3, <1>4, <1>5, Zenon
  <2> QED BY <2>2, <2>3, <2>4, <2>5, Zenon DEF ValidateFrameHeader
<1> QED BY <1>2, <1>6

LEMMA Decoded ==
  ASSUME CrcIsWord, NEW kind \in Kinds, NEW value, ValueOK(kind, value),
         NEW x \in Seq(Byte), NEW other \in Kinds,
         NEW g, g = Encode(kind, value) \/ g = Encode(kind, value) \o x
  PROVE  Decode(other, g) = IF other = kind THEN value ELSE Nothing
<1> DEFINE f == Encode(kind, value)
<1>1. /\ f \in Seq(Byte) /\ Len(f) = kFrameOverhead + PayloadSize[kind]
      /\ HasHead(f, kind) /\ ValidateFrameHeader(f, TypeByte[kind], PayloadSize[kind])
      /\ FieldsLieIn(f \o x, kind, value, kHeader) /\ FieldsLieIn(f, kind, value, kHeader)
  BY EncodedPacket, Zenon
<1> HIDE DEF f
<1>2. /\ FieldsLieIn(g, kind, value, kHeader)
      /\ ValidateFrameHeader(g, TypeByte[kind], PayloadSize[kind]) /\ g[4] = PayloadSize[kind]
  <2>1. TypeByte[kind] \in Byte /\ PayloadSize[kind] \in 1..255
    BY Sizes DEF Byte
  <2>2. CASE g = f
    BY <1>1, <2>2 DEF HasHead
  <2>3. CASE g = f \o x
    <3>1. ValidateFrameHeader(f \o x, TypeByte[kind], PayloadSize[kind])
      BY <1>1, <2>1, HeaderBehind
    <3> QED BY <1>1, <2>3, <3>1 DEF ValidateFrameHeader
  <2> QED BY <2>2, <2>3 DEF f
<1>3. CASE other = kind
  BY <1>2, <1>3, GotBack DEF Decode
<1>4. CASE other # kind
  <2>1. PayloadSize[other] # PayloadSize[kind]
    BY <1>4, Sizes
  <2>2. ~ValidateFrameHeader(g, TypeByte[other], PayloadSize[other])
    BY <1>2, <2>1 DEF ValidateFrameHeader
  <2> QED BY <1>4, <2>2 DEF Decode
<1> QED BY <1>3, <1>4

-----------------------------------------------------------------------------
(* What has become of the frame on its way, and of the decoded packet. *)
Encoded == Encode(packet.kind, packet.value)

IsHurtSo(f, how, encoded) ==
  /\ how = "no" => f = << >> \/ f = encoded
  /\ how = "tail" => \E tail \in Seq(Byte) : f = encoded \o tail
  /\ how = "short" => \E n \in 1..(Len(encoded) - 1) : f = SubSeq(encoded, 1, n)
  /\ how = "bytes" =>
       \E i \in 1..Len(encoded), d \in 1..255, e \in 0..255 :
         (e = 0 \/ i < Len(encoded)) /\ f = Damaged(encoded, i, d, e)

FrameIsHurtSo == IsHurtSo(frame, hurt, Encoded)

CodecIInv ==
  /\ packet \in SentPackets
  /\ frame = << >> => hurt = "no" /\ reader = "nobody"
  /\ FrameIsHurtSo
  /\ reader # "nobody" => reader \in Kinds /\ out = Decode(reader, frame)

LEMMA SentPacketOK ==
  ASSUME packet \in SentPackets
  PROVE  packet.kind \in Kinds /\ ValueOK(packet.kind, packet.value)
BY CodecAssumption

LEMMA SentBytes ==
  ASSUME CrcIsWord, packet \in SentPackets
  PROVE  /\ Encoded \in Seq(Byte)
         /\ Len(Encoded) = kFrameOverhead + PayloadSize[packet.kind]
         /\ Len(Encoded) \in Nat /\ Len(Encoded) >= 8
<1>1. PICK kind, value :
        kind \in Kinds /\ kind = packet.kind /\ value = packet.value /\ ValueOK(kind, value)
  BY SentPacketOK
<1>2. << >> \in Seq(Byte)
  OBVIOUS
<1>3. /\ Encode(kind, value) \in Seq(Byte)
      /\ Len(Encode(kind, value)) = kFrameOverhead + PayloadSize[kind]
  BY <1>1, <1>2, EncodedPacket, Zenon
<1>4. kFrameOverhead + PayloadSize[kind] \in Nat /\ kFrameOverhead + PayloadSize[kind] >= 8
  BY <1>1, Sizes DEF kFrameOverhead
<1>5. Encoded = Encode(kind, value) /\ packet.kind = kind
  BY <1>1, Zenon DEF Encoded
<1> HIDE DEF Encoded
<1>6. PICK l : l = kFrameOverhead + PayloadSize[kind]
  OBVIOUS
<1>7. Len(Encoded) = l /\ l \in Nat /\ l >= 8 /\ Encoded \in Seq(Byte)
  BY <1>3, <1>4, <1>5, <1>6, Zenon
<1> QED BY <1>5, <1>6, <1>7, Zenon

THEOREM CodecInitIInv == CodecInit => CodecIInv
BY DEF CodecInit, CodecIInv, FrameIsHurtSo, IsHurtSo

LEMMA CodecNextIInv ==
  ASSUME CrcIsWord, CodecIInv, [CodecNext]_codecVars
  PROVE  CodecIInv'
<1>0. /\ packet \in SentPackets /\ Encoded \in Seq(Byte)
      /\ Len(Encoded) \in Nat /\ Len(Encoded) >= 8
  BY SentBytes DEF CodecIInv
<1>1. UNCHANGED packet => Encoded' = Encoded
  BY DEF Encoded
<1>2. CASE Sent
  <2>1. /\ frame = << >> /\ hurt = "no" /\ reader = "nobody"
        /\ frame' = Encoded /\ UNCHANGED << packet, hurt, reader, out >>
    BY <1>2 DEF Sent, CodecIInv, Encoded
  <2>2. FrameIsHurtSo'
    BY <1>1, <2>1 DEF FrameIsHurtSo, IsHurtSo
  <2> QED BY <1>0, <2>1, <2>2 DEF CodecIInv
<1>3. ASSUME NEW i \in 1..Len(frame), NEW d \in Deltas, NEW e \in Deltas \union {0}, Damage(i, d, e)
      PROVE  CodecIInv'
  <2>1. /\ frame = Encoded /\ reader = "nobody" /\ (e = 0 \/ i < Len(frame))
        /\ frame' = Damaged(frame, i, d, e) /\ hurt' = "bytes"
        /\ UNCHANGED << packet, reader, out >>
    BY <1>3 DEF Damage, OnItsWay, CodecIInv, FrameIsHurtSo, IsHurtSo
  <2>2. d \in 1..255 /\ e \in 0..255
    BY CodecAssumption
  <2>3. FrameIsHurtSo'
    BY <1>1, <2>1, <2>2 DEF FrameIsHurtSo, IsHurtSo
  <2>4. frame' # << >>
    <3>1. DOMAIN (frame') = 1..Len(Encoded)
      BY <2>1 DEF Damaged
    <3>2. 1 \in 1..Len(Encoded)
      BY <1>0
    <3> QED BY <3>1, <3>2
  <2> QED BY <1>0, <2>1, <2>3, <2>4 DEF CodecIInv
<1>4. ASSUME NEW n \in 1..(Len(frame) - 1), Shorten(n) PROVE CodecIInv'
  <2>1. /\ frame = Encoded /\ reader = "nobody"
        /\ frame' = SubSeq(frame, 1, n) /\ hurt' = "short" /\ UNCHANGED << packet, reader, out >>
    BY <1>4 DEF Shorten, OnItsWay, CodecIInv, FrameIsHurtSo, IsHurtSo
  <2>2. FrameIsHurtSo'
    BY <1>1, <2>1 DEF FrameIsHurtSo, IsHurtSo
  <2>3. frame' # << >>
    <3>1. n \in 1..Len(Encoded) /\ n >= 1
      BY <1>0, <2>1
    <3>2. Len(SubSeq(Encoded, 1, n)) = n
      BY <1>0, <3>1, SubSeqProperties
    <3> QED BY <2>1, <3>1, <3>2
  <2> QED BY <1>0, <2>1, <2>2, <2>3 DEF CodecIInv
<1>5. ASSUME NEW tail \in Tails, Lengthen(tail) PROVE CodecIInv'
  <2>1. /\ frame = Encoded /\ reader = "nobody"
        /\ frame' = frame \o tail /\ hurt' = "tail" /\ UNCHANGED << packet, reader, out >>
    BY <1>5 DEF Lengthen, OnItsWay, CodecIInv, FrameIsHurtSo, IsHurtSo
  <2>2. tail \in Seq(Byte)
    BY CodecAssumption
  <2>3. FrameIsHurtSo'
    BY <1>1, <2>1, <2>2 DEF FrameIsHurtSo, IsHurtSo
  <2>4. frame' # << >>
    <3>1. Len(Encoded \o tail) = Len(Encoded) + Len(tail) /\ Len(tail) \in Nat
      BY <1>0, <2>2, Joined, LenProperties
    <3>2. Len(frame') >= 8
      BY <1>0, <2>1, <3>1
    <3> QED BY <3>2
  <2> QED BY <1>0, <2>1, <2>3, <2>4 DEF CodecIInv
<1>6. ASSUME NEW kind \in Kinds, Received(kind) PROVE CodecIInv'
  <2>1. /\ frame # << >> /\ reader' = kind /\ out' = Decode(kind, frame)
        /\ UNCHANGED << packet, frame, hurt >>
    BY <1>6 DEF Received
  <2>2. FrameIsHurtSo'
    BY <1>1, <2>1, Zenon DEF FrameIsHurtSo, CodecIInv
  <2>3. out' = Decode(reader', frame')
    BY <2>1, Zenon
  <2> QED BY <1>0, <2>1, <2>2, <2>3 DEF CodecIInv
<1>7. CASE UNCHANGED codecVars
  <2>1. UNCHANGED << packet, frame, hurt, reader, out >>
    BY <1>7 DEF codecVars
  <2>2. FrameIsHurtSo'
    BY <1>1, <2>1, Zenon DEF FrameIsHurtSo, CodecIInv
  <2>3. out = Decode(reader, frame) => out' = Decode(reader', frame')
    BY <2>1, Zenon
  <2> QED BY <1>0, <2>1, <2>2, <2>3 DEF CodecIInv
<1> QED BY <1>2, <1>3, <1>4, <1>5, <1>6, <1>7 DEF CodecNext

(* The invariant the theorems below rest on, for every checksum of sixteen bits. *)
THEOREM CodecInductive == ASSUME CrcIsWord PROVE CodecSpec => []CodecIInv
<1>1. CodecIInv /\ [CodecNext]_codecVars => CodecIInv'
  BY CodecNextIInv
<1> QED BY <1>1, CodecInitIInv, PTL DEF CodecSpec

(* For every checksum of sixteen bits and every packet: decoding gives back what was
   encoded, also with bytes behind the frame, and nothing as the other packet. *)
THEOREM RoundTrips == ASSUME CrcIsWord PROVE CodecSpec => []RoundTrip
<1>1. ASSUME CodecIInv PROVE RoundTrip
  <2> SUFFICES ASSUME reader # "nobody", hurt \in {"no", "tail"}
               PROVE  out = IF reader = packet.kind THEN packet.value ELSE Nothing
    BY DEF RoundTrip
  <2>1. /\ packet.kind \in Kinds /\ ValueOK(packet.kind, packet.value)
        /\ reader \in Kinds /\ out = Decode(reader, frame) /\ frame # << >>
    BY <1>1, SentPacketOK DEF CodecIInv
  <2>2. PICK x \in Seq(Byte) : frame = Encoded \/ frame = Encoded \o x
    <3>1. << >> \in Seq(Byte)
      OBVIOUS
    <3> QED BY <1>1, <2>1, <3>1 DEF CodecIInv, FrameIsHurtSo, IsHurtSo
  <2>3. Decode(reader, frame) = IF reader = packet.kind THEN packet.value ELSE Nothing
    <3>1. PICK kind, value :
            kind \in Kinds /\ kind = packet.kind /\ value = packet.value /\ ValueOK(kind, value)
      BY <2>1
    <3>2. frame = Encode(kind, value) \/ frame = Encode(kind, value) \o x
      BY <2>2, <3>1 DEF Encoded
    <3>3. Decode(reader, frame) = IF reader = kind THEN value ELSE Nothing
      BY <2>1, <3>1, <3>2, Decoded
    <3> QED BY <3>1, <3>3
  <2> QED BY <2>1, <2>3
<1> QED BY <1>1, CodecInductive, PTL

(* For every packet: where golden_gen.py's checksum is the code's, its frame is the
   one that is sent. *)
THEOREM GoldenEncoded ==
  ASSUME CrcIsWord, \A m \in Seq(Byte) : GoldenCrc(m) = Crc16(m)
  PROVE  CodecSpec => []GoldenIsEncoded
<1>1. ASSUME CodecIInv PROVE GoldenIsEncoded
  <2> SUFFICES ASSUME InOrder
               PROVE  frame = BuildFrame(BuildPayload(Fields[packet.kind], packet.value),
                                         TypeByte[packet.kind])
    BY DEF GoldenIsEncoded
  <2>1. frame = Encoded
    BY <1>1 DEF CodecIInv, FrameIsHurtSo, IsHurtSo, InOrder
  <2>2. packet.kind \in Kinds /\ ValueOK(packet.kind, packet.value)
    BY <1>1, SentPacketOK DEF CodecIInv
  <2> QED BY <2>1, <2>2, GoldenEncodes DEF Encoded
<1> QED BY <1>1, CodecInductive, PTL

(* What the frame in order holds. *)
LEMMA InOrderHolds ==
  ASSUME CrcIsWord, CodecIInv, InOrder
  PROVE  /\ packet.kind \in Kinds /\ frame \in Seq(Byte)
         /\ Len(frame) = kFrameOverhead + PayloadSize[packet.kind] /\ HasHead(frame, packet.kind)
         /\ \A i \in 1..Len(Fields[packet.kind]) :
              LET field == Fields[packet.kind][i]
              IN  /\ Holds(frame, field, Off(packet.kind)[i])
                  /\ Holds(frame, field, Gets[packet.kind][field.name])
<1>1. PICK kind, value :
        kind \in Kinds /\ kind = packet.kind /\ value = packet.value /\ ValueOK(kind, value)
  BY SentPacketOK DEF CodecIInv
<1>2. frame = Encode(kind, value)
  BY <1>1 DEF CodecIInv, FrameIsHurtSo, IsHurtSo, InOrder, Encoded
<1>3. << >> \in Seq(Byte)
  OBVIOUS
<1>4. /\ Encode(kind, value) \in Seq(Byte)
      /\ Len(Encode(kind, value)) = kFrameOverhead + PayloadSize[kind]
      /\ HasHead(Encode(kind, value), kind)
      /\ FieldsLieIn(Encode(kind, value), kind, value, kHeader)
  BY <1>1, <1>3, EncodedPacket, Zenon
<1>5. FieldsLieIn(frame, kind, value, kHeader)
  BY <1>2, <1>4
<1>6. ASSUME NEW i \in 1..Len(Fields[kind])
      PROVE  /\ Holds(frame, Fields[kind][i], Off(kind)[i])
             /\ Holds(frame, Fields[kind][i], Gets[kind][Fields[kind][i].name])
  <2>1. /\ Elements(Fields[kind][i], frame, kHeader + Off(kind)[i]) = value[Fields[kind][i].name]
        /\ Off(kind)[i] = Gets[kind][Fields[kind][i].name]
    BY <1>1, <1>5, ReadBack
  <2> QED BY <1>1, <2>1 DEF Holds
<1> QED BY <1>1, <1>2, <1>4, <1>6, Zenon

(* For every checksum of sixteen bits and every packet: the frame has the size it
   says, and its fields are where the schema and the host's constants say. *)
THEOREM FieldsAreThere == ASSUME CrcIsWord PROVE CodecSpec => []FieldsWhereTheSchemaSays
<1>1. ASSUME CodecIInv PROVE FieldsWhereTheSchemaSays
  <2> SUFFICES ASSUME InOrder PROVE FieldsWhereTheSchemaSays
    BY DEF FieldsWhereTheSchemaSays
  <2> DEFINE named == IF packet.kind = "Cmd" THEN kCmdPacketOffset ELSE kTelemetryPacketOffset
  <2>1. PICK kind \in Kinds : kind = packet.kind
    BY <1>1, InOrderHolds
  <2>2. /\ Len(frame) = kFrameOverhead + PayloadSize[kind] /\ HasHead(frame, kind)
        /\ \A i \in 1..Len(Fields[kind]) :
             /\ Holds(frame, Fields[kind][i], Off(kind)[i])
             /\ Holds(frame, Fields[kind][i], Gets[kind][Fields[kind][i].name])
    BY <1>1, <2>1, InOrderHolds
  <2>3. Off(kind)[Len(Fields[kind]) + 1] = PayloadSize[kind]
    BY Offsets DEF IsLayout
  <2>4. PacketSize(Fields[kind]) = PayloadSize[kind]
    BY <2>3 DEF PacketSize, Off
  <2>5. named = Gets[kind]
    BY <2>1 DEF named, Kinds, Gets, CmdGets, TeleGets, kCmdPacketOffset, kTelemetryPacketOffset
  <2> HIDE DEF named
  <2>6. frame[4] = PayloadSize[kind]
    BY <2>2 DEF HasHead
  <2>7. \A i \in 1..Len(Fields[kind]) :
          /\ Holds(frame, Fields[kind][i], ComputeLayout(Fields[kind])[i])
          /\ Holds(frame, Fields[kind][i], named[Fields[kind][i].name])
    BY <2>2, <2>5 DEF Off
  <2> QED BY <2>1, <2>2, <2>4, <2>6, <2>7, Zenon DEF FieldsWhereTheSchemaSays, named
<1> QED BY <1>1, CodecInductive, PTL

(* For every checksum of sixteen bits and every packet: the firmware reads every
   field, by the packed struct of the checked-in header and by its macros. *)
THEOREM FirmwareReads == ASSUME CrcIsWord PROVE CodecSpec => []FirmwareReadsThePacket
<1>1. ASSUME CodecIInv PROVE FirmwareReadsThePacket
  <2> SUFFICES ASSUME InOrder PROVE FirmwareReadsThePacket
    BY DEF FirmwareReadsThePacket
  <2> DEFINE struct == IF packet.kind = "Cmd" THEN CmdPacketStruct ELSE TelemetryPacketStruct
             macro == IF packet.kind = "Cmd" THEN OU_CMDPACKET_OFFSET ELSE OU_TELEMETRYPACKET_OFFSET
             size == OU_FRAME.PAYLOAD_SIZE[packet.kind]
  <2>1. PICK kind \in Kinds : kind = packet.kind
    BY <1>1, InOrderHolds
  <2>2. /\ frame \in Seq(Byte)
        /\ Len(frame) = kFrameOverhead + PayloadSize[kind] /\ HasHead(frame, kind)
        /\ \A i \in 1..Len(Fields[kind]) :
             /\ Holds(frame, Fields[kind][i], Off(kind)[i])
             /\ Holds(frame, Fields[kind][i], Gets[kind][Fields[kind][i].name])
    BY <1>1, <2>1, InOrderHolds
  <2>3. /\ struct = Struct[kind] /\ macro = Gets[kind] /\ size = PayloadSize[kind]
        /\ OU_FRAME.TYPE[kind] = TypeByte[kind]
    <3>1. struct = Struct[kind]
      BY <2>1 DEF Kinds, Struct
    <3>2. macro = Gets[kind]
      BY <2>1 DEF Kinds, Gets, CmdGets, TeleGets, OU_CMDPACKET_OFFSET, OU_TELEMETRYPACKET_OFFSET
    <3>3. size = PayloadSize[kind] /\ OU_FRAME.TYPE[kind] = TypeByte[kind]
      BY <2>1 DEF Kinds, OU_FRAME, PayloadSize, TypeByte, kTypeCmd, kTypeTele, kCmdPayloadSize,
                  kTelePayloadSize
    <3> QED BY <3>1, <3>2, <3>3
  <2> HIDE DEF struct, macro, size
  <2>4. PICK n \in Nat \ {0} :
          /\ n = Len(Fields[kind]) /\ Len(struct) = n
          /\ \A i \in 1..n : struct[i] = << Fields[kind][i].name, SizeOf(Fields[kind][i]) >>
    BY <2>3, Tables
  <2>5. OffsetOf(struct)[Len(struct) + 1] = size
    <3>1. IsLayout(OffsetOf(struct), kind, n)
      BY <2>3, <2>4, StructOffsets
    <3> QED BY <2>3, <2>4, <3>1 DEF IsLayout
  <2>6. SubSeq(frame, 1, kHeader) =
          << OU_FRAME.STX0, OU_FRAME.STX1, OU_FRAME.PROTOCOL_VERSION, size,
             OU_FRAME.TYPE[packet.kind] >>
    <3>1. PICK l \in 1..255 : l = PayloadSize[kind]
      BY Sizes
    <3>9. Len(frame) = l + 7
      BY <2>2, <3>1 DEF kFrameOverhead
    <3>2. PICK t \in 1..2 : t = TypeByte[kind]
      BY Sizes
    <3>3. PICK h \in Seq(Byte) : h = << 170, 85, 2, l, t >>
      <4>1. 170 \in Byte /\ 85 \in Byte /\ 2 \in Byte /\ l \in Byte /\ t \in Byte
        BY DEF Byte
      <4>2. << 170, 85, 2, l, t >> \in Seq(Byte)
        BY <4>1
      <4> QED BY <4>2, Zenon
    <3>4. Len(h) = 5 /\ h[1] = 170 /\ h[2] = 85 /\ h[3] = 2 /\ h[4] = l /\ h[5] = t
      BY <3>3
    <3>5. frame[1] = 170 /\ frame[2] = 85 /\ frame[3] = 2 /\ frame[4] = l /\ frame[5] = t
      BY <2>2, <3>1, <3>2 DEF HasHead, kStx0, kStx1, kProtocolVersion
    <3>6. PICK f \in Seq(Byte) :
            f = SubSeq(frame, 1, 5) /\ Len(f) = 5 /\ \A i \in 1..5 : f[i] = frame[1 + i - 1]
      <4>3. l + 7 \in Nat /\ 5 \in 0..(l + 7)
        OBVIOUS
      <4>1. frame \in Seq(Byte) /\ Len(frame) \in Nat /\ 5 \in 0..Len(frame)
        BY <2>2, <3>9, <4>3, Zenon
      <4>2. /\ SubSeq(frame, 1, 5) \in Seq(Byte) /\ Len(SubSeq(frame, 1, 5)) = 5
            /\ \A i \in 1..5 : SubSeq(frame, 1, 5)[i] = frame[1 + i - 1]
        BY <4>1, SubSeqProperties
      <4> QED BY <4>2, Zenon
    <3>7. \A i \in 1..5 : f[i] = h[i]
      BY <3>4, <3>5, <3>6
    <3>8. f = h
      BY <3>4, <3>6, <3>7, SeqEqual
    <3> QED BY <2>1, <2>3, <3>1, <3>2, <3>3, <3>6, <3>8 DEF kHeader, OU_FRAME
  <2>7. Len(frame) = OU_FRAME.FRAME_OVERHEAD + size
    BY <2>2, <2>3 DEF OU_FRAME, kFrameOverhead
  <2>8. ASSUME NEW i \in 1..Len(struct)
        PROVE  LET field == FieldNamed(packet.kind, struct[i][1])
               IN  /\ SizeOf(field) = struct[i][2]
                   /\ Holds(frame, field, OffsetOf(struct)[i])
                   /\ Holds(frame, field, macro[field.name])
    <3>1. /\ i \in 1..n /\ struct[i][1] = Fields[kind][i].name
          /\ struct[i][2] = SizeOf(Fields[kind][i])
      BY <2>4
    <3>2. FieldNamed(packet.kind, struct[i][1]) = Fields[kind][i]
      BY <2>1, <2>4, <3>1, NamedField
    <3>3. OffsetOf(struct)[i] = Gets[kind][Fields[kind][i].name]
      <4>1. IsLayout(OffsetOf(struct), kind, n)
        BY <2>3, <2>4, StructOffsets
      <4> QED BY <3>1, <4>1 DEF IsLayout
    <3>4. Holds(frame, Fields[kind][i], Gets[kind][Fields[kind][i].name])
      BY <2>2, <2>4, <3>1
    <3> QED BY <2>3, <3>1, <3>2, <3>3, <3>4, Zenon
  <2> QED BY <2>1, <2>5, <2>6, <2>7, <2>8, Zenon DEF FirmwareReadsThePacket, struct, macro, size
<1> QED BY <1>1, CodecInductive, PTL

-----------------------------------------------------------------------------
(* A checksum that tells apart what one burst can change finds the burst. *)
DamagedBody(m, w, i) ==
  /\ m \in Seq(Byte) /\ w \in Seq(Byte) /\ Len(m) = Len(w) /\ i \in 1..Len(m) /\ m[i] # w[i]
  /\ \A j \in 1..Len(m) : j # i /\ j # i + 1 => m[j] = w[j]

TellApart(m, w, i) ==
  Crc16(m) # Crc16(w) /\ (i = Len(m) => Crc16(m) \div 256 # Crc16(w) \div 256)

LEMMA BurstsDiffer ==
  ASSUME DetectsBursts(Seq(Byte)), NEW m, NEW w, NEW i, DamagedBody(m, w, i)
  PROVE  TellApart(m, w, i)
<1>1. /\ m \in Seq(Byte) /\ w \in Seq(Byte) /\ Len(m) = Len(w) /\ i \in 1..Len(m) /\ m[i] # w[i]
      /\ \A j \in 1..Len(m) : j # i /\ j # i + 1 => m[j] = w[j]
  BY DEF DamagedBody
<1>2. Crc16(m) # Crc16(w)
  BY <1>1, Zenon DEF DetectsBursts
<1>3. ASSUME i = Len(m) PROVE Crc16(m) \div 256 # Crc16(w) \div 256
  <2>1. \A j \in 1..(i - 1) : m[j] = w[j]
    <3> SUFFICES ASSUME NEW j \in 1..(i - 1) PROVE m[j] = w[j]
      OBVIOUS
    <3>1. i \in Nat
      BY <1>1
    <3>2. j \in 1..i /\ j # i /\ j # i + 1
      BY <3>1
    <3> QED BY <1>1, <1>3, <3>2
  <2> QED BY <1>1, <1>3, <2>1, Zenon DEF DetectsBursts
<1> QED BY <1>2, <1>3 DEF TellApart

Plus(b, d) == (b + d) % 256

LEMMA ByteAdd ==
  ASSUME NEW b \in Byte, NEW d \in 0..255
  PROVE  Plus(b, d) \in Byte /\ (d # 0 => Plus(b, d) # b) /\ (d = 0 => Plus(b, d) = b)
<1>0. b \in 0..255
  BY DEF Byte
<1>1. PICK s \in 0..510 : s = b + d
  BY <1>0
<1>2. CASE s < 256
  <2>1. s % 256 = s
    BY <1>2
  <2> QED BY <1>0, <1>1, <1>2, <2>1 DEF Plus, Byte
<1>3. CASE s >= 256
  <2>1. s % 256 = s - 256
    BY <1>3
  <2> QED BY <1>0, <1>1, <1>3, <2>1 DEF Plus, Byte
<1> QED BY <1>2, <1>3

(* The bytes of a damaged frame. *)
ChangedAt(g, f, i, e) ==
  /\ g \in Seq(Byte) /\ Len(g) = Len(f) /\ g[i] # f[i]
  /\ \A j \in 1..Len(f) : j # i /\ j # i + 1 => g[j] = f[j]
  /\ \A j \in 1..Len(f) : j # i /\ e = 0 => g[j] = f[j]

LEMMA DamagedBytes ==
  ASSUME NEW f \in Seq(Byte), NEW i \in 1..Len(f), NEW d \in 1..255, NEW e \in 0..255,
         e = 0 \/ i < Len(f)
  PROVE  ChangedAt(Damaged(f, i, d, e), f, i, e)
<1>1. PICK n \in Nat : n = Len(f)
  BY LenProperties
<1>2. \A j \in 1..n : f[j] \in Byte
  BY <1>1
<1> DEFINE byteAt(j) == IF j = i THEN Plus(f[j], d)
                    ELSE IF j = i + 1 THEN Plus(f[j], e)
                    ELSE f[j]
           g == [j \in 1..n |-> byteAt(j)]
<1>3. ASSUME NEW j \in 1..n
      PROVE  /\ byteAt(j) \in Byte
             /\ j = i => byteAt(j) # f[j]
             /\ j # i /\ j # i + 1 => byteAt(j) = f[j]
             /\ j # i /\ e = 0 => byteAt(j) = f[j]
  <2>1. PICK b \in Byte : b = f[j]
    BY <1>2
  <2>2. d \in 0..255 /\ d # 0
    OBVIOUS
  <2>3. /\ Plus(b, d) \in Byte /\ Plus(b, d) # b
        /\ Plus(b, e) \in Byte /\ (e = 0 => Plus(b, e) = b)
    BY <2>2, ByteAdd
  <2> QED BY <2>1, <2>3
<1>4. Damaged(f, i, d, e) = g
  BY <1>1 DEF Damaged, Plus
<1> HIDE DEF byteAt
<1>5. g \in Seq(Byte) /\ Len(g) = n /\ \A j \in 1..n : g[j] = byteAt(j)
  BY <1>3
<1> HIDE DEF g
<1>6. i \in 1..n
  BY <1>1
<1> QED BY <1>1, <1>3, <1>4, <1>5, <1>6 DEF ChangedAt

(* What the checks of the header look at. *)
HeaderReads(g, t, n) ==
  /\ Len(g) >= n + 7
  /\ g[1] = kStx0 /\ g[2] = kStx1 /\ g[3] = kProtocolVersion /\ g[4] = n /\ g[5] = t
  /\ Crc16(SubSeq(g, 3, 5 + n)) = g[n + 6] + 256 * g[n + 7]

LEMMA HeaderBytes ==
  ASSUME NEW g, NEW t, NEW n \in 1..255, ValidateFrameHeader(g, t, n)
  PROVE  HeaderReads(g, t, n)
<1>1. /\ Len(g) >= kFrameOverhead + n /\ StxAt(g, 0) /\ VerAt(g, 0) = kProtocolVersion
      /\ g[4] = n /\ g[5] = t
      /\ Crc16(SubSeq(g, 3, 5 + n)) = GetU16LE(g, kFrameOverhead + n - 2)
  BY Zenon DEF ValidateFrameHeader
<1>2. /\ kFrameOverhead + n - 2 + 1 = n + 6 /\ kFrameOverhead + n - 2 + 2 = n + 7
      /\ kFrameOverhead + n = n + 7
  BY DEF kFrameOverhead
<1>3. GetU16LE(g, kFrameOverhead + n - 2) = g[n + 6] + 256 * g[n + 7]
  BY <1>2 DEF GetU16LE
<1>4. g[1] = kStx0 /\ g[2] = kStx1 /\ g[3] = kProtocolVersion
  BY <1>1 DEF StxAt, VerAt
<1> QED BY <1>1, <1>2, <1>3, <1>4, Zenon DEF HeaderReads

LEMMA DamageIsSeen ==
  ASSUME DetectsBursts(Seq(Byte)), NEW f \in Seq(Byte), NEW t, NEW n \in 1..255,
         Len(f) = n + 7, ValidateFrameHeader(f, t, n),
         NEW i \in 1..Len(f), NEW d \in 1..255, NEW e \in 0..255, e = 0 \/ i < Len(f)
  PROVE  ~ValidateFrameHeader(Damaged(f, i, d, e), t, n)
<1> SUFFICES ASSUME ValidateFrameHeader(Damaged(f, i, d, e), t, n) PROVE FALSE
  OBVIOUS
<1>0. ChangedAt(Damaged(f, i, d, e), f, i, e)
  BY DamagedBytes
<1>1. PICK g \in Seq(Byte) :
        /\ g = Damaged(f, i, d, e) /\ Len(g) = n + 7 /\ g[i] # f[i]
        /\ \A j \in 1..(n + 7) : j # i /\ j # i + 1 => g[j] = f[j]
        /\ \A j \in 1..(n + 7) : j # i /\ e = 0 => g[j] = f[j]
  BY <1>0, Zenon DEF ChangedAt
<1>2. /\ f[1] = kStx0 /\ f[2] = kStx1 /\ f[3] = kProtocolVersion /\ f[4] = n /\ f[5] = t
      /\ Crc16(SubSeq(f, 3, 5 + n)) = f[n + 6] + 256 * f[n + 7]
  <2>1. HeaderReads(f, t, n)
    BY HeaderBytes
  <2> QED BY <2>1, Zenon DEF HeaderReads
<1>3. /\ g[1] = kStx0 /\ g[2] = kStx1 /\ g[3] = kProtocolVersion /\ g[4] = n /\ g[5] = t
      /\ Crc16(SubSeq(g, 3, 5 + n)) = g[n + 6] + 256 * g[n + 7]
  <2>1. HeaderReads(g, t, n)
    BY <1>1, HeaderBytes
  <2> QED BY <2>1, Zenon DEF HeaderReads
<1>4. i \in 6..(n + 7)
  <2>1. i \in 1..(n + 7)
    OBVIOUS
  <2>2. i # 1 /\ i # 2 /\ i # 3 /\ i # 4 /\ i # 5
    BY <1>1, <1>2, <1>3
  <2> QED BY <2>1, <2>2
<1>5. PICK m \in Seq(Byte), w \in Seq(Byte) :
        /\ m = SubSeq(f, 3, 5 + n) /\ w = SubSeq(g, 3, 5 + n) /\ Len(m) = n + 3 /\ Len(w) = n + 3
        /\ \A j \in 1..(n + 3) : m[j] = f[j + 2] /\ w[j] = g[j + 2]
  <2>1. IsBody(SubSeq(f, 3, 5 + n), f, n) /\ IsBody(SubSeq(g, 3, 5 + n), g, n)
    <3>1. n + 7 >= n + 7
      OBVIOUS
    <3> QED BY <1>1, <3>1, BodyBytes
  <2> QED BY <2>1, Zenon DEF IsBody
<1>8. f[n + 6] \in Byte /\ f[n + 7] \in Byte /\ g[n + 6] \in Byte /\ g[n + 7] \in Byte
  <2>1. n + 6 \in 1..(n + 7) /\ n + 7 \in 1..(n + 7)
    OBVIOUS
  <2> QED BY <1>1, <2>1
<1>6. CASE i <= n + 5
  <2>1. PICK k \in 1..(n + 3) : k + 2 = i
    <3>1. i - 2 \in 1..(n + 3) /\ (i - 2) + 2 = i
      BY <1>4, <1>6
    <3> QED BY <3>1
  <2>2. m[k] # w[k]
    BY <1>1, <1>5, <2>1
  <2>3. ASSUME NEW j \in 1..(n + 3), j # k, j # k + 1 PROVE m[j] = w[j]
    <3>1. j + 2 \in 1..(n + 7) /\ j + 2 # i /\ j + 2 # i + 1
      BY <2>1, <2>3
    <3> QED BY <1>1, <1>5, <3>1
  <2>4. DamagedBody(m, w, k)
    BY <1>5, <2>2, <2>3 DEF DamagedBody
  <2>5. Crc16(m) # Crc16(w) /\ (k = n + 3 => Crc16(m) \div 256 # Crc16(w) \div 256)
    <3>1. TellApart(m, w, k)
      BY <2>4, BurstsDiffer
    <3> QED BY <1>5, <3>1, Zenon DEF TellApart
  <2>6. g[n + 7] = f[n + 7]
    <3>1. n + 7 \in 1..(n + 7) /\ n + 7 # i /\ n + 7 # i + 1
      BY <1>6
    <3> QED BY <1>1, <3>1
  <2>7. CASE g[n + 6] = f[n + 6]
    BY <1>2, <1>3, <1>5, <2>5, <2>6, <2>7, Zenon
  <2>8. CASE g[n + 6] # f[n + 6]
    <3>1. i = n + 5
      <4>1. n + 6 \in 1..(n + 7) /\ n + 6 # i
        BY <1>6
      <4> QED BY <1>1, <1>6, <2>8, <4>1
    <3>2. k = n + 3
      BY <2>1, <3>1
    <3>3. PICK a \in Byte, b \in Byte, c \in Byte :
            a = f[n + 6] /\ b = f[n + 7] /\ c = g[n + 6]
      BY <1>8
    <3>4. Crc16(m) = Joint(a, b) /\ Crc16(w) = Joint(c, b)
      BY <1>2, <1>3, <1>5, <2>6, <3>3, Zenon DEF Joint
    <3>5. High(Crc16(m)) = High(Crc16(w))
      BY <3>4, HighHalf
    <3> QED BY <2>5, <3>2, <3>5 DEF High
  <2> QED BY <2>7, <2>8
<1>7. CASE i > n + 5
  <2>1. \A j \in 1..(n + 3) : m[j] = w[j]
    <3> SUFFICES ASSUME NEW j \in 1..(n + 3) PROVE m[j] = w[j]
      OBVIOUS
    <3>1. j + 2 \in 1..(n + 7) /\ j + 2 # i /\ j + 2 # i + 1
      BY <1>4, <1>7
    <3> QED BY <1>1, <1>5, <3>1
  <2>2. m = w
    <3>1. Len(m) = n + 3 /\ Len(m) = Len(w)
      BY <1>5, Zenon
    <3>2. \A j \in 1..Len(m) : m[j] = w[j]
      BY <2>1, <3>1, Zenon
    <3> QED BY <3>1, <3>2, SeqEqual, Zenon
  <2>3. PICK a \in Byte, b \in Byte, c \in Byte, h \in Byte :
          a = f[n + 6] /\ b = f[n + 7] /\ c = g[n + 6] /\ h = g[n + 7]
    BY <1>8
  <2>4. Joint(a, b) = Joint(c, h)
    <3>1. SubSeq(f, 3, 5 + n) = SubSeq(g, 3, 5 + n)
      BY <1>5, <2>2, Zenon
    <3>2. Crc16(SubSeq(f, 3, 5 + n)) = Joint(a, b)
      BY <1>2, <2>3, Zenon DEF Joint
    <3>3. Crc16(SubSeq(g, 3, 5 + n)) = Joint(c, h)
      BY <1>3, <2>3, Zenon DEF Joint
    <3> QED BY <3>1, <3>2, <3>3, Zenon
  <2>5. a = c /\ b = h
    BY <2>4, SameWord
  <2>6. i = n + 6 \/ i = n + 7
    BY <1>4, <1>7
  <2> QED BY <1>1, <2>3, <2>5, <2>6
<1> QED BY <1>4, <1>6, <1>7

(* For every packet, every cut and every damage: with a checksum of sixteen bits
   that tells bursts apart, a hurt frame decodes as nothing, save for a telemetry
   frame whose length and type bytes were made a command's. *)
THEOREM DamageDetected ==
  ASSUME CrcIsWord, DetectsBursts(Seq(Byte))
  PROVE  CodecSpec => []DamageIsDetected
<1>1. ASSUME CodecIInv PROVE DamageIsDetected
  <2> SUFFICES ASSUME reader # "nobody", hurt \in {"bytes", "short"}, out # Nothing
               PROVE  TakenForCmd
    BY DEF DamageIsDetected
  <2>1. PICK kind \in Kinds, other \in Kinds :
          kind = packet.kind /\ other = reader /\ out = Decode(other, frame)
    BY <1>1, SentPacketOK DEF CodecIInv
  <2>2. PICK n \in 1..255, o \in 1..255 : n = PayloadSize[kind] /\ o = PayloadSize[other]
    BY Sizes
  <2>3. ValidateFrameHeader(frame, TypeByte[other], o)
    BY <2>1, <2>2, Zenon DEF Decode
  <2>4. HeaderReads(frame, TypeByte[other], o)
    BY <2>3, HeaderBytes, Zenon
  <2>5. PICK f \in Seq(Byte) :
          /\ f = Encoded /\ Len(f) = n + 7 /\ HasHead(f, kind)
          /\ ValidateFrameHeader(f, TypeByte[kind], n)
    <3>1. PICK value : value = packet.value /\ ValueOK(kind, value)
      BY <1>1, <2>1, SentPacketOK DEF CodecIInv
    <3>2. << >> \in Seq(Byte)
      OBVIOUS
    <3>3. /\ Encode(kind, value) \in Seq(Byte)
          /\ Len(Encode(kind, value)) = kFrameOverhead + PayloadSize[kind]
          /\ HasHead(Encode(kind, value), kind)
          /\ ValidateFrameHeader(Encode(kind, value), TypeByte[kind], PayloadSize[kind])
      BY <3>1, <3>2, EncodedPacket, Zenon
    <3>4. Encoded = Encode(kind, value)
      BY <2>1, <3>1, Zenon DEF Encoded
    <3>5. kFrameOverhead + n = n + 7
      BY DEF kFrameOverhead
    <3> QED BY <2>2, <3>3, <3>4, <3>5, Zenon
  <2>6. CASE hurt = "short"
    <3>1. PICK k \in 1..(Len(f) - 1) : frame = SubSeq(f, 1, k)
      BY <1>1, <2>5, <2>6 DEF CodecIInv, FrameIsHurtSo, IsHurtSo
    <3>2. k \in 1..(n + 6)
      BY <2>5, <3>1
    <3>3. /\ Len(SubSeq(f, 1, k)) = k
          /\ \A j \in 1..k : SubSeq(f, 1, k)[j] = f[1 + j - 1]
      <4>1. k \in 0..Len(f) /\ k \in Nat
        BY <2>5, <3>2
      <4> QED BY <4>1, SubSeqProperties
    <3>4. k >= o + 7
      BY <2>4, <3>1, <3>3 DEF HeaderReads
    <3>5. frame[4] = f[4]
      BY <3>1, <3>2, <3>3, <3>4
    <3>6. o = n
      BY <2>2, <2>4, <2>5, <3>5 DEF HeaderReads, HasHead
    <3> QED BY <3>2, <3>4, <3>6
  <2>7. CASE hurt = "bytes"
    <3>1. PICK i \in 1..Len(f), d \in 1..255, e \in 0..255 :
            (e = 0 \/ i < Len(f)) /\ frame = Damaged(f, i, d, e)
      <4>1. IsHurtSo(frame, hurt, f)
        BY <1>1, <2>5 DEF CodecIInv, FrameIsHurtSo
      <4> QED BY <2>7, <4>1, Zenon DEF IsHurtSo
    <3>2. CASE other = kind
      <4>1. ~ValidateFrameHeader(Damaged(f, i, d, e), TypeByte[kind], n)
        <5>1. Len(f) = n + 7 /\ ValidateFrameHeader(f, TypeByte[kind], n)
          BY <2>5
        <5> QED BY <3>1, <5>1, DamageIsSeen
      <4> QED BY <2>2, <2>3, <3>1, <3>2, <4>1
    <3>3. CASE other # kind
      <4>1. Len(frame) = n + 7
        <5>1. ChangedAt(Damaged(f, i, d, e), f, i, e)
          BY <3>1, DamagedBytes
        <5> QED BY <2>5, <3>1, <5>1, Zenon DEF ChangedAt
      <4>2. o <= n
        BY <2>4, <4>1 DEF HeaderReads
      <4>3. kind = "Tele" /\ other = "Cmd"
        <5>1. (kind = "Cmd" /\ other = "Tele") \/ (kind = "Tele" /\ other = "Cmd")
          BY <3>3 DEF Kinds
        <5>2. kind = "Cmd" /\ other = "Tele" => n = 52 /\ o = 128
          BY <2>2 DEF PayloadSize, kCmdPayloadSize, kTelePayloadSize
        <5> QED BY <4>2, <5>1, <5>2
      <4>4. o = kCmdPayloadSize /\ TypeByte[other] = kTypeCmd
        BY <2>2, <4>3 DEF PayloadSize, TypeByte
      <4>5. frame[4] = kCmdPayloadSize /\ frame[5] = kTypeCmd
        BY <2>4, <4>4, Zenon DEF HeaderReads
      <4> QED BY <2>1, <2>7, <4>3, <4>5 DEF TakenForCmd
    <3> QED BY <3>2, <3>3
  <2> QED BY <2>6, <2>7
<1> QED BY <1>1, CodecInductive, PTL

=============================================================================
