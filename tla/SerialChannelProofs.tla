------------------------ MODULE SerialChannelProofs -------------------------
(***************************************************************************)
(* Theorems about SerialChannel, for any number of channels, devices,      *)
(* rates and descriptors, and about SerialSend, for any frames, cut short  *)
(* anywhere and any number of times, and every checksum function.  The     *)
(* bounds of the runs do not matter.                                       *)
(***************************************************************************)
EXTENDS SerialChannel, SerialSend, ProtocolProofs, TLAPS

(* Channels that have made the settings of their device. *)
IsSetUp(c) == open[c] \/ step[c] = "tcflush"

(* A channel is not open while it is being opened; before it is open it has
   handed out nothing; and one that made its settings knows which. *)
StepsAreOrdered ==
  \A c \in Channels :
    /\ step[c] # "idle" => ~open[c]
    /\ ~open[c] => handed[c] = << >>
    /\ IsSetUp(c) => mine[c] > 0

(* While the device of a channel that made its settings is there, they are the
   last ones or there were later ones; and what waits in the tty of an open
   channel came after them. *)
SettingsAreRecent ==
  \A c \in Channels : IsSetUp(c) =>
    \A d \in Devices : DeviceOf(c) = d =>
      /\ settings[d] >= mine[c]
      /\ open[c] => \A i \in 1..Len(rx[d]) : rx[d][i] >= mine[c]

IInv ==
  /\ TypeOK
  /\ DescriptorsAreOwned
  /\ ReadsWhatItSetUp
  /\ StepsAreOrdered
  /\ SettingsAreRecent

-----------------------------------------------------------------------------
THEOREM InitIInv == Init => IInv
<1> SUFFICES ASSUME Init PROVE IInv
  OBVIOUS
<1> USE SerialAssumption DEF Init
<1>1. DOMAIN file = {}
  OBVIOUS
<1>2. TypeOK
  BY <1>1 DEF TypeOK, OpKinds
<1>3. DescriptorsAreOwned
  BY <1>1 DEF DescriptorsAreOwned
<1>4. ReadsWhatItSetUp /\ StepsAreOrdered /\ SettingsAreRecent
  BY DEF ReadsWhatItSetUp, StepsAreOrdered, SettingsAreRecent, IsSetUp
<1> QED BY <1>2, <1>3, <1>4 DEF IInv

LEMMA WiderSeq ==
  ASSUME NEW A, NEW B, A \subseteq B
  PROVE  Seq(A) \subseteq Seq(B)
OBVIOUS

LEMMA WiderRange ==
  ASSUME NEW D, NEW A, NEW B, A \subseteq B, NEW f \in [D -> A]
  PROVE  f \in [D -> B]
OBVIOUS

(* Counting an operation keeps its bound. *)
LEMMA OpTyped ==
  ASSUME NEW kind \in OpKinds, TypeOK, Op(kind)
  PROVE  ops' \in [OpKinds -> Nat] /\ \A k \in OpKinds : ops'[k] <= MaxOps[k]
<1>1. ops \in [OpKinds -> Nat] /\ MaxOps \in [OpKinds -> Nat]
  BY SerialAssumption DEF TypeOK
<1>2. ops[kind] + 1 \in Nat /\ ops[kind] + 1 <= MaxOps[kind]
  BY <1>1 DEF Op
<1>3. ops' = [ops EXCEPT ![kind] = ops[kind] + 1]
  BY DEF Op
<1>4. ops' \in [OpKinds -> Nat]
  BY <1>1, <1>2, <1>3
<1>5. \A k \in OpKinds : ops'[k] <= MaxOps[k]
  BY <1>1, <1>2, <1>3 DEF TypeOK
<1> QED BY <1>4, <1>5

(* An operation that is given up for want of something, or that finds the
   channel open. *)
LEMMA OpenAtOnceKeepsIInv ==
  ASSUME IInv, NEW c \in Channels, Op("open"), OpenAgain(c) \/ OpenRefused(c)
  PROVE  IInv'
<1> USE DEF OpenAgain, OpenRefused, implVars, kernelVars, histVars
<1>1. ops' \in [OpKinds -> Nat] /\ \A k \in OpKinds : ops'[k] <= MaxOps[k]
  BY OpTyped DEF IInv, OpKinds
<1>2. TypeOK'
  BY <1>1 DEF IInv, TypeOK
<1>3. DescriptorsAreOwned'
  BY DEF IInv, DescriptorsAreOwned
<1>4. ReadsWhatItSetUp' /\ StepsAreOrdered' /\ SettingsAreRecent'
  BY DEF IInv, ReadsWhatItSetUp, StepsAreOrdered, SettingsAreRecent, IsSetUp, DeviceOf
<1> QED BY <1>2, <1>3, <1>4 DEF IInv

(* The new descriptor is nobody's: every one that is open is some channel's. *)
LEMMA OpenDeviceKeepsIInv ==
  ASSUME IInv, NEW c \in Channels, NEW req \in Request,
         Op("open"), step[c] = "idle", OpenDevice(c, req)
  PROVE  IInv'
<1> USE SerialAssumption
<1>1. PICK f \in FreeFds :
        /\ fd' = [fd EXCEPT ![c] = f]
        /\ file' = [g \in DOMAIN file \union {f} |-> IF g = f THEN req[1] ELSE file[g]]
  BY DEF OpenDevice
<1>2. /\ step' = [step EXCEPT ![c] = "fcntl"]
      /\ ~open[c] /\ fd[c] = None
      /\ UNCHANGED << open, present, settings, rx, setups, mine, handed >>
  BY DEF OpenDevice, IInv, DescriptorsAreOwned, histVars
<1>3. /\ DOMAIN file' = DOMAIN file \union {f}
      /\ f \in 1..MaxFds /\ f \notin DOMAIN file /\ f # None
  BY <1>1 DEF FreeFds
<1>4. ops' \in [OpKinds -> Nat] /\ \A k \in OpKinds : ops'[k] <= MaxOps[k]
  BY OpTyped DEF IInv, OpKinds
<1>5. TypeOK'
  <2>1. fd' \in [Channels -> DOMAIN file' \union {None}]
    BY <1>1, <1>3 DEF IInv, TypeOK
  <2>2. req[1] \in Devices
    BY DEF Request
  <2>3. \A g \in DOMAIN file' : file'[g] \in Devices \union {None}
    BY <1>1, <1>3, <2>2 DEF IInv, TypeOK
  <2>4. DOMAIN file' \subseteq 1..MaxFds
    BY <1>3 DEF IInv, TypeOK
  <2> QED BY <1>2, <1>4, <2>1, <2>3, <2>4 DEF IInv, TypeOK
<1>6. DescriptorsAreOwned'
  <2>1. \A e \in Channels : fd'[e] = IF e = c THEN f ELSE fd[e]
    BY <1>1 DEF IInv, TypeOK
  <2>2. \A e \in Channels : step'[e] = IF e = c THEN "fcntl" ELSE step[e]
    BY <1>2 DEF IInv, TypeOK
  <2>3. DOMAIN file' = { fd'[d] : d \in { e \in Channels : fd'[e] # None } }
    BY <1>2, <1>3, <2>1 DEF IInv, DescriptorsAreOwned
  <2>4. \A d, e \in Channels : d # e /\ fd'[d] # None => fd'[d] # fd'[e]
    BY <1>3, <2>1 DEF IInv, DescriptorsAreOwned
  <2>5. \A e \in Channels : fd'[e] # None <=> open'[e] \/ step'[e] # "idle"
    BY <1>2, <1>3, <2>1, <2>2 DEF IInv, DescriptorsAreOwned
  <2> QED BY <2>3, <2>4, <2>5 DEF DescriptorsAreOwned
<1>7. ReadsWhatItSetUp' /\ StepsAreOrdered'
  BY <1>2 DEF IInv, ReadsWhatItSetUp, StepsAreOrdered, IsSetUp, TypeOK
<1>8. SettingsAreRecent'
  <2>1. \A e \in Channels : IsSetUp(e)' => e # c /\ IsSetUp(e)
    BY <1>2 DEF IInv, TypeOK, IsSetUp
  <2>2. \A e \in Channels : IsSetUp(e)' => fd[e] # None /\ fd[e] \in DOMAIN file
    BY <2>1 DEF IInv, TypeOK, DescriptorsAreOwned, IsSetUp
  <2>3. \A e \in Channels : IsSetUp(e)' => DeviceOf(e)' = DeviceOf(e)
    BY <1>1, <1>3, <2>1, <2>2 DEF DeviceOf, IInv, TypeOK
  <2> QED BY <1>2, <2>1, <2>3 DEF IInv, SettingsAreRecent
<1> QED BY <1>5, <1>6, <1>7, <1>8 DEF IInv

(* Closing the descriptor of a channel that is then neither open nor being
   opened, by open or by the destructor. *)
LEMMA ClosingKeepsIInv ==
  ASSUME IInv, NEW c \in Channels, fd[c] # None, Close(fd[c]),
         fd' = [fd EXCEPT ![c] = None],
         \A e \in Channels : open'[e] <=> e # c /\ open[e],
         \A e \in Channels : step'[e] = IF e = c THEN "idle" ELSE step[e],
         \A e \in Channels : e # c => mine'[e] = mine[e] /\ handed'[e] = handed[e],
         handed'[c] = << >>,
         UNCHANGED << settings, rx >>,
         TypeOK'
  PROVE  IInv'
<1>1. \A e \in Channels : fd'[e] = IF e = c THEN None ELSE fd[e]
  BY DEF IInv, TypeOK
<1>2. DOMAIN file' = DOMAIN file \ {fd[c]}
  BY DEF Close
<1>3. DescriptorsAreOwned'
  <2>1. DOMAIN file' = { fd'[d] : d \in { e \in Channels : fd'[e] # None } }
    BY <1>1, <1>2 DEF IInv, DescriptorsAreOwned
  <2>2. \A d, e \in Channels : d # e /\ fd'[d] # None => fd'[d] # fd'[e]
    BY <1>1 DEF IInv, DescriptorsAreOwned
  <2>3. \A e \in Channels : fd'[e] # None <=> open'[e] \/ step'[e] # "idle"
    BY <1>1 DEF IInv, DescriptorsAreOwned
  <2> QED BY <2>1, <2>2, <2>3 DEF DescriptorsAreOwned
<1>4. ReadsWhatItSetUp' /\ StepsAreOrdered'
  BY DEF IInv, ReadsWhatItSetUp, StepsAreOrdered, IsSetUp
<1>5. SettingsAreRecent'
  <2>1. \A e \in Channels : IsSetUp(e)' => e # c /\ IsSetUp(e)
    BY DEF IsSetUp
  <2>2. \A e \in Channels : IsSetUp(e)' => fd[e] \in DOMAIN file /\ fd[e] # fd[c]
    BY <2>1 DEF IInv, TypeOK, DescriptorsAreOwned, IsSetUp
  <2>3. \A e \in Channels : IsSetUp(e)' => DeviceOf(e)' = DeviceOf(e)
    BY <1>1, <1>2, <2>1, <2>2 DEF DeviceOf, Close
  <2> QED BY <2>1, <2>3 DEF IInv, SettingsAreRecent
<1> QED BY <1>3, <1>4, <1>5 DEF IInv

(* open fails half-way. *)
LEMMA GiveUpKeepsIInv ==
  ASSUME IInv, NEW c \in Channels, step[c] # "idle", GiveUp(c)
  PROVE  IInv'
<1>1. fd[c] # None /\ ~open[c] /\ handed[c] = << >>
  BY DEF IInv, DescriptorsAreOwned, StepsAreOrdered
<1>2. DOMAIN file' = DOMAIN file \ {fd[c]} /\ \A g \in DOMAIN file' : file'[g] = file[g]
  BY DEF GiveUp, Close
<1>3. fd' \in [Channels -> DOMAIN file' \union {None}]
  BY <1>1, <1>2 DEF GiveUp, IInv, TypeOK, DescriptorsAreOwned
<1>4. TypeOK'
  BY <1>2, <1>3 DEF GiveUp, IInv, TypeOK, histVars
<1>5. /\ \A e \in Channels : open'[e] <=> e # c /\ open[e]
      /\ \A e \in Channels : step'[e] = IF e = c THEN "idle" ELSE step[e]
      /\ \A e \in Channels : e # c => mine'[e] = mine[e] /\ handed'[e] = handed[e]
      /\ handed'[c] = << >>
  BY <1>1 DEF GiveUp, IInv, TypeOK, histVars
<1> QED BY <1>1, <1>4, <1>5, ClosingKeepsIInv DEF GiveUp

LEMMA DestroyKeepsIInv ==
  ASSUME IInv, NEW c \in Channels, Destroy(c)
  PROVE  IInv'
<1>1. DOMAIN file' = DOMAIN file \ {fd[c]} /\ \A g \in DOMAIN file' : file'[g] = file[g]
  BY DEF Destroy, Close
<1>2. fd' \in [Channels -> DOMAIN file' \union {None}]
  BY <1>1 DEF Destroy, IInv, TypeOK, DescriptorsAreOwned
<1>3. ops' \in [OpKinds -> Nat] /\ \A k \in OpKinds : ops'[k] <= MaxOps[k]
  BY OpTyped DEF Destroy, IInv, OpKinds
<1>4. /\ mine' \in [Channels -> 0..setups'] /\ handed' \in [Channels -> Seq(0..setups')]
  BY DEF Destroy, IInv, TypeOK
<1>5. TypeOK'
  BY <1>1, <1>2, <1>3, <1>4 DEF Destroy, IInv, TypeOK
<1>6. /\ \A e \in Channels : open'[e] <=> e # c /\ open[e]
      /\ \A e \in Channels : step'[e] = IF e = c THEN "idle" ELSE step[e]
      /\ \A e \in Channels : e # c => mine'[e] = mine[e] /\ handed'[e] = handed[e]
      /\ handed'[c] = << >>
  BY DEF Destroy, IInv, TypeOK
<1> QED BY <1>5, <1>6, ClosingKeepsIInv DEF Destroy

(* The calls that only look, or change nothing that matters here. *)
LEMMA TcGetAttrKeepsIInv ==
  ASSUME IInv, NEW c \in Channels, Fcntl(c) \/ TcGetAttr(c)
  PROVE  IInv'
<1> USE DEF Fcntl, TcGetAttr, kernelVars, histVars
<1>1. PICK next \in {"tcgetattr", "tcsetattr"} :
        \A e \in Channels : step'[e] = IF e = c THEN next ELSE step[e]
  BY DEF IInv, TypeOK
<1>2. TypeOK'
  BY DEF IInv, TypeOK
<1>3. DescriptorsAreOwned' /\ ReadsWhatItSetUp'
  <2>1. step[c] # "idle" /\ UNCHANGED << fd, open, file, mine, handed >>
    OBVIOUS
  <2>2. \A e \in Channels : step'[e] # "idle" <=> step[e] # "idle"
    BY <1>1, <2>1
  <2>3. DescriptorsAreOwned'
    BY <2>1, <2>2 DEF IInv, DescriptorsAreOwned
  <2> QED BY <2>1, <2>3 DEF IInv, ReadsWhatItSetUp
<1>4. StepsAreOrdered'
  BY <1>1 DEF IInv, StepsAreOrdered, IsSetUp
<1>5. SettingsAreRecent'
  BY <1>1 DEF IInv, SettingsAreRecent, IsSetUp, DeviceOf
<1> QED BY <1>2, <1>3, <1>4, <1>5 DEF IInv

(* The new settings are later than those of every other channel. *)
LEMMA TcSetAttrKeepsIInv ==
  ASSUME IInv, NEW c \in Channels, TcSetAttr(c)
  PROVE  IInv'
<1> USE SerialAssumption
<1>1. /\ setups' = setups + 1 /\ setups \in Nat
      /\ \A d \in Devices : settings'[d] = IF d = DeviceOf(c) THEN setups + 1 ELSE settings[d]
      /\ \A e \in Channels : mine'[e] = IF e = c THEN setups + 1 ELSE mine[e]
      /\ \A e \in Channels : step'[e] = IF e = c THEN "tcflush" ELSE step[e]
      /\ step[c] = "tcsetattr" /\ ~open[c]
      /\ UNCHANGED << fd, open, present, rx, file, handed, ops >>
  BY DEF TcSetAttr, IInv, TypeOK, StepsAreOrdered
<1>2. \A d \in Devices, e \in Channels : settings[d] \in 0..setups /\ mine[e] \in 0..setups
  BY DEF IInv, TypeOK
<1>3. TypeOK'
  <2>1. settings' \in [Devices -> 0..setups'] /\ mine' \in [Channels -> 0..setups']
    BY <1>1 DEF TcSetAttr, IInv, TypeOK
  <2>2. 0..setups \subseteq 0..setups'
    BY <1>1
  <2>3. rx' \in [Devices -> Seq(0..setups')] /\ handed' \in [Channels -> Seq(0..setups')]
    <3>1. Seq(0..setups) \subseteq Seq(0..setups')
      BY <2>2, WiderSeq, Zenon
    <3>2. rx \in [Devices -> Seq(0..setups)] /\ handed \in [Channels -> Seq(0..setups)]
      BY DEF IInv, TypeOK
    <3>3. rx \in [Devices -> Seq(0..setups')] /\ handed \in [Channels -> Seq(0..setups')]
      BY <3>1, <3>2, WiderRange, Zenon
    <3> QED BY <1>1, <3>3, Zenon
  <2>4. step' \in [Channels -> {"idle", "fcntl", "tcgetattr", "tcsetattr", "tcflush"}] /\ setups' \in Nat
    BY <1>1 DEF TcSetAttr, IInv, TypeOK
  <2> QED BY <1>1, <2>1, <2>3, <2>4 DEF IInv, TypeOK
<1>4. DescriptorsAreOwned'
  BY <1>1 DEF IInv, DescriptorsAreOwned
<1>5. ReadsWhatItSetUp'
  BY <1>1 DEF IInv, ReadsWhatItSetUp, StepsAreOrdered
<1>6. StepsAreOrdered'
  BY <1>1 DEF IInv, StepsAreOrdered, IsSetUp
<1>7. SettingsAreRecent'
  <2> SUFFICES ASSUME NEW e \in Channels, IsSetUp(e)', NEW d \in Devices, DeviceOf(e) = d
               PROVE  /\ settings'[d] >= mine'[e]
                      /\ open'[e] => \A i \in 1..Len(rx'[d]) : rx'[d][i] >= mine'[e]
    BY <1>1 DEF SettingsAreRecent, DeviceOf
  <2>1. CASE e = c
    BY <1>1, <2>1
  <2>2. CASE e # c
    <3>1. IsSetUp(e)
      BY <1>1, <2>2 DEF IsSetUp
    <3>2. /\ settings[d] >= mine[e]
          /\ open[e] => \A i \in 1..Len(rx[d]) : rx[d][i] >= mine[e]
      BY <3>1 DEF IInv, SettingsAreRecent
    <3> QED BY <1>1, <1>2, <2>2, <3>2
  <2> QED BY <2>1, <2>2
<1> QED BY <1>3, <1>4, <1>5, <1>6, <1>7 DEF IInv

(* What came before is thrown away as the channel opens. *)
LEMMA TcFlushKeepsIInv ==
  ASSUME IInv, NEW c \in Channels, TcFlush(c)
  PROVE  IInv'
<1>1. /\ \A d \in Devices : rx'[d] = IF d = DeviceOf(c) THEN << >> ELSE rx[d]
      /\ \A e \in Channels : open'[e] <=> e = c \/ open[e]
      /\ \A e \in Channels : step'[e] = IF e = c THEN "idle" ELSE step[e]
      /\ step[c] = "tcflush"
      /\ UNCHANGED << fd, present, settings, file, setups, mine, handed, ops >>
  BY DEF TcFlush, IInv, TypeOK, histVars
<1>2. TypeOK'
  <2>1. rx' \in [Devices -> Seq(0..setups')]
    <3>1. << >> \in Seq(0..setups)
      BY EmptySeq
    <3>2. rx \in [Devices -> Seq(0..setups)] /\ setups' = setups
      BY <1>1 DEF IInv, TypeOK, TcFlush
    <3> QED BY <3>1, <3>2, Zenon DEF TcFlush
  <2> QED BY <2>1 DEF TcFlush, IInv, TypeOK, histVars
<1>3. DescriptorsAreOwned'
  BY <1>1 DEF IInv, DescriptorsAreOwned
<1>4. ReadsWhatItSetUp' /\ StepsAreOrdered'
  BY <1>1 DEF IInv, ReadsWhatItSetUp, StepsAreOrdered, IsSetUp
<1>5. SettingsAreRecent'
  <2> SUFFICES ASSUME NEW e \in Channels, IsSetUp(e)', NEW d \in Devices, DeviceOf(e) = d
               PROVE  /\ settings[d] >= mine[e]
                      /\ open'[e] => \A i \in 1..Len(rx'[d]) : rx'[d][i] >= mine[e]
    BY <1>1 DEF SettingsAreRecent, DeviceOf
  <2>1. IsSetUp(e)
    BY <1>1 DEF IsSetUp
  <2>2. /\ settings[d] >= mine[e]
        /\ open[e] => \A i \in 1..Len(rx[d]) : rx[d][i] >= mine[e]
    BY <2>1 DEF IInv, SettingsAreRecent
  <2>3. CASE d = DeviceOf(c)
    BY <1>1, <2>2, <2>3
  <2>4. CASE d # DeviceOf(c)
    BY <1>1, <2>2, <2>4
  <2> QED BY <2>3, <2>4
<1> QED BY <1>2, <1>3, <1>4, <1>5 DEF IInv

(* What recv_bytes returns is the front of what the tty holds. *)
LEMMA ReceiveKeepsIInv ==
  ASSUME IInv, NEW c \in Channels, Receive(c)
  PROVE  IInv'
<1> USE SerialAssumption
<1> DEFINE d == DeviceOf(c)
           n == IF Len(rx[d]) < ReadSize THEN Len(rx[d]) ELSE ReadSize
<1>1. /\ open[c] /\ d \in Devices
      /\ handed' = [handed EXCEPT ![c] = SubSeq(rx[d], 1, n)]
      /\ rx' = [rx EXCEPT ![d] = SubSeq(rx[d], n + 1, Len(rx[d]))]
  BY DEF Receive
<1>2. UNCHANGED << implVars, present, settings, file, setups, mine, ops >>
  BY DEF Receive
<1>3. /\ rx[d] \in Seq(0..setups) /\ Len(rx[d]) \in Nat
      /\ n \in 0..Len(rx[d])
      /\ \A i \in 1..Len(rx[d]) : rx[d][i] \in 0..setups
  BY <1>1 DEF IInv, TypeOK
<1> HIDE DEF n
<1>4. PICK front \in Seq(0..setups) :
        /\ handed' = [handed EXCEPT ![c] = front]
        /\ Len(front) = n
        /\ \A i \in 1..n : front[i] = rx[d][i]
  <2>1. /\ SubSeq(rx[d], 1, n) \in Seq(0..setups)
        /\ Len(SubSeq(rx[d], 1, n)) = n
        /\ \A i \in 1..n : SubSeq(rx[d], 1, n)[i] = rx[d][i]
    <3>1. \A i \in 1..n : rx[d][i] \in 0..setups
      BY <1>3
    <3> QED BY <1>3, <3>1, SubSeqProperties
  <2> QED BY <1>1, <2>1, Zenon
<1>5. PICK back \in Seq(0..setups) :
        /\ rx' = [rx EXCEPT ![d] = back]
        /\ Len(back) = Len(rx[d]) - n
        /\ \A i \in 1..(Len(rx[d]) - n) : back[i] = rx[d][n + i]
  <2>1. /\ SubSeq(rx[d], n + 1, Len(rx[d])) \in Seq(0..setups)
        /\ Len(SubSeq(rx[d], n + 1, Len(rx[d]))) = Len(rx[d]) - n
        /\ \A i \in 1..(Len(rx[d]) - n) :
             SubSeq(rx[d], n + 1, Len(rx[d]))[i] = rx[d][n + i]
    <3>1. \A i \in (n + 1)..Len(rx[d]) : rx[d][i] \in 0..setups
      BY <1>3
    <3> QED BY <1>3, <3>1, SubSeqProperties
  <2> QED BY <1>1, <2>1, Zenon
<1>6. TypeOK'
  <2>1. /\ rx \in [Devices -> Seq(0..setups)] /\ handed \in [Channels -> Seq(0..setups)]
        /\ setups' = setups
    BY <1>2 DEF IInv, TypeOK
  <2>2. rx' \in [Devices -> Seq(0..setups')] /\ handed' \in [Channels -> Seq(0..setups')]
    BY <1>4, <1>5, <2>1, Zenon
  <2> QED BY <1>2, <2>2 DEF IInv, TypeOK, implVars
<1>7. DescriptorsAreOwned'
  BY <1>2 DEF IInv, DescriptorsAreOwned, implVars
<1>8. /\ mine[c] > 0
      /\ \A i \in 1..Len(rx[d]) : rx[d][i] >= mine[c]
  BY <1>1, <1>2 DEF IInv, StepsAreOrdered, SettingsAreRecent, IsSetUp
<1>9. \A e \in Channels : handed'[e] = IF e = c THEN front ELSE handed[e]
  BY <1>4 DEF IInv, TypeOK
<1>10. ReadsWhatItSetUp'
  <2> SUFFICES ASSUME NEW e \in Channels, NEW i \in 1..Len(handed'[e])
               PROVE  mine[e] > 0 /\ handed'[e][i] >= mine[e]
    BY <1>2 DEF ReadsWhatItSetUp
  <2>1. CASE e = c
    <3>1. i \in 1..n /\ i \in 1..Len(rx[d])
      BY <1>3, <1>4, <1>9, <2>1
    <3> QED BY <1>4, <1>8, <1>9, <2>1, <3>1
  <2>2. CASE e # c
    BY <1>9, <2>2 DEF IInv, ReadsWhatItSetUp
  <2> QED BY <2>1, <2>2
<1>11. StepsAreOrdered'
  BY <1>1, <1>2, <1>9 DEF IInv, StepsAreOrdered, IsSetUp, implVars
<1>12. SettingsAreRecent'
  <2> SUFFICES ASSUME NEW e \in Channels, IsSetUp(e), NEW b \in Devices, DeviceOf(e) = b
               PROVE  /\ settings[b] >= mine[e]
                      /\ open[e] => \A i \in 1..Len(rx'[b]) : rx'[b][i] >= mine[e]
    BY <1>2 DEF SettingsAreRecent, DeviceOf, IsSetUp, implVars
  <2>1. /\ settings[b] >= mine[e]
        /\ open[e] => \A i \in 1..Len(rx[b]) : rx[b][i] >= mine[e]
    BY DEF IInv, SettingsAreRecent
  <2>2. CASE b = d
    <3>1. rx'[b] = back
      BY <1>5, <2>2 DEF IInv, TypeOK
    <3>2. \A i \in 1..Len(rx'[b]) : n + i \in 1..Len(rx[b]) /\ rx'[b][i] = rx[b][n + i]
      BY <1>3, <1>5, <2>2, <3>1
    <3> QED BY <2>1, <3>2
  <2>3. CASE b # d
    BY <1>5, <2>1, <2>3 DEF IInv, TypeOK
  <2> QED BY <2>2, <2>3
<1> QED BY <1>6, <1>7, <1>10, <1>11, <1>12 DEF IInv

(* A byte that comes in is stamped with settings that are recent. *)
LEMMA ArriveKeepsIInv ==
  ASSUME IInv, NEW d \in Devices, Arrive(d)
  PROVE  IInv'
<1>1. /\ rx[d] \in Seq(0..setups) /\ settings[d] \in 0..setups
      /\ UNCHANGED << implVars, present, settings, file, setups, histVars, ops >>
  BY DEF Arrive, IInv, TypeOK
<1>2. \A b \in Devices : rx'[b] = IF b = d THEN Append(rx[d], settings[d]) ELSE rx[b]
  BY DEF Arrive, IInv, TypeOK
<1>3. TypeOK'
  <2>1. Append(rx[d], settings[d]) \in Seq(0..setups)
    BY <1>1
  <2>2. rx' \in [Devices -> Seq(0..setups')]
    BY <1>1, <2>1 DEF Arrive, IInv, TypeOK
  <2> QED BY <1>1, <2>2 DEF IInv, TypeOK, implVars, histVars
<1>4. DescriptorsAreOwned' /\ ReadsWhatItSetUp' /\ StepsAreOrdered'
  BY <1>1 DEF IInv, DescriptorsAreOwned, ReadsWhatItSetUp, StepsAreOrdered, IsSetUp,
     implVars, histVars
<1>5. SettingsAreRecent'
  <2> SUFFICES ASSUME NEW e \in Channels, IsSetUp(e), NEW b \in Devices, DeviceOf(e) = b
               PROVE  /\ settings[b] >= mine[e]
                      /\ open[e] => \A i \in 1..Len(rx'[b]) : rx'[b][i] >= mine[e]
    BY <1>1 DEF SettingsAreRecent, DeviceOf, IsSetUp, implVars, histVars
  <2>1. /\ settings[b] >= mine[e]
        /\ open[e] => \A i \in 1..Len(rx[b]) : rx[b][i] >= mine[e]
    BY DEF IInv, SettingsAreRecent
  <2>2. CASE b = d
    <3>1. \A i \in 1..Len(rx'[b]) :
            \/ i \in 1..Len(rx[b]) /\ rx'[b][i] = rx[b][i]
            \/ rx'[b][i] = settings[b]
      <4>1. rx'[b] = Append(rx[b], settings[b])
        BY <1>2, <2>2
      <4>2. rx[b] \in Seq(0..setups) /\ settings[b] \in 0..setups
        BY <1>1, <2>2
      <4> QED BY <4>1, <4>2, AppendProperties
    <3> QED BY <2>1, <3>1
  <2>3. CASE b # d
    BY <1>2, <2>1, <2>3
  <2> QED BY <2>2, <2>3
<1> QED BY <1>3, <1>4, <1>5 DEF IInv

(* A channel on a device that goes away keeps its descriptor, but that is no
   longer the device's. *)
LEMMA UnplugKeepsIInv ==
  ASSUME IInv, NEW d \in Devices, Unplug(d)
  PROVE  IInv'
<1> USE SerialAssumption
<1>1. /\ DOMAIN file' = DOMAIN file
      /\ \A f \in DOMAIN file : file'[f] = IF file[f] = d THEN None ELSE file[f]
      /\ \A b \in Devices : settings'[b] = IF b = d THEN 0 ELSE settings[b]
      /\ \A b \in Devices : rx'[b] = IF b = d THEN << >> ELSE rx[b]
      /\ UNCHANGED << implVars, setups, histVars >>
  BY DEF Unplug, IInv, TypeOK
<1>2. TypeOK'
  <2>1. ops' \in [OpKinds -> Nat] /\ \A k \in OpKinds : ops'[k] <= MaxOps[k]
    BY OpTyped DEF Unplug, IInv, OpKinds
  <2>2. present' \subseteq Devices
    BY DEF Unplug, IInv, TypeOK
  <2>3. settings' \in [Devices -> 0..setups'] /\ rx' \in [Devices -> Seq(0..setups')]
    BY <1>1 DEF Unplug, IInv, TypeOK
  <2>4. \A f \in DOMAIN file' : file'[f] \in Devices \union {None}
    BY <1>1 DEF IInv, TypeOK
  <2> QED BY <1>1, <2>1, <2>2, <2>3, <2>4 DEF IInv, TypeOK, implVars, histVars
<1>3. DescriptorsAreOwned' /\ ReadsWhatItSetUp' /\ StepsAreOrdered'
  BY <1>1 DEF IInv, DescriptorsAreOwned, ReadsWhatItSetUp, StepsAreOrdered, IsSetUp,
     implVars, histVars
<1>4. SettingsAreRecent'
  <2> SUFFICES ASSUME NEW e \in Channels, IsSetUp(e), NEW b \in Devices, DeviceOf(e)' = b
               PROVE  /\ settings'[b] >= mine[e]
                      /\ open[e] => \A i \in 1..Len(rx'[b]) : rx'[b][i] >= mine[e]
    BY <1>1 DEF SettingsAreRecent, IsSetUp, implVars, histVars
  <2>1. fd[e] \in DOMAIN file
    BY DEF IInv, TypeOK, DescriptorsAreOwned, IsSetUp
  <2>2. b # None
    OBVIOUS
  <2>3. b # d /\ DeviceOf(e) = b
    BY <1>1, <2>1, <2>2 DEF DeviceOf, implVars
  <2>4. /\ settings[b] >= mine[e]
        /\ open[e] => \A i \in 1..Len(rx[b]) : rx[b][i] >= mine[e]
    BY <2>3 DEF IInv, SettingsAreRecent
  <2> QED BY <1>1, <2>3, <2>4
<1> QED BY <1>2, <1>3, <1>4 DEF IInv

-----------------------------------------------------------------------------
THEOREM NextIInv == IInv /\ [Next]_vars => IInv'
<1> SUFFICES ASSUME IInv, [Next]_vars PROVE IInv'
  OBVIOUS
<1>1. ASSUME NEW c \in Channels, NEW req \in Request, Open(c, req)
      PROVE  IInv'
  BY <1>1, OpenAtOnceKeepsIInv, OpenDeviceKeepsIInv DEF Open
<1>2. ASSUME NEW c \in Channels, TcGetAttrFails(c) \/ TcSetAttrFails(c)
      PROVE  IInv'
  BY <1>2, GiveUpKeepsIInv DEF TcGetAttrFails, TcSetAttrFails
<1>3. ASSUME NEW c \in Channels, Fcntl(c) \/ TcGetAttr(c) \/ TcSetAttr(c) \/ TcFlush(c)
      PROVE  IInv'
  BY <1>3, TcGetAttrKeepsIInv, TcSetAttrKeepsIInv, TcFlushKeepsIInv
<1>4. ASSUME NEW c \in Channels, Destroy(c) \/ Receive(c)
      PROVE  IInv'
  BY <1>4, DestroyKeepsIInv, ReceiveKeepsIInv
<1>5. ASSUME NEW d \in Devices, Arrive(d) \/ Unplug(d)
      PROVE  IInv'
  BY <1>5, ArriveKeepsIInv, UnplugKeepsIInv
<1>6. ASSUME NEW d \in Devices, Plug(d)
      PROVE  IInv'
  <2> USE <1>6 DEF Plug, implVars, histVars
  <2>1. TypeOK'
    BY DEF IInv, TypeOK
  <2>2. DescriptorsAreOwned' /\ ReadsWhatItSetUp' /\ StepsAreOrdered' /\ SettingsAreRecent'
    BY DEF IInv, DescriptorsAreOwned, ReadsWhatItSetUp, StepsAreOrdered,
       SettingsAreRecent, IsSetUp, DeviceOf
  <2> QED BY <2>1, <2>2 DEF IInv
<1>7. CASE UNCHANGED vars
  <2> USE <1>7 DEF vars, implVars, kernelVars, histVars
  <2>1. TypeOK'
    BY DEF IInv, TypeOK
  <2>2. DescriptorsAreOwned' /\ ReadsWhatItSetUp' /\ StepsAreOrdered' /\ SettingsAreRecent'
    BY DEF IInv, DescriptorsAreOwned, ReadsWhatItSetUp, StepsAreOrdered,
       SettingsAreRecent, IsSetUp, DeviceOf
  <2> QED BY <2>1, <2>2 DEF IInv
<1> QED BY <1>1, <1>2, <1>3, <1>4, <1>5, <1>6, <1>7 DEF Next

THEOREM Inductive == Spec => []IInv
BY InitIInv, NextIInv, PTL DEF Spec

(* The type invariant of the serial channels. *)
THEOREM TypeCorrect == Spec => []TypeOK
<1>1. IInv => TypeOK
  BY DEF IInv
<1> QED BY <1>1, Inductive, PTL

(* No descriptor is leaked or shared, wherever open fails and whatever is
   unplugged meanwhile. *)
THEOREM DescriptorsOwned == Spec => []DescriptorsAreOwned
<1>1. IInv => DescriptorsAreOwned
  BY DEF IInv
<1> QED BY <1>1, Inductive, PTL

(* recv_bytes never returns a byte that came before its channel's settings. *)
THEOREM ReadsAreRecent == Spec => []ReadsWhatItSetUp
<1>1. IInv => ReadsWhatItSetUp
  BY DEF IInv
<1> QED BY <1>1, Inductive, PTL

-----------------------------------------------------------------------------
(* Frames over a serial line: the names of SerialSend. *)

(* How many of the bytes that were written the other end is done with. *)
Read == Len(written) - (Len(buf) + Len(line))

(* The parser's buffer and the line hold what is behind them, in order. *)
BehindRead == Read \in Nat /\ buf \o line = Behind(written, Read)

(* The frames that were reported as sent lie whole and apart in what was written. *)
LiesAt(i) ==
  ValidAt(written, whole[i]) /\ FrameAt(written, whole[i]) = sent[i]

FramesLieApart ==
  /\ \A i \in 1..Len(sent) : LiesAt(i)
  /\ \A i \in 1..Len(sent), j \in 1..Len(sent) :
       i < j => whole[i] + Len(sent[i]) <= whole[j]

NothingElseIfWhole ==
  shorts = 0 => \A p \in 0..(Len(written) - 1) : InWhole(p)

(* The other end has taken the frames of sent from the front, and stands between
   the last one it took and the next. *)
TakenFromTheFront ==
  /\ Len(got) <= Len(sent)
  /\ \A i \in 1..Len(got) : got[i] = sent[i]
  /\ \A i \in 1..Len(sent) :
       IF i <= Len(got) THEN whole[i] + Len(sent[i]) <= Read ELSE Read <= whole[i]

SendIInv ==
  /\ SendTypeOK
  /\ BehindRead
  /\ FramesLieApart
  /\ NothingElseIfWhole
  /\ HalvesAreRefused => TakenFromTheFront

(* A whole frame is not refuted. *)
LEMMA ValidIsNotRefuted ==
  ASSUME NEW b \in Seq(Byte), NEW p \in Nat, ValidAt(b, p)
  PROVE  ~RefutedAt(b, p) /\ p < Len(b)
<1>1. PICK n \in Nat : n = Len(b)
  BY LenProperties
<1>2. p + 7 <= n
  BY <1>1 DEF ValidAt, CompleteAt, kFrameOverhead
<1>3. b[p + 1] = kStx0 /\ b[p + 2] = kStx1 /\ VerAt(b, p) = kProtocolVersion /\ CrcOkAt(b, p)
  BY DEF ValidAt, StxAt
<1> QED BY <1>1, <1>2, <1>3 DEF RefutedAt

(* What cannot be refuted, and is all there, is a whole frame. *)
LEMMA UnrefutedIsPartial ==
  ASSUME NEW b \in Seq(Byte), ~RefutedAt(b, 0), ~ValidAt(b, 0), Len(b) >= kFrameOverhead
  PROVE  Len(b) < TotalAt(b, 0)
<1>1. PICK n \in Nat : n = Len(b) /\ n >= 7
  BY LenProperties DEF kFrameOverhead
<1>2. 4 \in 1..n
  BY <1>1
<1>3. b[4] \in 0..255
  BY <1>1, <1>2 DEF Byte
<1>4. b[1] = kStx0 /\ b[2] = kStx1 /\ VerAt(b, 0) = kProtocolVersion
  BY <1>1 DEF RefutedAt
<1>5. ~CompleteAt(b, 0)
  BY <1>4 DEF RefutedAt, ValidAt, StxAt
<1>6. PICK t \in 0..255 : t = b[4]
  BY <1>3
<1>7. TotalAt(b, 0) = 7 + t
  BY <1>6 DEF TotalAt, kFrameOverhead
<1>8. ~(0 + 7 <= Len(b) /\ 0 + TotalAt(b, 0) <= Len(b))
  BY <1>5 DEF CompleteAt, kFrameOverhead
<1> QED BY <1>1, <1>6, <1>7, <1>8

(* A well-formed frame that is written behind a string lies there whole. *)
LEMMA FrameBehind ==
  ASSUME NEW a \in Seq(Byte), NEW f \in Seq(Byte), IsDatagramFrame(f)
  PROVE  LET s == a \o f
         IN  /\ s \in Seq(Byte) /\ Len(s) = Len(a) + Len(f)
             /\ ValidAt(s, Len(a)) /\ FrameAt(s, Len(a)) = f
<1>1. PICK n \in Nat, m \in Nat : n = Len(a) /\ m = Len(f)
  BY LenProperties
<1>2. PICK s \in Seq(Byte) : s = a \o f /\ Len(s) = n + m
  BY <1>1, Joined
<1>3. Behind(s, n) = f
  <2>1. n \in 0..Len(a) /\ n \in 0..n
    BY <1>1
  <2>2. Behind(s, n) = Behind(a, n) \o f
    BY <1>2, <2>1, BehindConcat
  <2>3. Behind(a, n) = << >>
    <3>1. Behind(a, n) \in Seq(Byte) /\ Len(Behind(a, n)) = Len(a) - n
      BY <2>1, BehindAgrees
    <3>2. Len(Behind(a, n)) = 0
      BY <1>1, <3>1
    <3> QED BY <3>1, <3>2, EmptySeq
  <2> QED BY <2>2, <2>3, ConcatEmptySeq
<1>4. ValidAt(f, 0) /\ FrameAt(f, 0) = f
  <2>1. m >= 7 /\ m = TotalAt(f, 0)
    BY <1>1 DEF IsDatagramFrame, kFrameOverhead
  <2>2. CompleteAt(f, 0)
    BY <1>1, <2>1 DEF CompleteAt, kFrameOverhead
  <2>3. ValidAt(f, 0)
    BY <2>2 DEF ValidAt, IsDatagramFrame
  <2>4. SubSeq(f, 1, Len(f)) = f
    OBVIOUS
  <2> QED BY <1>1, <2>1, <2>3, <2>4 DEF FrameAt
<1>5. ValidAt(s, n) /\ FrameAt(s, n) = f
  <2>1. n \in 0..Len(s) /\ 0 \in Nat /\ n + 0 = n
    BY <1>2
  <2>2. /\ ValidAt(Behind(s, n), 0) <=> ValidAt(s, n + 0)
        /\ CompleteAt(Behind(s, n), 0) =>
             FrameAt(Behind(s, n), 0) = FrameAt(s, n + 0)
    BY <2>1, Shift
  <2>3. CompleteAt(f, 0)
    BY <1>4 DEF ValidAt
  <2> QED BY <1>3, <1>4, <2>1, <2>2, <2>3
<1> QED BY <1>1, <1>2, <1>5

(* What the parser sees of a byte of its buffer holds of it in all that was
   written, with whatever comes behind. *)
LEMMA InTheBuffer ==
  ASSUME SendTypeOK, BehindRead, NEW p \in Nat
  PROVE  /\ RefutedAt(buf, p) => RefutedAt(written, Read + p)
         /\ ValidAt(buf, p) =>
              /\ ValidAt(written, Read + p)
              /\ FrameAt(buf, p) = FrameAt(written, Read + p)
         /\ p < Len(buf) => Read + p \in 0..(Len(written) - 1)
<1>1. buf \in Seq(Byte) /\ line \in Seq(Byte) /\ written \in Seq(Byte)
  BY DEF SendTypeOK
<1>2. PICK n \in Nat, l \in Nat, w \in Nat, c \in Nat :
        n = Len(buf) /\ l = Len(line) /\ w = Len(written) /\ c = Read
  BY <1>1, LenProperties DEF BehindRead
<1>3. c = w - (n + l) /\ c \in 0..w
  BY <1>2 DEF Read
<1>4. PICK s \in Seq(Byte) : s = buf \o line /\ s = Behind(written, c)
  BY <1>1, <1>2, Joined DEF BehindRead
<1>5. /\ RefutedAt(buf, p) => RefutedAt(s, p)
      /\ ValidAt(buf, p) => ValidAt(s, p) /\ FrameAt(s, p) = FrameAt(buf, p)
  <2>1. /\ RefutedAt(buf, p) => RefutedAt(buf \o line, p)
        /\ ValidAt(buf, p) => /\ ValidAt(buf \o line, p)
                              /\ FrameAt(buf \o line, p) = FrameAt(buf, p)
    BY <1>1, Stable
  <2> QED BY <1>4, <2>1
<1>6. /\ RefutedAt(s, p) <=> RefutedAt(written, c + p)
      /\ ValidAt(s, p) <=> ValidAt(written, c + p)
      /\ CompleteAt(s, p) => FrameAt(s, p) = FrameAt(written, c + p)
  <2>1. c \in 0..Len(written)
    BY <1>2, <1>3
  <2>2. /\ RefutedAt(Behind(written, c), p) <=> RefutedAt(written, c + p)
        /\ ValidAt(Behind(written, c), p) <=> ValidAt(written, c + p)
        /\ CompleteAt(Behind(written, c), p) =>
             FrameAt(Behind(written, c), p) = FrameAt(written, c + p)
    BY <1>1, <2>1, Shift
  <2> QED BY <1>4, <2>2
<1>7. ValidAt(s, p) => CompleteAt(s, p)
  BY DEF ValidAt
<1>8. p < n => c + p \in 0..(w - 1)
  BY <1>3
<1> QED BY <1>2, <1>5, <1>6, <1>7, <1>8

(* The numbers the proofs speak of. *)
LEMMA SendTypes ==
  ASSUME SendTypeOK, FramesLieApart
  PROVE  /\ Len(sent) \in Nat /\ Len(got) \in Nat
         /\ Len(written) \in Nat /\ Len(buf) \in Nat /\ Len(line) \in Nat
         /\ \A i \in 1..Len(sent) :
              /\ sent[i] \in Frames /\ sent[i] \in Seq(Byte)
              /\ whole[i] \in Nat /\ Len(sent[i]) \in Nat \ {0}
              /\ Len(sent[i]) = TotalAt(written, whole[i])
              /\ whole[i] + Len(sent[i]) <= Len(written)
<1>1. /\ sent \in Seq(Frames) /\ whole \in Seq(Nat) /\ Len(whole) = Len(sent)
      /\ written \in Seq(Byte) /\ buf \in Seq(Byte) /\ line \in Seq(Byte)
      /\ got \in Seq(Seq(Byte))
  BY DEF SendTypeOK
<1>2. ASSUME NEW i \in 1..Len(sent)
      PROVE  /\ sent[i] \in Frames /\ sent[i] \in Seq(Byte)
             /\ whole[i] \in Nat /\ Len(sent[i]) \in Nat \ {0}
             /\ Len(sent[i]) = TotalAt(written, whole[i])
             /\ whole[i] + Len(sent[i]) <= Len(written)
  <2>1. sent[i] \in Frames /\ whole[i] \in Nat
    BY <1>1
  <2>2. sent[i] \in Seq(Byte)
    BY <2>1, SendAssumption
  <2>3. ValidAt(written, whole[i]) /\ FrameAt(written, whole[i]) = sent[i]
    BY DEF FramesLieApart, LiesAt
  <2>4. CompleteAt(written, whole[i])
    BY <2>3 DEF ValidAt
  <2>5. /\ TotalAt(written, whole[i]) \in 7..262
        /\ Len(sent[i]) = TotalAt(written, whole[i])
    <3>1. written \in Seq(Byte)
      BY <1>1
    <3>2. /\ TotalAt(written, whole[i]) \in 7..262
          /\ Len(FrameAt(written, whole[i])) = TotalAt(written, whole[i])
      BY <2>1, <2>4, <3>1, CompleteIsFrame
    <3> QED BY <2>3, <3>2
  <2>6. whole[i] + TotalAt(written, whole[i]) <= Len(written)
    BY <2>4 DEF CompleteAt
  <2>7. PICK t \in 7..262 : t = Len(sent[i]) /\ t = TotalAt(written, whole[i])
    BY <2>5
  <2>8. t \in Nat \ {0}
    OBVIOUS
  <2> QED BY <2>1, <2>2, <2>6, <2>7, <2>8
<1> QED BY <1>1, <1>2, LenProperties

(* The next frame of sent is not behind what the parser has not refuted. *)
LEMMA NextFrameAhead ==
  ASSUME SendIInv, HalvesAreRefused, NEW p, StartsAt(buf, p), Len(got) < Len(sent),
         whole[Len(got) + 1] <= Read + p
  PROVE  whole[Len(got) + 1] = Read + p
<1> DEFINE g == Len(got) + 1
<1>1. SendTypeOK /\ BehindRead /\ FramesLieApart /\ TakenFromTheFront
  BY DEF SendIInv
<1>2. Len(got) \in Nat /\ Len(sent) \in Nat /\ Read \in Nat /\ p \in Nat /\ p <= Len(buf)
      /\ Len(buf) \in Nat
  BY <1>1, SendTypes DEF BehindRead, StartsAt
<1>3. g \in 1..Len(sent) /\ ~(g <= Len(got))
  BY <1>2
<1>4. whole[g] \in Nat /\ Read <= whole[g]
  BY <1>1, <1>3, SendTypes DEF TakenFromTheFront
<1>5. PICK q \in Nat : Read + q = whole[g] /\ q <= p
  <2> DEFINE r == Read
             x == whole[g]
  <2>1. r \in Nat /\ x \in Nat /\ r <= x /\ x <= r + p
    BY <1>2, <1>4
  <2> HIDE DEF r, x
  <2>2. x - r \in Nat /\ r + (x - r) = x /\ x - r <= p
    BY <1>2, <2>1
  <2> QED BY <2>2 DEF r, x
<1>6. q = p
  <2> SUFFICES ASSUME q # p PROVE FALSE
    OBVIOUS
  <2>1. q \in 0..(p - 1)
    BY <1>2, <1>5
  <2>2. RefutedAt(buf, q)
    BY <2>1 DEF StartsAt
  <2>3. RefutedAt(written, Read + q)
    BY <1>1, <2>2, InTheBuffer
  <2>4. ValidAt(written, whole[g]) /\ written \in Seq(Byte)
    BY <1>1, <1>3 DEF FramesLieApart, LiesAt, SendTypeOK
  <2> QED BY <1>4, <1>5, <2>3, <2>4, ValidIsNotRefuted
<1> QED BY <1>5, <1>6

(* The first byte that is not refuted, if it is one of a frame that was sent
   whole, is the start of the next frame to be taken. *)
LEMMA NextFrameFirst ==
  ASSUME SendIInv, HalvesAreRefused, NEW p, StartsAt(buf, p), InWhole(Read + p)
  PROVE  Len(got) < Len(sent) /\ whole[Len(got) + 1] = Read + p
<1>1. SendTypeOK /\ BehindRead /\ FramesLieApart /\ TakenFromTheFront
  BY DEF SendIInv
<1>2. PICK j \in 1..Len(sent) : whole[j] <= Read + p /\ Read + p < whole[j] + Len(sent[j])
  BY DEF InWhole
<1>3. /\ Read \in Nat /\ p \in Nat /\ Len(got) \in Nat /\ Len(sent) \in Nat
      /\ whole[j] \in Nat /\ Len(sent[j]) \in Nat
  BY <1>1, SendTypes DEF BehindRead, StartsAt
<1>4. ~(j <= Len(got))
  <2> SUFFICES ASSUME j <= Len(got) PROVE FALSE
    OBVIOUS
  <2>1. whole[j] + Len(sent[j]) <= Read
    BY <1>1 DEF TakenFromTheFront
  <2> HIDE DEF Read
  <2> QED BY <1>2, <1>3, <2>1
<1>5. PICK g \in 1..Len(sent) : g = Len(got) + 1 /\ g <= j
  BY <1>3, <1>4
<1>6. whole[g] <= whole[j]
  <2>1. CASE g = j
    BY <1>3, <2>1
  <2>2. CASE g # j
    <3>1. g < j
      BY <1>5, <2>2
    <3>2. whole[g] + Len(sent[g]) <= whole[j]
      BY <1>1, <3>1 DEF FramesLieApart
    <3>3. whole[g] \in Nat /\ Len(sent[g]) \in Nat
      BY <1>1, SendTypes
    <3> QED BY <1>3, <3>2, <3>3
  <2> QED BY <2>1, <2>2
<1>7. whole[g] <= Read + p
  <2>1. whole[g] \in Nat
    BY <1>1, SendTypes
  <2> HIDE DEF Read
  <2> QED BY <1>2, <1>3, <1>6, <2>1
<1>8. Len(got) < Len(sent)
  BY <1>3, <1>5
<1> QED BY <1>5, <1>7, <1>8, NextFrameAhead

LEMMA SendInitIInv == SendInit => SendIInv
<1> SUFFICES ASSUME SendInit PROVE SendIInv
  OBVIOUS
<1>1. /\ line = << >> /\ buf = << >> /\ got = << >> /\ sent = << >>
      /\ written = << >> /\ whole = << >> /\ ambiguous = FALSE /\ sends = 0 /\ shorts = 0
  BY DEF SendInit
<1>2. SendTypeOK
  <2>1. /\ line \in Seq(Byte) /\ buf \in Seq(Byte) /\ written \in Seq(Byte)
        /\ got \in Seq(Seq(Byte)) /\ sent \in Seq(Frames) /\ whole \in Seq(Nat)
    BY <1>1
  <2>2. Len(sent) = 0 /\ Len(whole) = 0
    BY <1>1
  <2>3. sends \in 0..MaxSends /\ shorts \in 0..MaxShort /\ 0 + shorts <= sends
    BY <1>1, SendAssumption
  <2> QED BY <1>1, <2>1, <2>2, <2>3 DEF SendTypeOK
<1>3. Read = 0 /\ BehindRead
  <2>1. Read = 0
    <3>1. Len(written) = 0 /\ Len(buf) = 0 /\ Len(line) = 0
      BY <1>1
    <3> QED BY <3>1 DEF Read
  <2>2. buf \o line = << >> /\ Behind(written, 0) = << >>
    BY <1>1 DEF Behind
  <2> QED BY <2>1, <2>2 DEF BehindRead
<1>4. FramesLieApart /\ NothingElseIfWhole /\ TakenFromTheFront
  BY <1>1 DEF FramesLieApart, NothingElseIfWhole, TakenFromTheFront
<1> QED BY <1>2, <1>3, <1>4 DEF SendIInv

-----------------------------------------------------------------------------
(* Taking a frame. *)
LEMMA TakeFrameKeepsIInv ==
  ASSUME SendIInv, TakeFrame
  PROVE  SendIInv'
<1>1. SendTypeOK /\ BehindRead /\ FramesLieApart
  BY DEF SendIInv
<1>2. UNCHANGED << line, sent, written, whole, ambiguous, sends, shorts >>
  BY DEF TakeFrame
<1>3. PICK p : StartsAt(buf, p)
  BY <1>1, StartExists DEF SendTypeOK
<1>4. /\ p < Len(buf) /\ ValidAt(buf, p)
      /\ got' = Append(got, FrameAt(buf, p)) /\ buf' = Behind(buf, p + TotalAt(buf, p))
  <2>1. buf \in Seq(Byte) /\ NextFrame(buf).frame # NoFrame
    BY <1>1 DEF SendTypeOK, TakeFrame
  <2>2. p < Len(buf) /\ ValidAt(buf, p)
    BY <1>3, <2>1, NextFrameIs
  <2>3. NextFrame(buf) = [frame |-> FrameAt(buf, p), rest |-> Behind(buf, p + TotalAt(buf, p))]
    BY <1>3, <2>1, <2>2, NextFrameIs
  <2> QED BY <2>2, <2>3 DEF TakeFrame
<1>5. PICK c \in Nat, n \in Nat, l \in Nat, w \in Nat, t \in Nat, f \in Seq(Byte) :
        /\ c = Read /\ n = Len(buf) /\ l = Len(line) /\ w = Len(written)
        /\ t = TotalAt(buf, p) /\ p + t <= n
        /\ f = FrameAt(buf, p) /\ t = Len(f) /\ c = w - (n + l)
  <2>1. p \in Nat /\ CompleteAt(buf, p)
    BY <1>3, <1>4 DEF ValidAt, StartsAt
  <2>2. /\ TotalAt(buf, p) \in 7..262 /\ p + TotalAt(buf, p) <= Len(buf)
        /\ FrameAt(buf, p) \in Seq(Byte) /\ Len(FrameAt(buf, p)) = TotalAt(buf, p)
    BY <1>1, <2>1, CompleteIsFrame DEF SendTypeOK, CompleteAt
  <2>3. TotalAt(buf, p) \in Nat
    BY <2>2
  <2>4. Read = Len(written) - (Len(buf) + Len(line)) /\ Read \in Nat
    BY <1>1 DEF Read, BehindRead
  <2>5. Len(written) \in Nat /\ Len(buf) \in Nat /\ Len(line) \in Nat
    BY <1>1, SendTypes
  <2> QED BY <2>2, <2>3, <2>4, <2>5
<1>6. buf' \in Seq(Byte) /\ Len(buf') = n - (p + t) /\ p \in Nat /\ p + t \in 0..n
  <2>1. p \in Nat /\ p + t \in 0..n
    BY <1>3, <1>5 DEF StartsAt
  <2>2. /\ Behind(buf, p + t) \in Seq(Byte)
        /\ Len(Behind(buf, p + t)) = Len(buf) - (p + t)
    <3>1. p + t \in 0..Len(buf) /\ buf \in Seq(Byte)
      BY <1>1, <1>5, <2>1 DEF SendTypeOK
    <3> QED BY <3>1, BehindAgrees
  <2> QED BY <1>4, <1>5, <2>1, <2>2
<1>7. SendTypeOK'
  <2>1. got' \in Seq(Seq(Byte))
    BY <1>1, <1>4, <1>5 DEF SendTypeOK
  <2> QED BY <1>1, <1>2, <1>6, <2>1 DEF SendTypeOK
<1>8. Read' = c + p + t
  <2>1. Read' = Len(written') - (Len(buf') + Len(line'))
    BY DEF Read
  <2> QED BY <1>2, <1>5, <1>6, <2>1
<1>9. BehindRead'
  <2>1. buf' \o line' = Behind(buf \o line, p + t)
    <3>1. p + t \in 0..Len(buf) /\ buf \in Seq(Byte) /\ line \in Seq(Byte)
      BY <1>1, <1>5, <1>6 DEF SendTypeOK
    <3>2. Behind(buf \o line, p + t) = Behind(buf, p + t) \o line
      BY <3>1, BehindConcat
    <3> QED BY <1>2, <1>4, <1>5, <3>2
  <2>2. buf \o line = Behind(written, c)
    BY <1>1, <1>5 DEF BehindRead
  <2>3. Behind(Behind(written, c), p + t) = Behind(written, c + (p + t))
    <3>1. written \in Seq(Byte) /\ c \in 0..Len(written) /\ p + t \in 0..(Len(written) - c)
      BY <1>1, <1>5, <1>6 DEF SendTypeOK
    <3> QED BY <3>1, BehindBehind
  <2>4. c + (p + t) = Read' /\ Read' \in Nat
    BY <1>5, <1>6, <1>8
  <2> QED BY <1>2, <2>1, <2>2, <2>3, <2>4 DEF BehindRead
<1>10. FramesLieApart' /\ NothingElseIfWhole'
  BY <1>2 DEF SendIInv, FramesLieApart, LiesAt, NothingElseIfWhole, InWhole
<1>11. ASSUME HalvesAreRefused' PROVE TakenFromTheFront'
  <2>1. HalvesAreRefused
    BY <1>2, <1>11 DEF HalvesAreRefused, InWhole
  <2>2. /\ ValidAt(written, c + p) /\ c + p \in 0..(Len(written) - 1)
        /\ f = FrameAt(written, c + p)
    BY <1>1, <1>4, <1>5, <1>6, InTheBuffer
  <2>3. InWhole(Read + p)
    BY <1>5, <2>1, <2>2 DEF HalvesAreRefused
  <2>4. Len(got) < Len(sent) /\ whole[Len(got) + 1] = c + p
    BY <1>3, <1>5, <2>1, <2>3, NextFrameFirst
  <2>5. TakenFromTheFront
    BY <2>1 DEF SendIInv
  <2>6. PICK k \in Nat, m \in Nat :
          k = Len(got) /\ m = Len(sent) /\ k < m /\ whole[k + 1] = c + p
    BY <1>1, <2>4, SendTypes
  <2>7. sent[k + 1] = f /\ k + 1 \in 1..m
    <3>1. k + 1 \in 1..m
      BY <2>6
    <3>2. LiesAt(k + 1)
      BY <1>1, <2>6, <3>1 DEF FramesLieApart
    <3> QED BY <2>2, <2>6, <3>1, <3>2 DEF LiesAt
  <2>8. /\ Len(got') = k + 1 /\ got'[k + 1] = f
        /\ \A i \in 1..k : got'[i] = got[i]
    BY <1>1, <1>4, <1>5, <2>6 DEF SendTypeOK
  <2>9. \A i \in 1..(k + 1) : got'[i] = sent[i]
    <3> SUFFICES ASSUME NEW i \in 1..(k + 1) PROVE got'[i] = sent[i]
      OBVIOUS
    <3>1. CASE i = k + 1
      BY <2>7, <2>8, <3>1
    <3>2. CASE i # k + 1
      <4>1. i \in 1..k
        BY <3>2
      <4> QED BY <2>5, <2>6, <2>8, <4>1 DEF TakenFromTheFront
    <3> QED BY <3>1, <3>2
  <2>10. ASSUME NEW i \in 1..m
         PROVE  IF i <= k + 1 THEN whole[i] + Len(sent[i]) <= c + p + t
                ELSE c + p + t <= whole[i]
    <3>1. /\ whole[i] \in Nat /\ Len(sent[i]) \in Nat
          /\ Len(sent[k + 1]) = t
      BY <1>1, <1>5, <2>6, <2>7, SendTypes
    <3>2. CASE i = k + 1
      <4>1. whole[i] = c + p /\ Len(sent[i]) = t
        BY <2>6, <3>1, <3>2
      <4>2. i <= k + 1 /\ c + p + t <= c + p + t
        BY <1>6, <2>6, <3>2
      <4> QED BY <4>1, <4>2
    <3>3. CASE i < k + 1
      <4>1. whole[i] + Len(sent[i]) <= whole[k + 1]
        BY <1>1, <2>6, <2>7, <3>3 DEF FramesLieApart
      <4>2. PICK e \in Nat : e = whole[i] + Len(sent[i])
        BY <3>1
      <4>3. e <= c + p
        BY <2>6, <4>1, <4>2
      <4>4. e <= c + p + t
        BY <1>6, <4>3
      <4> QED BY <2>6, <3>3, <4>2, <4>4
    <3>4. CASE i > k + 1
      <4>1. whole[k + 1] + Len(sent[k + 1]) <= whole[i]
        BY <1>1, <2>6, <2>7, <3>4 DEF FramesLieApart
      <4> QED BY <1>5, <1>6, <2>6, <3>1, <3>4, <4>1
    <3> QED BY <3>2, <3>3, <3>4
  <2>11. Len(got') <= Len(sent')
    BY <1>2, <2>6, <2>8
  <2>12. \A i \in 1..Len(got') : got'[i] = sent'[i]
    BY <1>2, <2>8, <2>9
  <2>13. \A i \in 1..Len(sent') :
           IF i <= Len(got') THEN whole'[i] + Len(sent'[i]) <= Read' ELSE Read' <= whole'[i]
    BY <1>2, <1>8, <2>6, <2>8, <2>10
  <2> QED BY <2>11, <2>12, <2>13 DEF TakenFromTheFront
<1> QED BY <1>7, <1>9, <1>10, <1>11 DEF SendIInv

(* Bytes reach the parser. *)
LEMMA LineArrivesKeepsIInv ==
  ASSUME SendIInv, LineArrives
  PROVE  SendIInv'
<1>1. SendTypeOK /\ BehindRead
  BY DEF SendIInv
<1>2. UNCHANGED << got, sent, written, whole, ambiguous, sends, shorts >>
  BY DEF LineArrives
<1>3. buf' = buf \o line /\ line' = << >>
  BY DEF LineArrives
<1>4. /\ buf \in Seq(Byte) /\ line \in Seq(Byte) /\ written \in Seq(Byte)
      /\ Len(buf) \in Nat /\ Len(line) \in Nat /\ Len(written) \in Nat
  BY <1>1, LenProperties DEF SendTypeOK
<1>5. buf' \in Seq(Byte) /\ Len(buf') = Len(buf) + Len(line) /\ Len(line') = 0
  BY <1>3, <1>4, Joined
<1>6. SendTypeOK'
  <2>1. line' \in Seq(Byte)
    BY <1>3
  <2> QED BY <1>1, <1>2, <1>5, <2>1 DEF SendTypeOK
<1>7. Read' = Read
  BY <1>2, <1>4, <1>5 DEF Read
<1>8. BehindRead'
  <2>1. buf' \o line' = buf \o line
    BY <1>3, <1>5, ConcatEmptySeq
  <2> QED BY <1>1, <1>2, <1>7, <2>1 DEF BehindRead
<1>9. FramesLieApart' /\ NothingElseIfWhole'
  BY <1>2 DEF SendIInv, FramesLieApart, LiesAt, NothingElseIfWhole, InWhole
<1>10. HalvesAreRefused' => TakenFromTheFront'
  <2>1. HalvesAreRefused' => HalvesAreRefused
    BY <1>2 DEF HalvesAreRefused, InWhole
  <2> QED BY <1>2, <1>7, <2>1 DEF SendIInv, TakenFromTheFront
<1> QED BY <1>6, <1>8, <1>9, <1>10 DEF SendIInv

-----------------------------------------------------------------------------
LEMMA Appended ==
  ASSUME NEW S, NEW s \in Seq(S), NEW x \in S, NEW k \in Nat, k = Len(s)
  PROVE  /\ Append(s, x) \in Seq(S) /\ Len(Append(s, x)) = k + 1
         /\ Append(s, x)[k + 1] = x
         /\ \A i \in 1..k : Append(s, x)[i] = s[i]
BY AppendProperties

(* What a call of send adds to the histories. *)
LEMMA SendAdds ==
  ASSUME SendTypeOK, FramesLieApart, NEW f \in Frames, NEW n \in 0..Len(f), Send(f, n)
  PROVE  /\ f \in Seq(Byte) /\ IsDatagramFrame(f) /\ Len(f) \in Nat \ {0} /\ n \in Nat
         /\ SubSeq(f, 1, n) \in Seq(Byte) /\ Len(SubSeq(f, 1, n)) = n
         /\ written' = written \o SubSeq(f, 1, n) /\ written' \in Seq(Byte)
         /\ Len(written') = Len(written) + n
         /\ line' = line \o SubSeq(f, 1, n) /\ line' \in Seq(Byte)
         /\ Len(line') = Len(line) + n
         /\ UNCHANGED << buf, got >>
         /\ n = Len(f) =>
              /\ SubSeq(f, 1, n) = f /\ shorts' = shorts
              /\ Len(sent') = Len(sent) + 1 /\ sent'[Len(sent) + 1] = f
              /\ whole'[Len(sent) + 1] = Len(written)
         /\ n # Len(f) => Len(sent') = Len(sent)
         /\ 0 < n /\ n < Len(f) => shorts' = shorts + 1
         /\ sent' \in Seq(Frames) /\ whole' \in Seq(Nat) /\ Len(whole') = Len(sent')
         /\ \A i \in 1..Len(sent) : sent'[i] = sent[i] /\ whole'[i] = whole[i]
<1>1. /\ sent \in Seq(Frames) /\ whole \in Seq(Nat) /\ Len(whole) = Len(sent)
      /\ written \in Seq(Byte) /\ line \in Seq(Byte)
  BY DEF SendTypeOK
<1>2. f \in Seq(Byte) /\ IsDatagramFrame(f)
  BY SendAssumption
<1>3. PICK m \in Nat, w \in Nat, k \in Nat, l \in Nat :
        m = Len(f) /\ w = Len(written) /\ k = Len(sent) /\ l = Len(line)
  BY <1>1, <1>2, LenProperties
<1>4. m >= 7 /\ n \in 0..m
  BY <1>2, <1>3 DEF IsDatagramFrame, kFrameOverhead
<1>5. PICK part \in Seq(Byte) : part = SubSeq(f, 1, n) /\ Len(part) = n
  <2>1. \A i \in 1..n : f[i] \in Byte
    BY <1>2, <1>3, <1>4
  <2>2. /\ SubSeq(f, 1, n) \in Seq(Byte)
        /\ Len(SubSeq(f, 1, n)) = IF 1 <= n THEN n - 1 + 1 ELSE 0
    BY <1>4, <2>1, SubSeqProperties
  <2>3. (IF 1 <= n THEN n - 1 + 1 ELSE 0) = n
    BY <1>4
  <2> QED BY <2>2, <2>3
<1>6. n = m => part = f
  BY <1>2, <1>3, <1>5
<1>7. /\ written' = written \o part /\ line' = line \o part /\ UNCHANGED << buf, got >>
      /\ n = m => /\ sent' = Append(sent, f) /\ whole' = Append(whole, w)
                  /\ UNCHANGED shorts
      /\ n # m => UNCHANGED << sent, whole >>
      /\ 0 < n /\ n < m => shorts' = shorts + 1
  <2>1. n \in 1..(m - 1) <=> 0 < n /\ n < m
    BY <1>4
  <2> QED BY <1>3, <1>4, <1>5, <2>1 DEF Send, Reported
<1>8. /\ written' \in Seq(Byte) /\ Len(written') = w + n
      /\ line' \in Seq(Byte) /\ Len(line') = l + n
  BY <1>1, <1>3, <1>5, <1>7, Joined
<1>9. CASE n = m
  <2>1. /\ sent' \in Seq(Frames) /\ Len(sent') = k + 1 /\ sent'[k + 1] = f
        /\ \A i \in 1..k : sent'[i] = sent[i]
    <3>1. sent' = Append(sent, f)
      BY <1>7, <1>9
    <3>2. /\ Append(sent, f) \in Seq(Frames) /\ Len(Append(sent, f)) = k + 1
          /\ Append(sent, f)[k + 1] = f
          /\ \A i \in 1..k : Append(sent, f)[i] = sent[i]
      BY <1>1, <1>3, Appended
    <3> QED BY <3>1, <3>2
  <2>2. /\ whole' \in Seq(Nat) /\ Len(whole') = k + 1 /\ whole'[k + 1] = w
        /\ \A i \in 1..k : whole'[i] = whole[i]
    <3>1. whole' = Append(whole, w)
      BY <1>7, <1>9
    <3>2. /\ Append(whole, w) \in Seq(Nat) /\ Len(Append(whole, w)) = k + 1
          /\ Append(whole, w)[k + 1] = w
          /\ \A i \in 1..k : Append(whole, w)[i] = whole[i]
      BY <1>1, <1>3, Appended
    <3> QED BY <3>1, <3>2
  <2>3. m \in Nat \ {0} /\ ~(n < m) /\ n \in Nat
    BY <1>4, <1>9
  <2> QED BY <1>2, <1>3, <1>5, <1>6, <1>7, <1>8, <1>9, <2>1, <2>2, <2>3
<1>10. CASE n # m
  <2>1. m \in Nat \ {0} /\ n \in Nat
    BY <1>4
  <2> QED BY <1>1, <1>2, <1>3, <1>5, <1>7, <1>8, <1>10, <2>1
<1> QED BY <1>9, <1>10

(* A byte that was there is one of the same frames as before. *)
LEMMA InWholeKept ==
  ASSUME SendTypeOK, FramesLieApart, NEW f \in Frames, NEW n \in 0..Len(f), Send(f, n),
         NEW p \in Nat, p < Len(written)
  PROVE  InWhole(p)' <=> InWhole(p)
<1>1. PICK k \in Nat, w \in Nat : k = Len(sent) /\ w = Len(written)
  BY SendTypes
<1>2. \A i \in 1..k : sent'[i] = sent[i] /\ whole'[i] = whole[i]
  BY <1>1, SendAdds
<1>3. \/ Len(sent') = k
      \/ Len(sent') = k + 1 /\ whole'[k + 1] = w
  BY <1>1, SendAdds
<1>4. ASSUME InWhole(p) PROVE InWhole(p)'
  <2>1. PICK i \in 1..k : whole[i] <= p /\ p < whole[i] + Len(sent[i])
    BY <1>1, <1>4 DEF InWhole
  <2>2. i \in 1..Len(sent')
    <3>1. i \in 1..k /\ i \in 1..(k + 1)
      BY <1>1
    <3> QED BY <1>3, <3>1
  <2> QED BY <1>2, <2>1, <2>2 DEF InWhole
<1>5. ASSUME InWhole(p)' PROVE InWhole(p)
  <2>1. PICK i \in 1..Len(sent') : whole'[i] <= p /\ p < whole'[i] + Len(sent'[i])
    BY <1>5 DEF InWhole
  <2>2. i \in 1..k
    <3>1. CASE Len(sent') = k
      BY <3>1
    <3>2. CASE Len(sent') = k + 1 /\ whole'[k + 1] = w
      <4>1. i # k + 1
        BY <1>1, <2>1, <3>2
      <4>2. i \in 1..(k + 1)
        BY <3>2
      <4> QED BY <1>1, <4>1, <4>2
    <3> QED BY <1>3, <3>1, <3>2
  <2> QED BY <1>1, <1>2, <2>1, <2>2 DEF InWhole
<1> QED BY <1>4, <1>5

LEMMA SendKeepsTypes ==
  ASSUME SendTypeOK, FramesLieApart, NEW f \in Frames, NEW n \in 0..Len(f), Send(f, n)
  PROVE  SendTypeOK'
<1>1. /\ written' \in Seq(Byte) /\ line' \in Seq(Byte) /\ UNCHANGED << buf, got >>
      /\ sent' \in Seq(Frames) /\ whole' \in Seq(Nat) /\ Len(whole') = Len(sent')
  BY SendAdds
<1>2. PICK k \in Nat, m \in Nat : k = Len(sent) /\ m = Len(f)
  BY SendTypes, SendAdds
<1>3. sends \in 0..MaxSends /\ shorts \in 0..MaxShort /\ k + shorts <= sends
  BY <1>2 DEF SendTypeOK
<1>4. sends < MaxSends /\ sends' = sends + 1 /\ sends' \in 0..MaxSends
  BY <1>3, SendAssumption DEF Send
<1>5. (ambiguous \/ f[n + 1] = kStx0) \in BOOLEAN
  OBVIOUS
<1>6. /\ shorts' = shorts \/ (shorts < MaxShort /\ shorts' = shorts + 1)
      /\ ambiguous' \in BOOLEAN
  BY <1>5 DEF Send, SendTypeOK
<1>7. shorts' \in 0..MaxShort
  BY <1>3, <1>6, SendAssumption
<1>8. Len(sent') + shorts' <= sends'
  <2>1. CASE n = m
    <3>1. Len(sent') = k + 1 /\ shorts' = shorts
      BY <1>2, <2>1, SendAdds
    <3> QED BY <1>2, <1>3, <1>4, <3>1
  <2>2. CASE n # m
    <3>1. Len(sent') = k
      BY <1>2, <2>2, SendAdds
    <3> QED BY <1>2, <1>3, <1>4, <1>6, <3>1
  <2> QED BY <2>1, <2>2
<1> QED BY <1>1, <1>4, <1>6, <1>7, <1>8 DEF SendTypeOK

LEMMA SendKeepsApart ==
  ASSUME SendTypeOK, FramesLieApart, NEW f \in Frames, NEW n \in 0..Len(f), Send(f, n)
  PROVE  FramesLieApart'
<1>1. PICK k \in Nat, w \in Nat : k = Len(sent) /\ w = Len(written)
  BY SendTypes
<1>2. \A i \in 1..k : sent'[i] = sent[i] /\ whole'[i] = whole[i]
  BY <1>1, SendAdds
<1>3. ASSUME NEW i \in 1..k PROVE LiesAt(i)'
  <2>1. ValidAt(written, whole[i]) /\ FrameAt(written, whole[i]) = sent[i] /\ whole[i] \in Nat
    BY <1>1, SendTypes DEF FramesLieApart, LiesAt
  <2>2. PICK more \in Seq(Byte) : written' = written \o more
    BY SendAdds
  <2>3. written \in Seq(Byte)
    BY DEF SendTypeOK
  <2>4. /\ ValidAt(written \o more, whole[i])
        /\ FrameAt(written \o more, whole[i]) = FrameAt(written, whole[i])
    BY <2>1, <2>2, <2>3, Stable
  <2> QED BY <1>2, <2>1, <2>2, <2>4 DEF LiesAt
<1>4. ASSUME NEW i \in 1..k, NEW j \in 1..k, i < j
      PROVE  whole'[i] + Len(sent'[i]) <= whole'[j]
  BY <1>1, <1>2, <1>4 DEF FramesLieApart
<1>5. CASE n # Len(f)
  <2>1. Len(sent') = k
    BY <1>1, <1>5, SendAdds
  <2> QED BY <1>3, <1>4, <2>1 DEF FramesLieApart
<1>6. CASE n = Len(f)
  <2>1. /\ Len(sent') = k + 1 /\ sent'[k + 1] = f /\ whole'[k + 1] = w
        /\ written' = written \o f /\ f \in Seq(Byte) /\ IsDatagramFrame(f)
    BY <1>1, <1>6, SendAdds
  <2>2. LiesAt(k + 1)'
    <3>1. ValidAt(written \o f, w) /\ FrameAt(written \o f, w) = f
      BY <1>1, <2>1, FrameBehind DEF SendTypeOK
    <3> QED BY <2>1, <3>1 DEF LiesAt
  <2>3. ASSUME NEW i \in 1..k PROVE whole'[i] + Len(sent'[i]) <= whole'[k + 1]
    BY <1>1, <1>2, <2>1, SendTypes
  <2>4. ASSUME NEW i \in 1..(k + 1), NEW j \in 1..(k + 1), i < j
        PROVE  whole'[i] + Len(sent'[i]) <= whole'[j]
    <3>1. i \in 1..k /\ (j = k + 1 \/ j \in 1..k)
      BY <2>4
    <3> QED BY <1>4, <2>3, <2>4, <3>1
  <2>5. \A i \in 1..(k + 1) : i = k + 1 \/ i \in 1..k
    OBVIOUS
  <2>6. \A i \in 1..Len(sent') : LiesAt(i)'
    BY <1>3, <2>1, <2>2, <2>5
  <2>7. \A i \in 1..Len(sent'), j \in 1..Len(sent') :
          i < j => whole'[i] + Len(sent'[i]) <= whole'[j]
    BY <2>1, <2>4
  <2> QED BY <2>6, <2>7 DEF FramesLieApart
<1> QED BY <1>5, <1>6

LEMMA SendKeepsIInv ==
  ASSUME SendIInv, NEW f \in Frames, NEW n \in 0..Len(f), Send(f, n)
  PROVE  SendIInv'
<1>1. SendTypeOK /\ BehindRead /\ FramesLieApart
  BY DEF SendIInv
<1>2. SendTypeOK' /\ FramesLieApart'
  BY <1>1, SendKeepsTypes, SendKeepsApart
<1>3. PICK k \in Nat, w \in Nat, l \in Nat, b \in Nat, m \in Nat \ {0}, c \in Nat :
        /\ k = Len(sent) /\ w = Len(written) /\ l = Len(line) /\ b = Len(buf)
        /\ m = Len(f) /\ c = Read
  BY <1>1, SendTypes, SendAdds DEF BehindRead
<1>4. PICK part \in Seq(Byte) :
        /\ part = SubSeq(f, 1, n)
        /\ written' = written \o part /\ Len(written') = w + n /\ n \in Nat
        /\ line' = line \o part /\ Len(line') = l + n /\ UNCHANGED << buf, got >>
  <2>1. /\ SubSeq(f, 1, n) \in Seq(Byte) /\ n \in Nat
        /\ written' = written \o SubSeq(f, 1, n) /\ Len(written') = Len(written) + n
        /\ line' = line \o SubSeq(f, 1, n) /\ Len(line') = Len(line) + n
        /\ UNCHANGED << buf, got >>
    BY <1>1, SendAdds
  <2> QED BY <1>3, <2>1
<1>5. c \in 0..w /\ Read' = c
  <2>1. c = w - (b + l)
    BY <1>3 DEF Read
  <2>2. Read' = Len(written') - (Len(buf') + Len(line'))
    BY DEF Read
  <2>3. Read' = w + n - (b + (l + n))
    BY <1>3, <1>4, <2>2
  <2> QED BY <1>3, <1>4, <2>1, <2>3
<1>6. BehindRead'
  <2>1. buf \in Seq(Byte) /\ line \in Seq(Byte) /\ written \in Seq(Byte)
    BY <1>1 DEF SendTypeOK
  <2>2. buf' \o line' = (buf \o line) \o part
    BY <1>4, <2>1, AssociateBytes
  <2>3. buf \o line = Behind(written, c)
    BY <1>1, <1>3 DEF BehindRead
  <2>4. Behind(written \o part, c) = Behind(written, c) \o part
    BY <1>3, <1>4, <1>5, <2>1, BehindConcat
  <2> QED BY <1>4, <1>5, <2>2, <2>3, <2>4 DEF BehindRead
<1>7. \A p \in 0..(w - 1) : InWhole(p)' <=> InWhole(p)
  BY <1>1, <1>3, InWholeKept
<1>8. NothingElseIfWhole'
  <2> SUFFICES ASSUME shorts' = 0, NEW p \in 0..(Len(written') - 1) PROVE InWhole(p)'
    BY DEF NothingElseIfWhole
  <2>1. p \in 0..(w + n - 1)
    BY <1>4
  <2>2. shorts \in Nat /\ shorts' \in {shorts, shorts + 1}
    <3>1. shorts \in Nat
      BY <1>1, SendAssumption DEF SendTypeOK
    <3> QED BY <3>1 DEF Send
  <2>3. shorts = 0 /\ (n = 0 \/ n = m)
    <3>1. ~(0 < n /\ n < m)
      BY <1>1, <1>3, <2>2, SendAdds
    <3>2. n \in 0..m
      BY <1>3
    <3> QED BY <2>2, <3>1, <3>2
  <2>4. CASE p \in 0..(w - 1)
    <3>1. InWhole(p)
      BY <1>3, <2>3, <2>4 DEF SendIInv, NothingElseIfWhole
    <3> QED BY <1>7, <2>4, <3>1
  <2>5. CASE p \notin 0..(w - 1)
    <3>1. n = m /\ w <= p /\ p < w + m
      BY <1>3, <2>1, <2>3, <2>5
    <3>2. Len(sent') = k + 1 /\ sent'[k + 1] = f /\ whole'[k + 1] = w
      BY <1>1, <1>3, <3>1, SendAdds
    <3>3. k + 1 \in 1..Len(sent')
      BY <3>2
    <3>4. whole'[k + 1] <= p /\ p < whole'[k + 1] + Len(sent'[k + 1])
      BY <1>3, <3>1, <3>2
    <3> QED BY <3>3, <3>4 DEF InWhole
  <2> QED BY <2>4, <2>5
<1>9. ASSUME HalvesAreRefused' PROVE TakenFromTheFront'
  <2>1. HalvesAreRefused
    <3> SUFFICES ASSUME NEW p \in 0..(Len(written) - 1), ValidAt(written, p)
                 PROVE  InWhole(p)
      BY DEF HalvesAreRefused
    <3>1. p \in 0..(w - 1) /\ p \in Nat /\ p \in 0..(w + n - 1)
      BY <1>3, <1>4
    <3>2. ValidAt(written \o part, p)
      BY <1>1, <3>1, Stable DEF SendTypeOK
    <3>3. InWhole(p)'
      BY <1>4, <1>9, <3>1, <3>2 DEF HalvesAreRefused
    <3> QED BY <1>7, <3>1, <3>3
  <2>2. TakenFromTheFront
    BY <2>1 DEF SendIInv
  <2>3. PICK g \in Nat : g = Len(got) /\ g <= k
    BY <1>1, <1>3, <2>2, SendTypes DEF TakenFromTheFront
  <2>4. \A i \in 1..k : sent'[i] = sent[i] /\ whole'[i] = whole[i]
    BY <1>1, <1>3, SendAdds
  <2>5. \/ Len(sent') = k
        \/ Len(sent') = k + 1 /\ whole'[k + 1] = w
    BY <1>1, <1>3, SendAdds
  <2>6. \A i \in 1..g : got'[i] = sent'[i]
    <3> SUFFICES ASSUME NEW i \in 1..g PROVE got'[i] = sent'[i]
      OBVIOUS
    <3>1. i \in 1..k
      BY <2>3
    <3> QED BY <1>4, <2>2, <2>3, <2>4, <3>1 DEF TakenFromTheFront
  <2>7. \A i \in 1..k :
          IF i <= g THEN whole'[i] + Len(sent'[i]) <= c ELSE c <= whole'[i]
    BY <1>3, <2>2, <2>3, <2>4 DEF TakenFromTheFront
  <2>8. \A i \in 1..Len(sent') :
          IF i <= g THEN whole'[i] + Len(sent'[i]) <= c ELSE c <= whole'[i]
    <3>1. CASE Len(sent') = k
      BY <2>7, <3>1
    <3>2. CASE Len(sent') = k + 1 /\ whole'[k + 1] = w
      <4>1. \A i \in 1..(k + 1) : i \in 1..k \/ i = k + 1
        OBVIOUS
      <4>2. ~(k + 1 <= g) /\ c <= whole'[k + 1]
        BY <1>5, <2>3, <3>2
      <4> QED BY <2>7, <3>2, <4>1, <4>2
    <3> QED BY <2>5, <3>1, <3>2
  <2>9. Len(got') = g /\ g <= Len(sent')
    BY <1>4, <2>3, <2>5
  <2> QED BY <1>5, <2>6, <2>8, <2>9 DEF TakenFromTheFront
<1> QED BY <1>2, <1>6, <1>8, <1>9 DEF SendIInv

-----------------------------------------------------------------------------
LEMMA SendNextIInv == SendIInv /\ [SendNext]_sendVars => SendIInv'
<1> SUFFICES ASSUME SendIInv, [SendNext]_sendVars PROVE SendIInv'
  OBVIOUS
<1>1. ASSUME NEW f \in Frames, NEW n \in 0..Len(f), Send(f, n) PROVE SendIInv'
  BY <1>1, SendKeepsIInv
<1>2. CASE LineArrives
  BY <1>2, LineArrivesKeepsIInv
<1>3. CASE TakeFrame
  BY <1>3, TakeFrameKeepsIInv
<1>4. CASE UNCHANGED sendVars
  BY <1>4 DEF sendVars, SendIInv, SendTypeOK, BehindRead, Read, FramesLieApart, LiesAt,
              NothingElseIfWhole, InWhole, HalvesAreRefused, TakenFromTheFront
<1> QED BY <1>1, <1>2, <1>3, <1>4 DEF SendNext

THEOREM SendInductive == SendSpec => []SendIInv
BY SendInitIInv, SendNextIInv, PTL DEF SendSpec

(* The type invariant of the line: above all, every call reports at most one frame
   and one short write. *)
THEOREM SendTypeCorrect == SendSpec => []SendTypeOK
<1>1. SendIInv => SendTypeOK
  BY DEF SendIInv
<1> QED BY <1>1, SendInductive, PTL

(* For every checksum, all frames, and writes that stop anywhere: the other end
   gets the frames that were reported as sent, each once and in order, unless half
   a frame with what follows it passes for a frame. *)
THEOREM OnlyReportedArrive == SendSpec => []OnlyReportedFramesArrive
<1>1. SendIInv => OnlyReportedFramesArrive
  BY DEF SendIInv, TakenFromTheFront, OnlyReportedFramesArrive
<1> QED BY <1>1, SendInductive, PTL

(* The frame that did not come out is behind the byte the parser stands at. *)
LEMMA HeldBackByAHalf ==
  ASSUME SendIInv, Quiet, HalvesAreRefused, Len(got) < Len(sent)
  PROVE  LET rest == NextFrame(buf).rest
             next == sent[Len(got) + 1]
         IN  /\ shorts > 0
             /\ \E p \in 1..(Len(rest) - Len(next)) : SubSeq(rest, p + 1, p + Len(next)) = next
             /\ Len(rest) < TotalAt(rest, 0)
<1>1. SendTypeOK /\ BehindRead /\ FramesLieApart /\ TakenFromTheFront
  BY DEF SendIInv
<1>2. /\ buf \in Seq(Byte) /\ line = << >> /\ written \in Seq(Byte)
      /\ shorts \in Nat /\ NextFrame(buf).frame = NoFrame
  BY <1>1, SendAssumption DEF SendTypeOK, Quiet
<1>3. PICK p \in Nat : StartsAt(buf, p)
  BY <1>2, StartExists DEF StartsAt
<1>4. PICK g \in Nat, k \in Nat, n \in Nat, w \in Nat, c \in Nat :
        /\ g = Len(got) + 1 /\ k = Len(sent) /\ n = Len(buf) /\ w = Len(written) /\ c = Read
        /\ g \in 1..k /\ ~(g <= Len(got))
  <2>1. /\ Len(got) \in Nat /\ Len(sent) \in Nat /\ Len(buf) \in Nat
        /\ Len(written) \in Nat /\ Read \in Nat
    BY <1>1, SendTypes DEF BehindRead
  <2>2. Len(got) + 1 \in 1..Len(sent) /\ ~(Len(got) + 1 <= Len(got))
    BY <2>1
  <2> QED BY <2>1, <2>2
<1>5. buf = Behind(written, c) /\ c + n = w /\ c \in 0..w
  <2>1. Len(line) = 0
    BY <1>2
  <2>2. c = w - (n + 0)
    BY <1>4, <2>1 DEF Read
  <2>3. buf \o << >> = Behind(written, c)
    BY <1>1, <1>2, <1>4 DEF BehindRead
  <2> QED BY <1>2, <1>4, <2>2, <2>3, ConcatEmptySeq
<1>6. PICK t \in Nat \ {0}, q \in Nat :
        /\ t = Len(sent[g]) /\ c + q = whole[g] /\ ValidAt(written, c + q)
        /\ FrameAt(written, c + q) = sent[g]
  <2>1. /\ whole[g] \in Nat /\ c <= whole[g] /\ Len(sent[g]) \in Nat \ {0} /\ LiesAt(g)
    BY <1>1, <1>4, SendTypes DEF TakenFromTheFront, FramesLieApart
  <2>2. whole[g] - c \in Nat /\ c + (whole[g] - c) = whole[g]
    BY <1>4, <2>1
  <2> QED BY <2>1, <2>2 DEF LiesAt
<1>7. /\ ValidAt(buf, q) /\ FrameAt(buf, q) = sent[g] /\ TotalAt(buf, q) = t
      /\ q + t <= n /\ ~RefutedAt(buf, q)
  <2>1. c \in 0..Len(written)
    BY <1>4, <1>5
  <2>2. /\ ValidAt(Behind(written, c), q) <=> ValidAt(written, c + q)
        /\ CompleteAt(Behind(written, c), q) =>
             /\ FrameAt(Behind(written, c), q) = FrameAt(written, c + q)
             /\ Len(FrameAt(Behind(written, c), q)) = TotalAt(Behind(written, c), q)
    BY <1>2, <2>1, Shift
  <2>3. ValidAt(buf, q) /\ CompleteAt(buf, q)
    BY <1>5, <1>6, <2>2 DEF ValidAt
  <2>4. FrameAt(buf, q) = sent[g] /\ TotalAt(buf, q) = t
    BY <1>5, <1>6, <2>2, <2>3
  <2>5. q + t <= n
    BY <1>4, <2>3, <2>4 DEF CompleteAt
  <2> QED BY <1>2, <2>3, <2>4, <2>5, ValidIsNotRefuted
<1>8. p <= q
  <2> SUFFICES ASSUME ~(p <= q) PROVE FALSE
    OBVIOUS
  <2>1. q \in 0..(p - 1)
    OBVIOUS
  <2> QED BY <1>3, <1>7, <2>1 DEF StartsAt
<1>9. p < q /\ p < n /\ ~ValidAt(buf, p) /\ ~RefutedAt(buf, p)
  <2>1. p < n
    BY <1>6, <1>7, <1>8
  <2>2. ~ValidAt(buf, p)
    <3> SUFFICES ASSUME ValidAt(buf, p) PROVE FALSE
      OBVIOUS
    <3>1. NextFrame(buf).frame = FrameAt(buf, p)
      BY <1>2, <1>3, <1>4, <2>1, NextFrameIs
    <3>2. Len(FrameAt(buf, p)) = TotalAt(buf, p) /\ TotalAt(buf, p) \in 7..262
      BY <1>2, CompleteIsFrame DEF ValidAt
    <3>3. NoFrame = FrameAt(buf, p)
      BY <1>2, <3>1
    <3>4. Len(NoFrame) \in 7..262
      BY <3>2, <3>3
    <3>5. Len(NoFrame) = 0
      BY DEF NoFrame
    <3>6. 0 \notin 7..262
      OBVIOUS
    <3> QED BY <3>4, <3>5, <3>6
  <2>3. p # q
    BY <1>7, <2>2
  <2> QED BY <1>3, <1>4, <1>8, <2>1, <2>2, <2>3 DEF StartsAt
<1>10. PICK rest \in Seq(Byte), d \in Nat \ {0} :
         /\ rest = NextFrame(buf).rest /\ rest = Behind(buf, p) /\ Len(rest) = n - p
         /\ q = p + d
  <2>1. NextFrame(buf).rest = Behind(buf, p)
    BY <1>2, <1>3, <1>9, NextFrameIs
  <2>2. p \in 0..Len(buf)
    BY <1>3, <1>4, <1>9
  <2>3. Behind(buf, p) \in Seq(Byte) /\ Len(Behind(buf, p)) = Len(buf) - p
    BY <1>2, <2>2, BehindAgrees
  <2>4. q - p \in Nat \ {0} /\ q = p + (q - p)
    BY <1>9
  <2> QED BY <1>4, <2>1, <2>3, <2>4
<1>11. \A e \in Nat : /\ RefutedAt(rest, e) <=> RefutedAt(buf, p + e)
                      /\ ValidAt(rest, e) <=> ValidAt(buf, p + e)
                      /\ CompleteAt(rest, e) =>
                           /\ TotalAt(rest, e) = TotalAt(buf, p + e)
                           /\ FrameAt(rest, e) = FrameAt(buf, p + e)
  <2> SUFFICES ASSUME NEW e \in Nat
               PROVE  /\ RefutedAt(rest, e) <=> RefutedAt(buf, p + e)
                      /\ ValidAt(rest, e) <=> ValidAt(buf, p + e)
                      /\ CompleteAt(rest, e) =>
                           /\ TotalAt(rest, e) = TotalAt(buf, p + e)
                           /\ FrameAt(rest, e) = FrameAt(buf, p + e)
    OBVIOUS
  <2>1. p \in 0..Len(buf)
    BY <1>3, <1>4, <1>9
  <2>2. /\ RefutedAt(Behind(buf, p), e) <=> RefutedAt(buf, p + e)
        /\ ValidAt(Behind(buf, p), e) <=> ValidAt(buf, p + e)
        /\ CompleteAt(Behind(buf, p), e) =>
             /\ TotalAt(Behind(buf, p), e) = TotalAt(buf, p + e)
             /\ FrameAt(Behind(buf, p), e) = FrameAt(buf, p + e)
    <3>1. buf \in Seq(Byte)
      BY <1>2
    <3> QED BY <2>1, <3>1, Shift
  <2> QED BY <1>10, <2>2
<1>12. SubSeq(rest, d + 1, d + t) = sent[g] /\ d \in 1..(Len(rest) - t)
  <2>1. ValidAt(rest, d) /\ CompleteAt(rest, d)
    BY <1>7, <1>10, <1>11 DEF ValidAt
  <2>2. TotalAt(rest, d) = t /\ FrameAt(rest, d) = sent[g]
    BY <1>7, <1>10, <1>11, <2>1
  <2>3. d + t <= Len(rest)
    BY <2>1, <2>2 DEF CompleteAt
  <2> QED BY <1>4, <1>9, <1>10, <2>2, <2>3 DEF FrameAt
<1>13. Len(rest) < TotalAt(rest, 0)
  <2>1. ~RefutedAt(rest, 0) /\ ~ValidAt(rest, 0)
    <3>1. p + 0 = p
      OBVIOUS
    <3> QED BY <1>9, <1>11, <3>1
  <2>2. Len(rest) >= kFrameOverhead
    <3>1. CompleteAt(buf, q)
      BY <1>7 DEF ValidAt
    <3>2. q + 7 <= n
      BY <1>4, <3>1 DEF CompleteAt, kFrameOverhead
    <3> QED BY <1>9, <1>10, <3>2 DEF kFrameOverhead
  <2> QED BY <2>1, <2>2, UnrefutedIsPartial
<1>14. shorts > 0
  <2> SUFFICES ASSUME shorts = 0 PROVE FALSE
    BY <1>2
  <2>1. Read + p \in 0..(Len(written) - 1)
    BY <1>4, <1>5, <1>9
  <2>2. InWhole(Read + p)
    BY <2>1 DEF SendIInv, NothingElseIfWhole
  <2>3. whole[Len(got) + 1] = Read + p
    BY <1>3, <2>2, NextFrameFirst
  <2> QED BY <1>4, <1>6, <1>9, <2>3
<1> QED BY <1>4, <1>6, <1>10, <1>12, <1>13, <1>14

(* For every checksum: a frame that was reported as sent does not stay out, unless
   a half frame before it holds it back, and then only until that half has the
   bytes it announces. *)
THEOREM ReportedArrive == SendSpec => []ReportedFramesArrive
<1>1. SendIInv => ReportedFramesArrive
  BY HeldBackByAHalf DEF ReportedFramesArrive
<1> QED BY <1>1, SendInductive, PTL

=============================================================================
