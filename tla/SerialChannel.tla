---------------------------- MODULE SerialChannel ----------------------------
(***************************************************************************)
(* ou::SerialChannel (src/serial_channel.cpp) as an owner of a descriptor: *)
(* open goes through six system calls and may fail at three of them, the   *)
(* destructor closes, recv_bytes reads what the tty has received.  Between *)
(* two system calls of one channel anything may happen to the devices: a   *)
(* line delivers bytes, an adapter is pulled out and plugged in again,     *)
(* another channel opens the same device.  What send writes is             *)
(* SerialSend's.                                                           *)
(*                                                                         *)
(* A received byte is modelled by the settings it was received with: the   *)
(* number of the tcsetattr that was last, 0 when there was none since the  *)
(* device appeared.                                                        *)
(***************************************************************************)
EXTENDS Integers, Sequences, FiniteSets

CONSTANTS
  Channels,
  Devices,      \* names open may be given
  Ttys,         \* those that are serial lines; tcgetattr fails on the others
  Bauds,        \* rates open may be given
  MaxFds,       \* descriptors the process may have
  None,         \* no descriptor, no device
  ReadSize,     \* the buffer of recv_bytes (4096 in the code)
  RxSize,       \* bytes a tty holds
  MaxOps        \* bounds: how many operations of each kind

OpKinds == { "open", "destroy", "unplug" }

Request == Devices \X Bauds

(* The rates baud_to_constant has a constant for. *)
KnownBauds == {9600, 19200, 38400, 57600, 115200, 230400, 460800, 921600}

ASSUME SerialAssumption ==
  /\ Ttys \subseteq Devices /\ Bauds \subseteq Int
  /\ MaxFds \in Nat /\ None \notin 1..MaxFds \union Devices
  /\ ReadSize \in Nat \ {0} /\ RxSize \in Nat \ {0} /\ MaxOps \in [OpKinds -> Nat]

VARIABLES
  fd,        \* impl_->fd, None for -1
  open,      \* impl_->open
  step,      \* "idle", or the system call open makes next
  present,   \* devices that are plugged in
  settings,  \* kernel: device -> number of the last tcsetattr on it
  rx,        \* kernel: device -> bytes received and not read
  file,      \* kernel: descriptor -> its device, None once that is gone; only open ones
  setups,    \* kernel: how many tcsetattr there were
  mine,      \* history: the channel's own tcsetattr
  handed,    \* history: the bytes recv_bytes last returned
  ops        \* history: how many operations of each kind have run

implVars   == << fd, open, step >>
kernelVars == << present, settings, rx, file, setups >>
histVars   == << mine, handed >>
vars       == << implVars, kernelVars, histVars, ops >>

Init ==
  /\ fd = [c \in Channels |-> None]
  /\ open = [c \in Channels |-> FALSE]
  /\ step = [c \in Channels |-> "idle"]
  /\ present = Devices
  /\ settings = [d \in Devices |-> 0]
  /\ rx = [d \in Devices |-> << >>]
  /\ file = << >>
  /\ setups = 0
  /\ mine = [c \in Channels |-> 0]
  /\ handed = [c \in Channels |-> << >>]
  /\ ops = [k \in OpKinds |-> 0]

Op(kind) == ops[kind] < MaxOps[kind] /\ ops' = [ops EXCEPT ![kind] = @ + 1]

FreeFds  == 1..MaxFds \ DOMAIN file
NewFd(f) == f \in FreeFds /\ \A g \in FreeFds : f <= g

(* The device of an open descriptor; None after a hang-up. *)
DeviceOf(c) == file[fd[c]]

Close(f) == file' = [g \in DOMAIN file \ {f} |-> file[g]]

-----------------------------------------------------------------------------
(* open *)

(* An open channel says yes to any device and rate, and stays where it is. *)
OpenAgain(c) ==
  /\ open[c]
  /\ UNCHANGED << implVars, kernelVars, histVars >>

(* No constant for the rate, or ::open fails: no such device, no descriptor, no
   permission. *)
OpenRefused(c) ==
  /\ ~open[c]
  /\ UNCHANGED << implVars, kernelVars, histVars >>

OpenDevice(c, req) ==
  /\ ~open[c]
  /\ req[2] \in KnownBauds /\ req[1] \in present
  /\ \E f \in FreeFds :
       /\ NewFd(f)
       /\ fd' = [fd EXCEPT ![c] = f]
       /\ file' = [g \in DOMAIN file \union {f} |-> IF g = f THEN req[1] ELSE file[g]]
  /\ step' = [step EXCEPT ![c] = "fcntl"]
  /\ UNCHANGED << open, present, settings, rx, setups, histVars >>

Open(c, req) ==
  /\ Op("open")
  /\ step[c] = "idle"
  /\ OpenAgain(c) \/ OpenRefused(c) \/ OpenDevice(c, req)

(* The descriptor is made blocking, or stays as it is: the results of fcntl do not
   end open. *)
Fcntl(c) ==
  /\ step[c] = "fcntl"
  /\ step' = [step EXCEPT ![c] = "tcgetattr"]
  /\ UNCHANGED << fd, open, kernelVars, histVars, ops >>

(* Mutants of GiveUp: the descriptor stays open; it stays in fd. *)
GiveUpLeaks(c) ==
  /\ fd' = [fd EXCEPT ![c] = None]
  /\ step' = [step EXCEPT ![c] = "idle"]
  /\ UNCHANGED << open, present, settings, rx, file, setups, histVars, ops >>

GiveUpKeepsFd(c) ==
  /\ Close(fd[c])
  /\ step' = [step EXCEPT ![c] = "idle"]
  /\ UNCHANGED << fd, open, present, settings, rx, setups, histVars, ops >>

GiveUp(c) ==
  /\ Close(fd[c])
  /\ fd' = [fd EXCEPT ![c] = None]
  /\ step' = [step EXCEPT ![c] = "idle"]
  /\ UNCHANGED << open, present, settings, rx, setups, histVars, ops >>

(* It fails on what is no tty or is gone, and may fail on a tty. *)
TcGetAttrFails(c) == step[c] = "tcgetattr" /\ GiveUp(c)

TcGetAttr(c) ==
  /\ step[c] = "tcgetattr" /\ DeviceOf(c) \in Ttys
  /\ step' = [step EXCEPT ![c] = "tcsetattr"]
  /\ UNCHANGED << fd, open, kernelVars, histVars, ops >>

TcSetAttrFails(c) == step[c] = "tcsetattr" /\ GiveUp(c)

TcSetAttr(c) ==
  /\ step[c] = "tcsetattr" /\ DeviceOf(c) \in Ttys
  /\ setups' = setups + 1
  /\ settings' = [settings EXCEPT ![DeviceOf(c)] = setups + 1]
  /\ mine' = [mine EXCEPT ![c] = setups + 1]
  /\ step' = [step EXCEPT ![c] = "tcflush"]
  /\ UNCHANGED << fd, open, present, rx, file, handed, ops >>

(* Mutant of TcFlush: it is left out. *)
TcFlushNothing(c) ==
  /\ step[c] = "tcflush"
  /\ open' = [open EXCEPT ![c] = TRUE]
  /\ step' = [step EXCEPT ![c] = "idle"]
  /\ UNCHANGED << fd, kernelVars, histVars, ops >>

(* tcflush, whose result is not looked at, and true. *)
TcFlush(c) ==
  /\ step[c] = "tcflush"
  /\ rx' = [d \in Devices |-> IF d = DeviceOf(c) THEN << >> ELSE rx[d]]
  /\ open' = [open EXCEPT ![c] = TRUE]
  /\ step' = [step EXCEPT ![c] = "idle"]
  /\ UNCHANGED << fd, present, settings, file, setups, histVars, ops >>

-----------------------------------------------------------------------------
(* The channel is destroyed and a new one made in its place. *)
Destroy(c) ==
  /\ Op("destroy")
  /\ step[c] = "idle" /\ fd[c] # None
  /\ Close(fd[c])
  /\ fd' = [fd EXCEPT ![c] = None]
  /\ open' = [open EXCEPT ![c] = FALSE]
  /\ mine' = [mine EXCEPT ![c] = 0]
  /\ handed' = [handed EXCEPT ![c] = << >>]
  /\ UNCHANGED << step, present, settings, rx, setups >>

(* recv_bytes, when there is something to read.  (With nothing, or after a
   hang-up, it returns nullopt and changes nothing.) *)
Receive(c) ==
  /\ step[c] = "idle" /\ open[c] /\ DeviceOf(c) \in Ttys
  /\ LET d == DeviceOf(c)
         n == IF Len(rx[d]) < ReadSize THEN Len(rx[d]) ELSE ReadSize
     IN  /\ rx[d] # << >>
         /\ handed' = [handed EXCEPT ![c] = SubSeq(rx[d], 1, n)]
         /\ rx' = [rx EXCEPT ![d] = SubSeq(@, n + 1, Len(@))]
  /\ UNCHANGED << implVars, present, settings, file, setups, mine, ops >>

-----------------------------------------------------------------------------
(* The devices. *)
Arrive(d) ==
  /\ d \in Ttys \cap present /\ Len(rx[d]) < RxSize
  /\ rx' = [rx EXCEPT ![d] = Append(@, settings[d])]
  /\ UNCHANGED << implVars, present, settings, file, setups, histVars, ops >>

Unplug(d) ==
  /\ Op("unplug")
  /\ d \in present
  /\ present' = present \ {d}
  /\ rx' = [rx EXCEPT ![d] = << >>]
  /\ settings' = [settings EXCEPT ![d] = 0]
  /\ file' = [f \in DOMAIN file |-> IF file[f] = d THEN None ELSE file[f]]
  /\ UNCHANGED << implVars, setups, histVars >>

Plug(d) ==
  /\ d \in Devices \ present
  /\ present' = present \union {d}
  /\ UNCHANGED << implVars, settings, rx, file, setups, histVars, ops >>

Next ==
  \/ \E c \in Channels, req \in Request : Open(c, req)
  \/ \E c \in Channels : Fcntl(c)
  \/ \E c \in Channels : TcGetAttrFails(c)
  \/ \E c \in Channels : TcGetAttr(c)
  \/ \E c \in Channels : TcSetAttrFails(c)
  \/ \E c \in Channels : TcSetAttr(c)
  \/ \E c \in Channels : TcFlush(c)
  \/ \E c \in Channels : Destroy(c)
  \/ \E c \in Channels : Receive(c)
  \/ \E d \in Devices : Arrive(d)
  \/ \E d \in Devices : Unplug(d)
  \/ \E d \in Devices : Plug(d)

Spec == Init /\ [][Next]_vars

-----------------------------------------------------------------------------
TypeOK ==
  /\ fd \in [Channels -> DOMAIN file \union {None}]
  /\ open \in [Channels -> BOOLEAN]
  /\ step \in [Channels -> {"idle", "fcntl", "tcgetattr", "tcsetattr", "tcflush"}]
  /\ present \subseteq Devices
  /\ settings \in [Devices -> 0..setups] /\ mine \in [Channels -> 0..setups]
  /\ rx \in [Devices -> Seq(0..setups)] /\ handed \in [Channels -> Seq(0..setups)]
  /\ DOMAIN file \subseteq 1..MaxFds
  /\ \A f \in DOMAIN file : file[f] \in Devices \union {None}
  /\ setups \in Nat
  /\ ops \in [OpKinds -> Nat] /\ \A k \in OpKinds : ops[k] <= MaxOps[k]

(* Every descriptor belongs to one channel, and a channel has one exactly when
   it is open or being opened: an open that fails half-way, also because the
   device goes in between, leaks none, and leaves no number behind that the
   destructor would close once another channel has been given it. *)
DescriptorsAreOwned ==
  /\ DOMAIN file = { fd[c] : c \in { e \in Channels : fd[e] # None } }
  /\ \A c, e \in Channels : c # e /\ fd[c] # None => fd[c] # fd[e]
  /\ \A c \in Channels : fd[c] # None <=> open[c] \/ step[c] # "idle"

(* What recv_bytes returns was received with the settings open made, or with
   later ones: bytes that came before (at another rate, or cooked by the line
   discipline) are flushed, however they race with open. *)
ReadsWhatItSetUp ==
  \A c \in Channels : \A i \in 1..Len(handed[c]) :
    mine[c] > 0 /\ handed[c][i] >= mine[c]

=============================================================================
