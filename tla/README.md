# Verification of ou_sdk

TLA+ models, model-checking runs and machine-checked proofs for the underwater
robot SDK in this repository (`src/`, `include/ou/`, protocol v0.2.0). Paths are
those of the repository. Every definition is translated from the C++; comments
in the modules name the function, and `PROJECT.json` ("map") the lines.

## 1. Inventory

Three layers, each a library: *proto* (bytes of frames), *channel* (moving bytes
over UDP or a serial line) and *link* (frames over a channel).

| component | state it keeps | operations | interacts with |
|---|---|---|---|
| frame format (`src/protocol.cpp:12-89`) | none | `encodeFrame`, `validateFrameHeader`, LE words | called by the codec and by `decode<Pkt>` |
| CRC-16/MODBUS (`src/protocol.cpp:94`) | none | `crc16` | called by everything that builds or checks a frame |
| packet codec (`src/protocol.cpp:112-224`) | none | `encodeCmd/Tele`, `decodeCmd/Tele` | offsets come from the schema by hand |
| `FrameParser` | `buf_` | `feed`, `reset`, `next_frame` | a member of `FrameLink` |
| `UdpChannel` | `sock`, `open`, `peer_*`, `local_port` | `bind`, `set_peer`, `send`, `recv_bytes`, destructor | sockets, ports, the network; learns its peer from what it receives |
| `SerialChannel` | `fd`, `open` | `open`, `send`, `recv_bytes`, destructor | a tty |
| `FrameLink`, `SerialFrameLink` | `parser_` | `send_frame`, `recv_frame` | a channel it does not own, a parser it does |
| `UdpFrameLink` | nothing of its own | `recv_frame` (datagram = frame) | a `UdpChannel` |
| `recv_frame_as<Pkt>` | a deadline, during the call | loop over `recv_frame` | the virtual `recv_frame`, `decode<Pkt>` |
| `tools/codegen.py`, `tools/golden_gen.py` | files under `generated/` | schema → headers, docs, `.msg`, golden vectors | the schema; each other's output in the tests |
| schema, checked-in headers | data | read by the codec's authors, the firmware's build, the tests | made by the generators, by hand: no build or CI step runs them |
| `examples/` | where `main` is | bind, set peer, send one command; bind, wait 5 s for telemetry | `UdpChannel`, `UdpFrameLink` |
| tests, build, CI, docs | – | – | – |

No object is shared between threads by the SDK itself. What makes it hard:

* **cuts and noise** – frames arrive in pieces of any size, with noise, false
  headers, damage and frames inside payloads; the parser must resynchronise
  without losing, doubling or holding back frames;
* **time** – two nested loops with absolute deadlines, each truncated to
  milliseconds, around a `poll` that wakes for bytes that make no frame;
* **what survives a call** – bytes of half a frame, datagrams in the socket;
* **the network and restarts** – datagrams are lost, doubled, reordered; a
  partner restarts on another port; a peer that was set is also learned;
* **partial failure** – `bind` and `open` in several steps, short writes, a
  generator that fails between two files or inside one;
* **copies** – the packet layout stands in the schema, in two headers, in the
  codec's order and offsets, and in a second encoder in Python.

What makes each component right: the parser returns exactly the frames of the
stream, with bounded backlog; a call keeps its deadline and leaves everything
it did not hand out to the next call; both links accept the same frames; a
channel owns exactly one socket while open and none otherwise, and a pair of
channels finds each other again after a restart; all copies of the layout agree;
a generator that reports success has left everything current, and one that fails
has a reason; no two receivers wait on one port.

## 2. Modules

| module | models | extends / uses |
|---|---|---|
| `Protocol` | the frame format: encoding, the reads of a candidate frame, `IsDatagramFrame`, `ValidateFrameHeader`; `NextFrame`, the parser as a function of its buffer, and `FramesIn`, the frames of a whole byte string. The checksum is the parameter `Crc16` | – |
| `Crc` | `crc16`, bit by bit; `golden_gen.py`'s own loop, `golden_crc16` | – |
| `FrameStream` | abstract: a cursor over a byte stream that passes an offset only when refuted or as part of a delivered frame | `Protocol` |
| `FrameParser` | `FrameParser`: `Feed`, `Reset`, `CallNextFrame`, and one action per branch of `next_frame`'s loop (`TooShort`, `NoStx`, `HalfHeader`, `BadVersion`, `HalfPayload`, `BadCrc`, `GoodFrame`) | `Protocol`, instance of `FrameStream` |
| `ProtocolProofs` | lemmas about the frame format, for every proof below: a candidate read behind an offset, what later bytes cannot change, `NextFrame`, `FramesIn`; theorems about `EncodeFrame` | `Protocol`, `TLAPS` |
| `FrameParserProofs` | theorems about `FrameParser` | `FrameParser`, `ProtocolProofs` |
| `LinkCall` | a receiving call: clock, `recv_frame_as`' loop (`Call`, `AsTurn`, `Got`, `GotNone`), the start of `poll` | `Protocol` |
| `StreamLink` | `FrameLink::recv_frame` over a byte stream: `Enter`, `ParserHasFrame`, `ParserIsDry`, `Poll`, `ReadBytes`, `PollTimesOut`, `RecvFails`; the line (`Arrive`) | `LinkCall` |
| `DatagramLink` | `UdpFrameLink::recv_frame`: `Enter`, `Poll`, `ReadDatagram`, `PollTimesOut`, `RecvFails`; the network (`Post`, `Deliver`, `DeliverCopy`) | `LinkCall` |
| `UdpChannel` | `UdpChannel` objects, `bind` with a step for each system call (`Bind`, `PortBound`, `PortRefused`), with descriptors, ports, socket queues and a network | – |
| `SerialChannel` | `SerialChannel` objects with descriptors and ttys: `Open` and a step for each system call behind it (`Fcntl`, `TcGetAttr`, `TcSetAttr`, `TcFlush`, with their failures), `Destroy`, `Receive`; devices that are unplugged and come back | – |
| `LinkCallProofs` | lemmas about a receiving call: clock arithmetic, truncation to milliseconds, what each step of `recv_frame_as` preserves | `LinkCall`, `ProtocolProofs` |
| `StreamLinkProofs`, `DatagramLinkProofs` | theorems about the two links | the link, `LinkCallProofs` |
| `ExamplesProofs` | theorems about `UdpChannel` and about the programs that use it | `Examples`, `TLAPS` |
| `SerialChannelProofs` | theorems about `SerialChannel` and `SerialSend` | these two, `ProtocolProofs` |
| `SerialSend` | `send` with short writes, and the parser at the other end: `Send`, `LineArrives`, `TakeFrame` | `Protocol` |
| `Layout` | the packets of the schema and `compute_layout` | – |
| `Artifacts` | what is checked in: offsets of `ou/protocol.hpp`, macros and packed structs of `ou_protocol.h`; `golden_gen.py`'s encoder | `Layout` |
| `Codec` | `encodeCmd`, `encodeTele`, `decodeCmd`, `decodeTele`, with a frame that may be hurt between them | `Protocol`, `Layout`, `Artifacts` |
| `Generators` | runs of `codegen.py` and `golden_gen.py`: `Start` (load, validate), `RenderFails`, `ReadFails`, `WriteIfChanged`, `Written`, `Finish`, `BreakOff`; `Edit` of the schema | – |
| `SchemaProofs` | theorems about `Generators` and `Codec` | these two, `ProtocolProofs` |
| `Examples` | the two example programs as processes, their channels those of `UdpChannel` | `UdpChannel` |
| `MC*` | constants for TLC: real checksums, streams, lines, datagrams, packets | the module of that name |

State and code. In `FrameParser`, `buf` is `buf_`; `fed` and `taken` are
history. Offsets are the code's (`b[p + 1]` is the byte at offset `p`). A turn of
the `while` loop is a step, so that a proof can speak about it; nothing can run
between two turns, and every operation's guard says so. In the links, `pc` is
where the call is ("as": top of `recv_frame_as`' loop, "enter": top of
`recv_frame`, "parse": before `next_frame`, "recv"/"poll": in `recv_bytes`),
`due` and `deadline` are the two deadlines, `arg` the milliseconds passed down,
`buf` is `parser_`. The links use `NextFrame` for the parser's loop;
`CallIsNextFrame` (run *parser*, theorem `CallIsFunction`) is what justifies it. In `UdpChannel`, `sock`,
`open`, `peer` are the members of `Impl` (`peer` is `None` while `peer_known` is
false), and `asked` the port of a `bind` that has its socket and is before `::bind`;
`portOf` and `inbox` are the kernel's.

In `SerialChannel`, `fd` and `open` are the members of `Impl`, `step` the system
call `open` makes next; `settings`, `rx` and `file` are the kernel's. A received
byte is only the number of the `tcsetattr` it came after, which is all that
`ReadsWhatItSetUp` looks at. In `SerialSend` a write may stop at any byte; `written` and `whole` are history,
the bytes that were written and where in them the reported frames start. In
`Codec` the hand-written parts of `protocol.cpp` are tables (`CmdPuts`: the order
of the put calls, `CmdGets`: the offsets of the get calls), a float is the two
halves of its bit pattern.

In `Generators`, `disk` says of each file whether it is absent, cut short (`Torn`
between two characters, `Mangled` inside one, which `read_text` then raises on), or which
version and packets its text has; a text has the version the template gives
it (`protocol.md` and the golden vectors say 2 whatever the schema says). A schema
is its version, its packets as one value, and what is wrong with it: `Flaws` lists
one case for each place where a run raises, before the first file or in the
template of a later one. `write_if_changed` is two steps, since `write_text`
truncates before it writes. In `Examples` a statement of `main` that calls the
channel is a step (`bind` is two, its system calls), and so is the channel's
destructor at each `return`;
`recv_frame_as` is one step for each datagram it reads, which is what `LinkCall`
and `DatagramLink` have it do.

Time. The clock counts `TicksPerMs` ticks to a millisecond and moves while a
call waits in `poll`, and at most `MaxSlip` ticks a call elsewhere: the thread
may be preempted between any two statements. Between calls it stands; calls only
look at differences. Counts wrap at `HalfClock` (2^63 in the code), so that
`now + timeout` does what it does there; `due` keeps the time that was asked for.

External parts are marked as such in the map: the serial line, the UDP network
and its sockets, `poll` and the clock. The network loses, doubles and reorders;
a full socket queue drops.

## 3. Runs

| run | question | bounds, and why they are enough | states |
|---|---|---|---|
| `parser` | Are exactly the frames of the stream returned, however it is cut? Does every call return? Is `FrameStream` implemented? | streams of up to 3 of 11 pieces (frames, a frame in a payload, start bytes in a payload, damaged ones, another version, half a start pair, noise, a frame cut short, a header that announces 200 bytes), up to 22 bytes; every cut. Three pieces put something before and behind every piece; 22 bytes hold a nested frame and two more pieces | 360 thousand |
| `stream_link` | Deadline, no loss across calls, no waiting with a frame in hand | lines of 2 of 5 frames (wanted, other type, right type and wrong size, no payload, damaged), each in two chunks; timeouts 0, 1, 2 ms at 2 ticks; 7 ticks (two calls that wait); reads of 10 bytes, less than two frames; 1 tick of preemption a call, 1 failed read | 3.3 million |
| `endless_wait` | Does a call that timed out wait as long as it was asked to, with the longest timeout the type has? (violated) | 1 frame; timeouts 0, 1 and 15 ms, 15 being the last a count of the run's width holds | – |
| `datagram_link` | Deadline, order, same frames as the stream parser | 2 of 7 datagrams, 1 copy, a queue of 2 (the third is dropped), timeouts 0 and 2 ms | 2.6 million |
| `malformed_datagram` | Does `recv_frame_as` wait on after a datagram that is no frame? (violated) | 1 datagram | – |
| `udp_channel` | Does every descriptor belong to one channel, open or within `bind`? Does a channel find its partner again? | 2 channels, 3 ports (a partner can come back elsewhere), 2 descriptors, a stranger, 3 binds, 1 destruction, 2 `set_peer`, 1 datagram doubled or sent by the stranger; descriptors run out and ports are taken in it. `socket` and `::bind` may fail at any time | 629 thousand |
| `explicit_peer` | Is a peer kept once it was set or learned? (violated) | 1 channel | – |
| `serial_channel` | Does every descriptor belong to one channel? Is nothing read from before the settings? | 3 channels, 2 descriptors, a tty and a device that is none, a rate that is known and one that is not, 5 opens, 3 destructions, a device pulled out twice, 2 bytes in the tty; every system call may fail at any time | 78 thousand |
| `serial_send` | What does the other end make of short writes? | 3 frames (short, with a start pair in the payload, ending in AA), 3 sends, 2 of them short, at every byte: a half frame, a retry or another frame behind it, and a third | 29 thousand |
| `codec` | Do encoders, decoders, schema, both headers and the golden encoder agree? Is damage seen? | both packets with all payload bytes different (every offset mistake shows) and with top bits set; every byte and every two neighbours hurt in three ways, every prefix, two tails; one telemetry packet that can be hurt into a command | 20 thousand |
| `generators` | What is on disk after runs that succeed, fail, or break off? What may a failure be put down to? | both programs, 2 versions (one is not the hard-wired 2), 2 packet layouts, all flaws, 2 runs of each and an edit of the schema between any two steps: a run over what a broken or older one left. The packet layouts are interchangeable (symmetry) | 4.3 million |
| `examples` | Can receivers share a port? | a sender and two receivers after one port, 4 starts, 2 strangers (telemetry, no frame), 2 datagrams of theirs or doubled | 1.5 million |

`ReadSize`, `QueueSize`, `MaxFds` stand for 4096 bytes, the kernel's receive
buffer and the process limit; they are small so that they are met.
The runs on `UdpChannel`, `SerialChannel`, `SerialSend`, `Codec`, `Generators` and
`Examples` do not check for deadlock: when the bounded operations are used up and
no datagram is left, the system really is at rest.

**Fairness.** `FrameParser!FairSpec` has weak fairness on the turns of
`next_frame`'s loop: straight code that keeps running once it is called. `UdpChannel!FairSpec` has weak fairness on each
channel's `Send` and `Receive` (its user keeps calling them, as the examples
do) and strong fairness on delivery to a channel: a network that does not lose
everything that is sent again and again. Nothing is assumed of the
strangers. `Examples` and the links have no liveness property: that a receiver ends
rests on the deadline of `recv_frame_as`, and `DeadlineKept` bounds every call by the clock, which says more.

**Short writes.** `serial_send` shows that a sender which repeats a frame that
was cut short is understood, with one exception: if what follows half a frame
makes a valid frame of it (`HalvesAreRefused` fails), the half is returned although
`send` reported false, and the frames that completed it are lost although `send`
reported true. That happens when a write stopped in front of a byte AA, for
which the start byte of the next frame is then taken; `HalvesLackAByteAA` is that it
happens only then, with the code's checksum. `OnlyReportedFramesArrive` and
`ReportedFramesArrive` say what holds when no half frame passes, and are proved for
every checksum. Frames behind a half frame are held back until as many bytes have
come as that one announces.

**What was found.** Three places do something else than the repository says
(`PROJECT.json`, "findings"): a call with a timeout the clock cannot add to now,
such as `milliseconds::max()`, returns at once (`frame_link.cpp:22` against
`frame_link.hpp:28`; run `endless_wait`); a malformed datagram ends
`recv_frame_as` (`frame_link.hpp:33`); any datagram replaces the peer, not the
first only (`udp_channel.cpp:198`, `udp_channel.hpp:19`). Modelled, and worth
knowing:

* After a bad checksum the parser drops one byte and searches inside the frame it
  rejected; `generated/docs/protocol.md:94` says it skips to the next frame
  boundary. `NoFrameLost` and `CallIsNextFrame` state what it does.
* What is left until a deadline is truncated to milliseconds, so a call may give
  up to 1 ms early (2 ms in `recv_frame_as`), and a 1 ms call may return without
  reading the channel. `TimeoutIsNotEarly` allows for this.
* `validateFrameHeader` looks for the checksum where the length byte puts it, and
  the two packets differ in length. A telemetry frame whose length and type bytes
  are both damaged into a command's is checked against the two bytes of payload
  (of `percent`) at the end of a command: it decodes as a command if they happen to fit (one
  in 65536). `DamageIsDetected` names this case (`TakenForCmd`), and the proof of
  `DamageDetected` shows that it is the only one.
* `bind` and `open` on an open channel return true and leave it where it is
  (`BindAgain`, `OpenAgain`), also when a serial channel's device is gone, so such
  a channel can only be replaced.
* A schema without `frame.crc`, or with a `count` that is text, passes validation
  and ends `codegen.py` behind the headers: they are then new, the document and
  the messages old. `TwinsAgree` says what still holds.
* A generator that is killed while it writes may leave a file cut inside a character
  (all of them have text that is not ASCII). Such a file is not UTF-8:
  `write_if_changed` raises when it reads it, and every further run ends there until it is
  deleted. Absent and truncated files are made again; `FailsOnlyForCause` states both.

## 4. Proofs

All theorems hold for every value of the constants that the named assumptions of
the modules allow (`WiresAssumption`, `LinkAssumption`, ...), and TLC evaluates those
in the runs. Together they lead from the bytes of a frame to a caller's
frames: `EncodedStreamIsRead` (frames sent back to back are the frames in the
bytes), `CallIsFunction` (`next_frame` is the function `NextFrame`), and
`NothingIsLost` (calls on a link that uses `NextFrame` take the frames in the
bytes that came).

### The frame format

`ProtocolProofs` holds the lemmas the parser and the links share, and two
theorems of its own, about what `encodeFrame` makes of up to 255 bytes:

| theorem | says |
|---|---|
| `EncodedIsFrame` | it is accepted by `UdpFrameLink`'s check and by `validateFrameHeader`, and `NextFrame` returns it from any buffer it is in front of |
| `EncodedStreamIsRead` | of any number of them, one behind the other, `FramesIn` returns exactly these |

They assume of the checksum only `CrcIsWord`, that it is a 16-bit number, as the
`uint16_t` of `crc16` is. `FramesIn` is a recursive function of offsets;
the library's theorems on recursion and induction take an operator as
parameter and cannot be used, so that it exists, is unique and has the values
its equation gives (`Found*`) is proved here, and every induction is an argument about the
least offset, or the least number of frames, where something fails
(`LeastElement`, from the well-foundedness of the naturals).

### The parser

`FrameParserProofs` proves about `FrameParser!Spec`, for **every** checksum
`Crc16` and every set of streams `Wires`, from the one assumption that streams are
sequences of bytes:

| theorem | says |
|---|---|
| `TypeCorrect` | the type invariant |
| `BufferIsTail` | `buf_` is the unread end of what was fed |
| `FramesAreValid` | what is returned stands in the stream, valid, disjoint, in order |
| `NothingLost` | an offset is passed only inside a returned frame or when refuted |
| `Backlog`, `BacklogIsBounded` | after nullopt less than one frame is held: under 262 bytes |
| `CallIsFunction` | a call returns the frame `NextFrame` finds in what was not read yet, leaves what that leaves, and returns nothing only when it finds nothing |
| `SameInOneFeed` | a caller that reads until nullopt gets the frames of the stream fed at once, however it was cut |
| `Implements` | the parser implements `FrameStream` (refinement: `cursor` = bytes erased) |

The inductive invariant is the conjunction of the first four (`IInv`, theorem
`Inductive`): that a returned frame is valid *in the stream* needs that the
buffer is its tail, and that no frame is lost needs both. The argument: what
the code reads of the buffer at offset `p` it reads of the stream at
`Cut + p` (lemmas `Agree*`, `CandidateAgrees`); a validity or refutation of bytes
that have arrived is not changed by bytes that arrive later (`Stable`); the
scan passes only offsets without a start pair, which are refuted
(`ScanRefutes`); a turn of the loop therefore erases refuted offsets, and at
most one frame, which it returns (`TurnEffect`, `GivesUpIInv`, `ReturnsIInv`).

`CallIsFunction` adds `CallInv`: what a call has erased so far is refuted
(`SkippedIsRefuted`), so that the first offset that is not refuted, which is
where `NextFrame` looks, is the same before and after a turn. `SameInOneFeed`
adds `FramesInv`, which has to speak of bytes that have not come yet: for every `x`,
the frames in `fed \o x` are those taken and then those in `buf \o x`. With
`x` empty only, a feed could not be shown to keep it.

### The links

`LinkCallProofs` has what is common to them: `CallIInv`, kept by every step of a
call (a lemma each). It is the types, `CallInTime` (wherever the call is, what it
still waits for ends by the time it was given plus the ticks its thread lost) and
`CallNotEarly` (nor can it give up before the truncations to milliseconds allow).

| theorem | `StreamLink` | `DatagramLink` |
|---|---|---|
| `TypeCorrect` | the type invariant | the type invariant |
| `DeadlineIsKept` | a call ends by its deadline, plus the ticks its thread lost | the same |
| `TimesOutWhenDue` | a call that times out has waited, but for 1 ms (2 ms in `recv_frame_as`) | the same |
| `NothingIsLost` | the frames that calls take are the first of the stream, without a gap | – |
| `WaitsForNewBytes` | no call waits while the parser holds a frame | – |
| `ReadsAreInOrder` | – | datagrams are read in the order they were queued, each once |
| `LinksAgree` | – | a datagram is let through exactly when the parser, fed with it alone, returns all of it |

`DeadlineIsKept` needs nothing of the timeouts: a deadline that wraps is one in the
past. `TimesOutWhenDue` states `TimeoutIsNotEarly` under `TimeoutsFit`: no timeout is
longer than `poll` can wait, and the clock can add that much to any time it
reaches. In the code these are `INT_MAX` ms (24 days), and 292 years of
nanoseconds. Without it the property is false, which is what the run
`endless_wait` shows; `stream_link` and `datagram_link` satisfy it.

`StreamLink`'s invariant adds that `recv_frame`'s own deadline lies between the two
bounds of the call (`TimeIInv`), and `BytesIInv`: there is a prefix `read` of the
bytes that came, the descriptor has the rest, and for every `x` the frames in
`read \o x` are those taken and then those in `buf \o x`. As in the parser it
quantifies over what may come, since a read may stop inside a frame;
and it survives a call that times out, fails or skips, because these change
neither `buf` nor what was taken. `DatagramLink`'s adds `ReadsInOrder` and that what was let
through is what the check accepts (`FatesAreChecked`); that the check and the
parser accept the same is then a lemma about bytes (`DatagramIsNextFrame`).

### The UDP channel and the examples

`ExamplesProofs` proves about `UdpChannel!Spec` and `Examples!ExSpec`, for any
channels, ports, descriptors, programs and strangers:

| theorem | says |
|---|---|
| `TypeCorrect`, `ExTypeCorrect` | the type invariants (TLC checks that of the channels only) |
| `SocketsOwned` | every descriptor belongs to one channel, open or within `bind`, and no port is held twice, wherever `bind` fails |
| `UsesItsChannels` | what the programs do to the channels is a behaviour of `UdpChannel!Spec` |
| `ReceiversApart` | receivers never wait on one port, and each waits on the one it was given |

Types and ownership are inductive only together, with `BindsAreOrdered` (an open
channel is not within `bind`, and has one of the ports) as the third part of `IInv`: closing a
descriptor keeps the others' types because it was nobody else's. The programs
add where each of them is, and when its channel is open (`ProgramsAreOrdered`,
`WaitsOnItsPort`); `ReceiversApart` follows from ownership of the ports.

### The serial channel

`SerialChannelProofs` proves about `SerialChannel!Spec`, for any number of
channels, devices, rates and descriptors, with or without the bounds of the run:

| theorem | says |
|---|---|
| `TypeCorrect` | the type invariant; a descriptor a channel holds is open |
| `DescriptorsOwned` | no descriptor is leaked or shared, wherever `open` fails |
| `ReadsAreRecent` | nothing is read that came before the channel's settings |

It assumes only that `None` is none of the other values and that bounds and
sizes are numbers. None of the three is inductive alone. Closing a descriptor
keeps the types because no other channel holds it; a byte that is read is recent
because what waits in the tty is (`SettingsAreRecent`), which holds because
`tcflush` empties it when the channel opens and because what comes later carries
settings at least as late as the channel's; and a channel has handed out nothing
before it is open (`StepsAreOrdered`). `IInv` is the conjunction of the five, and
has a lemma for each action.

Of frames over the line, `SerialSend!SendSpec`, it proves for **every** checksum,
all frames that `encodeFrame` makes, and writes that stop at any byte:

| theorem | says |
|---|---|
| `SendTypeCorrect` | the type invariant; no call reports a frame and a short write |
| `OnlyReportedArrive` | what comes out is what was reported as sent, once each and in order, if no half frame passes for a frame |
| `ReportedArrive` | what was reported and is not out is held back by a half frame that announces more than has come |

`SendIInv` adds where the bytes are: those behind the parser's place in `written`
are its buffer and then the line (`BehindRead`), the reported frames lie in `written`
apart and valid (`FramesLieApart`), and what lies between them is halves only
(`NothingElseIfWhole`: none, unless a write was short). Its main part,
`TakenFromTheFront`, says that the parser's place is in front of the first
reported frame it has not returned. It is kept because an offset is passed only
when refuted or as a returned frame (`ProtocolProofs`), because a frame that was written
whole is never refuted, and because with `HalvesAreRefused` no frame is valid at any
other place. Its premise is about all bytes that are written, and what was
refuted stays so when more is written (`Stable`).

### The generators

`SchemaProofs` proves about `Generators!Spec`, for any versions (2 among
them), packets, edits and runs, wherever runs break off:

| theorem | says |
|---|---|
| `TypeCorrect` | the type invariant |
| `OkIsCurrent` | a run that ends well leaves all its files current |
| `FailuresExplained` | a run that ends in an error did so over a flaw of its schema or a file that was cut inside a character |
| `TwinsTogether` | the two headers, and the two golden files, agree unless a run broke off |
| `CurrentStays` | files that are current are not touched (an action property) |

None of them is inductive alone. `IInv` (theorem `Inductive`) adds that a running
program has not ended yet, that the files behind it are done (`BehindIsDone`), that
the one it has open is cut short (`OpenIsTorn`), that a file cut inside a character is
what a broken-off run left (`MangledIsBroken`), and that twins differ only while
a run is at them (`TwinsDifferInPassing`). The argument rests on three facts about
the lists of files: no file is in both or twice (`OutputsDiffer`), twins come first
and render alike, and no template of a twin raises (`TwinsRenderAlike`). The steps
that go on to the next file, open one, or end have a lemma each (`AdvanceIInv`,
`OpenIInv`, `EndIInv`).

### The packet codec

`SchemaProofs` also proves about `Codec!CodecSpec`, for every packet whose fields
have the types and counts of the schema, every damage to a byte or two
neighbours, and every tail; all from `CrcIsWord`, and what is named here:

| theorem | says | assumes also |
|---|---|---|
| `RoundTrips` | a packet decodes to itself, and to nothing as the other kind | – |
| `FieldsAreThere` | its fields are where `compute_layout` and `protocol.hpp` say | – |
| `FirmwareReads` | the structs and macros of `ou_protocol.h` read them | – |
| `GoldenEncoded` | `golden_gen.py`'s encoder makes the same frame | its checksum is the code's (the run gives it its own loop, and TLC compares the two on short strings) |
| `DamageDetected` | a frame cut short or hurt decodes as neither packet, save `TakenForCmd` | `DetectsBursts`: the checksum tells apart strings that differ in a byte or two neighbours |

The invariant `CodecIInv` is that the frame is the encoded one or hurt in the way
`hurt` says (`FrameIsHurtSo`), and that `out` is what decoding it gives; what is
left are facts about bytes. Layouts, structs and the encoders' output are sums
and concatenations over the fields, folds in the community modules; their
values are those of a chain of partial results (`ChainExists`, `SumUnfold`,
`FlattenUnfold`), which a proof can go along field by field (`FlattenedAt`). The
tables then give that the encoders' order and the decoders' offsets are the
layout's (`Tables`, `LayoutIs`, `StructOffsets`), an element that was put is got back
(`FieldReadsBack`), and a hurt frame fails one of the checks: that of the start bytes, version,
length or type, or the checksum over the rest (`DamageIsSeen`).

### Only model-checked

* Liveness (`CallReturns`, `PairRepairs`): fairness and ENABLED
  are outside what the prover handles.
* `SerialSend`'s `HalvesLackAByteAA`: it is not true of every checksum and every set
  of frames. Half a frame with the start of another one behind it may happen to
  have a valid checksum; that the frames of the run do not is a fact about these
  frames and the real CRC.
* That `crc16` has the property `DetectsBursts`, a known one of CRCs of 16 bits with
  such a polynomial: it is an induction over the data, and `crc16` needs `Bitwise`. `MCCodec` has TLC
  check it on strings of up to three bytes, and the run `codec` what follows from
  it on two packets' frames, every byte and two neighbours hurt. Likewise that
  `golden_gen.py`'s loop computes the same checksum (`ChecksumsAreTheSame`, on those
  strings and on the frames of the run).

## 5. Not modelled

* What the generated files say beyond versions, sizes and offsets, and the `print`s
  of the tools and examples: wording.
* Two runs of the *same* generator at once, and schema values outside a byte.
* The Windows branches: the UDP one makes the same calls in the same order, the
  serial one is a stub that returns failure.
* A `write` to the serial line that never returns: `send` has no deadline, and
  a caller waits with it.
* Addresses are ports of one host; `inet_pton` failing is a `set_peer` that
  changes nothing. `recv_bytes` timing out or failing changes no member and has
  no action in `UdpChannel`; what a caller makes of it is in the links.
* Memory exhaustion, and calls on one object from two threads: the SDK does not
  support either.
* Copies of a channel object: the repository makes none. Port arguments that do not
  fit 16 bits: see the hazards.
* `FrameChannel` (an abstract class without state), the tests, CMake and CI.

## 6. Plan

Done: `Protocol`, `FrameStream`, `FrameParser`; `LinkCall`, `StreamLink`,
`DatagramLink`; `UdpChannel`; `SerialChannel`, `SerialSend`; `Codec`, `Layout`,
`Crc`, `Artifacts`; `Generators`; `Examples`; the proofs of section 4.

What is left: action properties of the components that have theorems, from the
same invariants (what a step may never do to `buf_`, to a peer, to a descriptor);
and `DetectsBursts` of `crc16`, if a prover that handles its bits is at hand.
