----------------------------- MODULE Generators ------------------------------
(***************************************************************************)
(* tools/codegen.py and tools/golden_gen.py: two programs that read        *)
(* schema/protocol.yaml and write what is under generated/, each its own   *)
(* files, one behind the other.  The schema is edited at any time, also    *)
(* while a program runs; a program may be run again at any time; a run may *)
(* end with an error of its own, or break off anywhere (killed, disk full),*)
(* with the file it was writing cut short.                                 *)
(*                                                                         *)
(* A schema is its version, its packets (one value for all their fields),  *)
(* and what is wrong with it, if something is.                             *)
(***************************************************************************)
EXTENDS Integers, Sequences

CONSTANTS
  Versions,     \* of the protocol
  Packets,      \* what the packets of a schema may be
  MaxRuns,      \* bound: runs of each program
  MaxEdits      \* bound: times the schema is edited

ASSUME GeneratorsAssumption ==
  /\ 2 \in Versions /\ Versions \subseteq Nat \ {0}
  /\ MaxRuns \in Nat /\ MaxEdits \in Nat

(* What may be wrong with a schema: it does not validate; it has no frame.crc;
   the count of a field of a packet is text; it has a field the golden inputs do
   not, or a payload of more than 255 bytes. *)
Flaws == {"none", "invalid", "no_crc", "cmd_count_text", "tele_count_text",
          "new_field", "too_long"}

Schemas == [version : Versions, packets : Packets, flaw : Flaws]

Tools == {"codegen", "golden_gen"}

(* Mutant of Outputs: the document is written between the headers. *)
OutputsMixed(t) ==
  IF t = "codegen"
  THEN << "protocol.hpp", "protocol.md", "ou_protocol.h", "Cmd.msg", "Telemetry.msg" >>
  ELSE << "golden.h", "golden.json" >>

Outputs(t) ==
  IF t = "codegen"
  THEN << "protocol.hpp", "ou_protocol.h", "protocol.md", "Cmd.msg", "Telemetry.msg" >>
  ELSE << "golden.h", "golden.json" >>

Files == {"protocol.hpp", "ou_protocol.h", "protocol.md", "Cmd.msg", "Telemetry.msg",
          "golden.h", "golden.json"}

Absent  == [is |-> "absent"]
Torn    == [is |-> "torn"]      \* truncated, or written in part
Mangled == [is |-> "mangled"]   \* written in part, up to inside a character

Texts == [version : Versions \union {0}, packets : Packets]

VARIABLES
  schema,    \* schema/protocol.yaml
  disk,      \* what each file holds
  pc,        \* of each program: "idle", "render" the next file or "write" it
  loaded,    \* the schema its run, or its last run, has loaded
  at,        \* which of its files it is at
  exit,      \* how its last run ended: "none", "ok", "error", "broken" off
  broke,     \* history: a run broke off, and none has ended well since
  runs,      \* history: runs of each program
  edits      \* history: times the schema was edited

jobVars == << pc, loaded, at, exit >>
vars    == << schema, disk, jobVars, broke, runs, edits >>

(* Mutant of Render: the version that is written out is the one before. *)
RenderOldVersion(f, s) ==
  [version |-> IF f \in {"protocol.md", "golden.h", "golden.json"} THEN 1 ELSE s.version,
   packets |-> s.packets]

(* The texts of a schema.  The headers have its version; protocol.md and the
   golden vectors say 2 whatever it is; the .msg files have none. *)
Render(f, s) ==
  [version |-> IF f \in {"protocol.hpp", "ou_protocol.h"} THEN s.version
               ELSE IF f \in {"protocol.md", "golden.h", "golden.json"} THEN 2
               ELSE 0,
   packets |-> s.packets]

(* load_schema raises, and in golden_gen make_cases, before any file is written. *)
LoadRaises(t, s) ==
  \/ s.flaw = "invalid"
  \/ t = "golden_gen" /\ s.flaw \in {"new_field", "too_long"}

(* A template raises, after the files before it were written. *)
RenderRaises(f, s) ==
  \/ f = "protocol.md" /\ s.flaw = "no_crc"
  \/ f = "Cmd.msg" /\ s.flaw = "cmd_count_text"
  \/ f = "Telemetry.msg" /\ s.flaw = "tele_count_text"

Init ==
  /\ schema \in Schemas
  /\ \/ disk = [f \in Files |-> Absent]
     \/ schema.flaw = "none" /\ disk = [f \in Files |-> Render(f, schema)]
  /\ pc = [t \in Tools |-> "idle"]
  /\ loaded = [t \in Tools |-> schema]
  /\ at = [t \in Tools |-> 1]
  /\ exit = [t \in Tools |-> "none"]
  /\ broke = [t \in Tools |-> FALSE]
  /\ runs = [t \in Tools |-> 0] /\ edits = 0

-----------------------------------------------------------------------------
Edit(s) ==
  /\ edits < MaxEdits /\ s # schema
  /\ schema' = s
  /\ edits' = edits + 1
  /\ UNCHANGED << disk, jobVars, broke, runs >>

End(t, how) ==
  /\ pc' = [pc EXCEPT ![t] = "idle"]
  /\ exit' = [exit EXCEPT ![t] = how]

(* main, up to the first file: the schema is loaded, and validated. *)
Start(t) ==
  /\ pc[t] = "idle" /\ runs[t] < MaxRuns
  /\ runs' = [runs EXCEPT ![t] = @ + 1]
  /\ loaded' = [loaded EXCEPT ![t] = schema]
  /\ at' = [at EXCEPT ![t] = 1]
  /\ IF LoadRaises(t, schema)
     THEN End(t, "error")
     ELSE pc' = [pc EXCEPT ![t] = "render"] /\ exit' = [exit EXCEPT ![t] = "none"]
  /\ UNCHANGED << schema, disk, broke, edits >>

File(t) == Outputs(t)[at[t]]

Text(t) == Render(File(t), loaded[t])

HasNext(t) == pc[t] = "render" /\ at[t] <= Len(Outputs(t))

RenderFails(t) ==
  /\ HasNext(t) /\ RenderRaises(File(t), loaded[t])
  /\ End(t, "error")
  /\ UNCHANGED << schema, disk, loaded, at, broke, runs, edits >>

(* Mutant of Unreadable: no file that is cut short can be read. *)
UnreadableIfTorn(t) == disk[File(t)] \in {Torn, Mangled}

(* read_text raises on what is not UTF-8. *)
Unreadable(t) == disk[File(t)] = Mangled

ReadFails(t) ==
  /\ HasNext(t) /\ ~RenderRaises(File(t), loaded[t])
  /\ Unreadable(t)
  /\ End(t, "error")
  /\ UNCHANGED << schema, disk, loaded, at, broke, runs, edits >>

(* Mutant of IsCurrent: a file that is there is taken to be current. *)
IsThere(t) == disk[File(t)] # Absent

(* Mutant of IsCurrent: every file is written, changed or not. *)
IsNeverCurrent(t) == FALSE

(* write_if_changed compares before it opens the file. *)
IsCurrent(t) == disk[File(t)] = Text(t)

WriteIfChanged(t) ==
  /\ HasNext(t) /\ ~RenderRaises(File(t), loaded[t]) /\ ~Unreadable(t)
  /\ IF IsCurrent(t)
     THEN at' = [at EXCEPT ![t] = @ + 1] /\ UNCHANGED << disk, pc >>
     ELSE /\ disk' = [disk EXCEPT ![File(t)] = Torn]       \* opened, and so truncated
          /\ pc' = [pc EXCEPT ![t] = "write"]
          /\ UNCHANGED at
  /\ UNCHANGED << schema, loaded, exit, broke, runs, edits >>

(* The text is written and the file closed. *)
Written(t) ==
  /\ pc[t] = "write"
  /\ disk' = [disk EXCEPT ![File(t)] = Text(t)]
  /\ pc' = [pc EXCEPT ![t] = "render"]
  /\ at' = [at EXCEPT ![t] = @ + 1]
  /\ UNCHANGED << schema, loaded, exit, broke, runs, edits >>

Finish(t) ==
  /\ pc[t] = "render" /\ at[t] > Len(Outputs(t))
  /\ End(t, "ok")
  /\ broke' = [broke EXCEPT ![t] = FALSE]
  /\ UNCHANGED << schema, disk, loaded, at, runs, edits >>

(* The program is killed, or a write fails: what it was writing stays cut short,
   inside a character or between two. *)
BreakOff(t) ==
  /\ pc[t] # "idle"
  /\ End(t, "broken")
  /\ broke' = [broke EXCEPT ![t] = TRUE]
  /\ \/ UNCHANGED disk
     \/ pc[t] = "write" /\ disk' = [disk EXCEPT ![File(t)] = Mangled]
  /\ UNCHANGED << schema, loaded, at, runs, edits >>

Next ==
  \/ \E s \in Schemas : Edit(s)
  \/ \E t \in Tools : Start(t)
  \/ \E t \in Tools : RenderFails(t)
  \/ \E t \in Tools : ReadFails(t)
  \/ \E t \in Tools : WriteIfChanged(t)
  \/ \E t \in Tools : Written(t)
  \/ \E t \in Tools : Finish(t)
  \/ \E t \in Tools : BreakOff(t)

Spec == Init /\ [][Next]_vars

-----------------------------------------------------------------------------
TypeOK ==
  /\ schema \in Schemas /\ loaded \in [Tools -> Schemas]
  /\ disk \in [Files -> Texts \union {Absent, Torn, Mangled}]
  /\ pc \in [Tools -> {"idle", "render", "write"}]
  /\ at \in [Tools -> 1..6] /\ \A t \in Tools : at[t] <= Len(Outputs(t)) + 1
  /\ exit \in [Tools -> {"none", "ok", "error", "broken"}]
  /\ broke \in [Tools -> BOOLEAN]
  /\ runs \in [Tools -> 0..MaxRuns] /\ edits \in 0..MaxEdits

(* CONTRIBUTING.md: every artifact under generated/ is derived from the schema.  A
   run that ends well has brought all its files to the schema it loaded, whatever
   an earlier run that broke off had left in them. *)
OkMeansCurrent ==
  \A t \in Tools : exit[t] = "ok" =>
    \A i \in 1..Len(Outputs(t)) : disk[Outputs(t)[i]] = Render(Outputs(t)[i], loaded[t])

(* What a run of t that ends in an error can put it down to: the schema it loaded,
   or a file an earlier run of its own left cut inside a character. *)
HasCause(t) ==
  \/ LoadRaises(t, loaded[t])
  \/ \E i \in 1..Len(Outputs(t)) : RenderRaises(Outputs(t)[i], loaded[t])
  \/ broke[t] /\ \E i \in 1..Len(Outputs(t)) : disk[Outputs(t)[i]] = Mangled

(* A run that broke off does not stand in the way of the next: a run over a good
   schema makes absent and truncated files again, and ends in an error only over a
   file that was cut inside a character. *)
FailsOnlyForCause == \A t \in Tools : exit[t] = "error" => HasCause(t)

(* The two files that one schema change must change together, of each program:
   a host and a firmware built from the headers understand each other, and
   golden.h and golden.json list the same vectors, also after runs that ended in
   an error on a flawed schema.  Only a run that breaks off can part them. *)
Twins(t) ==
  IF t = "codegen" THEN << "protocol.hpp", "ou_protocol.h" >>
  ELSE << "golden.h", "golden.json" >>

TwinsAgree ==
  \A t \in Tools :
    pc[t] = "idle" /\ ~broke[t] => disk[Twins(t)[1]] = disk[Twins(t)[2]]

(* A run over files that are current touches none of them: no build that reads
   generated/ while it is made again sees a file that is cut short. *)
CurrentIsNotTouched ==
  [][\A t \in Tools :
       pc[t] # "idle" /\ (\A i \in 1..Len(Outputs(t)) :
                            disk[Outputs(t)[i]] = Render(Outputs(t)[i], loaded[t]))
         => \A i \in 1..Len(Outputs(t)) : disk'[Outputs(t)[i]] = disk[Outputs(t)[i]]]_vars

=============================================================================
