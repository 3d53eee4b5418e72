------------------------------ MODULE HostTool ------------------------------
(***************************************************************************)
(* Runs of the host tool over one file system: key generate, key public    *)
(* and key inspect (host/rampart/src/keys.rs), image sign and image verify *)
(* (format.rs, main.rs).  A run refuses an output that exists, reads its   *)
(* input, and writes with fs::write: open truncates, the bytes follow.     *)
(* Runs interleave, calls fail or fall short, and a run may be killed      *)
(* anywhere.  A file is a sequence of cells, each known by what it is part *)
(* of; nothing is locked.                                                  *)
(***************************************************************************)
EXTENDS Integers, Sequences

CONSTANTS
  Procs,     \* processes
  Paths,     \* file names
  Commands,  \* the commands run, see Command
  None,      \* no input, no output
  Absent,    \* contents of a path without a file
  CELLS,     \* cells of a whole file
  MaxRuns    \* bound on the number of runs

\* op: what is done; in, out: the file read and the file written.
Command ==
  [op: {"generate", "public", "sign", "show"},
   in: Paths \cup {None}, out: Paths \cup {None}]

ASSUME ToolAssumption ==
  /\ None \notin Paths
  /\ CELLS \in Nat \ {0} /\ MaxRuns \in Nat
  /\ Commands \subseteq Command
  /\ \A c \in Commands :
       /\ c.in = None <=> c.op = "generate"
       /\ c.out = None <=> c.op = "show"
       /\ c.in = c.out => c.in = None

Runs == 1 .. MaxRuns

\* What a file is made of: the run that wrote it and the key it is about.  The
\* key generated by a run is known by the run.
Data == [kind: {"private", "public", "artifact"}, key: Runs, run: Runs]

Cell == [data: Data, part: 1 .. CELLS]
Hole == [hole |-> TRUE]

\* What a file may hold, a torn one included.
Bytes == UNION {[1 .. n -> Cell \cup {Hole}] : n \in 0 .. CELLS}

ASSUME AbsentAssumption == Absent \notin Bytes

Whole(d) == [n \in 1 .. CELLS |-> [data |-> d, part |-> n]]

Written(op) ==
  CASE op = "generate" -> "private" [] op = "public" -> "public"
    [] op = "sign" -> "artifact"

\* PEM and PKCS#8 decoding of a key, and length, digest and signature of an
\* artifact, each fail on anything but one whole file.
Decodes(bytes) == {d \in Data : bytes = Whole(d)}

\* What an operation makes of its input.
Accepts(op, d) ==
  CASE op \in {"public", "sign"} -> d.kind = "private"
    [] op = "show" -> d.kind \in {"private", "artifact"}

\* A broken write: it goes to the end of the file.
AppendCell(bytes, cell, at) == Append(bytes, cell)

\* write at an offset: what lies between the end of the file and it is zero.
Overlay(bytes, cell, at) ==
  [n \in 1 .. (IF at > Len(bytes) THEN at ELSE Len(bytes)) |->
     IF n = at THEN cell ELSE IF n <= Len(bytes) THEN bytes[n] ELSE Hole]

VARIABLES
  files,    \* contents of each path
  proc,     \* where each process is
  runs,     \* runs so far
  reports,  \* what was printed: the file and what it was said to hold
  raced     \* paths two runs found absent before either had created it

vars == <<files, proc, runs, reports, raced>>

Idle == [pc |-> "idle"]

At(p, pc) == proc[p].pc = pc
cmd(p) == proc[p].cmd
Going(p, pc) == [proc EXCEPT ![p].pc = pc]

\* Processes that found path absent and may write it.
Writers(path) ==
  {p \in Procs : proc[p].pc \in {"read", "open", "write"} /\ cmd(p).out = path}

\* The data a process writes.
Output(p) ==
  [kind |-> Written(cmd(p).op), key |-> proc[p].key, run |-> proc[p].run]

Init ==
  /\ files = [f \in Paths |-> Absent]
  /\ proc = [p \in Procs |-> Idle]
  /\ runs = 0 /\ reports = {} /\ raced = {}

Start(p, c) ==
  /\ At(p, "idle") /\ runs < MaxRuns
  /\ runs' = runs + 1
  /\ proc' = [proc EXCEPT ![p] =
       [pc |-> IF c.out = None THEN "read" ELSE "check", cmd |-> c,
        run |-> runs + 1, key |-> runs + 1, buf |-> << >>, at |-> 0]]
  /\ UNCHANGED <<files, reports, raced>>

\* A broken test: an empty file does not exist.
NonEmpty(path) == files[path] \notin {Absent, << >>}

\* A broken test: none.
NeverExists(path) == FALSE

\* path.exists()
Exists(path) == files[path] # Absent

\* if path.exists() { return Err(...) }
Check(p) ==
  /\ At(p, "check")
  /\ LET path == cmd(p).out
     IN IF Exists(path)
        THEN proc' = [proc EXCEPT ![p] = Idle] /\ UNCHANGED raced
        ELSE /\ proc' = Going(p, IF cmd(p).in = None THEN "open" ELSE "read")
             /\ raced' = IF Writers(path) = {} THEN raced ELSE raced \cup {path}
  /\ UNCHANGED <<files, runs, reports>>

\* fs::read and fs::read_to_string read on until they are at the end.
ReadCell(p) ==
  /\ At(p, "read")
  /\ LET bytes == files[cmd(p).in]
         n == Len(proc[p].buf) + 1
     IN /\ bytes # Absent
        /\ n <= Len(bytes)
        /\ proc' = [proc EXCEPT ![p].buf = Append(@, bytes[n])]
  /\ UNCHANGED <<files, runs, reports, raced>>

\* At the end of the input: it decodes, and a run without an output reports.
Decode(p) ==
  /\ At(p, "read")
  /\ files[cmd(p).in] # Absent /\ Len(files[cmd(p).in]) <= Len(proc[p].buf)
  /\ \E d \in Decodes(proc[p].buf) :
       /\ Accepts(cmd(p).op, d)
       /\ IF cmd(p).out = None
          THEN /\ proc' = [proc EXCEPT ![p] = Idle]
               /\ reports' = reports \cup {[data |-> d, path |-> cmd(p).in]}
          ELSE /\ proc' = [proc EXCEPT ![p].pc = "open", ![p].key = d.key]
               /\ UNCHANGED reports
  /\ UNCHANGED <<files, runs, raced>>

\* fs::write creates or truncates.
Open(p) ==
  /\ At(p, "open")
  /\ files' = [files EXCEPT ![cmd(p).out] = << >>]
  /\ proc' = Going(p, "write")
  /\ UNCHANGED <<runs, reports, raced>>

\* A broken write: any number of cells will do (write for write_all).
WriteShort(p) ==
  /\ At(p, "write")
  /\ files' = [files EXCEPT ![cmd(p).out] =
                 Overlay(@, Whole(Output(p))[proc[p].at + 1], proc[p].at + 1)]
  /\ \/ proc[p].at + 1 < CELLS /\ proc' = [proc EXCEPT ![p].at = @ + 1] /\ UNCHANGED reports
     \/ /\ proc' = [proc EXCEPT ![p] = Idle]
        /\ reports' = reports \cup {[data |-> Output(p), path |-> cmd(p).out]}
  /\ UNCHANGED <<runs, raced>>

\* One more cell; after the last the run reports what it wrote.
Write(p) ==
  /\ At(p, "write")
  /\ files' = [files EXCEPT ![cmd(p).out] =
                 Overlay(@, Whole(Output(p))[proc[p].at + 1], proc[p].at + 1)]
  /\ IF proc[p].at + 1 < CELLS
     THEN proc' = [proc EXCEPT ![p].at = @ + 1] /\ UNCHANGED reports
     ELSE /\ proc' = [proc EXCEPT ![p] = Idle]
          /\ reports' = reports \cup {[data |-> Output(p), path |-> cmd(p).out]}
  /\ UNCHANGED <<runs, raced>>

\* A call fails, the input does not decode, or the run is killed: nothing is
\* printed and nothing is cleaned up.
Stop(p) ==
  /\ ~At(p, "idle")
  /\ proc' = [proc EXCEPT ![p] = Idle]
  /\ UNCHANGED <<files, runs, reports, raced>>

Next ==
  \E p \in Procs :
    \/ \E c \in Commands : Start(p, c)
    \/ Check(p)
    \/ ReadCell(p)
    \/ Decode(p)
    \/ Open(p)
    \/ Write(p)
    \/ Stop(p)

Spec == Init /\ [][Next]_vars
-----------------------------------------------------------------------------
TypeOK ==
  /\ \A f \in Paths :
       files[f] # Absent =>
         /\ DOMAIN files[f] = 1 .. Len(files[f]) /\ Len(files[f]) <= CELLS
         /\ \A n \in DOMAIN files[f] : files[f][n] # Hole =>
              files[f][n] \in Cell /\ files[f][n].part = n
  /\ \A p \in Procs :
       proc[p] # Idle =>
         /\ proc[p].pc \in {"check", "read", "open", "write"}
         /\ cmd(p) \in Commands /\ proc[p].run \in Runs /\ proc[p].key \in Runs
         /\ Len(proc[p].buf) <= CELLS /\ proc[p].at \in 0 .. CELLS - 1
  /\ runs \in 0 .. MaxRuns
  /\ reports \subseteq [data: Data, path: Paths]
  /\ raced \subseteq Paths

\* What a run printed of a file stays true of it, unless two runs had found the
\* path absent together: no report is of a torn, a partial or a replaced file
\* (keys.rs:66-83, 99-122, format.rs:232-282).
ReportedIsOnDisk ==
  \A r \in reports : r.path \notin raced => files[r.path] = Whole(r.data)

\* An exported key is that of the private key file, an artifact is signed with
\* it, as long as neither path was raced for: the key a run read is not
\* replaced behind it (keys.rs:99-122, format.rs:246-265).
DerivedMatchesKey ==
  \A c \in Commands :
    c.in # None /\ c.out # None /\ {c.in, c.out} \cap raced = {} =>
      \A d \in Data :
        files[c.out] = Whole(d) => \E k \in Data : files[c.in] = Whole(k) /\ k.key = d.key

\* A file that no run has found absent and is about to write is never touched
\* again, whole or torn, and no run ever becomes about to: what a killed run
\* left behind makes every later run on it fail (keys.rs:66-71, 100-105).
Settled(f) == files[f] # Absent /\ Writers(f) = {}

SettledStays ==
  [][\A f \in Paths :
       Settled(f) => files'[f] = files[f] /\ Settled(f)']_vars

\* "refusing to overwrite existing key" (keys.rs:68): a whole file is never
\* overwritten.
NeverOverwrites ==
  [][\A f \in Paths :
       files[f] # Absent /\ Decodes(files[f]) # {} => files'[f] = files[f]]_vars
=============================================================================
