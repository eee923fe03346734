---------------------------- MODULE Installation ----------------------------
(***************************************************************************)
(* The files an installation consists of, and any number of dfm processes  *)
(* that create and rewrite them at the same time: init, the commands that  *)
(* rewrite state.toml (main.rs with_state and with_state_even_if_error)    *)
(* and config --set.  A process reads a whole file, works, and replaces    *)
(* the whole file through one fixed temporary name (lib.rs atomic_write),  *)
(* without a lock.                                                         *)
(*                                                                         *)
(* An open temporary file is an inode, not a name: when another process    *)
(* renames it over the file, what is still written to it goes to the file. *)
(***************************************************************************)
EXTENDS Integers, FiniteSets, FiniteSetsExt, Functions

CONSTANTS
  Procs,       \* the processes that may run at once
  Keys,        \* what the files list: state records, elements of an array
  Commands,    \* the commands users give
  Faults,      \* subset of {"error", "crash"}
  MaxRuns,     \* bound: commands started
  MaxRecords   \* lines init appends to the source ignore file

(* init, the commands that change the state, config --set on a list *)
CommandType == [op : {"init"}]
          \cup [op : {"record", "forget", "add", "rm"}, key : Keys]
          \cup [op : {"rmi"}, at : Nat]

ASSUME InstallationAssumption ==
  /\ IsFiniteSet(Procs) /\ IsFiniteSet(Keys)
  /\ Commands \subseteq CommandType
  /\ MaxRuns \in Nat /\ MaxRecords \in Nat \ {0}
  /\ Faults \subseteq {"error", "crash"}

Names == {"state", "config"}
(* how often each is listed: a run adds one at most *)
Listings == [Keys -> 0..MaxRuns]
Nothing == [k \in Keys |-> 0]
Whole(v) == [is |-> "whole", val |-> v]
Absent == [is |-> "absent", val |-> Nothing]
Empty == [is |-> "empty", val |-> Nothing]    \* truncated, nothing written
Torn == [is |-> "torn", val |-> Nothing]      \* no longer parses
Texts == {Absent, Empty, Torn} \cup {Whole(v) : v \in Listings}

Within(u, v) == \A k \in Keys : u[k] <= v[k]

(* A write that stops early, and a write over the text of another process,
   may leave a text that parses with other entries. *)
Short(v) == {Empty, Torn} \cup {Whole(u) : u \in {w \in Listings : Within(w, v)}}
Over(old, v) ==
  IF old.is = "empty" \/ old = Whole(v) THEN {Whole(v)}
  ELSE {Torn} \cup {Whole(u) : u \in {w \in Listings :
                      Within(v, w) /\ \A k \in Keys : w[k] <= v[k] \/ w[k] <= old.val[k]}}

(* What a parser makes of a text: a config without a line is a config. *)
Parses(n, t) == t.is = "whole" \/ (n = "config" /\ t.is = "empty")

VARIABLES
  disk,     \* the text under the name of each file
  tmp,      \* the text under its temporary name
  root,     \* .dfm_root: "absent", "empty" or "dot"
  ignored,  \* how many of the records of init the source ignore file has
  pc,       \* what each process does next
  cmd,      \* its command
  file,     \* the file it rewrites
  text,     \* what it read, then what it writes
  fd,       \* where its open temporary file is: "tmp", "disk" or "gone"
  todo,     \* the files init has left to create
  appended, \* the records it has appended
  result,   \* how its last command ended
  runs,     \* commands started
  alone,    \* history: no other process was active during the command
  raced,    \* history: files two processes were replacing at once
  cut       \* history: an init was stopped between two of its records

vars == <<disk, tmp, root, ignored, pc, cmd, file, text, fd, todo, appended, result, runs, alone, raced, cut>>
installed == <<disk, tmp, root, ignored>>

InitTasks == {"root", "ignore", "state", "config"}
NoCommand == [op |-> "none"]

Active(p) == pc[p] # "idle"
(* between the open and the rename of atomic_write *)
Replacing(p, n) == file[p] = n /\ pc[p] \in {"write", "rename"}

(* nothing at all, or what a first init leaves *)
Init ==
  /\ \/ disk = [n \in Names |-> Absent] /\ root = "absent" /\ ignored = 0
     \/ disk = [n \in Names |-> Whole(Nothing)] /\ root = "dot" /\ ignored = MaxRecords
  /\ tmp = [n \in Names |-> Absent]
  /\ pc = [p \in Procs |-> "idle"] /\ cmd = [p \in Procs |-> NoCommand]
  /\ file = [p \in Procs |-> "state"] /\ text = [p \in Procs |-> Absent]
  /\ fd = [p \in Procs |-> "gone"] /\ todo = [p \in Procs |-> {}]
  /\ appended = [p \in Procs |-> 0]
  /\ result = [p \in Procs |-> "none"] /\ runs = 0
  /\ alone = [p \in Procs |-> TRUE] /\ raced = {}
  /\ cut = FALSE

(* The command ends here; what the process held is closed with it. *)
End(p, r) ==
  /\ pc' = [pc EXCEPT ![p] = "idle"] /\ result' = [result EXCEPT ![p] = r]
  /\ fd' = [fd EXCEPT ![p] = "gone"] /\ todo' = [todo EXCEPT ![p] = {}]
  /\ appended' = [appended EXCEPT ![p] = 0]
  /\ text' = [text EXCEPT ![p] = Absent]
  /\ cut' = (cut \/ ("ignore" \in todo[p] /\ appended[p] > 0))

(***************************************************************************)
(* The start of a process: the state is read before the command is known.  *)
(***************************************************************************)
\* mutant: an existing source root is taken for a complete installation
MissingUnlessRoot ==
  IF root = "absent" THEN {"root", "ignore"} \cup {n \in Names : disk[n] = Absent} ELSE {}

\* what is to be created: one that exists is left alone
Missing ==
  {t \in {"root"} : root = "absent"} \cup {t \in {"ignore"} : ignored = 0}
    \cup {n \in Names : disk[n] = Absent}

StateCommand(c) == c.op \in {"record", "forget"}

Begin(p) ==
  /\ pc[p] = "idle" /\ runs < MaxRuns
  /\ \E c \in Commands :
       /\ cmd' = [cmd EXCEPT ![p] = c]
       /\ file' = [file EXCEPT ![p] = IF c.op = "init" \/ StateCommand(c) THEN "state" ELSE "config"]
       /\ text' = [text EXCEPT ![p] = disk["state"]]
       /\ pc' = [pc EXCEPT ![p] = IF c.op = "init" THEN "check" ELSE "work"]
  /\ runs' = runs + 1 /\ result' = [result EXCEPT ![p] = "none"]
  /\ alone' = [q \in Procs |->
                 IF q = p THEN \A r \in Procs \ {p} : ~Active(r) ELSE alone[q] /\ ~Active(q)]
  /\ UNCHANGED <<installed, fd, todo, appended, raced, cut>>

(***************************************************************************)
(* init_command                                                            *)
(***************************************************************************)
InitCheck(p) ==
  /\ pc[p] = "check" /\ root # "empty"
  /\ todo' = [todo EXCEPT ![p] = Missing]
  /\ pc' = [pc EXCEPT ![p] = "task"]
  /\ UNCHANGED <<installed, cmd, file, text, fd, appended, result, runs, alone, raced, cut>>

(* An empty .dfm_root is not a pointer; nothing is created any more. *)
InvalidPointer(p) ==
  /\ pc[p] = "check" /\ root = "empty"
  /\ End(p, "failed")
  /\ UNCHANGED <<installed, cmd, file, runs, alone, raced>>

(* the tasks in the order they were queued *)
NextTask(p) ==
  IF "root" \in todo[p] THEN "root" ELSE IF "ignore" \in todo[p] THEN "ignore"
  ELSE IF "state" \in todo[p] THEN "state" ELSE "config"

CreateRoot(p) ==
  /\ pc[p] = "task" /\ NextTask(p) = "root" /\ todo[p] # {}
  /\ root' = "empty" /\ pc' = [pc EXCEPT ![p] = "root"]
  /\ UNCHANGED <<disk, tmp, ignored, cmd, file, text, fd, todo, appended, result, runs, alone, raced, cut>>

WriteRoot(p) ==
  /\ pc[p] = "root"
  /\ root' = "dot" /\ pc' = [pc EXCEPT ![p] = "task"]
  /\ todo' = [todo EXCEPT ![p] = @ \ {"root"}]
  /\ UNCHANGED <<disk, tmp, ignored, cmd, file, text, fd, appended, result, runs, alone, raced, cut>>

\* mutant: one record too many
AppendOneMore(p) ==
  /\ pc[p] = "task" /\ NextTask(p) = "ignore"
  /\ appended' = [appended EXCEPT ![p] = @ + 1]
  /\ ignored' = IF appended[p] < ignored THEN ignored ELSE appended[p] + 1
  /\ todo' = IF appended[p] < MaxRecords THEN todo ELSE [todo EXCEPT ![p] = @ \ {"ignore"}]
  /\ UNCHANGED <<disk, tmp, root, pc, cmd, file, text, fd, result, runs, alone, raced, cut>>

(* One record at a time is appended; of two inits the longer prefix counts. *)
AppendRecord(p) ==
  /\ pc[p] = "task" /\ NextTask(p) = "ignore"
  /\ appended' = [appended EXCEPT ![p] = @ + 1]
  /\ ignored' = IF appended[p] < ignored THEN ignored ELSE appended[p] + 1
  /\ todo' = IF appended[p] + 1 < MaxRecords THEN todo ELSE [todo EXCEPT ![p] = @ \ {"ignore"}]
  /\ UNCHANGED <<disk, tmp, root, pc, cmd, file, text, fd, result, runs, alone, raced, cut>>

CreateFile(p) ==
  /\ pc[p] = "task" /\ todo[p] # {} /\ NextTask(p) \in Names
  /\ file' = [file EXCEPT ![p] = NextTask(p)]
  /\ text' = [text EXCEPT ![p] = Whole(Nothing)]
  /\ pc' = [pc EXCEPT ![p] = "open"]
  /\ todo' = [todo EXCEPT ![p] = @ \ {NextTask(p)}]
  /\ UNCHANGED <<installed, cmd, fd, appended, result, runs, alone, raced, cut>>

(* A task that fails ends init; what the tasks before it made stays. *)
TaskFails(p) ==
  /\ "error" \in Faults
  /\ pc[p] = "root" \/ (pc[p] = "task" /\ todo[p] # {})
  /\ End(p, "failed")
  /\ UNCHANGED <<installed, cmd, file, runs, alone, raced>>

InitDone(p) ==
  /\ pc[p] = "task" /\ todo[p] = {}
  /\ End(p, "ok")
  /\ UNCHANGED <<installed, cmd, file, runs, alone, raced>>

(***************************************************************************)
(* The commands that rewrite a file                                        *)
(***************************************************************************)
Sum(v) == FoldFunction(LAMBDA a, b : a + b, 0, v)

(* What the command makes of the text; none when it refuses. *)
Changed(c, v) ==
  CASE c.op = "record" -> {[v EXCEPT ![c.key] = 1]}
    [] c.op = "forget" -> {[v EXCEPT ![c.key] = 0]}
    [] c.op = "add" -> {[v EXCEPT ![c.key] = @ + 1]}
    [] c.op = "rm" /\ v[c.key] > 0 -> {[v EXCEPT ![c.key] = 0]}
    [] c.op = "rmi" /\ c.at < Sum(v) -> {[v EXCEPT ![k] = @ - 1] : k \in {k \in Keys : v[k] > 0}}
    [] OTHER -> {}

(* with_state uses what was read at the start, config --set reads it now *)
Base(p) == IF StateCommand(cmd[p]) THEN text[p] ELSE disk["config"]

Work(p) ==
  /\ pc[p] = "work" /\ Parses(file[p], Base(p))
  /\ \E v \in Changed(cmd[p], Base(p).val) :
       text' = [text EXCEPT ![p] = Whole(v)]
  /\ pc' = [pc EXCEPT ![p] = "open"]
  /\ UNCHANGED <<installed, cmd, file, fd, todo, appended, result, runs, alone, raced, cut>>

(* No state or config to work on, a corrupt one, an element that is not
   there: nothing is written. *)
Refuse(p) ==
  /\ pc[p] = "work"
  /\ \/ ~Parses(file[p], Base(p))
     \/ Changed(cmd[p], Base(p).val) = {}
  /\ End(p, "failed")
  /\ UNCHANGED <<installed, cmd, file, runs, alone, raced>>

(* A command that fails writes nothing, except forget, which writes what it
   has dropped so far. *)
WorkFails(p) ==
  /\ "error" \in Faults
  /\ pc[p] = "work" /\ StateCommand(cmd[p]) /\ Parses(file[p], Base(p))
  /\ IF cmd[p].op = "forget"
     THEN /\ \E v \in Changed(cmd[p], Base(p).val) \cup {Base(p).val} :
               text' = [text EXCEPT ![p] = Whole(v)]
          /\ pc' = [pc EXCEPT ![p] = "open"]
          /\ UNCHANGED <<fd, todo, appended, result, cut>>
     ELSE End(p, "failed")
  /\ UNCHANGED <<installed, cmd, file, runs, alone, raced>>

(***************************************************************************)
(* atomic_write: fs::write of the temporary name, then rename.             *)
(***************************************************************************)
\* mutant: the temporary file is opened without truncating it
OpenOver(p) ==
  /\ pc[p] = "open"
  /\ tmp' = [tmp EXCEPT ![file[p]] = IF @ = Absent THEN Empty ELSE @]
  /\ fd' = [fd EXCEPT ![p] = "tmp"] /\ pc' = [pc EXCEPT ![p] = "write"]
  /\ raced' = IF \E q \in Procs \ {p} : Replacing(q, file[p]) THEN raced \cup {file[p]} ELSE raced
  /\ UNCHANGED <<disk, root, ignored, cmd, file, text, todo, appended, result, runs, alone, cut>>

\* mutant: the file itself is truncated and written
OpenInPlace(p) ==
  /\ pc[p] = "open"
  /\ disk' = [disk EXCEPT ![file[p]] = Empty]
  /\ tmp' = [tmp EXCEPT ![file[p]] = Empty]
  /\ fd' = [fd EXCEPT ![p] = "disk"] /\ pc' = [pc EXCEPT ![p] = "write"]
  /\ UNCHANGED <<root, ignored, cmd, file, text, todo, appended, result, runs, alone, raced, cut>>

Open(p) ==
  /\ pc[p] = "open"
  /\ tmp' = [tmp EXCEPT ![file[p]] = Empty]
  /\ fd' = [fd EXCEPT ![p] = "tmp"] /\ pc' = [pc EXCEPT ![p] = "write"]
  /\ raced' = IF \E q \in Procs \ {p} : Replacing(q, file[p]) THEN raced \cup {file[p]} ELSE raced
  /\ UNCHANGED <<disk, root, ignored, cmd, file, text, todo, appended, result, runs, alone, cut>>

(* The text goes to the open file, wherever its name is by now. *)
Put(p, t) ==
  /\ disk' = IF fd[p] = "disk" THEN [disk EXCEPT ![file[p]] = t] ELSE disk
  /\ tmp' = IF fd[p] = "tmp" THEN [tmp EXCEPT ![file[p]] = t] ELSE tmp

Behind(p) == CASE fd[p] = "tmp" -> tmp[file[p]] [] fd[p] = "disk" -> disk[file[p]] [] OTHER -> Empty

Write(p) ==
  /\ pc[p] = "write"
  /\ \E t \in Over(Behind(p), text[p].val) : Put(p, t)
  /\ pc' = [pc EXCEPT ![p] = "rename"] /\ fd' = [fd EXCEPT ![p] = "gone"]
  /\ UNCHANGED <<root, ignored, cmd, file, text, todo, appended, result, runs, alone, raced, cut>>

WriteFails(p) ==
  /\ "error" \in Faults
  /\ pc[p] = "write"
  /\ \E t \in Short(text[p].val) : Put(p, t)
  /\ End(p, "failed")
  /\ UNCHANGED <<root, ignored, cmd, file, runs, alone, raced>>

Rename(p) ==
  /\ pc[p] = "rename" /\ tmp[file[p]] # Absent
  /\ disk' = [disk EXCEPT ![file[p]] = tmp[file[p]]]
  /\ tmp' = [tmp EXCEPT ![file[p]] = Absent]
  /\ LET moved == [q \in Procs |->
                     IF file[q] # file[p] \/ fd[q] = "gone" THEN fd[q]
                     ELSE IF fd[q] = "tmp" THEN "disk" ELSE "gone"]
     IN IF cmd[p].op = "init"
        THEN /\ fd' = moved /\ pc' = [pc EXCEPT ![p] = "task"]
             /\ UNCHANGED <<text, todo, appended, result>>
        ELSE /\ fd' = [moved EXCEPT ![p] = "gone"] /\ pc' = [pc EXCEPT ![p] = "idle"]
             /\ result' = [result EXCEPT ![p] = "ok"]
             /\ text' = [text EXCEPT ![p] = Absent] /\ UNCHANGED <<todo, appended>>
  /\ UNCHANGED <<root, ignored, cmd, file, runs, alone, raced, cut>>

(* Another process has renamed the temporary file away. *)
RenameFails(p) ==
  /\ pc[p] = "rename" /\ tmp[file[p]] = Absent
  /\ End(p, "failed")
  /\ UNCHANGED <<installed, cmd, file, runs, alone, raced>>

(* The process dies; the files stay as they are. *)
Crash(p) ==
  /\ "crash" \in Faults /\ Active(p)
  /\ End(p, "crashed")
  /\ UNCHANGED <<installed, cmd, file, runs, alone, raced>>

Steps(p) ==
  \/ InitCheck(p) \/ InvalidPointer(p) \/ TaskFails(p) \/ CreateRoot(p) \/ WriteRoot(p)
  \/ AppendRecord(p) \/ CreateFile(p) \/ InitDone(p)
  \/ Work(p) \/ Refuse(p) \/ WorkFails(p)
  \/ Open(p) \/ Write(p) \/ WriteFails(p) \/ Rename(p) \/ RenameFails(p)

Rest == runs = MaxRuns /\ (\A p \in Procs : ~Active(p)) /\ UNCHANGED vars

Next == Rest \/ \E p \in Procs : Begin(p) \/ Steps(p) \/ Crash(p)

Spec == Init /\ [][Next]_vars

-----------------------------------------------------------------------------
PhaseOK(p) ==
  /\ fd[p] # "gone" => pc[p] = "write"
  /\ pc[p] \in {"open", "write", "rename"} => text[p].is = "whole"
  /\ pc[p] = "root" => "root" \in todo[p]
InstallationTypeOK ==
  /\ disk \in [Names -> Texts] /\ tmp \in [Names -> Texts]
  /\ root \in {"absent", "empty", "dot"} /\ ignored \in 0..MaxRecords
  /\ pc \in [Procs -> {"idle", "check", "task", "root", "work", "open", "write", "rename"}]
  /\ cmd \in [Procs -> Commands \cup {NoCommand}] /\ file \in [Procs -> Names]
  /\ text \in [Procs -> Texts] /\ fd \in [Procs -> {"tmp", "disk", "gone"}]
  /\ todo \in [Procs -> SUBSET InitTasks] /\ appended \in [Procs -> 0..MaxRecords]
  /\ result \in [Procs -> {"none", "ok", "failed", "crashed"}] /\ runs \in 0..MaxRuns
  /\ alone \in [Procs -> BOOLEAN] /\ raced \subseteq Names /\ cut \in BOOLEAN
  /\ \A p \in Procs : PhaseOK(p)

(* lib.rs:92 "A crash mid-write can no longer leave a truncated
   `state.toml`".  As long as no two processes were inside atomic_write of
   the same file at once, the file is never a truncated or mixed text, at
   whatever step which processes die or fail, and whatever leftovers of
   earlier ones the temporary name holds. *)
TornOnlyByRace == \A n \in Names \ raced : disk[n].is \notin {"empty", "torn"}

(* A process that has the installation for itself replaces a file only by
   what its command makes of the text that was there: it adds or drops its
   own entries and loses none of the others, and init creates only what did
   not exist - after any number of processes that died or failed half way. *)
LoneRunIsExact ==
  [][\A p \in Procs : alone[p] /\ Active(p) =>
       \A n \in Names : disk'[n] # disk[n] =>
         IF cmd[p].op = "init" THEN disk[n] = Absent /\ disk'[n] = Whole(Nothing)
         ELSE disk'[n] \in {Whole(v) : v \in Changed(cmd[p], disk[n].val)}]_vars

(* README.md:68, what init creates.  An init that succeeds with nobody else
   active leaves every part in place, also when it repeats one that died or
   failed between two of its tasks; and the list of ignored source files is
   the whole one, unless an init was stopped between two of its records. *)
InitCompletes ==
  [][\A p \in Procs :
       /\ alone[p] /\ cmd[p].op = "init" /\ Active(p) /\ result'[p] = "ok"
       => /\ root' = "dot" /\ \A n \in Names : disk'[n] # Absent
          /\ ignored' > 0 /\ (ignored' = MaxRecords \/ cut)]_vars

(* Without that exception.  A repeated init looks for the first record only
   (init.rs:129), and a list cut short stays so.  Does not hold (section 5
   of the README here), and no run checks it. *)
InitCompletesTheList ==
  [][\A p \in Procs :
       alone[p] /\ cmd[p].op = "init" /\ Active(p) /\ result'[p] = "ok"
       => ignored' = MaxRecords]_vars
=============================================================================
