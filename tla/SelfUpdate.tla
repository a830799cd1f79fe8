----------------------------- MODULE SelfUpdate -----------------------------
(***************************************************************************)
(* Self-update: the running program replaces its own binary.  It renames   *)
(* the binary to .old, writes the new one to .new and renames that over    *)
(* the place left free.  The daemon does so for one request at a time; the *)
(* command does not look whether another is at work, and can go back to    *)
(* .old.  A process may be killed between any two calls.                   *)
(***************************************************************************)
EXTENDS Integers, FiniteSets

CONSTANTS
  Updaters,   \* requests, or processes of the command
  Starts,     \* bound: how many of them begin
  Mishaps     \* bound: calls that fail, and kills

ASSUME SelfUpdateAssumption == {Starts, Mishaps} \subseteq Nat

VARIABLES
  daemon,     \* the binary is the daemon's (PerformWebUpdate), or the command's (runSelfUpdate)
  disk,       \* disk[f]: what the file holds
  step,       \* step[u]
  starts, mishaps

updateVars == <<daemon, disk, step, starts, mishaps>>

Files == {"bin", "old", "new", "broken"}
Whole == {"v1", "v2"}     \* as released; "part" is a file not written to its end
Steps == {"idle", "backup", "create", "copy", "install", "restore", "asked", "aside", "return", "undo"}

Started == starts < Starts /\ starts' = starts + 1
Mishap == mishaps < Mishaps /\ mishaps' = mishaps + 1
To(u, s) == step' = [step EXCEPT ![u] = s]
Rename(from, to) == disk' = [disk EXCEPT ![to] = disk[from], ![from] = "none"]
Move(from, to) == disk[from] # "none" /\ Rename(from, to)
Missing(f) == disk[f] = "none" /\ UNCHANGED <<disk, mishaps>>

\* webUpdateInProgress, or the start of another process, which needs the binary
Free == IF daemon THEN \A u \in Updaters : step[u] = "idle" ELSE disk["bin"] \in Whole

\* Downloaded, unpacked and compared with its checksum: anything else ends here.
Download(u) ==
  /\ step[u] = "idle" /\ Free /\ Started
  /\ To(u, "backup") \/ UNCHANGED step
  /\ UNCHANGED <<daemon, disk, mishaps>>

\* Variants, which the properties tell from the code
BackUpByCopy(u) ==
  /\ step[u] = "backup"
  /\ disk' = [disk EXCEPT !["old"] = disk["bin"]] /\ To(u, "create")
  /\ UNCHANGED <<daemon, mishaps, starts>>

BackUp(u) ==
  /\ step[u] = "backup"
  /\ \/ Move("bin", "old") /\ To(u, "create") /\ UNCHANGED mishaps
     \/ Missing("bin") /\ To(u, "idle")
     \/ Mishap /\ To(u, "idle") /\ UNCHANGED disk
  /\ UNCHANGED <<daemon, starts>>

\* atomicInstall: opened with O_TRUNC, copied and synced, renamed
Create(u) ==
  /\ step[u] = "create"
  /\ \/ disk' = [disk EXCEPT !["new"] = "part"] /\ To(u, "copy") /\ UNCHANGED mishaps
     \/ Mishap /\ To(u, "restore") /\ UNCHANGED disk
  /\ UNCHANGED <<daemon, starts>>
Copy(u) ==
  /\ step[u] = "copy"
  /\ \/ disk' = [disk EXCEPT !["new"] = "v2"] /\ To(u, "install") /\ UNCHANGED mishaps
     \/ Mishap /\ To(u, "restore") /\ disk' = [disk EXCEPT !["new"] = "none"]
  /\ UNCHANGED <<daemon, starts>>
Install(u) ==
  /\ step[u] = "install"
  /\ \/ Move("new", "bin") /\ To(u, "idle") /\ UNCHANGED mishaps
     \/ Missing("new") /\ To(u, "restore")
     \/ Mishap /\ To(u, "restore") /\ disk' = [disk EXCEPT !["new"] = "none"]
  /\ UNCHANGED <<daemon, starts>>

Restore(u) ==
  /\ step[u] = "restore"
  /\ \/ Move("old", "bin") /\ UNCHANGED mishaps
     \/ Missing("old")
     \/ Mishap /\ UNCHANGED disk
  /\ To(u, "idle") /\ UNCHANGED <<daemon, starts>>

\* doRollback: is there an .old?  The binary to .broken, .old in its place, or .broken again.
Ask(u) ==
  /\ ~daemon /\ step[u] = "idle" /\ Free /\ Started
  /\ To(u, IF disk["old"] = "none" THEN "idle" ELSE "aside")
  /\ UNCHANGED <<daemon, disk, mishaps>>
Aside(u) ==
  /\ step[u] = "aside"
  /\ \/ Move("bin", "broken") /\ To(u, "return") /\ UNCHANGED mishaps
     \/ Missing("bin") /\ To(u, "idle")
     \/ Mishap /\ To(u, "idle") /\ UNCHANGED disk
  /\ UNCHANGED <<daemon, starts>>
GoBack(u) ==
  /\ step[u] = "return"
  /\ \/ Move("old", "bin") /\ To(u, "idle") /\ UNCHANGED mishaps
     \/ Missing("old") /\ To(u, "undo")
     \/ Mishap /\ To(u, "undo") /\ UNCHANGED disk
  /\ UNCHANGED <<daemon, starts>>
Undo(u) ==
  /\ step[u] = "undo"
  /\ \/ Move("broken", "bin") /\ UNCHANGED mishaps
     \/ Missing("broken")
     \/ Mishap /\ UNCHANGED disk
  /\ To(u, "idle") /\ UNCHANGED <<daemon, starts>>

\* The daemon's end is the end of all its requests, and it can start again only from its binary.
Kill(u) ==
  /\ step[u] # "idle" /\ Mishap
  /\ step' = [v \in Updaters |-> IF daemon \/ v = u THEN "idle" ELSE step[v]]
  /\ starts' = IF daemon /\ disk["bin"] \notin Whole THEN Starts ELSE starts
  /\ UNCHANGED <<daemon, disk>>

UpdateInit ==
  /\ daemon \in BOOLEAN
  /\ disk = [f \in Files |-> IF f = "bin" THEN "v1" ELSE "none"]
  /\ step = [u \in Updaters |-> "idle"]
  /\ starts = 0 /\ mishaps = 0

UpdateNext ==
  \E u \in Updaters : Download(u) \/ BackUp(u) \/ Create(u) \/ Copy(u) \/ Install(u) \/ Restore(u)
                      \/ Ask(u) \/ Aside(u) \/ GoBack(u) \/ Undo(u) \/ Kill(u)

-----------------------------------------------------------------------------
\* Whatever fails, is killed or runs at once, the binary is a whole one or missing, and when it is
\* missing a whole one lies in .old or .broken: the rename of the binary is what keeps two
\* processes from writing .new together.
Recoverable ==
  /\ disk["bin"] # "part"
  /\ \E f \in {"bin", "old", "broken"} : disk[f] \in Whole
=============================================================================
