----------------------------- MODULE Workspace -----------------------------
(***************************************************************************)
(* The agent's tools on the files of its workspace: the gate every call    *)
(* passes (tool_registry_execute with the permission policy), the backups  *)
(* that file tools take before they change a file, the writes themselves,  *)
(* and roll-back, with crashes and new processes in between.               *)
(*                                                                         *)
(* A refused call changes nothing and is left out as a stuttering step.    *)
(***************************************************************************)
EXTENDS Naturals, FiniteSets, FiniteSetsExt

CONSTANTS Files,        \* absolute paths inside the workspace
          BaseOf,       \* path -> last component
          Prefixed,     \* pairs <<b, p>>: a backup of base b has a name that
                        \* starts with p and a dot
          Contents,
          Policies,     \* [approval, autonomy, off, conf]
          SameSecond,   \* may a process start in the second in which the
                        \* one before it took a backup?
          MaxSeq,       \* bound: backups of one process
          MaxBackups,   \* bound: files in the backup directory
          MaxTime       \* bound: seconds

None == "none"
Partial == "partial"

ASSUME WorkspaceAssumption ==
  /\ BaseOf \in [Files -> {b[1] : b \in Prefixed}]
  /\ \A f \in Files : <<BaseOf[f], BaseOf[f]>> \in Prefixed
  /\ Partial \notin Contents /\ None \notin Contents
  /\ SameSecond \in BOOLEAN /\ MaxSeq \in Nat /\ MaxBackups \in Nat /\ MaxTime \in Nat

VARIABLES
  policy,     \* Permissions, and whether an approver is attached
  disk,       \* path -> content
  backups,    \* the backup directory: name -> [content, mt, of]
  seqno,      \* Sandbox.backup_seq
  now,        \* time(NULL)
  op, pc,     \* the call in progress and where it is
  owed,       \* history: versions a call found and whose backup did not fail
  latest,     \* history: what the last backup of each file holds
  inPlace     \* history: files written without a temporary file

workspaceVars == <<policy, disk, backups, seqno, now, op, pc, owed, latest, inPlace>>
store == <<disk, backups, seqno, owed, latest, inPlace>>

NoOp == [tool |-> None, file |-> None, mode |-> None, new |-> None, old |-> None]

Held == Contents \cup {Partial}

SEC_SAFE == 0
SEC_LOW_RISK == 1
SEC_MEDIUM_RISK == 2
SEC_HIGH_RISK == 3
SEC_CRITICAL == 4

Tools == {"read_file", "write_file", "edit_file", "delete_file", "shell_execute"}

(* The built-in tools' levels and their own demand for confirmation. *)
Level(t) == CASE t = "read_file" -> SEC_SAFE
              [] t \in {"write_file", "edit_file"} -> SEC_LOW_RISK
              [] t = "shell_execute" -> SEC_MEDIUM_RISK
              [] t = "delete_file" -> SEC_HIGH_RISK
requires_confirmation(t) == t = "delete_file"

-----------------------------------------------------------------------------
(* permissions.c *)
autonomy_allows(lvl) ==
  CASE policy.autonomy \in {0, 1} -> FALSE
    [] policy.autonomy = 3 -> lvl <= SEC_MEDIUM_RISK
    [] policy.autonomy = 4 -> lvl <= SEC_HIGH_RISK
    [] OTHER -> lvl <= SEC_SAFE

needs_confirmation(t, lvl) ==
  CASE policy.approval = "never" -> lvl >= SEC_CRITICAL
    [] policy.approval = "always" -> TRUE
    [] policy.approval = "risky" ->
         \/ t \in policy.conf
         \/ ~autonomy_allows(lvl)
         \/ lvl >= SEC_MEDIUM_RISK /\ policy.autonomy < 4
         \/ lvl >= SEC_HIGH_RISK

NeedConf(t) == needs_confirmation(t, Level(t)) \/ requires_confirmation(t)

(* tool_registry_execute up to the tool's own code: the tool is enabled,   *)
(* and a gated call has an approver who says yes.                          *)
Gate(t) ==
  /\ pc = "idle"
  /\ t \notin policy.off
  /\ NeedConf(t) => policy.approver

-----------------------------------------------------------------------------
(* The tools, up to the first change they make. *)
Begin(t, f, md, c, p) ==
  /\ op' = [tool |-> t, file |-> f, mode |-> md, new |-> c, old |-> disk[f]]
  /\ pc' = p
  /\ UNCHANGED <<policy, store, now>>

CallRead(f) ==
  /\ Gate("read_file") /\ disk[f] # None
  /\ Begin("read_file", f, "read", None, "done")

CallWrite(f, md, c) ==
  /\ Gate("write_file")
  /\ md = "create" => disk[f] = None
  /\ Begin("write_file", f, md, c,
           IF disk[f] # None THEN "backup" ELSE IF md = "append" THEN "append" ELSE "write")

(* The old block was found once; c is the patched text. *)
CallEdit(f, c) ==
  /\ Gate("edit_file") /\ disk[f] # None
  /\ Begin("edit_file", f, "overwrite", c, "backup")

CallDelete(f) ==
  /\ Gate("delete_file") /\ disk[f] # None
  /\ Begin("delete_file", f, "delete", None, "backup")

(* A command that is neither forbidden nor dangerous runs in the workspace *)
(* and may rewrite or remove its files.                                    *)
CallShell(f, c) ==
  /\ Gate("shell_execute")
  /\ op' = [tool |-> "shell_execute", file |-> f, mode |-> "shell", new |-> c,
            old |-> disk[f]]
  /\ disk' = [disk EXCEPT ![f] = c]
  /\ pc' = "done"
  /\ UNCHANGED <<policy, backups, seqno, now, owed, latest, inPlace>>

-----------------------------------------------------------------------------
(* Mutant: the sequence number is not part of the name. *)
BackupName_NoSeq(f) == <<BaseOf[f], 0, now>>

BackupName(f) == <<BaseOf[f], seqno, now>>

AfterBackup == CASE op.mode = "append" -> "append"
                 [] op.mode = "delete" -> "remove"
                 [] OTHER -> "write"

(* fs_copy_file to a new or an existing name. *)
Copy(f, name, c) ==
  /\ backups' = [n \in DOMAIN backups \cup {name} |->
                   IF n = name THEN [content |-> c, mt |-> now, of |-> f] ELSE backups[n]]
  /\ latest' = [latest EXCEPT ![f] = c]

(* sandbox_backup.  Its callers ignore a failure, which leaves part of a   *)
(* copy behind, or nothing.                                                *)
TakeBackup ==
  /\ pc = "backup" /\ seqno < MaxSeq /\ Cardinality(DOMAIN backups) < MaxBackups
  /\ seqno' = seqno + 1
  /\ LET f == op.file IN
       \/ /\ Copy(f, BackupName(f), disk[f])
          /\ owed' = owed \cup {[file |-> f, content |-> op.old]}
       \/ Copy(f, BackupName(f), Partial) /\ UNCHANGED owed
       \/ UNCHANGED <<backups, latest, owed>>
  /\ pc' = AfterBackup
  /\ UNCHANGED <<policy, disk, now, op, inPlace>>

(* Mutant: the file itself is opened for writing. *)
WriteTmp_InPlace ==
  /\ pc = "write"
  /\ disk' = [disk EXCEPT ![op.file] = Partial]
  /\ pc' = "rename"
  /\ UNCHANGED <<policy, backups, seqno, now, op, owed, latest, inPlace>>

(* write_entire_file: all of the text into <path>.tmp.agent, a file no     *)
(* tool looks at and the next write starts afresh; a failure gives up ...  *)
WriteTmp ==
  /\ pc = "write"
  /\ pc' \in {"rename", "done"}
  /\ UNCHANGED <<policy, disk, backups, seqno, now, op, owed, latest, inPlace>>

(* ... and one rename. *)
Rename ==
  /\ pc = "rename"
  /\ \/ disk' = [disk EXCEPT ![op.file] = op.new]
     \/ UNCHANGED disk
  /\ pc' = "done"
  /\ UNCHANGED <<policy, backups, seqno, now, op, owed, latest, inPlace>>

(* mode=append writes to the file itself. *)
AppendTo ==
  /\ pc = "append"
  /\ \/ \E c \in {op.new, Partial} : disk' = [disk EXCEPT ![op.file] = c]
     \/ UNCHANGED disk
  /\ inPlace' = inPlace \cup {op.file}
  /\ pc' = "done"
  /\ UNCHANGED <<policy, backups, seqno, now, op, owed, latest>>

Remove ==
  /\ pc = "remove"
  /\ \/ disk' = [disk EXCEPT ![op.file] = None]
     \/ UNCHANGED disk
  /\ pc' = "done"
  /\ UNCHANGED <<policy, backups, seqno, now, op, owed, latest, inPlace>>

(* The result goes back to the loop. *)
Return ==
  /\ pc = "done"
  /\ pc' = "idle" /\ op' = NoOp
  /\ UNCHANGED <<policy, store, now>>

-----------------------------------------------------------------------------
(* sandbox_rollback: the newest backup by mtime among those whose name     *)
(* starts with the file's base name and a dot; the directory's order       *)
(* decides between equal times.                                            *)
Candidates(f) == {n \in DOMAIN backups : <<n[1], BaseOf[f]>> \in Prefixed}

(* Mutant: the comparison of times is turned round. *)
Newest_Oldest(S) == {n \in S : \A m \in S : backups[n].mt <= backups[m].mt}

Newest(S) == {n \in S : \A m \in S : backups[m].mt <= backups[n].mt}

(* The copy back truncates the file first ... *)
Rollback(f) ==
  /\ pc = "idle"
  /\ \E n \in Newest(Candidates(f)) :
       op' = [tool |-> "rollback", file |-> f, mode |-> "rollback",
              new |-> backups[n].content, old |-> disk[f]]
  /\ disk' = [disk EXCEPT ![f] = Partial]
  /\ inPlace' = inPlace \cup {f}
  /\ pc' = "copy"
  /\ UNCHANGED <<policy, backups, seqno, now, owed, latest>>

(* ... and fills it, or fails on the way. *)
RollbackCopied ==
  /\ pc = "copy"
  /\ \/ disk' = [disk EXCEPT ![op.file] = op.new]
     \/ UNCHANGED disk
  /\ pc' = "idle" /\ op' = NoOp
  /\ UNCHANGED <<policy, backups, seqno, now, owed, latest, inPlace>>

Tick ==
  /\ now < MaxTime
  /\ now' = now + 1
  /\ UNCHANGED <<policy, store, op, pc>>

(* The process dies, or ends, and another starts with a count of its own. *)
Restart ==
  /\ SameSecond \/ \A n \in DOMAIN backups : n[3] < now
  /\ policy' \in Policies
  /\ seqno' = 0 /\ pc' = "idle" /\ op' = NoOp
  /\ UNCHANGED <<disk, backups, now, owed, latest, inPlace>>

WorkspaceInit ==
  /\ policy \in Policies
  /\ disk \in [Files -> Contents \cup {None}]
  /\ backups = << >>
  /\ seqno = 0 /\ now = 0 /\ op = NoOp /\ pc = "idle"
  /\ owed = {} /\ latest = [f \in Files |-> None] /\ inPlace = {}

WorkspaceNext ==
  \/ \E f \in Files : CallRead(f) \/ CallDelete(f) \/ Rollback(f)
  \/ \E f \in Files, c \in Contents : CallEdit(f, c)
  \/ \E f \in Files, c \in Contents \cup {None} : CallShell(f, c)
  \/ \E f \in Files, c \in Contents, md \in {"overwrite", "append", "create"} :
       CallWrite(f, md, c)
  \/ TakeBackup \/ WriteTmp \/ Rename \/ AppendTo \/ Remove \/ Return
  \/ RollbackCopied \/ Tick \/ Restart

WorkspaceSpec == WorkspaceInit /\ [][WorkspaceNext]_workspaceVars

-----------------------------------------------------------------------------
(* A version that write_file, edit_file or delete_file found, and whose    *)
(* backup did not fail, stays in the backup directory for good: no later   *)
(* backup, of this file or of one with the same base name, in this process *)
(* or another, takes its name.                                             *)
VersionsKept ==
  \A v \in owed : \E n \in DOMAIN backups :
     n[1] = BaseOf[v.file] /\ backups[n].of = v.file /\ backups[n].content = v.content

(* Overwriting, creating and editing are atomic: whatever fails and        *)
(* wherever the process dies, a file holds a whole text, unless it was     *)
(* appended to or rolled back, which write in place.                       *)
WholeText == \A f \in Files : disk[f] = Partial => f \in inPlace

(* Roll-back restores the file's own most recent backup, as long as no     *)
(* other file has backups that match its prefix and no two of its backups  *)
(* were taken in the same second.                                          *)
RollbackRestoresLatest ==
  pc = "copy" =>
    LET C == Candidates(op.file) IN
      (/\ \A n \in C : backups[n].of = op.file
       /\ \A n, m \in C : backups[n].mt = backups[m].mt => n = m)
      => op.new = latest[op.file]
=============================================================================
