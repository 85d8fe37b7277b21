---------------------------- MODULE SnapshotFile ----------------------------
(***************************************************************************)
(* internal/storage: Write and Read (snapshot.go) over the file system.    *)
(*                                                                         *)
(* Write fills path.tmp and renames it to path.  os.WriteFile opens the    *)
(* temporary file with truncation and then writes; every Write uses the    *)
(* same temporary name, so two that overlap share one file until one of    *)
(* them renames it away under the other.  The process may end between any  *)
(* two steps; the files stay as the kernel has them.                       *)
(*                                                                         *)
(* A file's content is empty, a snapshot, or a mixture: part of one, or    *)
(* one written over the beginning of a longer one.                         *)
(***************************************************************************)
EXTENDS Naturals

CONSTANTS
  Savers,   \* goroutines that may be inside Write
  MaxLength \* encoded snapshots are told apart by their length, up to this

ASSUME LengthsAreCounted == MaxLength \in Nat

VARIABLES
  tmp,         \* the content of path.tmp, or Absent
  path,        \* the content of path, or Absent
  save,        \* per Write call, where it is, and the file it has open
  last,        \* what the last Write that returned nil was given (history)
  shared,      \* the calls of Write that have met another one (history)
  mixed        \* the last Write that returned nil was such a call (history)

fileVars == <<tmp, path, save, last, shared, mixed>>

Snapshots == 1 .. MaxLength
Empty == 0
Mixture == MaxLength + 1
Absent == MaxLength + 2

IdleSave == [pc |-> "idle"]

FileInit == /\ tmp = Absent /\ path = Absent
            /\ save = [s \in Savers |-> IdleSave]
            /\ last = Absent
            /\ shared = {} /\ mixed = FALSE

InWrite == {s \in Savers : save[s] # IdleSave}

Writing(s, file) == save[s].pc = "write" /\ save[s].file = file

\* os.WriteFile opens path.tmp, creating or truncating it.
OpenTmp(s, v) ==
  /\ save[s] = IdleSave
  /\ tmp' = Empty
  /\ save' = [save EXCEPT ![s] = [pc |-> "write", value |-> v, file |-> "tmp"]]
  /\ shared' = IF InWrite = {} THEN {} ELSE InWrite \cup {s}
  /\ UNCHANGED <<path, last, mixed>>

\* The content of a file after v is written over its beginning.
Over(old, v) == IF old <= v THEN v ELSE Mixture

\* The file a call has open gets new content, under whatever name it has now;
\* one that another rename replaced has none.
Fill(s, content(_)) ==
  /\ tmp' = IF Writing(s, "tmp") THEN content(tmp) ELSE tmp
  /\ path' = IF Writing(s, "path") THEN content(path) ELSE path

\* os.WriteFile writes all of the snapshot.
WriteTmp(s) ==
  /\ save[s].pc = "write"
  /\ Fill(s, LAMBDA old : Over(old, save[s].value))
  /\ save' = [save EXCEPT ![s] = [pc |-> "rename", value |-> save[s].value]]
  /\ UNCHANGED <<last, shared, mixed>>

\* Mutant: Write goes on after os.WriteFile returned an error.
WriteFailsUnseen(s) ==
  /\ save[s].pc = "write"
  /\ Fill(s, LAMBDA old : Mixture)
  /\ save' = [save EXCEPT ![s] = [pc |-> "rename", value |-> save[s].value]]
  /\ UNCHANGED <<last, shared, mixed>>

\* os.WriteFile fails part way, and Write returns the error.
WriteFails(s) ==
  /\ save[s].pc = "write"
  /\ Fill(s, LAMBDA old : Mixture)
  /\ save' = [save EXCEPT ![s] = IdleSave]
  /\ UNCHANGED <<last, shared, mixed>>

\* What another call has open follows the file through the rename.
FileAfterRename(r) ==
  IF save[r].pc # "write" THEN save[r]
  ELSE [save[r] EXCEPT !.file = IF @ = "tmp" THEN "path" ELSE "replaced"]

\* os.Rename makes path.tmp the file at path; it fails if there is no path.tmp.
Rename(s) ==
  /\ save[s].pc = "rename"
  /\ \/ /\ tmp # Absent
        /\ path' = tmp /\ tmp' = Absent
        /\ last' = save[s].value /\ mixed' = (s \in shared)
        /\ save' = [r \in Savers |-> IF r = s THEN IdleSave ELSE FileAfterRename(r)]
     \/ /\ tmp = Absent
        /\ save' = [save EXCEPT ![s] = IdleSave]
        /\ UNCHANGED <<tmp, path, last, mixed>>
  /\ UNCHANGED shared

\* The process ends, and is started again.
CrashSaves == /\ InWrite # {}
              /\ save' = [s \in Savers |-> IdleSave]
              /\ UNCHANGED <<tmp, path, last, shared, mixed>>

FileNext == \/ \E s \in Savers : \/ \E v \in Snapshots : OpenTmp(s, v)
                                 \/ WriteTmp(s) \/ WriteFails(s) \/ Rename(s)
            \/ CrashSaves

FileSpec == FileInit /\ [][FileNext]_fileVars

-----------------------------------------------------------------------------

\* "Write persists a snapshot atomically": at any moment, after any crash or
\* failed write, Read finds the snapshot of the last Write that succeeded, or
\* no file before the first one, and never a part of one.  Unless that Write met
\* another one on its way, in which case either may have cut or overwritten what
\* the other renames; the next Write that is alone repairs what they left.
LastSaveIsThere == ~mixed => path = last

=============================================================================
