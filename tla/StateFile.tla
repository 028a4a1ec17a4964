----------------------------- MODULE StateFile ------------------------------
(***************************************************************************)
(* What survives a restart: history.json and preferences.json, each a      *)
(* table in memory that every change writes out (history.py, prefs.py).    *)
(* A write goes to a temporary file that then replaces the live one; a     *)
(* history that has grown too large first moves the live file aside.  The  *)
(* process may be killed between any two of these steps, and a write may   *)
(* fail, which the code logs and forgets.                                  *)
(*                                                                         *)
(* The table is the sequence of its entries: for the history, the calls of *)
(* one user; for the preferences, the last value of one setting.           *)
(***************************************************************************)
EXTENDS Integers, Sequences

CONSTANTS
    Files,        \* the files, of "history" and "preferences"
    KeepLen,      \* history: entries kept per user
    RotateLen,    \* history: a table with more entries is rotated (rotate_bytes)
    RotatedLen,   \* history: entries kept by a rotation
    MaxEntries,   \* bound: changes made
    MaxCrashes    \* bound: times the process is killed

ASSUME FileAssumption == KeepLen \in Nat \ {0} /\ RotatedLen \in Nat \ {0} /\ RotateLen \in Nat

VARIABLES
    file,         \* which of the files this is
    table,        \* the data in memory
    disk,         \* the live file, the rotated one and the temporary one; Absent or Torn
    saving,       \* the step of _save that is next, or "no"
    kept,         \* the table of the last save that succeeded
    made          \* changes made, and crashes

fileVars == <<file, table, disk, saving, kept, made>>

\* Contents no table has.
Absent == <<-1>>
Torn == <<-2>>
Rotates == file = "history"
Newest(s, n) == SubSeq(s, IF Len(s) > n THEN Len(s) - n + 1 ELSE 1, Len(s))

FileInit ==
    /\ file \in Files
    /\ table = <<>>
    /\ disk = [live |-> Absent, old |-> Absent, tmp |-> Absent]
    /\ saving = "no" /\ kept = Absent
    /\ made = [changes |-> 0, crashes |-> 0]

\* add() appends a call and drops the oldest; set() replaces the value.  Both save under the lock.
Change ==
    /\ saving = "no" /\ made.changes < MaxEntries
    /\ table' = IF Rotates THEN Newest(Append(table, made.changes + 1), KeepLen) ELSE <<made.changes + 1>>
    /\ made' = [made EXCEPT !.changes = @ + 1]
    /\ saving' = IF Rotates /\ Len(table') > RotateLen THEN "rotate" ELSE "write"
    /\ UNCHANGED <<file, disk, kept>>

\* prune() drops the users that have left the configuration, and saves if there were any.
Prune ==
    /\ saving = "no" /\ table # <<>>
    /\ table' = <<>> /\ saving' = "write"
    /\ UNCHANGED <<file, disk, kept, made>>

\* _rotate: the live file becomes the old one, and only then is the new one written.
Rotate ==
    /\ saving = "rotate"
    /\ disk' = IF disk.live = Absent THEN disk ELSE [disk EXCEPT !.old = disk.live, !.live = Absent]
    /\ table' = Newest(table, RotatedLen)
    /\ saving' = "write"
    /\ UNCHANGED <<file, kept, made>>

\* Mutant: the file itself is opened for writing.
OpenTmpMutant ==
    /\ saving = "write" /\ saving' = "text"
    /\ disk' = [disk EXCEPT !.tmp = Torn, !.live = Torn]
    /\ UNCHANGED <<file, table, kept, made>>

\* write_text to the temporary file: opened empty, then written.
OpenTmp ==
    /\ saving = "write" /\ saving' = "text"
    /\ disk' = [disk EXCEPT !.tmp = Torn]
    /\ UNCHANGED <<file, table, kept, made>>

WriteTmp ==
    /\ saving = "text" /\ saving' = "replace"
    /\ disk' = [disk EXCEPT !.tmp = table]
    /\ UNCHANGED <<file, table, kept, made>>

Replace ==
    /\ saving = "replace" /\ saving' = "no"
    /\ disk' = [disk EXCEPT !.live = disk.tmp, !.tmp = Absent]
    /\ kept' = disk.tmp
    /\ UNCHANGED <<file, table, made>>

\* The write or the replacement fails: memory and file differ until the next save.
SaveFails ==
    /\ saving \in {"write", "text", "replace"} /\ saving' = "no"
    /\ UNCHANGED <<file, table, disk, kept, made>>

\* The process is killed, at any step, and started again: what cannot be read is empty.
Restart ==
    /\ made.crashes < MaxCrashes
    /\ made' = [made EXCEPT !.crashes = @ + 1]
    /\ table' = IF disk.live \in {Absent, Torn} THEN <<>> ELSE Newest(disk.live, KeepLen)
    /\ saving' = "no"
    /\ UNCHANGED <<file, disk, kept>>

FileNext == Change \/ Prune \/ Rotate \/ OpenTmp \/ WriteTmp \/ Replace \/ SaveFails \/ Restart

FileSpec == FileInit /\ [][FileNext]_fileVars

-----------------------------------------------------------------------------
(* Properties *)

\* Nothing that was saved is lost: whenever the process dies, the live file is whole and is that
\* of the last save that succeeded; only a rotation leaves it in the file kept aside instead.
NothingLost ==
    /\ disk.live # Torn /\ disk.old # Torn
    /\ disk.live = kept \/ (Rotates /\ disk.live = Absent /\ disk.old = kept)

=============================================================================
