------------------------------- MODULE FileTail -------------------------------
(***************************************************************************)
(* Following a log file (syslogb/app/tailer.py) while a program writes it  *)
(* and log rotation renames or truncates it, and while the directory       *)
(* scanner (scanner.py, tail_service.py) starts and stops the tailer as    *)
(* the file appears and vanishes.                                          *)
(*                                                                         *)
(* One path.  A written line n is two pieces, 2n-1 and 2n; the second ends *)
(* with the newline.  A file is the sequence of its pieces, an offset      *)
(* counts pieces, and a delivered line is the sequence of pieces between   *)
(* two newlines.  A tailer's stat, open, read and each callback are steps  *)
(* of their own.                                                           *)
(*                                                                         *)
(* stop waits 2 s for the thread and then gives it up.  That is enough for *)
(* a stat, an open or a read, so that a thread stopped there ends; but a   *)
(* callback may wait longer, for a lock or the database, and the loop over *)
(* the lines of a chunk does not look at the stop flag: such a thread goes *)
(* on to hand on what it has in hand, beside the tailer that succeeds it.  *)
(***************************************************************************)
EXTENDS LineText

CONSTANTS
  Inodes,      \* inode numbers
  None,        \* no file, no handle
  ReadMax,     \* pieces per read
  MaxWritten, MaxRotations, MaxUpsets, MaxTailFaults  \* bounds: lines written,
               \* rotations, rescans' upsets (reloads, changes of interest), I/O errors

ASSUME TailAssumption ==
  /\ None \notin Inodes /\ Cardinality(Inodes) >= 2
  /\ ReadMax \in Nat \ {0}
  /\ MaxWritten \in Nat /\ MaxRotations \in Nat /\ MaxUpsets \in Nat
  /\ MaxTailFaults \in Nat

VARIABLES
  content,   \* the pieces in each file
  path,      \* the inode under the path
  writer,    \* the inode that the program writes
  written,   \* pieces written so far
  tl,        \* the tailer: where it is, _fh, _offset, _partial, lines in hand
  late,      \* of each tailer stopped so far, the lines its thread still has in hand
  active,    \* the scanner watches the path
  wanted,    \* somebody wants lines: want_raw, want_failures
  delivered, \* history: lines handed on, by which tailer, with the lines skipped
             \* for lack of interest
  from,      \* history: where in its file, and after how many lines, _open left off
  cut,       \* history: files truncated since they were opened
  blind,     \* history: a read went past a truncation that was not noticed
  glitched,  \* history: an I/O error made the tailer reopen its file
  rotations, upsets, tailFaults  \* counters for the bounds

fsVars == <<content, path, writer, written, rotations>>
history == <<delivered, from, cut, blind, glitched>>
tailVars == <<fsVars, tl, active, wanted, late, history, upsets, tailFaults>>

\* The number of the present tailer.
Present == Len(late) + 1

NoTailer == [pc |-> "none", fh |-> None, off |-> 0, part |-> <<>>, todo |-> <<>>, wants |-> FALSE]

-----------------------------------------------------------------------------
(* The program that logs, and log rotation *)

\* One half of a line; rotation does not wait for the second one.
Write ==
  /\ writer # None /\ written < 2 * MaxWritten
  /\ content' = [content EXCEPT ![writer] = Append(@, written + 1)]
  /\ written' = written + 1
  /\ UNCHANGED <<path, writer, rotations, tl, active, wanted, late, history, upsets, tailFaults>>

\* The file is renamed; the program goes on writing it.
RenameAway ==
  /\ path # None /\ rotations < MaxRotations
  /\ rotations' = rotations + 1
  /\ path' = None
  /\ UNCHANGED <<content, writer, written, tl, active, wanted, late, history, upsets, tailFaults>>

\* The program reopens the path.  An open file keeps its inode number.
CreateNew ==
  /\ path = None
  /\ \E i \in Inodes \ {tl.fh, writer} :
       /\ path' = i /\ writer' = i
       /\ content' = [content EXCEPT ![i] = <<>>]
       /\ cut' = cut \ {i}
  /\ UNCHANGED <<written, rotations, tl, active, wanted, late, delivered, from, blind, glitched,
                 upsets, tailFaults>>

\* copytruncate.
CutShort ==
  /\ path # None /\ rotations < MaxRotations
  /\ rotations' = rotations + 1
  /\ content' = [content EXCEPT ![path] = <<>>]
  /\ cut' = cut \cup {path}
  /\ UNCHANGED <<path, writer, written, tl, active, wanted, late, delivered, from, blind, glitched,
                 upsets, tailFaults>>

-----------------------------------------------------------------------------
(* FileTailer *)

\* Faulty: what was left of the old file's last chunk is kept.
OpenedMidLine(off, pc) ==
  /\ tl' = [tl EXCEPT !.pc = pc, !.fh = path, !.off = off]
  /\ from' = [off |-> off, count |-> Len(delivered)]
  /\ cut' = cut \ {path}

\* _open: the file under the path, if there is one, at its end or its start.
Opened(off, pc) ==
  /\ tl' = [NoTailer EXCEPT !.pc = pc, !.fh = path, !.off = off]
  /\ from' = [off |-> off, count |-> Len(delivered)]
  /\ cut' = cut \ {path}

\* The thread starts at the end of the file; if it cannot open it, it ends.
OpenAtEnd ==
  /\ tl.pc = "start"
  /\ \/ path # None /\ Opened(Len(content[path]), "stat") /\ UNCHANGED tailFaults
     \/ /\ path = None \/ tailFaults < MaxTailFaults
        /\ tailFaults' = IF path = None THEN tailFaults ELSE tailFaults + 1
        /\ tl' = [NoTailer EXCEPT !.pc = "dead"]
        /\ UNCHANGED <<from, cut>>
  /\ UNCHANGED <<fsVars, active, wanted, late, delivered, blind, glitched, upsets>>

\* _maybe_reopen at the top of the loop.
Stat ==
  /\ tl.pc = "stat"
  /\ IF path = None THEN tl' = [NoTailer EXCEPT !.pc = "stat"] /\ UNCHANGED <<from, cut>>
     ELSE IF tl.fh # path \/ Len(content[path]) < tl.off
       THEN Opened(0, "read")
     ELSE tl' = [tl EXCEPT !.pc = "read"] /\ UNCHANGED <<from, cut>>
  /\ UNCHANGED <<fsVars, active, wanted, late, delivered, blind, glitched, upsets, tailFaults>>

\* The stat or the read fails: the handle is closed, and the file is opened at
\* its start once it is there.
TailGlitch ==
  /\ tl.pc \in {"stat", "read"} /\ tl.fh # None /\ tailFaults < MaxTailFaults
  /\ tailFaults' = tailFaults + 1
  /\ glitched' = TRUE
  /\ tl' = [NoTailer EXCEPT !.pc = "stat"]
  /\ UNCHANGED <<fsVars, active, wanted, late, delivered, from, cut, blind, upsets>>

Chunk == SubSeq(content[tl.fh], tl.off + 1, Smaller(tl.off + ReadMax, Len(content[tl.fh])))

\* Faulty: nothing is read while nobody wants lines.
ReadWhenWanted ==
  /\ tl.pc = "read"
  /\ LET chunk == IF wanted THEN Chunk ELSE <<>>
         data == tl.part \o chunk IN
     /\ tl' = IF chunk = <<>> THEN [tl EXCEPT !.pc = "stat"]
              ELSE [tl EXCEPT !.pc = IF Whole(data) = <<>> THEN "stat" ELSE "emit",
                              !.off = @ + Len(chunk), !.part = Rest(data),
                              !.todo = Whole(data), !.wants = wanted]
     /\ blind' = (blind \/ (chunk # <<>> /\ tl.fh \in cut))
  /\ UNCHANGED <<fsVars, active, wanted, late, delivered, from, cut, glitched, upsets, tailFaults>>

\* A chunk from the offset; lines end with a newline, the rest waits.
Read ==
  /\ tl.pc = "read"
  /\ LET chunk == Chunk
         data == tl.part \o chunk IN
     /\ tl' = IF chunk = <<>> THEN [tl EXCEPT !.pc = "stat"]
              ELSE [tl EXCEPT !.pc = IF Whole(data) = <<>> THEN "stat" ELSE "emit",
                              !.off = @ + Len(chunk), !.part = Rest(data),
                              !.todo = Whole(data), !.wants = wanted]
     /\ blind' = (blind \/ (chunk # <<>> /\ tl.fh \in cut))
  /\ UNCHANGED <<fsVars, active, wanted, late, delivered, from, cut, glitched, upsets, tailFaults>>

\* on_raw_line, on_failure_line for the next line of the chunk.
Emit ==
  /\ tl.pc = "emit"
  /\ delivered' = Append(delivered, [line |-> Head(tl.todo), sent |-> tl.wants, by |-> Present])
  /\ tl' = [tl EXCEPT !.todo = Tail(@), !.pc = IF Len(tl.todo) = 1 THEN "stat" ELSE "emit"]
  /\ UNCHANGED <<fsVars, active, wanted, late, from, cut, blind, glitched, upsets, tailFaults>>

\* A callback raises: the thread ends, and its tailer stays listed.
EmitFails ==
  /\ tl.pc = "emit" /\ tl.wants /\ tailFaults < MaxTailFaults
  /\ tailFaults' = tailFaults + 1
  /\ tl' = [NoTailer EXCEPT !.pc = "dead"]
  /\ UNCHANGED <<fsVars, active, wanted, late, history, upsets>>

\* The same in the thread of a stopped tailer.
EmitLate(g) ==
  /\ late[g] # <<>>
  /\ delivered' = Append(delivered, [line |-> Head(late[g]), sent |-> TRUE, by |-> g])
  /\ late' = [late EXCEPT ![g] = Tail(@)]
  /\ UNCHANGED <<fsVars, tl, active, wanted, from, cut, blind, glitched, upsets, tailFaults>>

LateFails(g) ==
  /\ late[g] # <<>> /\ tailFaults < MaxTailFaults
  /\ tailFaults' = tailFaults + 1
  /\ late' = [late EXCEPT ![g] = <<>>]
  /\ UNCHANGED <<fsVars, tl, active, wanted, history, upsets>>

-----------------------------------------------------------------------------
(* The scanner and the service *)

\* FileTailer.stop, and the tailer is dropped.
Stop ==
  /\ tl' = NoTailer
  /\ late' = Append(late, IF tl.pc = "emit" /\ tl.wants THEN tl.todo ELSE <<>>)

\* _scan_once: a path that appeared gets a tailer unless one is listed, that of
\* a path that vanished is stopped.
Scan ==
  /\ (path # None) # active
  /\ IF path # None
     THEN /\ tl' = IF tl.pc = "none" THEN [NoTailer EXCEPT !.pc = "start"] ELSE tl
          /\ UNCHANGED late
     ELSE Stop
  /\ active' = (path # None)
  /\ UNCHANGED <<fsVars, wanted, history, upsets, tailFaults>>

\* reload after a settings save: every tailer is stopped, and the new scanner
\* starts with nothing.
Reload ==
  /\ upsets < MaxUpsets
  /\ upsets' = upsets + 1
  /\ Stop /\ active' = FALSE
  /\ UNCHANGED <<fsVars, wanted, history, tailFaults>>

\* The first rule or live view appears, or the last one goes.
ChangeInterest ==
  /\ upsets < MaxUpsets
  /\ upsets' = upsets + 1
  /\ wanted' = ~wanted
  /\ UNCHANGED <<fsVars, tl, late, active, history, tailFaults>>

TailInit ==
  /\ content = [i \in Inodes |-> <<>>]
  /\ path = (CHOOSE i \in Inodes : TRUE) /\ writer = path
  /\ written = 0
  /\ tl = NoTailer /\ late = <<>> /\ active = FALSE /\ wanted = TRUE
  /\ delivered = <<>> /\ from = [off |-> 0, count |-> 0]
  /\ cut = {} /\ blind = FALSE /\ glitched = FALSE
  /\ rotations = 0 /\ upsets = 0 /\ tailFaults = 0

Follow == Stat \/ Read \/ Emit

TailNext ==
  \/ Write \/ RenameAway \/ CreateNew \/ CutShort
  \/ OpenAtEnd \/ Follow \/ TailGlitch \/ EmitFails
  \/ \E g \in DOMAIN late : EmitLate(g) \/ LateFails(g)
  \/ Scan \/ Reload \/ ChangeInterest

\* The tailer's thread runs.
TailFairness == WF_tailVars(Follow)

TailSpec == TailInit /\ [][TailNext]_tailVars /\ TailFairness
-----------------------------------------------------------------------------
Pieces == 1..(2 * MaxWritten)

TailTypeOK ==
  /\ content \in [Inodes -> Seq(Pieces)]
  /\ path \in Inodes \cup {None} /\ writer \in Inodes
  /\ written \in 0..(2 * MaxWritten)
  /\ tl.pc \in {"none", "start", "stat", "read", "emit", "dead"}
  /\ tl.fh \in Inodes \cup {None} /\ tl.off \in Nat /\ tl.wants \in BOOLEAN
  /\ tl.part \in Seq(Pieces) /\ tl.todo \in Seq(Seq(Pieces))
  /\ tl.pc = "read" => tl.fh # None
  /\ tl.pc = "emit" => tl.todo # <<>>
  /\ late \in Seq(Seq(Seq(Pieces)))
  /\ \A n \in DOMAIN delivered :
        delivered[n].line \in Seq(Pieces) /\ delivered[n].by \in 1..Present
  /\ from.count <= Len(delivered)

\* A line handed on is never glued from two lines that were written, nor handed
\* on twice, through chunk boundaries, renames, truncations and restarts, and a
\* tailer hands its lines on in order, all of them written after those of the
\* tailers before it; the exceptions are a truncated file that grew past the
\* offset before the tailer looked, and an I/O error, after which the file is
\* read anew.  Only a stopped tailer that is held up in a callback may hand on
\* its last lines after newer ones of its successor.
Sooner(m, n) ==
  \/ delivered[m].by < delivered[n].by
  \/ delivered[m].by = delivered[n].by /\ m < n
LinesWhole ==
  /\ ~blind => \A n \in DOMAIN delivered :
        \A i, j \in DOMAIN delivered[n].line :
          LineOf(delivered[n].line[i]) = LineOf(delivered[n].line[j])
  /\ ~blind /\ ~glitched => \A m, n \in DOMAIN delivered :
        Sooner(m, n) => \A i \in DOMAIN delivered[m].line, j \in DOMAIN delivered[n].line :
                          delivered[m].line[i] < delivered[n].line[j]

\* Everything of the open file from where it was opened to the offset has been
\* handed on, is in hand, or waits for its newline: nothing between is skipped.
Handed == UNION {{delivered[n].line[i] : i \in DOMAIN delivered[n].line} :
                   n \in {k \in (from.count + 1)..Len(delivered) : delivered[k].by = Present}}
InTodo == UNION {{tl.todo[n][i] : i \in DOMAIN tl.todo[n]} : n \in DOMAIN tl.todo}
NothingSkipped ==
  tl.fh # None /\ tl.fh \notin cut =>
    {content[tl.fh][i] : i \in (from.off + 1)..tl.off}
      = Handed \cup InTodo \cup {tl.part[i] : i \in DOMAIN tl.part}

\* What was handed on are lines as they were written, and all of them.
LinesSound == LinesWhole /\ NothingSkipped

\* Line n is complete, and the tailer has it still to read or in hand.
Due(n) ==
  /\ tl.pc \in {"stat", "read", "emit"} /\ tl.fh # None
  /\ \/ tl.fh = path /\ \E i \in DOMAIN content[path] : i > tl.off /\ content[path][i] = 2 * n
     \/ 2 * n \in InTodo

\* A complete line of the open file does not stay due for ever: it is handed on,
\* unless the file is rotated, or the tailer stops or dies, before it is read.
LinesArrive == \A n \in 1..MaxWritten : Due(n) ~> ~Due(n)
=============================================================================
