---- MODULE CompDecomp ----
(***************************************************************************)
(* ClassWork3/compdecomp.cpp: one file compressed, or decompressed and     *)
(* removed, through two buffers and a z_stream. The user runs it job after *)
(* job on the files of a directory. A step is one library call, or one     *)
(* turn of a loop inside miniz.                                            *)
(*                                                                         *)
(* The name "x.zip" is the sequence <<"x", "zip">>. What stdio buffers of  *)
(* the output reaches the file when it is closed, which main does not      *)
(* check.                                                                  *)
(***************************************************************************)
EXTENDS Miniz

CONSTANTS
    MaxFile,    \* the longest input main accepts (INT_MAX)
    Sessions    \* [files, jobs, precious]: the files there are, the command
                \* lines, and the text the user cares for

VARIABLES
    files,      \* the directory: contents by name
    jobs,       \* the command lines still to run, the current one first
    pc,
    infile_size, infile_remaining,
    written,    \* what fwrite has accepted for the output file
    goal,       \* the text the current job is to put out
    precious,   \* a text the user has in some file at the start
    faults      \* the calls of the system that have failed so far, and what
                \* the command lines have done to the files: see Open

sizes == <<infile_size, infile_remaining>>
vars == <<files, jobs, pc, sizes, written, goal, precious, faults, streamVars>>

Archive(name) == "zip" \in ToSet(Tail(name))

Content(f) == IF Archive(f) THEN Decode(files[f]) ELSE files[f]

\* No file but f has the text the user cares for.
OnlyCopy(f) ==
    /\ f \in DOMAIN files /\ Content(f) = precious
    /\ \A other \in DOMAIN files \ {f} : Content(other) # precious

job == Head(jobs)
src == job.src
compressing == job.mode \in {"c", "C"}

\* pDst_filename without a third argument: ".zip" is added, or cut off
\* together with all that follows its first occurrence. strchr also accepts
\* an empty mode.
Destination(mode, name) ==
    LET n == SelectInSubSeq(name, 2, Len(name), LAMBDA part : part = "zip")
    IN IF mode \in {"c", "C"} THEN Append(name, "zip")
       ELSE IF n > 0 THEN SubSeq(name, 1, n - 1) ELSE Append(name, "_decomp")

dst == IF job.dst = <<>> THEN Destination(job.mode, src) ELSE job.dst

Init ==
    /\ \E s \in Sessions : files = s.files /\ jobs = s.jobs /\ precious = s.precious
    /\ pc = "main"
    /\ infile_size = 0 /\ infile_remaining = 0
    /\ written = <<>> /\ goal = <<>> /\ faults = {}
    /\ StreamInit
----------------------------------------------------------------------------
\* Mutants: plausible slips in the definitions that follow; no specification
\* uses them.

\* Z_FINISH as soon as the input buffer is not full.
FlushWantedEarly == IF Len(next_in) = BufSize THEN "Z_NO_FLUSH" ELSE "Z_FINISH"

\* Only full buffers are written.
FullOnly == avail_out = 0

\* The loop goes on unless the data are bad.
ContinueOnBufError ==
    CASE zstatus = "Z_STREAM_END" -> "close"
      [] zstatus \in {"Z_OK", "Z_BUF_ERROR"} -> "loop"
      [] OTHER -> "error"

\* The source is removed without a look at how the loop ended.
AbortUnlinks ==
    /\ pc = "error"
    /\ \E n \in 0..Len(written) : files' = [files EXCEPT ![dst] = SubSeq(written, 1, n)]
    /\ pc' = IF compressing THEN "failed" ELSE "unlink"
    /\ UNCHANGED <<jobs, sizes, written, goal, precious, faults, streamVars>>

----------------------------------------------------------------------------
\* Wrong use, a source that cannot be opened or is too large, or a target
\* that cannot be opened.
Refuse ==
    /\ pc = "main" /\ jobs # <<>>
    /\ \/ job.mode \notin {"c", "C", "d", "D", ""} /\ UNCHANGED faults
       \/ src \notin DOMAIN files /\ UNCHANGED faults
       \/ src \in DOMAIN files /\ Len(files[src]) > MaxFile /\ UNCHANGED faults
       \/ faults' = faults \union {"fopen"}
    /\ pc' = "failed"
    /\ UNCHANGED <<files, jobs, sizes, written, goal, precious, streamVars>>

\* Both files are open, which empties the target, also one that was there
\* before, and the stream is set up, if there is memory for it.
Open ==
    /\ pc = "main" /\ jobs # <<>>
    /\ job.mode \in {"c", "C", "d", "D", ""}
    /\ src \in DOMAIN files /\ Len(files[src]) <= MaxFile
    /\ infile_size' = Len(files[src]) /\ infile_remaining' = Len(files[src])
    /\ goal' = IF compressing THEN files[src] ELSE Decode(files[src])
    /\ files' = [f \in DOMAIN files \union {dst} |-> IF f = dst THEN <<>> ELSE files[f]]
    /\ LET done == (IF src = dst THEN {"same file"} ELSE {})
                       \union (IF OnlyCopy(dst) THEN {"only copy emptied"} ELSE {})
       IN \/ pc' = "loop" /\ faults' = faults \union done
          \/ pc' = "error" /\ faults' = faults \union done \union {"malloc"}
    /\ StreamReset
    /\ UNCHANGED <<jobs, written, precious>>

\* if (!stream.avail_in): the next piece of the input.
Refill ==
    /\ pc = "loop" /\ next_in = <<>>
    /\ LET n == Min({BufSize, infile_remaining})
           at == infile_size - infile_remaining
       IN /\ Len(files[src]) >= at + n
          /\ next_in' = SubSeq(files[src], at + 1, at + n)
          /\ infile_remaining' = infile_remaining - n
    /\ pc' = "call"
    /\ UNCHANGED <<files, jobs, infile_size, written, goal, precious, faults,
                   s_outbuf, comp, decomp, flush, orig, zpc, zstatus>>

RefillFails ==
    /\ pc = "loop" /\ next_in = <<>> /\ infile_remaining > 0
    /\ \/ files[src] = <<>> /\ UNCHANGED faults
       \/ faults' = faults \union {"fread"}
    /\ pc' = "error"
    /\ UNCHANGED <<files, jobs, sizes, written, goal, precious, streamVars>>

FlushWanted == IF infile_remaining > 0 THEN "Z_NO_FLUSH" ELSE "Z_FINISH"

Call ==
    /\ pc = "call" \/ (pc = "loop" /\ next_in # <<>>)
    /\ IF compressing THEN Deflate(FlushWanted) ELSE InflateRest \/ Inflate
    /\ pc' = "coding"
    /\ UNCHANGED <<files, jobs, sizes, written, goal, precious, faults>>

Code ==
    /\ pc = "coding" /\ zpc # "ready"
    /\ DeflateStep \/ InflateStep
    /\ UNCHANGED <<files, jobs, pc, sizes, written, goal, precious, faults>>

\* if ((status == Z_STREAM_END) || (!stream.avail_out))
Full == zstatus = "Z_STREAM_END" \/ avail_out = 0

\* How the loop goes on after a call.
Continue ==
    CASE zstatus = "Z_STREAM_END" -> "close"
      [] zstatus = "Z_OK" -> "loop"
      [] OTHER -> "error"

WriteOut ==
    /\ pc = "coding" /\ zpc = "ready" /\ Full
    /\ written' = written \o s_outbuf
    /\ s_outbuf' = <<>>
    /\ pc' = Continue
    /\ UNCHANGED <<files, jobs, sizes, goal, precious, faults,
                   next_in, comp, decomp, flush, orig, zpc, zstatus>>

WriteFails ==
    /\ pc = "coding" /\ zpc = "ready" /\ Full
    /\ faults' = faults \union {"fwrite"}
    /\ pc' = "error"
    /\ UNCHANGED <<files, jobs, sizes, written, goal, precious, streamVars>>

GoOn ==
    /\ pc = "coding" /\ zpc = "ready" /\ ~Full
    /\ pc' = Continue
    /\ UNCHANGED <<files, jobs, sizes, written, goal, precious, faults, streamVars>>

\* return -1: the process ends, and of the output what stdio can still flush
\* stays in the target.
Abort ==
    /\ pc = "error"
    /\ \E n \in 0..Len(written) : files' = [files EXCEPT ![dst] = SubSeq(written, 1, n)]
    /\ pc' = "failed"
    /\ UNCHANGED <<jobs, sizes, written, goal, precious, faults, streamVars>>

\* fclose of both; that the target could not be flushed goes unnoticed.
Close ==
    /\ pc = "close"
    /\ \/ files' = [files EXCEPT ![dst] = written] /\ UNCHANGED faults
       \/ /\ \E n \in 0..Len(written) - 1 : files' = [files EXCEPT ![dst] = SubSeq(written, 1, n)]
          /\ faults' = faults \union {"fclose"}
    /\ pc' = IF job.mode \in {"d", "D"} THEN "unlink" ELSE "ok"
    /\ UNCHANGED <<jobs, sizes, written, goal, precious, streamVars>>

Unlink ==
    /\ pc = "unlink"
    /\ \/ files' = [f \in DOMAIN files \ {src} |-> files[f]] /\ UNCHANGED faults
       \/ UNCHANGED files /\ faults' = faults \union {"unlink"}
    /\ pc' = "ok"
    /\ UNCHANGED <<jobs, sizes, written, goal, precious, streamVars>>

\* The command lines are joined by &&: after a failure none is run. (The
\* archive a failed compression leaves behind would, decompressed, cost the
\* text it was made from.)
NextJob ==
    /\ pc \in {"ok", "failed"}
    /\ jobs' = IF pc = "ok" THEN Tail(jobs) ELSE <<>>
    /\ pc' = "main"
    /\ written' = <<>> /\ goal' = <<>>
    /\ UNCHANGED <<files, sizes, precious, faults, streamVars>>

Stopped == pc = "main" /\ jobs = <<>>

Terminated == Stopped /\ UNCHANGED vars

Next ==
    \/ Refuse
    \/ Open
    \/ Refill
    \/ RefillFails
    \/ Call
    \/ Code
    \/ WriteOut
    \/ WriteFails
    \/ GoOn
    \/ Abort
    \/ Close
    \/ Unlink
    \/ NextJob
    \/ Terminated

\* One process, which runs as long as it can.
Spec == Init /\ [][Next]_vars /\ WF_vars(Next)

----------------------------------------------------------------------------

Unread == SubSeq(files[src], infile_size - infile_remaining + 1, infile_size)

\* At every step the text is whole: what has been written, what waits in the
\* output buffer, in miniz and in the input buffer, and what is still to be
\* read follow each other without a gap or an overlap, in both directions; and
\* no buffer, nor the dictionary, holds more than fits.
Conserved ==
    /\ pc \in {"loop", "call", "coding", "close"} /\ src # dst =>
          IF compressing
          THEN Decode(written \o s_outbuf \o comp.unsent) \o comp.codes
                  \o next_in \o Unread = goal
          ELSE written \o s_outbuf \o decomp.dict \o decomp.due
                  \o (IF decomp.ended THEN <<>> ELSE Decode(next_in \o Unread)) = goal
    /\ Len(next_in) <= BufSize /\ Len(s_outbuf) <= BufSize
    /\ decomp.ofs \in 0..DictSize - 1 /\ Room >= 0

\* An archive without damage up to its end.
Sound(units) ==
    LET n == SelectInSeq(units, LastUnit)
    IN n > 0 /\ \A k \in 1..n : units[k].err = "none"

\* The contract of zlib is kept (room to write to, no input behind Z_FINISH,
\* no call behind the end of the stream), so a job fails only for a reason:
\* a wrong command line, a source too large, a damaged archive, or a call of
\* the system.
NoFalseAlarm ==
    /\ pc \in {"loop", "call"} =>
          /\ avail_out > 0
          /\ ~Done(comp) /\ (comp.finishing => infile_remaining = 0)
          /\ decomp.last = "DONE" => decomp.dict # <<>>
    /\ pc \in {"error", "failed"} /\ faults \subseteq {"only copy emptied"} =>
          \/ job.mode \notin {"c", "C", "d", "D", ""}
          \/ src \notin DOMAIN files
          \/ pc = "failed" /\ Len(files[src]) > MaxFile
          \/ ~compressing /\ ~Sound(files[src])

\* A text is lost in two ways only: fclose fails to flush the target, which
\* main does not look at (line 185), or fopen empties a target that was there
\* before and had the only copy of it (line 174), the source itself or another
\* file. In all else, at every moment, also between fclose and unlink and on
\* every error, some file has all of it.
NothingLost ==
    faults \intersect {"fclose", "only copy emptied"} = {} =>
        \E f \in DOMAIN files : Content(f) = precious

\* The loops over deflate and inflate end, whatever the files.
Termination == <>Stopped

\* Both directions put out their text from the beginning, without a gap, and
\* report success only for the whole of it.
Blocks == INSTANCE BlockCopy WITH
    text    <- goal,
    out     <- IF pc # "main" /\ compressing THEN Decode(written) ELSE written,
    outcome <- CASE pc = "main" -> "idle"
                 [] pc \in {"ok", "failed"} -> pc
                 [] OTHER -> "running"

CopySpec == Blocks!Spec
====
