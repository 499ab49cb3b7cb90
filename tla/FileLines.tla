----------------------------- MODULE FileLines ------------------------------
(***************************************************************************)
(* Reading a text by lines: file::for_each_line and file::read_line        *)
(* (common/file.cpp), which read the file in chunks, and the line reader   *)
(* for strings utils::for_each_line (common/utils.cpp).  A read may return *)
(* less than was asked for; a read, get_size and set_position may fail;    *)
(* and another process may append to the file meanwhile.                   *)
(***************************************************************************)
EXTENDS Strings

CONSTANTS
    FileChars,          \* the characters, among them
    Eol,                \* a blank, Space, and an end of line
    MAX_CHUNK_SIZE,
    MaxFileSize,        \* bound on the size of the file
    MaxAppends          \* bound on what is appended during the walk

ASSUME FileAssumption ==
    /\ {Space, Eol} \subseteq FileChars /\ Blanks \cap FileChars = {Space, Eol} /\ Space # Eol
    /\ {MAX_CHUNK_SIZE, MaxFileSize, MaxAppends} \subseteq Nat \ {0}

VARIABLES
    content,    \* the bytes of the file
    reader,     \* "idle", "lines" (in for_each_line), "done", "line" (in read_line),
                \* "end" (it returned a line) or "nullopt"
    offset,     \* position of the file handle
    begun_at,   \* its position when for_each_line was called
    file_size,  \* the size for_each_line got at its start
    walk,       \* for_each_line's locals, with the calls of the action
    returned,   \* what for_each_line returned
    stop_after, \* the call at which the action returns false, 0 for never
    wanted,     \* the call the position of which is given to read_line
    got_line,   \* what read_line has read
    read_failed \* has a read of read_line failed?

fileVars == <<content, reader, offset, begun_at, file_size, walk, returned, stop_after, wanted,
              got_line, read_failed>>

NewWalk == [line |-> <<>>, line_idx |-> 0, file_idx |-> 0, calls |-> <<>>, stopped |-> FALSE]

FileInit ==
    /\ content \in UNION {[1 .. n -> FileChars] : n \in 0 .. MaxFileSize}
    /\ reader = "idle"
    /\ offset \in 0 .. Len(content)
    /\ begun_at = offset
    /\ file_size = 0
    /\ walk = NewWalk
    /\ returned = 0
    /\ stop_after \in {0, 2}
    /\ wanted = 0
    /\ got_line = <<>>
    /\ read_failed = FALSE

\* The text from position i (counted from 0) to the next end of line.
UpToEol(s, i) ==
    SubSeq(s, i + 1, Min({Len(s)} \cup {k - 1 : k \in {k \in i + 1 .. Len(s) : s[k] = Eol}}))

\* utils::for_each_line: the calls of the action.
utils_for_each_line(s) ==
    LET starts == {i \in 0 .. Len(s) - 1 : i = 0 \/ s[i] = Eol}
    IN  [k \in 1 .. Cardinality(starts) |->
            LET i == SetToSortSeq(starts, <)[k] IN [idx |-> i, line |-> trim(UpToEol(s, i))]]

\* Another process appends to the file.
AppendToFile(c) ==
    /\ reader \in {"lines", "done"}
    /\ Len(content) < file_size + MaxAppends /\ Len(content) < MaxFileSize
    /\ content' = Append(content, c)
    /\ UNCHANGED <<reader, offset, begun_at, file_size, walk, returned, stop_after, wanted, got_line,
                   read_failed>>

\* Up to the first read, which is at the handle's position.
for_each_line ==
    /\ reader = "idle"
    /\ \/ reader' = "lines" /\ file_size' = Len(content) /\ UNCHANGED returned
       \/ reader' = "done" /\ returned' = -1 /\ UNCHANGED file_size
    /\ UNCHANGED <<content, offset, begun_at, walk, stop_after, wanted, got_line, read_failed>>

chunk_size == Min({MAX_CHUNK_SIZE, file_size})

CallOf(w) == [idx |-> w.line_idx, line |-> trim(w.line)]

\* One iteration of the loop over a chunk.
TakeChar(w, c) ==
    IF w.stopped THEN w
    ELSE IF c # Eol THEN [w EXCEPT !.line = Append(@, c), !.file_idx = @ + 1]
    ELSE [w EXCEPT !.calls = Append(@, CallOf(w)),
                   !.stopped = Len(w.calls) + 1 = stop_after,
                   !.line = <<>>,
                   !.file_idx = @ + 1,
                   !.line_idx = w.file_idx + 1]

ReadSizes(size) == 1 .. Min({size, Len(content) - offset})

ReadChunk ==
    /\ reader = "lines"
    /\ \E r \in ReadSizes(chunk_size) :
          /\ walk' = FoldLeft(TakeChar, walk, SubSeq(content, offset + 1, offset + r))
          /\ offset' = offset + r
    /\ reader' = IF walk'.stopped THEN "done" ELSE "lines"
    /\ UNCHANGED <<content, begun_at, file_size, returned, stop_after, wanted, got_line, read_failed>>

\* Faulty: a last line without an end is dropped.
HasLastLine_never == FALSE

\* (size_t) (file_size - 1) > line_idx, the left side of which wraps at zero.
HasLastLine == file_size = 0 \/ file_size - 1 > walk.line_idx

\* A read that returns nothing or fails.
LastRead ==
    /\ reader = "lines"
    /\ \/ ReadSizes(chunk_size) = {} /\ returned' = 0
       \/ returned' = -1
    /\ walk' = IF HasLastLine THEN [walk EXCEPT !.calls = Append(@, CallOf(walk))] ELSE walk
    /\ reader' = "done"
    /\ UNCHANGED <<content, offset, begun_at, file_size, stop_after, wanted, got_line, read_failed>>

\* read_line at the position of the k-th call, which counts from where the walk began.
read_line(k) ==
    /\ reader = "done"
    /\ wanted' = k
    /\ \/ reader' = "line" /\ offset' = begun_at + walk.calls[k].idx
       \/ reader' = "nullopt" /\ UNCHANGED offset
    /\ UNCHANGED <<content, begun_at, file_size, walk, returned, stop_after, got_line, read_failed>>

ReadLineChunk ==
    /\ reader = "line"
    /\ \E r \in ReadSizes(MAX_CHUNK_SIZE) :
          LET chunk == SubSeq(content, offset + 1, offset + r)
          IN  /\ got_line' = got_line \o UpToEol(chunk, 0)
              /\ offset' = offset + r
              /\ reader' = IF Contains(chunk, Eol) THEN "end" ELSE "line"
    /\ UNCHANGED <<content, begun_at, file_size, walk, returned, stop_after, wanted, read_failed>>

\* A read that returns nothing or fails ends the loop; what was read is returned.
LastLineRead ==
    /\ reader = "line"
    /\ \/ ReadSizes(MAX_CHUNK_SIZE) = {} /\ UNCHANGED read_failed
       \/ read_failed' = TRUE
    /\ reader' = "end"
    /\ UNCHANGED <<content, offset, begun_at, file_size, walk, returned, stop_after, wanted, got_line>>

FileNext ==
    \/ \E c \in FileChars : AppendToFile(c)
    \/ for_each_line \/ ReadChunk \/ LastRead
    \/ \E k \in DOMAIN walk.calls : read_line(k)
    \/ ReadLineChunk \/ LastLineRead

FileSpec == FileInit /\ [][FileNext]_fileVars

-----------------------------------------------------------------------------

FileTypeOK ==
    /\ content \in Seq(FileChars) /\ Len(content) <= MaxFileSize
    /\ reader \in {"idle", "lines", "done", "line", "end", "nullopt"}
    /\ begun_at \in 0 .. Len(content) /\ offset \in 0 .. Len(content)
    /\ returned \in {0, -1} /\ read_failed \in BOOLEAN
    /\ walk.line_idx \in 0 .. Len(content)

\* What there is to read, and the calls with a line that was seen to its end.
FromStart == SubSeq(content, begun_at + 1, Len(content))

WholeLines == SelectSeq(walk.calls, LAMBDA call : call.idx < walk.line_idx)

\* The walk was not disturbed: it came to the end, and nobody wrote to the file.
Undisturbed == returned = 0 /\ Len(content) = file_size

\* A file is read as the string of its bytes would be, wherever the chunks end: the
\* lines that have an end are reported one after another at their positions, counted
\* from where the walk began, also when a read fails later or the file grows.  The walk
\* of an undisturbed file from its start reports its last line too; left out are an
\* empty file and a last line of one character without an end, of which FileLinesAll
\* says more.
LinesAsInString ==
    LET lines == utils_for_each_line(FromStart)
    IN  /\ IsPrefix(WholeLines, lines)
        /\ (/\ reader = "done" /\ Undisturbed /\ ~walk.stopped
            /\ begun_at = 0 /\ file_size > 0 /\ walk.line_idx # file_size - 1) => walk.calls = lines

\* The position reported with a line is one from which read_line returns the same
\* line, however both reads are cut into chunks, also in a file that has grown:
\* only a line that the walk did not see to its end may have become longer.  When a
\* read of read_line fails it returns a part of the line, from its beginning.
ReadLineAgrees ==
    reader = "end" =>
        LET call == walk.calls[wanted]
        IN  /\ ~read_failed /\ (call.idx < walk.line_idx \/ Undisturbed)
                  => trim(got_line) = call.line
            /\ IsPrefix(got_line, UpToEol(content, begun_at + call.idx))

\* "Apply user function to each line in file": every line of a file that nobody
\* writes to, and no other, is reported.
FileLinesAll ==
    reader = "done" /\ Undisturbed /\ ~walk.stopped => walk.calls = utils_for_each_line(FromStart)

\* read_line: "Read line, or nullopt in case of error".
ErrorIsNullopt == reader = "end" => ~read_failed

\* for_each_line() and read_line() agree with each other and with the string.
LinesExact == LinesAsInString /\ ReadLineAgrees
=============================================================================
