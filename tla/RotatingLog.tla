---------------------------- MODULE RotatingLog ----------------------------
(***************************************************************************)
(* RotatingLogToFile (common/rotating_log_to_file.h and .cpp): a log file  *)
(* and its rotated copies <path>.1, <path>.2, ..., which survive a crash of *)
(* the process.  file[0] is the log file, file[i] is <path>.i.             *)
(*                                                                         *)
(* log_message holds m_mutex from end to end, so the messages of several   *)
(* threads are logged one after another; the renames of a rotation are     *)
(* steps of their own because the process can die between two of them.     *)
(* The file system may refuse a rename, an open or a write.                *)
(***************************************************************************)
EXTENDS Integers, Sequences, SequencesExt, FiniteSets

CONSTANTS
    MaxFilesCount,  \* the values of files_count are 0 .. MaxFilesCount
    FileMaxSize,    \* file_max_size_bytes
    MessageSizes,   \* sizes of the messages
    PrefixSize,     \* what full_log and lite_log put around a message
    MaxMessages,    \* bounds on the messages, the file system's refusals
    MaxRefusals,    \* and the crashes
    MaxCrashes,
    TellAtEnd       \* does tellp() of a file just opened for appending return
                    \* its size, or 0: the C++ library decides

ASSUME LogAssumption ==
    /\ {MaxFilesCount, FileMaxSize, PrefixSize} \subseteq Nat
    /\ {MaxMessages, MaxRefusals, MaxCrashes} \subseteq Nat
    /\ MessageSizes \subseteq Nat
    /\ TellAtEnd \in BOOLEAN

VARIABLES
    m_files_count,
    file,       \* the files: [exists, lines], a line being [id, size]
    pos,        \* m_file_handle.tellp(), -1 when the stream has failed or is closed
    at,         \* where the process is: "down", "idle", "rename",
                \* "open" (log file renamed) or "failed" (its rename refused)
    index,      \* rotate_files' loop variable
    cur,        \* the message being logged
    sent,       \* number of messages given to the logger
    clog,       \* ids of the messages that went to std::clog
    dropped,    \* ids of the messages in flight at a crash
    refusals, crashes

logVars == <<m_files_count, file, pos, at, index, cur, sent, clog, dropped, refusals, crashes>>

Absent == [exists |-> FALSE, lines |-> <<>>]

NoMessage == [id |-> 0, size |-> 0]

\* The line a failed rotation writes about itself.
ErrorLine == [id |-> 0, size |-> PrefixSize]

FileSize(f) == FoldSeq(LAMBDA line, n : line.size + n, 0, f.lines)

LogInit ==
    /\ m_files_count \in 0 .. MaxFilesCount
    /\ file = [i \in 0 .. MaxFilesCount |-> Absent]
    /\ pos = -1
    /\ at = "down"
    /\ index = 0
    /\ cur = NoMessage
    /\ sent = 0
    /\ clog = {} /\ dropped = {}
    /\ refusals = 0 /\ crashes = 0

\* The disk after opening the log file for appending, which creates it.
Opened(f) == [f EXCEPT ![0].exists = TRUE]

TellAfterOpen(f) == IF TellAtEnd THEN FileSize(f[0]) ELSE 0

\* The disk after writing lines to the log file; the stream then stands at its
\* end.
Written(f, lines) == [f EXCEPT ![0].lines = @ \o lines]

MayRefuse == refusals < MaxRefusals

\* log_to_ofstream for lines and then the message m, on the disk f, with the
\* stream in the state p, after n refusals: a failed stream, or a refused write,
\* sends the message to std::clog.
WriteTo(f, p, lines, m, n) ==
    \/ /\ p >= 0
       /\ file' = Written(f, Append(lines, m))
       /\ pos' = FileSize(file'[0])
       /\ refusals' = n
       /\ UNCHANGED clog
    \/ /\ p >= 0 /\ n < MaxRefusals
       /\ file' \in {f, Written(f, lines)} /\ pos' = -1
       /\ clog' = clog \cup {m.id}
       /\ refusals' = n + 1
    \/ /\ p < 0
       /\ file' = f /\ pos' = -1
       /\ clog' = clog \cup {m.id}
       /\ refusals' = n

RotatingLogToFile ==
    /\ at = "down"
    /\ \/ /\ file' = Opened(file)
          /\ pos' = TellAfterOpen(file)
          /\ UNCHANGED refusals
       \/ /\ MayRefuse
          /\ pos' = -1
          /\ refusals' = refusals + 1
          /\ UNCHANGED file
    /\ at' = "idle"
    /\ UNCHANGED <<m_files_count, index, cur, sent, clog, dropped, crashes>>

HasRoom(size) == pos >= 0 /\ pos + size < FileMaxSize

\* last_index - 1, where rotate_files' loop starts.
FirstIndex == m_files_count - 2

\* log_message: with one file there is no rotation, with none there is no log.
log_message(size) ==
    /\ at = "idle" /\ m_files_count > 0
    /\ sent < MaxMessages
    /\ sent' = sent + 1
    /\ LET m == [id |-> sent + 1, size |-> size + PrefixSize]
       IN  \/ /\ m_files_count = 1 \/ HasRoom(size)
              /\ WriteTo(file, pos, <<>>, m, refusals)
              /\ UNCHANGED <<at, index, cur>>
           \/ /\ m_files_count > 1 /\ ~HasRoom(size)
              /\ at' = "rename"
              /\ index' = FirstIndex
              /\ cur' = m
              /\ UNCHANGED <<file, pos, clog, refusals>>
    /\ UNCHANGED <<m_files_count, dropped, crashes>>

\* One iteration of rotate_files' loop; a file that is not there is no error.
RenameOld ==
    /\ at = "rename" /\ index >= 1
    /\ file' = IF file[index].exists
               THEN [file EXCEPT ![index + 1] = file[index], ![index] = Absent]
               ELSE file
    /\ index' = index - 1
    /\ UNCHANGED <<m_files_count, pos, at, cur, sent, clog, dropped, refusals, crashes>>

\* Faulty: a refused rename is ignored and the rotation goes on.
RenameOldRefused_ignored ==
    /\ at = "rename" /\ index >= 1 /\ MayRefuse
    /\ index' = index - 1
    /\ refusals' = refusals + 1
    /\ UNCHANGED <<m_files_count, file, pos, at, cur, sent, clog, dropped, crashes>>

\* A refused rename ends the rotation; the message goes to the old file.
RenameOldRefused ==
    /\ at = "rename" /\ index >= 1 /\ MayRefuse
    /\ WriteTo(file, pos, <<ErrorLine>>, cur, refusals + 1)
    /\ at' = "idle" /\ cur' = NoMessage
    /\ UNCHANGED <<m_files_count, index, sent, dropped, crashes>>

\* close() and the rename of the log file itself.
RenameMain ==
    /\ at = "rename" /\ index = 0 /\ file[0].exists
    /\ pos' = -1
    /\ file' = [file EXCEPT ![1] = file[0], ![0] = Absent]
    /\ at' = "open"
    /\ UNCHANGED <<m_files_count, index, cur, sent, clog, dropped, refusals, crashes>>

RenameMainRefused ==
    /\ at = "rename" /\ index = 0
    /\ \/ file[0].exists /\ MayRefuse /\ refusals' = refusals + 1
       \/ ~file[0].exists /\ UNCHANGED refusals
    /\ pos' = -1
    /\ at' = "failed"
    /\ UNCHANGED <<m_files_count, file, index, cur, sent, clog, dropped, crashes>>

\* open_log_file and the message, after the error line of a failed rotation.
OpenAndLog ==
    /\ at \in {"open", "failed"}
    /\ LET lines == IF at = "failed" THEN <<ErrorLine>> ELSE <<>>
       IN  \/ WriteTo(Opened(file), TellAfterOpen(file), lines, cur, refusals)
           \/ /\ MayRefuse
              /\ pos' = -1
              /\ clog' = clog \cup {cur.id}
              /\ refusals' = refusals + 1
              /\ UNCHANGED file
    /\ at' = "idle" /\ cur' = NoMessage
    /\ UNCHANGED <<m_files_count, index, sent, dropped, crashes>>

\* The process dies; the files stay as they are.
Crash ==
    /\ at # "down" /\ crashes < MaxCrashes
    /\ at' = "down"
    /\ pos' = -1
    /\ dropped' = IF cur = NoMessage THEN dropped ELSE dropped \cup {cur.id}
    /\ cur' = NoMessage
    /\ crashes' = crashes + 1
    /\ UNCHANGED <<m_files_count, file, index, sent, clog, refusals>>

LogNext ==
    \/ RotatingLogToFile
    \/ \E size \in MessageSizes : log_message(size)
    \/ RenameOld \/ RenameOldRefused
    \/ RenameMain \/ RenameMainRefused
    \/ OpenAndLog
    \/ Crash

LogSpec == LogInit /\ [][LogNext]_logVars

-----------------------------------------------------------------------------

Lines == [id : 0 .. MaxMessages, size : Nat]

LogTypeOK ==
    /\ \A i \in DOMAIN file : file[i].lines \in Seq(Lines)
    /\ pos \in Nat \cup {-1}
    /\ at \in {"down", "idle", "rename", "open", "failed"}
    /\ index \in 0 .. MaxFilesCount
    /\ clog \subseteq 1 .. sent /\ dropped \subseteq 1 .. sent

Ids(i) == {file[i].lines[k].id : k \in DOMAIN file[i].lines} \ {0}

Kept == UNION {Ids(i) : i \in DOMAIN file}

Lost == 1 .. sent \ (Kept \cup clog \cup dropped \cup {cur.id})

\* The files never hold messages out of order, also after a rotation that was
\* refused half way or cut by a crash and then repeated: a file with a higher
\* number holds older messages, and a file holds its messages in their order.
OrderKept ==
    /\ \A i, j \in DOMAIN file : i < j =>
          \A a \in Ids(i), b \in Ids(j) : b < a
    /\ \A i \in DOMAIN file : \A k, l \in DOMAIN file[i].lines :
          k < l /\ 0 \notin {file[i].lines[k].id, file[i].lines[l].id}
             => file[i].lines[k].id < file[i].lines[l].id

\* What a rotation overwrites is the oldest that was kept: no message is lost
\* while an older one is still in a file.
LostAreOldest == \A l \in Lost, k \in Kept : l < k

\* files_count bounds the number of files, the log file included: the test
\* TestMaxFilesCount expects that <path>.<files_count> never exists.
FilesBounded ==
    \A i \in DOMAIN file : file[i].exists => i = 0 \/ i < m_files_count

\* The numbers a rotated file may have that no file has.
FreeNumbers == {i \in 1 .. m_files_count - 1 : ~file[i].exists}

\* A rotation shifts every file by one, over a gap in their numbers too, and so may
\* discard the oldest one while a number is free.  But a gap is left only by a
\* rotation cut by a crash or a refusal, and a rotation that succeeds takes it up:
\* when messages were lost, a free number stands for a crash or a refusal of its own.
LostOnlyWhenFull ==
    Lost # {} /\ at = "idle" => Cardinality(FreeNumbers) <= crashes + refusals

\* The lines of file i, after its first one, that end beyond the limit.
Overlong(i) ==
    {k \in 2 .. Len(file[i].lines) :
        FileSize([file[i] EXCEPT !.lines = SubSeq(@, 1, k)]) >= FileMaxSize + PrefixSize}

\* The size limit of a file that rotates counts the text of the messages, and is
\* exceeded by the decoration of its last line - or by a single message that is too
\* long for any file.  A rotation that is refused leaves a file that has no room; two
\* lines go beyond its limit then, the message and the one about the error, and no
\* more of them, in all files together, than two for each refusal.
SizeBound ==
    m_files_count > 1 =>
        Cardinality(UNION {{i} \X Overlong(i) : i \in DOMAIN file}) <= 2 * refusals

\* "Maximum number of rotated log files to keep": as many are kept before a message
\* is lost.
KeepsFilesCount == Lost # {} /\ at = "idle" => FreeNumbers = {}

\* "Maximum size of each log file in bytes before rotation", taken as the code does:
\* without the decoration of the last line.
SizeLimit == m_files_count > 1 => \A i \in DOMAIN file : Overlong(i) = {}

\* "automatically rotates files when the size limit is reached": the files are
\* not shifted while the log file has room.
RotatesWhenFull ==
    [][at = "idle" /\ at' = "rename" =>
          FileSize(file[0]) + cur'.size >= FileMaxSize]_logVars
=============================================================================
