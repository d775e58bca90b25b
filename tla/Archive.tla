------------------------------ MODULE Archive -------------------------------
(***************************************************************************)
(* deploy/stream_archive.py in follow mode: it reads the event stream from *)
(* its cursor in batches, appends the rows to a file a day, and saves the  *)
(* cursor when a whole drain is through.  Meanwhile the publisher adds     *)
(* entries and MAXLEN ~ trims old ones, Redis fails, the UTC day turns,    *)
(* and the process dies at any point; run_pipeline.sh starts it again.     *)
(*                                                                         *)
(* An entry is its id, 1, 2, 3, ... in the order of the XADDs; a row holds *)
(* the id of its entry, Header heads a file.  What a row is made of is     *)
(* left out.                                                               *)
(***************************************************************************)
EXTENDS Integers, Sequences, SequencesExt

CONSTANTS Retain,    \* MAXLEN: the stream keeps at least so many entries
          PageSize,  \* entries per XRANGE
          Days,      \* bound: UTC days 1..Days
          MaxIds, MaxErrors, MaxCrashes   \* bounds

ASSUME ArchiveAssumption ==
    /\ {Retain, PageSize, Days} \subseteq Nat \ {0}
    /\ {MaxIds, MaxErrors, MaxCrashes} \subseteq Nat

Header == 0
NoDay == 0
NoCursor == 0                      \* a missing or damaged state file, "-" of XRANGE

VARIABLES feed, added,                    \* the stream, and the entries ever added
          apc, reader, last_id, wrote,    \* the loop, and whether this drain wrote rows
          page, short,                    \* rows still to write; the batch was not a full one
          cursor, disk,                   \* the cursor in memory and in archive-state.json
          today, open_day,                \* the UTC day; the day of the open file
          files,                          \* by day, what the CSV holds
          exists,                         \* the days whose file exists
          read_errors, crashes
archive_loop == <<apc, reader, last_id, wrote, page, short>>
archive_out == <<open_day, files, exists>>
archive_faults == <<read_errors, crashes>>
archive_vars == <<feed, added, archive_loop, cursor, disk, today, archive_out, archive_faults>>

ArchiveInit ==
    /\ feed = <<>> /\ added = 0
    /\ apc = "top" /\ reader = FALSE /\ last_id = NoCursor /\ wrote = FALSE /\ page = <<>> /\ short = FALSE
    /\ cursor = NoCursor /\ disk = NoCursor /\ today = 1 /\ open_day = NoDay
    /\ files = [d \in 1..Days |-> <<>>] /\ exists = {}
    /\ read_errors = 0 /\ crashes = 0

(**************************** the surroundings *****************************)
\* The publisher adds an entry; the stream is trimmed now and then.
Xadd ==
    /\ added < MaxIds /\ added' = added + 1
    /\ \E from \in 1..Len(feed) + 1 :
         /\ feed' = SubSeq(Append(feed, added'), from, Len(feed) + 1)
         /\ from > 1 => Len(feed') >= Retain
    /\ UNCHANGED <<archive_loop, cursor, disk, today, archive_out, archive_faults>>

NextDay ==
    /\ today < Days /\ today' = today + 1
    /\ UNCHANGED <<feed, added, archive_loop, cursor, disk, archive_out, archive_faults>>

(******************************* the loop **********************************)
\* Mutant: every drain starts where the stream does.
DrainTopFromStart ==
    /\ apc = "top" /\ apc' = "range"
    /\ reader' = TRUE /\ last_id' = NoCursor /\ wrote' = FALSE
    /\ UNCHANGED <<feed, added, page, short, cursor, disk, today, archive_out, archive_faults>>

\* connect() if there is no reader, then drain_source from the cursor in memory.
DrainTop ==
    /\ apc = "top" /\ apc' = "range"
    /\ reader' = TRUE /\ last_id' = cursor /\ wrote' = FALSE
    /\ UNCHANGED <<feed, added, page, short, cursor, disk, today, archive_out, archive_faults>>

\* Mutant: the newest batch is read first.
NewerNewest == LET all == SelectSeq(feed, LAMBDA id : id > last_id)
               IN  SubSeq(all, IF Len(all) > PageSize THEN Len(all) - PageSize + 1 ELSE 1, Len(all))
\* The stream is in the order of its IDs.
Newer == LET from == CHOOSE i \in 1..Len(feed) + 1 : \A j \in DOMAIN feed : feed[j] > last_id <=> j >= i
         IN  SubSeq(feed, from, Len(feed))

\* XRANGE (last_id +: a batch, or the end of the drain.
ReadBatch ==
    /\ apc = "range"
    /\ LET rows == SubSeq(Newer, 1, IF Len(Newer) < PageSize THEN Len(Newer) ELSE PageSize)
       IN  /\ page' = rows /\ short' = (Len(rows) < PageSize)
           /\ apc' = IF rows = <<>> THEN "drained" ELSE "roll"
    /\ UNCHANGED <<feed, added, reader, last_id, wrote, cursor, disk, today, archive_out, archive_faults>>

\* The file of the day is opened; the test of "fresh" is made before.
Roll ==
    /\ apc = "roll"
    /\ IF today = open_day THEN apc' = "write" /\ UNCHANGED archive_out
       ELSE /\ open_day' = today /\ exists' = exists \cup {today}
            /\ apc' = IF today \in exists THEN "write" ELSE "header"
            /\ UNCHANGED files
    /\ UNCHANGED <<feed, added, reader, last_id, wrote, page, short, cursor, disk, today, archive_faults>>

WriteHeader ==
    /\ apc = "header" /\ apc' = "write"
    /\ files' = [files EXCEPT ![open_day] = Append(@, Header)]
    /\ UNCHANGED <<feed, added, reader, last_id, wrote, page, short, cursor, disk, today, open_day, exists, archive_faults>>

\* The file is line buffered: a row is out when it is written.
WriteRow ==
    /\ apc = "write"
    /\ files' = [files EXCEPT ![open_day] = Append(@, Head(page))]
    /\ page' = Tail(page)
    /\ IF page' # <<>> THEN UNCHANGED <<apc, last_id, wrote>>
       ELSE /\ last_id' = Head(page) /\ wrote' = TRUE
            /\ apc' = IF short THEN "drained" ELSE "range"
    /\ UNCHANGED <<feed, added, reader, short, cursor, disk, today, open_day, exists, archive_faults>>

\* Mutant: the cursor is taken from the stream, not from what was drained.
DrainedAtEnd ==
    /\ apc = "drained"
    /\ IF wrote THEN cursor' = added /\ apc' = "save" ELSE UNCHANGED cursor /\ apc' = "sleep"
    /\ UNCHANGED <<feed, added, reader, last_id, wrote, page, short, disk, today, archive_out, archive_faults>>

Drained ==
    /\ apc = "drained"
    /\ IF wrote THEN cursor' = last_id /\ apc' = "save" ELSE UNCHANGED cursor /\ apc' = "sleep"
    /\ UNCHANGED <<feed, added, reader, last_id, wrote, page, short, disk, today, archive_out, archive_faults>>

\* os.replace puts the new state file in the place of the old one at once.
Save ==
    /\ apc = "save" /\ apc' = "sleep" /\ disk' = cursor
    /\ UNCHANGED <<feed, added, reader, last_id, wrote, page, short, cursor, today, archive_out, archive_faults>>

Wake ==
    /\ apc = "sleep" /\ apc' = "top"
    /\ UNCHANGED <<feed, added, reader, last_id, wrote, page, short, cursor, disk, today, archive_out, archive_faults>>

\* connect() or XRANGE raises: the drain is given up, with its place in the stream.
RedisError ==
    /\ read_errors < MaxErrors /\ read_errors' = read_errors + 1
    /\ apc \in {"top", "range"} /\ apc' = "sleep" /\ reader' = FALSE
    /\ UNCHANGED <<feed, added, last_id, wrote, page, short, cursor, disk, today, archive_out, crashes>>

\* The process dies at any point, or ends on Ctrl-C; the state file may be damaged meanwhile.
Crash ==
    /\ crashes < MaxCrashes /\ crashes' = crashes + 1
    /\ apc # "down" /\ apc' = "down"
    /\ disk' \in {disk, NoCursor}
    /\ reader' = FALSE /\ last_id' = NoCursor /\ wrote' = FALSE /\ page' = <<>> /\ short' = FALSE
    /\ cursor' = NoCursor /\ open_day' = NoDay
    /\ UNCHANGED <<feed, added, today, files, exists, read_errors>>

\* The loop of run_pipeline.sh; load_state.
Restart ==
    /\ apc = "down" /\ apc' = "top" /\ cursor' = disk
    /\ UNCHANGED <<feed, added, reader, last_id, wrote, page, short, disk, today, archive_out, archive_faults>>

ArchiveStep == DrainTop \/ ReadBatch \/ Roll \/ WriteHeader \/ WriteRow \/ Drained \/ Save \/ Wake \/ Restart
ArchiveNext == Xadd \/ NextDay \/ ArchiveStep \/ RedisError \/ Crash

(**************************** properties ***********************************)
Archived == (UNION {ToSet(files[d]) : d \in 1..Days}) \ {Header}
Behind(at) == {id \in ToSet(feed) : id <= at}

\* An entry that is behind a cursor is never read again: it must be in the archive, whatever
\* was trimmed, failed or crashed since (a cursor is saved after the rows, never before).
NothingIsPassedOver == Behind(cursor) \cup Behind(disk) \subseteq Archived

\* A row is archived a second time only when the cursor that covers it was never saved, or was
\* lost; and within a drain the rows follow the stream's order.
RepeatsOnlyUnsaved ==
    [][\A d \in 1..Days : Len(files'[d]) > Len(files[d]) =>
         LET row == Last(files'[d])
         IN  row = Header \/ (row > disk /\ row > last_id /\ row > cursor)]_archive_vars

\* An entry of the stream gets into the archive, or is trimmed before it can be read.
EventuallyArchived == \A id \in 1..MaxIds : id \in ToSet(feed) ~> id \in Archived \/ id \notin ToSet(feed)
=============================================================================
