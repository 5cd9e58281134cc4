-------------------------- MODULE TranscriptStore --------------------------
(***************************************************************************)
(* What a vendor printed, kept in the daemon's memory and read in pages    *)
(* (vibemuxd/src/harness_dispatch/transcript_store.rs, output_page.rs).    *)
(*                                                                         *)
(* A transcript is the sequence of its records' sizes: CaptureBudget       *)
(* numbers the records 1, 2, ..., so a record's sequence is its index.     *)
(* Sizes are in characters.  What a character costs in a page depends on   *)
(* its escaping, so how far a page reaches within its limits is open; it   *)
(* always holds one.                                                       *)
(* Every operation runs under the store's mutex and is one step.           *)
(***************************************************************************)
EXTENDS DispatchPhase, SequencesExt

CONSTANTS Requests,         \* request ids
          Sizes,            \* sizes a record may have
          MaxRecords,       \* CaptureLimits: records of one attempt
          MaxRetained,      \* MAX_RETAINED_TRANSCRIPTS
          MaxRetainedBytes, \* MAX_RETAINED_TRANSCRIPT_BYTES
          PageBytes,        \* what a page holds
          PageFragments     \* MAX_OUTPUT_PAGE_FRAGMENTS

ASSUME TranscriptAssumption ==
    /\ Sizes \subseteq Nat \ {0}
    /\ PageBytes \in Nat \ {0}
    /\ PageFragments \in Nat \ {0}
    /\ {MaxRecords, MaxRetained, MaxRetainedBytes} \subseteq Nat

VARIABLES live,          \* transcripts of the attempts that capture
          finished,      \* retained transcripts, the oldest first
          finishedBytes, \* their size, kept up to date
          captured       \* history: everything an attempt captured

transcriptVars == <<live, finished, finishedBytes, captured>>

Bytes(records) ==
    LET sum[i \in 0..Len(records)] == IF i = 0 THEN 0 ELSE sum[i - 1] + records[i]
    IN  sum[Len(records)]

TotalBytes(queue) == Bytes([i \in 1..Len(queue) |-> Bytes(queue[i].records)])

----------------------------------------------------------------------------
(* begin, append, finish                                                   *)

\* Where request r is retained, if it is.
RetainedAt(r) == {i \in DOMAIN finished : finished[i].request = r}

\* remove_finished and the insertion of an empty transcript.
Begin(r) ==
    /\ live' = [q \in DOMAIN live \cup {r} |-> IF q = r THEN << >> ELSE live[q]]
    /\ LET at == CHOOSE i \in RetainedAt(r) : \A j \in RetainedAt(r) : i <= j
       IN  IF RetainedAt(r) = {}
           THEN UNCHANGED <<finished, finishedBytes>>
           ELSE /\ finished' = RemoveAt(finished, at)
                /\ finishedBytes' = finishedBytes - Bytes(finished[at].records)
    /\ captured' = [captured EXCEPT ![r] = << >>]

\* CaptureBudget::accept lets the record through and the sink appends it.
AppendRecord(r, size) ==
    /\ r \in DOMAIN live
    /\ Len(live[r]) < MaxRecords
    /\ live' = [live EXCEPT ![r] = Append(@, size)]
    /\ captured' = [captured EXCEPT ![r] = Append(@, size)]
    /\ UNCHANGED <<finished, finishedBytes>>

WithinBounds(queue) ==
    Len(queue) <= MaxRetained /\ TotalBytes(queue) <= MaxRetainedBytes

\* Mutant: one transcript at most is evicted for the one that comes.
EvictedOnce(queue) == IF WithinBounds(queue) THEN 0 ELSE 1

\* How many of the oldest the while loop pops.
Evicted(queue) ==
    CHOOSE k \in 0..Len(queue) :
        /\ WithinBounds(SubSeq(queue, k + 1, Len(queue)))
        /\ \A j \in 0..(k - 1) : ~WithinBounds(SubSeq(queue, j + 1, Len(queue)))

FinishTranscript(r) ==
    /\ r \in DOMAIN live
    /\ \E queue \in {Append(finished, [request |-> r, records |-> live[r]])} :
       \E k \in {Evicted(queue)} :
          /\ finished' = SubSeq(queue, k + 1, Len(queue))
          /\ finishedBytes' = finishedBytes + Bytes(live[r]) - TotalBytes(SubSeq(queue, 1, k))
    /\ live' = [q \in DOMAIN live \ {r} |-> live[q]]
    /\ UNCHANGED captured

\* None survives the daemon.
LoseTranscripts ==
    /\ live' = << >>
    /\ finished' = << >>
    /\ finishedBytes' = 0
    /\ UNCHANGED captured

----------------------------------------------------------------------------
(* output_page                                                             *)

\* TranscriptState::find.
Available(r) == r \in DOMAIN live \/ RetainedAt(r) # {}

IsFinished(r) == r \notin DOMAIN live

Records(r) ==
    IF r \in DOMAIN live THEN live[r]
    ELSE finished[CHOOSE i \in RetainedAt(r) : TRUE].records

\* A read resumes inside the next record or at its beginning.
ValidCursor(records, cursor) ==
    cursor.offset > 0 =>
        cursor.after < Len(records) /\ cursor.offset < records[cursor.after + 1]

\* Bytes of record k that an earlier page delivered.
Delivered(cursor, k) == IF k = cursor.after + 1 THEN cursor.offset ELSE 0

\* The page that ends after the given length of record n.
PageTo(records, cursor, n, length) ==
    [k \in 1..(n - cursor.after) |->
        LET sequence == cursor.after + k
            offset   == Delivered(cursor, sequence)
        IN  [sequence |-> sequence, total |-> records[sequence], offset |-> offset,
             length |-> IF sequence = n THEN length ELSE records[sequence] - offset]]

FitsPage(fragments) ==
    /\ Len(fragments) <= PageFragments
    /\ Bytes([k \in 1..Len(fragments) |-> fragments[k].length]) <= PageBytes

\* What build_output_page may serve: nothing only when nothing is left, or
\* the cursor is refused.
Fragments(records, cursor) ==
    IF Len(records) <= cursor.after \/ ~ValidCursor(records, cursor) THEN {<< >>}
    ELSE {fragments \in
             UNION {{PageTo(records, cursor, n, length) :
                        length \in 1..(records[n] - Delivered(cursor, n))} :
                    n \in (cursor.after + 1)..Len(records)} :
          FitsPage(fragments)}

\* Mutant: a record that was cut counts as delivered.
NextCursorPastCut(cursor, fragments) ==
    IF fragments = << >> THEN [after |-> cursor.after, offset |-> 0]
    ELSE [after |-> Last(fragments).sequence, offset |-> 0]

\* Where the next read resumes.
NextCursor(cursor, fragments) ==
    IF fragments = << >> THEN [after |-> cursor.after, offset |-> 0]
    ELSE LET f == Last(fragments)
         IN  IF f.offset + f.length < f.total
             THEN [after |-> f.sequence - 1, offset |-> f.offset + f.length]
             ELSE [after |-> f.sequence, offset |-> 0]

\* Mutant: there always seems to be one more record.
DeliveredNever(records, cursor) == cursor.offset = 0 /\ Len(records) < cursor.after

\* Everything up to the last record went out.
DeliveredAll(records, cursor) == cursor.offset = 0 /\ Len(records) <= cursor.after

\* build_output_page for a valid cursor, with the fragments it came to.
OutputPage(r, cursor, fragments) ==
    LET next == NextCursor(cursor, fragments)
    IN  [fragments |-> fragments, next |-> next,
         complete  |-> IsFinished(r) /\ DeliveredAll(Records(r), next)]

----------------------------------------------------------------------------
(* OutputReassembler: the client's side.                                   *)

\* What a reader holds: whole records up to sequence "after", and "part" of
\* the record "sequence" of size "total" when part > 0.
NewReader == [after |-> 0, records |-> << >>, sequence |-> 0, part |-> 0,
              total |-> 0, consistent |-> TRUE]

CursorOf(reader) == [after |-> reader.after, offset |-> reader.part]

EndsRecord(f) == f.offset + f.length = f.total

\* What accept asks of the first fragment of a page, ...
Continues(reader, f) ==
    IF reader.part > 0
    THEN f.sequence = reader.sequence /\ f.total = reader.total /\ f.offset = reader.part
    ELSE f.sequence > reader.after /\ f.offset = 0

\* ... and of one that follows another.
Follows(f, g) == EndsRecord(f) /\ g.sequence > f.sequence /\ g.offset = 0

\* The reader when every fragment was absorbed: each but the last ends its
\* record, or accept has failed before.
Absorbed(reader, fragments) ==
    IF fragments = << >> THEN reader
    ELSE LET f     == Last(fragments)
             whole == IF EndsRecord(f) THEN fragments ELSE Front(fragments)
         IN  [reader EXCEPT
                !.after    = IF whole = << >> THEN @ ELSE Last(whole).sequence,
                !.records  = @ \o [k \in 1..Len(whole) |-> whole[k].total],
                !.sequence = f.sequence,
                !.total    = f.total,
                !.part     = IF EndsRecord(f) THEN 0 ELSE f.offset + f.length]

\* accept: every fragment continues the stream, and the page's cursor is
\* where the reader itself has come to.
Accept(reader, page) ==
    LET fs == page.fragments
        ok == /\ fs # << >> => Continues(reader, fs[1])
              /\ \A k \in 2..Len(fs) : Follows(fs[k - 1], fs[k])
              /\ \A k \in 1..Len(fs) :
                    fs[k].length > 0 /\ fs[k].offset + fs[k].length <= fs[k].total
              /\ page.next = CursorOf(Absorbed(reader, fs))
    IN  IF ok THEN Absorbed(reader, fs) ELSE [reader EXCEPT !.consistent = FALSE]

----------------------------------------------------------------------------
TranscriptInit ==
    /\ live = << >>
    /\ finished = << >>
    /\ finishedBytes = 0
    /\ captured = [r \in Requests |-> << >>]
=============================================================================
