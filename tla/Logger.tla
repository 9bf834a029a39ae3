------------------------------- MODULE Logger -------------------------------
(***************************************************************************)
(* The Android log device (drivers/staging/android/logger.c): one ring     *)
(* buffer of variable-length entries, its writers, and readers that each   *)
(* keep their own offset.  A write pushes forward the readers it is about  *)
(* to overwrite; the AEE addition of this tree warns a reader that was     *)
(* pushed, from two running byte counts (sign).                            *)
(*                                                                         *)
(* A section under log->mutex is a single step unless something that runs  *)
(* without the mutex can see or disturb its middle: the read of w_off at   *)
(* the entry of logger_aio_write, and the list_del of logger_release.  So  *)
(* a write, a flush and an open have steps of their own.                   *)
(*                                                                         *)
(* log->readers is the set of the readers on its forward links.  An        *)
(* operation on the list is several stores, and list_del is not under the  *)
(* mutex: it begins with one step and takes effect with another.  If two   *)
(* overlap, raced, what the links then hold depends on the order of the    *)
(* stores: a new reader may be linked behind one that is being taken off   *)
(* and never be found, or a freed one may still be.                        *)
(*                                                                         *)
(* Abstractions.  The buffer is made of cells.  A header is the two cells  *)
(* of the two bytes of its length field, in base LenBase; a payload is     *)
(* given by the lengths of its segments.  Each cell also records, for the  *)
(* properties alone, which entry it was written for and at what place.     *)
(* One device is modelled, the four do not interact; pid, tid and the      *)
(* timestamps (and the /proc switch between their two sources) are left    *)
(* out.                                                                    *)
(***************************************************************************)
EXTENDS Integers, Sequences, FiniteSets

CONSTANTS
    Writers,      \* tasks that write to the device
    Readers,      \* files that may be open for reading, one task each
    Flusher,      \* the task that flushes the log
    NoOne,
    Size,         \* log->size
    LenBase,      \* values of one byte of the length field
    MaxPayload,   \* LOGGER_ENTRY_MAX_PAYLOAD
    Iovs,         \* what writers write: sequences of segment lengths
    LongHalf,     \* a long is in -LongHalf .. LongHalf - 1
    MaxWrites     \* bound on the writes that are started

HeaderSize == 2

(* DEFINE_LOGGER_DEVICE sizes are powers of two, of at least 64K for       *)
(* entries of at most 4K; what the code needs is that an entry fills no    *)
(* more than half of the buffer and that its length fits the field.        *)
ASSUME LoggerAssumption ==
    /\ Writers \cap Readers = {} /\ Flusher # NoOne
    /\ {Flusher, NoOne} \cap (Writers \cup Readers) = {}
    /\ Size \in Nat /\ LenBase \in Nat \ {0} /\ LongHalf \in Nat
    /\ MaxPayload \in Nat /\ MaxPayload < LenBase * LenBase
    /\ 2 * (HeaderSize + MaxPayload) <= Size
    /\ Size <= LongHalf /\ LongHalf % Size = 0
    /\ \A v \in Iovs : v \in Seq(Nat)
    /\ MaxWrites \in Nat

Offsets == 0..(Size - 1)

VARIABLES
    buffer,     \* the cells
    w_off,      \* log->w_off
    head,       \* log->head
    sign,       \* log->sign
    mutex,      \* the task that holds log->mutex across steps, or NoOne
    readers,    \* log->readers, as a walk along its forward links finds it
    reader,     \* per reader: r_off, sign and where its task is in read()
    asleep,     \* tasks on log->wq in state TASK_INTERRUPTIBLE
    writer,     \* per writer: the local variables of logger_aio_write
    flusher,    \* where LOGGER_FLUSH_LOG is in its walk
    entries,    \* history: offset and length of each completed write
    got,        \* history: the last entry delivered or flushed, 0 if none
    told,       \* history: warned of a gap since then, or just opened
    flushed,    \* history: the last entry a flush discarded, 0 if none
    attempts,   \* writes started
    faulted,    \* history: some write has faulted
    raced,      \* history: two operations on log->readers have overlapped
    stale       \* history: a fault restored a w_off that had moved on

logVars == <<buffer, w_off, head, sign, mutex, readers, reader, asleep, writer,
             flusher, entries, got, told, flushed, attempts, faulted, raced, stale>>

(* What the properties remember of the past deliveries.                     *)
delivered == <<got, told, flushed>>

-----------------------------------------------------------------------------
(* State.                                                                  *)

Longs == (-LongHalf)..(LongHalf - 1)

Cells == [id : Nat, pos : Nat, byte : Nat]

(* A file: closed; in list_add_tail; open and not in read(); in            *)
(* logger_read after prepare_to_wait, about to schedule(), or after        *)
(* finish_wait and about to lock again; in list_del.                       *)
ReaderPC == {"closed", "linking", "idle", "check", "sched", "take", "unlinking"}

IsOpen(r) == reader[r].pc \in {"idle", "check", "sched", "take"}

(* logger_aio_write: not running; orig is read; under the mutex, in the    *)
(* walk of fix_up_readers; header written; after unlock; and a task that   *)
(* died on a bad pointer in the walk, with the mutex held.                 *)
WriterPC == {"idle", "begun", "walk", "payload", "wake", "oops"}

LogTypeOK ==
    /\ buffer \in [Offsets -> Cells]
    /\ w_off \in Offsets /\ head \in Offsets /\ sign \in Longs
    /\ mutex \in Writers \cup Readers \cup {Flusher, NoOne}
    /\ readers \subseteq Readers
    /\ reader \in [Readers -> [r_off : Offsets, sign : Longs, pc : ReaderPC]]
    /\ asleep \subseteq Readers
    /\ DOMAIN writer = Writers
    /\ \A w \in Writers :
          /\ writer[w].pc \in WriterPC
          /\ writer[w].orig \in Offsets /\ writer[w].from \in Offsets
          /\ writer[w].iov \in Seq(Nat)
          /\ writer[w].len \in 0..MaxPayload /\ writer[w].ret \in 0..writer[w].len
          /\ writer[w].at \in Readers \cup {NoOne}
          /\ writer[w].todo \subseteq Readers
    /\ flusher \in [pc : {"idle", "walk", "oops"}, at : Readers \cup {NoOne},
                    todo : SUBSET Readers]
    /\ entries \in Seq([off : Offsets, len : 1..Size])
    /\ got \in [Readers -> Nat] /\ told \in [Readers -> BOOLEAN]
    /\ flushed \in Nat
    /\ attempts \in 0..MaxWrites
    /\ faulted \in BOOLEAN /\ raced \in BOOLEAN /\ stale \in BOOLEAN

(* Local variables of a task that is not in the call are kept at a default. *)
NotWriting == [pc |-> "idle", orig |-> 0, from |-> 0, iov |-> <<>>, len |-> 0,
               ret |-> 0, at |-> NoOne, todo |-> {}]

NotFlushing == [pc |-> "idle", at |-> NoOne, todo |-> {}]

Closed == [r_off |-> 0, sign |-> 0, pc |-> "closed"]

LogInit ==
    /\ buffer = [i \in Offsets |-> [id |-> 0, pos |-> 0, byte |-> 0]]
    /\ w_off = 0 /\ head = 0 /\ sign = 0
    /\ mutex = NoOne
    /\ readers = {}
    /\ reader = [r \in Readers |-> Closed]
    /\ asleep = {}
    /\ writer = [w \in Writers |-> NotWriting]
    /\ flusher = NotFlushing
    /\ entries = <<>>
    /\ got = [r \in Readers |-> 0] /\ told = [r \in Readers |-> TRUE]
    /\ flushed = 0
    /\ attempts = 0 /\ faulted = FALSE /\ raced = FALSE /\ stale = FALSE

-----------------------------------------------------------------------------
(* The ring.                                                               *)

logger_offset(n) == n % Size

least(a, b) == IF a < b THEN a ELSE b

(* The length field may wrap around the end of the buffer.                 *)
get_entry_len(off) ==
    HeaderSize + buffer[off].byte + LenBase * buffer[logger_offset(off + 1)].byte

(* Whole entries are skipped until at least len bytes are.                 *)
get_next_entry(off, len) ==
    LET skip[c \in [off : Offsets, count : Nat]] ==
            IF c.count >= len THEN c.off
            ELSE LET nr == get_entry_len(c.off)
                 IN  skip[[off |-> logger_offset(c.off + nr),
                           count |-> c.count + nr]]
        nr1 == get_entry_len(off)
    IN  skip[[off |-> logger_offset(off + nr1), count |-> nr1]]

(* Mutant: the far end of the interval does not count.                     *)
clock_interval_open(a, b, c) ==
    IF b < a THEN a < c \/ b > c ELSE a < c /\ b > c

(* Is c in (a, b] of the ring?                                             *)
clock_interval(a, b, c) ==
    IF b < a THEN a < c \/ b >= c ELSE a < c /\ b >= c

(* One iteration of fix_up_readers, for the head or a reader at off, when  *)
(* len bytes are about to be written at old.                               *)
fix_up(old, len, off) ==
    IF clock_interval(old, logger_offset(old + len), off)
    THEN get_next_entry(off, len) ELSE off

(* The n cells from off hold entry id from its byte number first on.       *)
Stored(off, first, n, id, bytes) ==
    [i \in Offsets |->
        LET j == (i - off + Size) % Size
        IN  IF j < n THEN [id |-> id, pos |-> first + j, byte |-> bytes[first + j]]
                     ELSE buffer[i]]

-----------------------------------------------------------------------------
(* sign: a long count of bytes that is never reset.                        *)

long(x) == ((x + LongHalf) % (2 * LongHalf)) - LongHalf

(* Mutant: a full lap is not yet an overflow.                              *)
is_overflow_strict(cw, lw) == long(cw - lw) > Size

is_overflow(cw, lw) == long(cw - lw) >= Size

(* The count that belongs to offset off, in logger_open and warn_overflow. *)
(* log->size is unsigned, and so is the remainder of a negative count.     *)
sign_at(off) ==
    LET s == long(sign - (sign % Size) + off)
    IN  IF s > sign THEN long(s - Size) ELSE s

-----------------------------------------------------------------------------
(* logger_aio_write.                                                       *)

SumOf(v) == LET sum[i \in 0..Len(v)] == IF i = 0 THEN 0 ELSE v[i] + sum[i - 1]
            IN  sum[Len(v)]

(* orig is read before the mutex is taken; an empty write returns 0.       *)
BeginWrite(w, v) ==
    /\ writer[w].pc = "idle"
    /\ attempts < MaxWrites
    /\ least(SumOf(v), MaxPayload) > 0
    /\ attempts' = attempts + 1
    /\ writer' = [writer EXCEPT ![w].pc = "begun", ![w].orig = w_off,
                                ![w].iov = v, ![w].ret = 0,
                                ![w].len = least(SumOf(v), MaxPayload)]
    /\ UNCHANGED <<buffer, w_off, head, sign, mutex, readers, reader, asleep,
                   flusher, entries, delivered, faulted, raced, stale>>

(* mutex_lock, and fix_up_readers up to its walk.                          *)
LockWrite(w) ==
    /\ writer[w].pc = "begun"
    /\ mutex = NoOne
    /\ mutex' = w
    /\ head' = fix_up(w_off, HeaderSize + writer[w].len, head)
    /\ writer' = [writer EXCEPT ![w].pc = "walk", ![w].from = w_off,
                                ![w].at = NoOne, ![w].todo = readers]
    /\ UNCHANGED <<buffer, w_off, sign, readers, reader, asleep, flusher, entries,
                   delivered, attempts, faulted, raced, stale>>

(* A walk of the list stands on a reader that logger_release has freed.    *)
Torn(at) == at # NoOne /\ reader[at].pc = "closed"

(* The walk moves to the next reader and fixes it up.                      *)
WalkReader(w, r) ==
    /\ writer[w].pc = "walk"
    /\ ~Torn(writer[w].at)
    /\ r \in writer[w].todo \cap readers
    /\ reader' = [reader EXCEPT ![r].r_off =
                     fix_up(w_off, HeaderSize + writer[w].len, @)]
    /\ writer' = [writer EXCEPT ![w].at = r, ![w].todo = @ \ {r}]
    /\ UNCHANGED <<buffer, w_off, head, sign, mutex, readers, asleep, flusher, entries,
                   delivered, attempts, faulted, raced, stale>>

(* list_del poisoned the pointer that the walk follows: the task dies.     *)
Oops(w) ==
    /\ writer[w].pc = "walk"
    /\ Torn(writer[w].at)
    /\ writer' = [writer EXCEPT ![w] = [NotWriting EXCEPT !.pc = "oops"]]
    /\ UNCHANGED <<buffer, w_off, head, sign, mutex, readers, reader, asleep,
                   flusher, entries, delivered, attempts, faulted, raced, stale>>

(* do_write_log with the header.                                           *)
WriteHeader(w) ==
    LET bytes == [j \in Offsets |-> IF j = 0 THEN writer[w].len % LenBase
                                            ELSE writer[w].len \div LenBase]
    IN  /\ writer[w].pc = "walk"
        /\ ~Torn(writer[w].at)
        /\ writer[w].todo \cap readers = {}
        /\ buffer' = Stored(w_off, 0, HeaderSize, Len(entries) + 1, bytes)
        /\ w_off' = logger_offset(w_off + HeaderSize)
        /\ sign' = long(sign + HeaderSize)
        /\ writer' = [writer EXCEPT ![w].pc = "payload", ![w].at = NoOne,
                                    ![w].todo = {}]
        /\ UNCHANGED <<head, mutex, readers, reader, asleep, flusher, entries,
                       delivered, attempts, faulted, raced, stale>>

(* One iteration of the loop over the segments, which stops at header.len. *)
SegmentLen(w) == least(Head(writer[w].iov), writer[w].len - writer[w].ret)

WriteSegment(w) ==
    /\ writer[w].pc = "payload"
    /\ writer[w].iov # <<>>
    /\ buffer' = Stored(w_off, HeaderSize + writer[w].ret, SegmentLen(w),
                        Len(entries) + 1, [j \in Offsets |-> 0])
    /\ w_off' = logger_offset(w_off + SegmentLen(w))
    /\ sign' = long(sign + SegmentLen(w))
    /\ writer' = [writer EXCEPT ![w].iov = Tail(@), ![w].ret = @ + SegmentLen(w)]
    /\ UNCHANGED <<head, mutex, readers, reader, asleep, flusher, entries, delivered,
                   attempts, faulted, raced, stale>>

(* copy_from_user fails: what it has copied stays in the buffer, w_off     *)
(* goes back to orig, sign does not, and nobody is woken.                  *)
FaultSegment(w) ==
    /\ writer[w].pc = "payload"
    /\ writer[w].iov # <<>>
    /\ SegmentLen(w) > 0
    /\ buffer' = Stored(w_off, HeaderSize + writer[w].ret, SegmentLen(w),
                        Len(entries) + 1, [j \in Offsets |-> 0])
    /\ w_off' = writer[w].orig
    /\ mutex' = NoOne
    /\ writer' = [writer EXCEPT ![w] = NotWriting]
    /\ faulted' = TRUE
    /\ stale' = (stale \/ writer[w].orig # writer[w].from)
    /\ UNCHANGED <<head, sign, readers, reader, asleep, flusher, entries, delivered,
                   attempts, raced>>

UnlockWrite(w) ==
    /\ writer[w].pc = "payload"
    /\ writer[w].iov = <<>>
    /\ mutex' = NoOne
    /\ entries' = Append(entries, [off |-> writer[w].from,
                                   len |-> HeaderSize + writer[w].len])
    /\ writer' = [writer EXCEPT ![w] = [NotWriting EXCEPT !.pc = "wake"]]
    /\ UNCHANGED <<buffer, w_off, head, sign, readers, reader, asleep, flusher,
                   delivered, attempts, faulted, raced, stale>>

(* Mutant: one of the readers is woken, not all.                           *)
WakeReaders_one(w) ==
    /\ writer[w].pc = "wake"
    /\ asleep' = asleep \ {CHOOSE r \in Readers : asleep # {} => r \in asleep}
    /\ writer' = [writer EXCEPT ![w] = NotWriting]
    /\ UNCHANGED <<buffer, w_off, head, sign, mutex, readers, reader, flusher, entries,
                   delivered, attempts, faulted, raced, stale>>

(* wake_up_interruptible(&log->wq)                                         *)
WakeReaders(w) ==
    /\ writer[w].pc = "wake"
    /\ asleep' = {}
    /\ writer' = [writer EXCEPT ![w] = NotWriting]
    /\ UNCHANGED <<buffer, w_off, head, sign, mutex, readers, reader, flusher, entries,
                   delivered, attempts, faulted, raced, stale>>

-----------------------------------------------------------------------------
(* logger_open and logger_release of a file open for reading.              *)

ListBusy == \E s \in Readers : reader[s].pc \in {"linking", "unlinking"}

(* Up to list_add_tail.                                                    *)
logger_open(r) ==
    /\ reader[r].pc = "closed"
    /\ mutex = NoOne
    /\ mutex' = r
    /\ reader' = [reader EXCEPT ![r] = [r_off |-> head, sign |-> sign_at(head),
                                        pc |-> "linking"]]
    /\ raced' = (raced \/ ListBusy)
    /\ got' = [got EXCEPT ![r] = 0]
    /\ told' = [told EXCEPT ![r] = TRUE]
    /\ UNCHANGED <<buffer, w_off, head, sign, readers, asleep, writer, flusher,
                   entries, flushed, attempts, faulted, stale>>

(* list_add_tail is through; mutex_unlock.                                 *)
LinkReader(r) ==
    /\ reader[r].pc = "linking"
    /\ reader' = [reader EXCEPT ![r].pc = "idle"]
    /\ readers' = readers \cup {r}
    /\ mutex' = NoOne
    /\ UNCHANGED <<buffer, w_off, head, sign, asleep, writer, flusher, entries,
                   delivered, attempts, faulted, raced, stale>>

(* list_del begins, whoever holds the mutex.                               *)
logger_release(r) ==
    /\ reader[r].pc = "idle"
    /\ reader' = [reader EXCEPT ![r].pc = "unlinking"]
    /\ raced' = (raced \/ ListBusy)
    /\ UNCHANGED <<buffer, w_off, head, sign, mutex, readers, asleep, writer,
                   flusher, entries, delivered, attempts, faulted, stale>>

(* list_del is through, its poison included; kfree.                        *)
UnlinkReader(r) ==
    /\ reader[r].pc = "unlinking"
    /\ reader' = [reader EXCEPT ![r] = Closed]
    /\ readers' = readers \ {r}
    /\ got' = [got EXCEPT ![r] = 0]
    /\ told' = [told EXCEPT ![r] = TRUE]
    /\ UNCHANGED <<buffer, w_off, head, sign, mutex, asleep, writer, flusher,
                   entries, flushed, attempts, faulted, raced, stale>>

-----------------------------------------------------------------------------
(* logger_read.                                                            *)

Empty(r) == w_off = reader[r].r_off

UNCHANGED_log == UNCHANGED <<buffer, w_off, head, sign, mutex, readers, writer,
                             flusher, entries, attempts, faulted, raced, stale>>

(* prepare_to_wait comes first, so that a wake-up after the check counts.  *)
StartRead(r) ==
    /\ reader[r].pc = "idle"
    /\ reader' = [reader EXCEPT ![r].pc = "check"]
    /\ asleep' = asleep \cup {r}
    /\ UNCHANGED delivered
    /\ UNCHANGED_log

(* The first locked section.  An empty log returns -EAGAIN to a file with  *)
(* O_NONBLOCK and -EINTR to a task with a pending signal.                  *)
CheckLog(r) ==
    /\ reader[r].pc = "check"
    /\ mutex = NoOne
    /\ \/ /\ ~Empty(r)
          /\ reader' = [reader EXCEPT ![r].pc = "take"]
          /\ asleep' = asleep \ {r}
       \/ /\ Empty(r)
          /\ reader' = [reader EXCEPT ![r].pc = "idle"]
          /\ asleep' = asleep \ {r}
       \/ /\ Empty(r)
          /\ reader' = [reader EXCEPT ![r].pc = "sched"]
          /\ UNCHANGED asleep
    /\ UNCHANGED delivered
    /\ UNCHANGED_log

(* schedule() returns once the task is runnable, and the loop goes on.     *)
Schedule(r) ==
    /\ reader[r].pc = "sched"
    /\ r \notin asleep
    /\ reader' = [reader EXCEPT ![r].pc = "check"]
    /\ asleep' = asleep \cup {r}
    /\ UNCHANGED delivered
    /\ UNCHANGED_log

Signal(r) ==
    /\ reader[r].pc = "sched"
    /\ r \in asleep
    /\ asleep' = asleep \ {r}
    /\ UNCHANGED <<reader, delivered>>
    /\ UNCHANGED_log

(* The second locked section: a flush may have emptied the log.            *)
RaceLost(r) ==
    /\ reader[r].pc = "take"
    /\ mutex = NoOne
    /\ Empty(r)
    /\ reader' = [reader EXCEPT ![r].pc = "check"]
    /\ asleep' = asleep \cup {r}
    /\ UNCHANGED delivered
    /\ UNCHANGED_log

warn_overflow(r) ==
    /\ reader[r].pc = "take"
    /\ mutex = NoOne
    /\ ~Empty(r)
    /\ is_overflow(sign, reader[r].sign)
    /\ reader' = [reader EXCEPT ![r].sign = sign_at(reader[r].r_off),
                                ![r].pc = "idle"]
    /\ told' = [told EXCEPT ![r] = TRUE]
    /\ UNCHANGED <<asleep, got, flushed>>
    /\ UNCHANGED_log

(* Exactly one entry is copied to the user.                                *)
do_read_log_to_user(r) ==
    LET count == get_entry_len(reader[r].r_off)
    IN  /\ reader[r].pc = "take"
        /\ mutex = NoOne
        /\ ~Empty(r)
        /\ ~is_overflow(sign, reader[r].sign)
        /\ reader' = [reader EXCEPT ![r].r_off = logger_offset(@ + count),
                                    ![r].sign = long(@ + count),
                                    ![r].pc = "idle"]
        /\ got' = [got EXCEPT ![r] = buffer[reader[r].r_off].id]
        /\ told' = [told EXCEPT ![r] = FALSE]
        /\ UNCHANGED <<asleep, flushed>>
        /\ UNCHANGED_log

(* The user's buffer is too small or faults: the entry or warning stays.   *)
ReadFails(r) ==
    /\ reader[r].pc = "take"
    /\ mutex = NoOne
    /\ ~Empty(r)
    /\ reader' = [reader EXCEPT ![r].pc = "idle"]
    /\ UNCHANGED <<delivered, asleep>>
    /\ UNCHANGED_log

-----------------------------------------------------------------------------
(* logger_ioctl.                                                           *)

(* LOGGER_GET_LOG_LEN of a reader at off.                                  *)
get_log_len(off) == IF w_off >= off THEN w_off - off ELSE (Size - off) + w_off

(* LOGGER_FLUSH_LOG walks the readers as fix_up_readers does.              *)
FlushBegin ==
    /\ flusher.pc = "idle"
    /\ mutex = NoOne
    /\ mutex' = Flusher
    /\ flusher' = [pc |-> "walk", at |-> NoOne, todo |-> readers]
    /\ flushed' = Len(entries)
    /\ UNCHANGED <<buffer, w_off, head, sign, readers, reader, asleep, writer,
                   entries, got, told, attempts, faulted, raced, stale>>

FlushReader(r) ==
    /\ flusher.pc = "walk"
    /\ ~Torn(flusher.at)
    /\ r \in flusher.todo \cap readers
    /\ reader' = [reader EXCEPT ![r].r_off = w_off]
    /\ got' = [got EXCEPT ![r] = Len(entries)]
    /\ flusher' = [flusher EXCEPT !.at = r, !.todo = @ \ {r}]
    /\ UNCHANGED <<buffer, w_off, head, sign, mutex, readers, asleep, writer,
                   entries, told, flushed, attempts, faulted, raced, stale>>

(* As in a write, the task dies with the mutex held.                       *)
FlushOops ==
    /\ flusher.pc = "walk"
    /\ Torn(flusher.at)
    /\ flusher' = [NotFlushing EXCEPT !.pc = "oops"]
    /\ UNCHANGED <<buffer, w_off, head, sign, mutex, readers, reader, asleep,
                   writer, entries, delivered, attempts, faulted, raced, stale>>

FlushEnd ==
    /\ flusher.pc = "walk"
    /\ ~Torn(flusher.at)
    /\ flusher.todo \cap readers = {}
    /\ head' = w_off
    /\ mutex' = NoOne
    /\ flusher' = NotFlushing
    /\ UNCHANGED <<buffer, w_off, sign, readers, reader, asleep, writer, entries,
                   delivered, attempts, faulted, raced, stale>>

-----------------------------------------------------------------------------
WriterStep(w) ==
    \/ LockWrite(w) \/ WriteHeader(w) \/ WriteSegment(w) \/ FaultSegment(w)
    \/ UnlockWrite(w) \/ WakeReaders(w) \/ Oops(w)
    \/ \E r \in Readers : WalkReader(w, r)

ReaderStep(r) ==
    \/ CheckLog(r) \/ Schedule(r) \/ RaceLost(r) \/ warn_overflow(r)
    \/ do_read_log_to_user(r) \/ ReadFails(r)

ListStep(r) == LinkReader(r) \/ UnlinkReader(r)

FlushStep == FlushOops \/ FlushEnd \/ \E r \in Readers : FlushReader(r)

LogStep ==
    \/ \E w \in Writers : \/ \E v \in Iovs : BeginWrite(w, v)
                          \/ WriterStep(w)
    \/ \E r \in Readers : \/ logger_open(r) \/ logger_release(r) \/ ListStep(r)
                          \/ StartRead(r) \/ Signal(r) \/ ReaderStep(r)
    \/ FlushBegin \/ FlushStep

(* Once a fault has restored a stale w_off the buffer no longer parses,    *)
(* and once two operations on the list have overlapped its links are not   *)
(* known; the model follows the log up to there.                           *)
Broken == stale \/ raced

LogNext == ~Broken /\ LogStep

(* The scheduler runs every runnable task, and mutex_lock hands the mutex  *)
(* to its waiters in turn.                                                 *)
LogFairness ==
    /\ \A w \in Writers : WF_logVars(~Broken /\ WriterStep(w))
    /\ \A r \in Readers : /\ SF_logVars(~Broken /\ ReaderStep(r))
                          /\ WF_logVars(~Broken /\ ListStep(r))
    /\ WF_logVars(~Broken /\ FlushStep)

LogSpec == LogInit /\ [][LogNext]_logVars /\ LogFairness

-----------------------------------------------------------------------------
(* Properties.                                                             *)

(* The entries from offset off to w_off are the last k completed writes,   *)
(* whole and in order, and LOGGER_GET_LOG_LEN tells their bytes.           *)
Holds(off, k) ==
    LET n == Len(entries)
        End(i) == logger_offset(entries[i].off + entries[i].len)
    IN  /\ off = IF k = 0 THEN w_off ELSE entries[n - k + 1].off
        /\ get_log_len(off) = SumOf([i \in 1..k |-> entries[n - k + i].len])
        /\ \A i \in (n - k + 1)..n :
              /\ entries[i].off # w_off
              /\ get_entry_len(entries[i].off) = entries[i].len
              /\ \A j \in 0..(entries[i].len - 1) :
                    LET c == buffer[logger_offset(entries[i].off + j)]
                    IN  c.id = i /\ c.pos = j
              /\ End(i) = IF i = n THEN w_off ELSE entries[i + 1].off

(* ... and nothing is left only if the newest of them is entry number seen *)
(* or older, or a write that then faulted has pushed the reader past it.   *)
Readable(off, seen) ==
    \E k \in 0..Len(entries) :
        Holds(off, k) /\ (k = 0 => Len(entries) <= seen \/ faulted)

(* Whenever the mutex is free, the head and every open reader stand at the *)
(* start of an entry from which the buffer parses, entry by entry, into    *)
(* the most recent writes, none of them clobbered, or at w_off when all    *)
(* has been read or flushed: what fix_up_readers is for, with faulting     *)
(* writes included (l.320-345).                                            *)
UnreadIntact ==
    mutex = NoOne =>
        /\ Readable(head, flushed)
        /\ \A r \in Readers :
              IsOpen(r) => Readable(reader[r].r_off,
                                    IF got[r] > flushed THEN got[r] ELSE flushed)

(* The same, until a fault restores a stale w_off (l.340) or the unlocked  *)
(* list_del of a closing file overlaps with another operation on the list  *)
(* of readers (l.404): nothing else that writers, readers, a flush or a    *)
(* file closed in the middle of a walk do breaks the log.                  *)
IntactUnlessBroken == ~Broken => LogTypeOK /\ UnreadIntact

(* No silent loss: while no write has faulted and no two operations on the *)
(* list of readers have overlapped, a reader that is delivered an entry    *)
(* which does not directly follow the one it got before was warned in      *)
(* between.  is_overflow compares two running counts; this relates them to *)
(* what fix_up_readers really skips.                                       *)
NoSilentLoss ==
    [][\A r \in Readers :
          got'[r] # got[r] /\ IsOpen(r) /\ IsOpen(r)' /\ ~faulted
          => told[r] \/ got'[r] = got[r] + 1 \/ flushed' = got'[r]]_logVars

(* A task has died in a walk of the readers, with the mutex held.          *)
Died == flusher.pc = "oops" \/ \E w \in Writers : writer[w].pc = "oops"

(* A task that sleeps in read() while there is something to read returns   *)
(* to its caller, though the writer wakes the queue only after it has      *)
(* released the mutex and the reader checks the log before it sleeps.  The *)
(* exceptions: the log is emptied by a flush, a writer or the flusher died *)
(* in its walk with the mutex held, or the log is broken as above.         *)
SleepersReturn ==
    \A r \in Readers :
        (reader[r].pc = "sched" /\ ~Empty(r) /\ mutex = NoOne)
        ~> (reader[r].pc = "idle" \/ Empty(r) \/ Broken \/ Died)
=============================================================================
