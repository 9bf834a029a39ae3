------------------------------- MODULE Ashmem -------------------------------
(***************************************************************************)
(* Anonymous shared memory (mm/ashmem.c): user space unpins ranges of      *)
(* pages that it can do without; when memory is short the shrinker purges  *)
(* the least recently unpinned ranges; and pinning a range again says      *)
(* whether any of it was purged in the meantime.                           *)
(*                                                                         *)
(* A call holds ashmem_mutex while it walks a list; each range that it     *)
(* deals with is one step.  An allocation succeeds or fails.  The shrinker *)
(* runs whenever the mutex is free, from kswapd, from another process's    *)
(* allocation, or for ASHMEM_PURGE_ALL_CACHES, whose count is read before  *)
(* the mutex is taken and may be stale: it asks for any number of pages.   *)
(*                                                                         *)
(* Abstractions.  Sizes and offsets are in pages: a request that is not    *)
(* page-aligned is refused, and so is one whose offset lies beyond the     *)
(* area.  A range is known by its area and its pages; ranges without pages *)
(* are told apart by a tag.  Sizes that user space sets are not zero.      *)
(* Names, protection bits, reads, the list of areas in /proc and the calls *)
(* that only ask (ASHMEM_GET_PIN_STATUS) are left out.                     *)
(*                                                                         *)
(* ASHMEM_SET_SIZE tests asma->file and stores asma->size without the      *)
(* mutex, so that a caller that lost the processor in between changes the  *)
(* size of an area that others have mapped meanwhile; and ashmem_pin_unpin *)
(* reads the size before it takes the mutex, so that a request is checked  *)
(* against any size that the area has had since it has its file.           *)
(***************************************************************************)
EXTENDS Integers, SequencesExt

CONSTANTS
    Areas,        \* open files
    Sizes,        \* per area: sizes, in pages, that ASHMEM_SET_SIZE is given
    MaxSize,      \* the largest of them
    MaxScan,      \* bound: pages that the shrinker is asked for
    MaxEmpty      \* bound: ranges without pages on an area's list

ASSUME AshmemAssumption ==
    /\ Sizes \in [Areas -> SUBSET (1..MaxSize)]
    /\ MaxSize \in Nat /\ MaxScan \in Nat /\ MaxEmpty \in Nat

VARIABLES
    size,          \* asma->size, 0 until it is set
    file,          \* whether asma has its backing file
    storing,       \* sizes that callers past the test of the file are about to store
    had,           \* sizes that the area has had since it has its file
    unpinned_list, \* per area: its ranges, from the highest to the lowest
    ashmem_lru_list, \* the ranges not purged, the oldest first
    lru_count,
    call,          \* the call that holds ashmem_mutex, with its local variables
    given_up,      \* history: pages that user space has unpinned, and not pinned
    lost,          \* history: of those, the pages that were purged
    alloc_failed   \* history: range_alloc has failed

areaVars == <<size, file, storing, had>>
listVars == <<unpinned_list, ashmem_lru_list, lru_count>>
histVars == <<given_up, lost, alloc_failed>>
ashVars == <<areaVars, listVars, call, histVars>>

-----------------------------------------------------------------------------
(* The macros on ranges.                                                   *)

range_size(r) == r.pgend - r.pgstart + 1

range_on_lru(r) == ~r.purged

page_range_subsumes_range(r, start, end) == r.pgstart >= start /\ r.pgend <= end

page_range_subsumed_by_range(r, start, end) == r.pgstart <= start /\ r.pgend >= end

page_in_range(r, page) == r.pgstart <= page /\ r.pgend >= page

(* Mutant: a request around a whole range is taken to miss it.             *)
page_range_in_range_ends_only(r, start, end) ==
    page_in_range(r, start) \/ page_in_range(r, end)

page_range_in_range(r, start, end) ==
    \/ page_in_range(r, start)
    \/ page_in_range(r, end)
    \/ page_range_subsumes_range(r, start, end)

range_before_page(r, page) == r.pgend < page

PagesOf(r) == r.pgstart .. r.pgend

(* The indices of the ranges of list l that a walk for start reaches, and  *)
(* of those that overlap the request.                                      *)
Reached(l, start) == {i \in DOMAIN l : \A j \in 1..i : ~range_before_page(l[j], start)}

Hits(l, start, end) == {i \in Reached(l, start) : page_range_in_range(l[i], start, end)}

(* A range of area a as an entry of the LRU list, and where it is there.   *)
OnLru(a, r) == [asma |-> a, pgstart |-> r.pgstart, pgend |-> r.pgend, tag |-> r.tag]

LruIndex(a, r) == CHOOSE k \in DOMAIN ashmem_lru_list : ashmem_lru_list[k] = OnLru(a, r)

TotalSize(S) == MapThenSumSet(range_size, S)

UnpinnedPages(a) == UNION {PagesOf(r) : r \in ToSet(unpinned_list[a])}

-----------------------------------------------------------------------------
Ranges == [pgstart : Nat, pgend : Int, purged : BOOLEAN, tag : Nat]

(* pgstart, pgend and purged are the variables of ashmem_pin and           *)
(* ashmem_unpin; req keeps the request as it came, for the histories.      *)
NoCall == [op |-> "none", asma |-> "none", pgstart |-> 0, pgend |-> 0,
           purged |-> FALSE, nr_to_scan |-> 0, req |-> {}]

AshTypeOK ==
    /\ size \in [Areas -> 0..MaxSize]
    /\ file \in [Areas -> BOOLEAN]
    /\ unpinned_list \in [Areas -> Seq(Ranges)]
    /\ storing \in [Areas -> SUBSET (1..MaxSize)]
    /\ had \in [Areas -> SUBSET (1..MaxSize)]
    /\ \A a \in Areas :
          /\ file[a] <=> had[a] # {}
          /\ \A r \in ToSet(unpinned_list[a]) :
                file[a] /\ r.pgend \in r.pgstart - 1 .. MaxSize - 1
          /\ given_up[a] \subseteq 0 .. MaxSize - 1 /\ lost[a] \subseteq given_up[a]
    /\ lru_count \in Nat
    /\ call = NoCall \/ call.op \in {"pin", "unpin", "release", "shrink"}
    /\ alloc_failed \in BOOLEAN

AshInit ==
    /\ size = [a \in Areas |-> 0] /\ file = [a \in Areas |-> FALSE]
    /\ storing = [a \in Areas |-> {}] /\ had = [a \in Areas |-> {}]
    /\ unpinned_list = [a \in Areas |-> <<>>]
    /\ ashmem_lru_list = <<>> /\ lru_count = 0
    /\ call = NoCall
    /\ given_up = [a \in Areas |-> {}] /\ lost = [a \in Areas |-> {}]
    /\ alloc_failed = FALSE

(* The test of ASHMEM_SET_SIZE, on a file that is not being released, ...  *)
ASHMEM_SET_SIZE(a, n) ==
    /\ ~file[a] /\ call.asma # a
    /\ storing' = [storing EXCEPT ![a] = @ \cup {n}]
    /\ UNCHANGED <<size, file, had, listVars, call, histVars>>

(* ... and its store, when the area may have its file.                     *)
StoreSize(a, n) ==
    /\ n \in storing[a]
    /\ storing' = [storing EXCEPT ![a] = @ \ {n}]
    /\ size' = [size EXCEPT ![a] = n]
    /\ had' = [had EXCEPT ![a] = IF file[a] THEN @ \cup {n} ELSE @]
    /\ UNCHANGED <<file, listVars, call, histVars>>

ashmem_mmap(a) ==
    /\ call = NoCall
    /\ size[a] # 0
    /\ file' = [file EXCEPT ![a] = TRUE]
    /\ had' = [had EXCEPT ![a] = IF file[a] THEN @ ELSE {size[a]}]
    /\ UNCHANGED <<size, storing, listVars, call, histVars>>

-----------------------------------------------------------------------------
(* The changes of the lists.  range_alloc adds r in front of the range at  *)
(* i, or at the end.                                                       *)
range_alloc(a, i, r) ==
    /\ unpinned_list' = [unpinned_list EXCEPT ![a] = InsertAt(@, i, r)]
    /\ IF range_on_lru(r)
       THEN /\ ashmem_lru_list' = Append(ashmem_lru_list, OnLru(a, r))
            /\ lru_count' = lru_count + range_size(r)
       ELSE UNCHANGED <<ashmem_lru_list, lru_count>>

range_del(a, i) ==
    LET r == unpinned_list[a][i]
    IN  /\ unpinned_list' = [unpinned_list EXCEPT ![a] = RemoveAt(@, i)]
        /\ IF range_on_lru(r)
           THEN /\ ashmem_lru_list' = RemoveAt(ashmem_lru_list, LruIndex(a, r))
                /\ lru_count' = lru_count - range_size(r)
           ELSE UNCHANGED <<ashmem_lru_list, lru_count>>

(* Mutant: the old size is taken after the range has changed.              *)
Shrunk_late_pre(r, new) == 0

Shrunk(r, new) == range_size(r) - range_size(new)

range_shrink(a, i, start, end) ==
    LET r == unpinned_list[a][i]
        new == [r EXCEPT !.pgstart = start, !.pgend = end]
    IN  /\ unpinned_list' = [unpinned_list EXCEPT ![a] = ReplaceAt(@, i, new)]
        /\ IF range_on_lru(r)
           THEN /\ ashmem_lru_list' =
                      ReplaceAt(ashmem_lru_list, LruIndex(a, r), OnLru(a, new))
                /\ lru_count' = lru_count - Shrunk(r, new)
           ELSE UNCHANGED <<ashmem_lru_list, lru_count>>

(* range_alloc of the part of a range above the request, and range_shrink  *)
(* to the part below it.                                                   *)
Split(a, i, start, end) ==
    LET r == unpinned_list[a][i]
        low == [r EXCEPT !.pgend = start - 1]
        high == [r EXCEPT !.pgstart = end + 1]
    IN  /\ unpinned_list' = [unpinned_list EXCEPT ![a] =
                                InsertAt(ReplaceAt(@, i, low), i, high)]
        /\ IF range_on_lru(r)
           THEN /\ ashmem_lru_list' =
                      Append(ReplaceAt(ashmem_lru_list, LruIndex(a, r), OnLru(a, low)),
                             OnLru(a, high))
                /\ lru_count' = lru_count + range_size(high) - Shrunk(r, low)
           ELSE UNCHANGED <<ashmem_lru_list, lru_count>>

-----------------------------------------------------------------------------
(* ashmem_pin_unpin.  A length of zero means up to the end: from an offset *)
(* at the end the request has no page, and is accepted.  n is the size     *)
(* that the caller has read.                                               *)

(* The tags that a new range of start..end may get on list l.              *)
Tags(l, start, end) ==
    IF start <= end THEN {0} ELSE {t \in 1..MaxEmpty : \A i \in DOMAIN l : l[i].tag # t}

ashmem_pin_unpin(a, cmd, n, offset, pin_len) ==
    LET len == IF pin_len = 0 THEN n - offset ELSE pin_len
        pgend == offset + len - 1
    IN
    /\ call = NoCall
    /\ file[a]
    /\ n \in had[a] /\ offset <= n /\ offset + len <= n
    /\ Tags(unpinned_list[a], offset, pgend) # {}
    /\ call' = [NoCall EXCEPT !.op = cmd, !.asma = a, !.pgstart = offset,
                              !.pgend = pgend, !.req = offset..pgend]
    /\ UNCHANGED <<areaVars, listVars, histVars>>

(* The ranges that the walk of the call has still to deal with, and the    *)
(* next of them.  A range that was cut is not one any more, so that a walk *)
(* which goes on and one which starts again find the same.                 *)
Todo == Hits(unpinned_list[call.asma], call.pgstart, call.pgend)
NextHit == Min(Todo)
NextRange == unpinned_list[call.asma][NextHit]

(* The next range lies behind the request, which has no page then: to cut  *)
(* it (l.487) changes nothing, and the walk finds no other.                *)
Behind == Todo # {} /\ NextRange.pgstart > call.pgend /\ NextRange.pgend > call.pgend

PinDone == Todo = {} \/ Behind

(* ret, once the walk is done.                                             *)
PinRet == call.purged \/ (Todo # {} /\ NextRange.purged)

(* An iteration of ashmem_pin: the four cases.                             *)
PinRange ==
    LET a == call.asma
        r == NextRange
        subsumes == page_range_subsumes_range(r, call.pgstart, call.pgend)
    IN
    /\ call.op = "pin" /\ ~PinDone
    /\ call' = [call EXCEPT !.purged = @ \/ r.purged]
    /\ \/ subsumes /\ range_del(a, NextHit)
       \/ /\ ~subsumes /\ r.pgstart >= call.pgstart
          /\ range_shrink(a, NextHit, call.pgend + 1, r.pgend)
       \/ /\ r.pgstart < call.pgstart /\ r.pgend <= call.pgend
          /\ range_shrink(a, NextHit, r.pgstart, call.pgstart - 1)
       \/ /\ r.pgstart < call.pgstart /\ r.pgend > call.pgend
          /\ Split(a, NextHit, call.pgstart, call.pgend)
    /\ UNCHANGED <<areaVars, histVars>>

(* The upper part of a range that is cut in two cannot be allocated, which *)
(* is ignored.                                                             *)
PinAllocFails ==
    /\ call.op = "pin" /\ ~PinDone
    /\ call' = [call EXCEPT !.purged = @ \/ NextRange.purged]
    /\ NextRange.pgstart < call.pgstart /\ NextRange.pgend > call.pgend
    /\ range_shrink(call.asma, NextHit, NextRange.pgstart, call.pgstart - 1)
    /\ alloc_failed' = TRUE
    /\ UNCHANGED <<areaVars, given_up, lost>>

PinReturns ==
    /\ call.op = "pin" /\ PinDone
    /\ call' = NoCall
    /\ given_up' = [given_up EXCEPT ![call.asma] = @ \ call.req]
    /\ lost' = [lost EXCEPT ![call.asma] = @ \ call.req]
    /\ UNCHANGED <<areaVars, listVars, alloc_failed>>

(* Mutant: the new range does not inherit that a part of it was purged.    *)
MergedPurged_dropped(r) == FALSE

MergedPurged(r) == call.purged \/ r.purged

(* An iteration of ashmem_unpin: the range is merged into the request.     *)
UnpinRange ==
    /\ call.op = "unpin" /\ Todo # {}
    /\ ~page_range_subsumed_by_range(NextRange, call.pgstart, call.pgend)
    /\ call' = [call EXCEPT !.pgstart = Min({@, NextRange.pgstart}),
                            !.pgend = Max({@, NextRange.pgend}),
                            !.purged = MergedPurged(NextRange)]
    /\ range_del(call.asma, NextHit)
    /\ UNCHANGED <<areaVars, histVars>>

(* Mutant: range_alloc adds the new range behind the one it is given.      *)
InsertionPoint_behind(l, start) ==
    LET i == Min({k \in 1 .. Len(l) + 1 :
                    k <= Len(l) => range_before_page(l[k], start)})
    IN  IF i <= Len(l) THEN i + 1 ELSE i

(* The walk ends at the first range that lies before the request.          *)
InsertionPoint(l, start) ==
    Min({k \in 1 .. Len(l) + 1 : k <= Len(l) => range_before_page(l[k], start)})

(* A range holds the whole request already, or the request becomes one.    *)
UnpinReturns ==
    LET a == call.asma
        l == unpinned_list[a]
    IN
    /\ call.op = "unpin"
    /\ \/ /\ Todo # {}
          /\ page_range_subsumed_by_range(NextRange, call.pgstart, call.pgend)
          /\ UNCHANGED listVars
       \/ /\ Todo = {}
          /\ \E tag \in Tags(l, call.pgstart, call.pgend) :
                range_alloc(a, InsertionPoint(l, call.pgstart),
                            [pgstart |-> call.pgstart, pgend |-> call.pgend,
                             purged |-> call.purged, tag |-> tag])
    /\ call' = NoCall
    /\ given_up' = [given_up EXCEPT ![a] = @ \cup call.req]
    /\ UNCHANGED <<areaVars, lost, alloc_failed>>

(* -ENOMEM: the merged ranges are gone, their pages are pinned.            *)
UnpinAllocFails ==
    /\ call.op = "unpin" /\ Todo = {}
    /\ call' = NoCall
    /\ alloc_failed' = TRUE
    /\ UNCHANGED <<areaVars, listVars, given_up, lost>>

-----------------------------------------------------------------------------
(* ashmem_release, when the last reference to the file is dropped: no      *)
(* caller is left in it.                                                   *)
ashmem_release(a) ==
    /\ call = NoCall /\ storing[a] = {}
    /\ call' = [NoCall EXCEPT !.op = "release", !.asma = a]
    /\ UNCHANGED <<areaVars, listVars, histVars>>

ReleaseRange ==
    /\ call.op = "release" /\ unpinned_list[call.asma] # <<>>
    /\ range_del(call.asma, 1)
    /\ UNCHANGED <<areaVars, call, histVars>>

(* The area is opened anew.                                                *)
ReleaseReturns ==
    /\ call.op = "release" /\ unpinned_list[call.asma] = <<>>
    /\ call' = NoCall
    /\ size' = [size EXCEPT ![call.asma] = 0]
    /\ file' = [file EXCEPT ![call.asma] = FALSE]
    /\ had' = [had EXCEPT ![call.asma] = {}]
    /\ given_up' = [given_up EXCEPT ![call.asma] = {}]
    /\ lost' = [lost EXCEPT ![call.asma] = {}]
    /\ UNCHANGED <<storing, listVars, alloc_failed>>

-----------------------------------------------------------------------------
(* ashmem_shrink: ranges are purged from the head of the list until enough *)
(* pages were scanned.                                                     *)
ashmem_shrink(nr_to_scan) ==
    /\ call = NoCall
    /\ ashmem_lru_list # <<>>
    /\ call' = [NoCall EXCEPT !.op = "shrink", !.nr_to_scan = nr_to_scan]
    /\ UNCHANGED <<areaVars, listVars, histVars>>

ShrinkRange ==
    LET e == Head(ashmem_lru_list)
        left == call.nr_to_scan - range_size(e)
        l == unpinned_list[e.asma]
    IN
    /\ call.op = "shrink"
    /\ ashmem_lru_list' = Tail(ashmem_lru_list)
    /\ lru_count' = lru_count - range_size(e)
    /\ unpinned_list' = [unpinned_list EXCEPT ![e.asma] = [i \in DOMAIN l |->
           IF OnLru(e.asma, l[i]) = e THEN [l[i] EXCEPT !.purged = TRUE] ELSE l[i]]]
    /\ lost' = [lost EXCEPT ![e.asma] = @ \cup PagesOf(e)]
    /\ call' = IF left <= 0 \/ Len(ashmem_lru_list) = 1 THEN NoCall
               ELSE [call EXCEPT !.nr_to_scan = left]
    /\ UNCHANGED <<areaVars, given_up, alloc_failed>>

-----------------------------------------------------------------------------
(* A request up to the end is made with a length of zero.                  *)
AshNext ==
    \/ \E a \in Areas :
          \/ \E n \in Sizes[a] : ASHMEM_SET_SIZE(a, n) \/ StoreSize(a, n)
          \/ ashmem_mmap(a)
          \/ ashmem_release(a)
          \/ \E cmd \in {"pin", "unpin"}, n \in had[a], offset, len \in 0..MaxSize :
                /\ len # 0 => offset + len < n
                /\ ashmem_pin_unpin(a, cmd, n, offset, len)
    \/ PinRange \/ PinAllocFails \/ PinReturns
    \/ UnpinRange \/ UnpinReturns \/ UnpinAllocFails
    \/ ReleaseRange \/ ReleaseReturns
    \/ \E n \in 1..MaxScan : ashmem_shrink(n)
    \/ ShrinkRange

AshSpec == AshInit /\ [][AshNext]_ashVars

-----------------------------------------------------------------------------
(* The list of an area stays sorted and its ranges disjoint through every  *)
(* overlap of requests: the walks, which stop at the first range before    *)
(* the request, rely on it.  A range need not lie inside the area: a store *)
(* that comes late makes the area smaller than what was unpinned before.   *)
RangesSorted ==
    /\ AshTypeOK
    /\ \A a \in Areas : \A i, j \in DOMAIN unpinned_list[a] :
          i < j => unpinned_list[a][i].pgstart > unpinned_list[a][j].pgend

(* The LRU list holds the ranges of all areas that are not purged, each    *)
(* once, and lru_count is the number of their pages: it never wraps below  *)
(* zero, and the shrinker never follows a range that was freed.            *)
LruExact ==
    LET lru == ToSet(ashmem_lru_list)
    IN  /\ lru = UNION {{OnLru(a, r) : r \in {x \in ToSet(unpinned_list[a]) : ~x.purged}}
                        : a \in Areas}
        /\ \A j, k \in DOMAIN ashmem_lru_list :
              ashmem_lru_list[j] = ashmem_lru_list[k] => j = k
        /\ lru_count = TotalSize(lru)

(* Only pages that user space has given up are on the lists from which     *)
(* pages are purged, whatever requests overlapped before and whichever     *)
(* allocations failed; and if none failed the pages given up are, between  *)
(* two calls, exactly those on the unpinned lists.  (Not all of them can   *)
(* be purged: a range that was merged with a purged one, l.530-538, is not *)
(* on the LRU list.)                                                       *)
OnlyGivenUp ==
    \A a \in Areas :
        /\ UnpinnedPages(a) \subseteq given_up[a]
        /\ ~alloc_failed /\ call = NoCall => UnpinnedPages(a) = given_up[a]

(* What a PIN of page p alone would return now.                            *)
PinResult(a, p) ==
    \E i \in Hits(unpinned_list[a], p, p) : unpinned_list[a][i].purged

(* A purge is remembered until the page is pinned, through any splitting   *)
(* and merging of its range, and the PIN tells, whatever else it pins - if *)
(* no allocation has failed.                                               *)
PurgeRemembered ==
    ~alloc_failed =>
        /\ call = NoCall => \A a \in Areas : \A p \in lost[a] : PinResult(a, p)
        /\ call.op = "pin" /\ PinDone /\ call.req \cap lost[call.asma] # {} => PinRet

(* What the values of ASHMEM_PIN are documented to mean: "Was the mapping  *)
(* purged while unpinned?"  It does not hold: if range_alloc fails in a    *)
(* PIN that splits a range, or in an UNPIN that has merged some, what was  *)
(* known of their pages is gone.                                           *)
PinTellsOfPurge ==
    call = NoCall => \A a \in Areas : \A p \in lost[a] : PinResult(a, p)

=============================================================================
