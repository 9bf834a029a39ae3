---------------------------- MODULE UserWakeLock ----------------------------
(***************************************************************************)
(* User space wake locks (kernel/power/userwakelock.c): a write of a name, *)
(* and optionally a timeout in nanoseconds, to /sys/power/wake_lock takes  *)
(* the wake lock of that name, which is made if there is none; a write of  *)
(* the name to /sys/power/wake_unlock releases it.                         *)
(*                                                                         *)
(* Every call runs under tree_lock and is one step.                        *)
(*                                                                         *)
(* Abstractions.  A name is the sequence of its characters, which are      *)
(* positive numbers, without the NUL that ends it.  A write is parsed      *)
(* already: a name with a number of nanoseconds, with nothing, or with     *)
(* something else.  The red-black tree is the sequence of its nodes from   *)
(* left to right: of its balancing nothing is assumed, any node may be the *)
(* root of any subtree.  Of the wake lock only what a call asked of        *)
(* wakelock.c is kept (module WakeLock), and that a timeout runs out.      *)
(***************************************************************************)
EXTENDS Integers, SequencesExt

CONSTANTS
    Names,        \* names that user space uses
    Timeouts,     \* timeouts it gives, in nanoseconds
    JiffyNs,      \* NSEC_PER_SEC / HZ
    U64Max,       \* the largest u64
    LongMax       \* the largest long

(* The nanoseconds of every long of jiffies fit into a u64: whatever HZ,   *)
(* 2^31 * 10^9 < 2^64.                                                     *)
ASSUME UwlAssumption ==
    /\ JiffyNs \in Nat \ {0} /\ U64Max \in Nat /\ LongMax \in Nat \ {0}
    /\ (LongMax + 1) * JiffyNs <= U64Max + 1
    /\ Timeouts \subseteq 0 .. U64Max
    /\ \A n \in Names : n \in Seq(Nat \ {0})

VARIABLES
    user_wake_locks,  \* the nodes of the tree, from left to right
    asked             \* history: per name, what user space last asked for

uwlVars == <<user_wake_locks, asked>>

-----------------------------------------------------------------------------
(* The timeout in jiffies.                                                 *)

U64(n) == n % (U64Max + 1)

(* The assignment of a u64 to a long: the low bits, as a signed number.    *)
Long(n) ==
    LET low == n % (2 * LongMax + 2)
    IN  IF low <= LongMax THEN low ELSE low - (2 * LongMax + 2)

(* Mutant: a timeout of zero stays zero.                                   *)
ToJiffies_zero(ns) == Long(U64(ns + JiffyNs - 1) \div JiffyNs)

ToJiffies(ns) ==
    LET timeout == U64(ns + JiffyNs - 1) \div JiffyNs
    IN  Long(IF timeout <= 0 THEN 1 ELSE timeout)

-----------------------------------------------------------------------------
(* The lookup.                                                             *)

(* strncmp(buf, name, length of buf).                                      *)
strncmp(buf, name) ==
    LET differ == {i \in 1..Len(buf) : i > Len(name) \/ buf[i] # name[i]}
        i == Min(differ)
    IN  IF differ = {} THEN 0
        ELSE IF i > Len(name) THEN buf[i]
        ELSE buf[i] - name[i]

(* Mutant: a name that goes on after the one looked for is taken for it.   *)
Diff_prefix(buf, name) == strncmp(buf, name)

(* Mutant: it is taken to be the smaller one.                              *)
Diff_swapped(buf, name) ==
    IF strncmp(buf, name) = 0 /\ Len(name) > Len(buf) THEN 1 ELSE strncmp(buf, name)

Diff(buf, name) ==
    IF strncmp(buf, name) = 0 /\ Len(name) > Len(buf) THEN -1 ELSE strncmp(buf, name)

(* Where walks down the tree for a name can end: at a node, or at the      *)
(* place between two for a new one.                                        *)
Lookups(tree, buf) ==
    LET walk[lo \in 1 .. Len(tree) + 1] == [hi \in 0 .. Len(tree) |->
          IF lo > hi THEN {[found |-> FALSE, at |-> lo]}
          ELSE UNION {LET diff == Diff(buf, tree[m].name)
                      IN  IF diff < 0 THEN walk[lo][m - 1]
                          ELSE IF diff > 0 THEN walk[m + 1][hi]
                          ELSE {[found |-> TRUE, at |-> m]} : m \in lo..hi}]
    IN  walk[1][Len(tree)]

-----------------------------------------------------------------------------
Locks == {"free", "held", "timed"}
NoTimeout == -1
Released == -2

UwlTypeOK ==
    /\ \A l \in ToSet(user_wake_locks) :
          /\ l.name \in Names /\ l.lock \in Locks
          /\ l.timeout \in -LongMax - 1 .. LongMax
    /\ asked \in [Names -> Timeouts \cup {NoTimeout, Released}]

UwlInit ==
    /\ user_wake_locks = <<>>
    /\ asked = [n \in Names |-> Released]

Node(name, timeout) ==
    [name |-> name, timeout |-> timeout, lock |-> IF timeout = 0 THEN "held" ELSE "timed"]

(* wake_lock_store, with ns nanoseconds or NoTimeout.  A write that cannot *)
(* be parsed, and one for which there is no memory, change nothing.        *)
wake_lock_store(name, ns) ==
    LET timeout == IF ns = NoTimeout THEN 0 ELSE ToJiffies(ns)
    IN
    /\ \E l \in Lookups(user_wake_locks, name) :
          user_wake_locks' =
              IF l.found
              THEN [user_wake_locks EXCEPT ![l.at] = Node(@.name, timeout)]
              ELSE InsertAt(user_wake_locks, l.at, Node(name, timeout))
    /\ asked' = [asked EXCEPT ![name] = ns]

(* wake_unlock_store; -EINVAL if there is no such lock.                    *)
wake_unlock_store(name) ==
    /\ \E l \in Lookups(user_wake_locks, name) :
          user_wake_locks' =
              IF l.found
              THEN [user_wake_locks EXCEPT ![l.at].lock = "free", ![l.at].timeout = 0]
              ELSE user_wake_locks
    /\ asked' = [asked EXCEPT ![name] = Released]

(* The timeout of a lock runs out (wakelock.c).                            *)
Expires(i) ==
    /\ i \in DOMAIN user_wake_locks /\ user_wake_locks[i].lock = "timed"
    /\ user_wake_locks' = [user_wake_locks EXCEPT ![i].lock = "free", ![i].timeout = 0]
    /\ asked' = [asked EXCEPT ![user_wake_locks[i].name] = Released]

UwlNext ==
    \/ \E n \in Names :
          \/ \E ns \in Timeouts \cup {NoTimeout} : wake_lock_store(n, ns)
          \/ wake_unlock_store(n)
    \/ \E i \in DOMAIN user_wake_locks : Expires(i)

UwlSpec == UwlInit /\ [][UwlNext]_uwlVars

-----------------------------------------------------------------------------
(* In whatever shape the tree is, a lookup finds the lock of a name if     *)
(* there is one and nothing else, also when one name begins another: no    *)
(* name ever gets a second lock, one that could never be released.         *)
LookupsExact ==
    \A n \in Names : \A l \in Lookups(user_wake_locks, n) :
        l.found <=> \E i \in DOMAIN user_wake_locks : user_wake_locks[i].name = n

OneLockPerName ==
    \A i, j \in DOMAIN user_wake_locks :
        user_wake_locks[i].name = user_wake_locks[j].name => i = j

TreeExact == UwlTypeOK /\ LookupsExact /\ OneLockPerName

(* The lock of every name is as user space last asked for it by that name: *)
(* no call takes or releases the lock of another.  (Of timeouts too long   *)
(* for a long see the next property.)                                      *)
LocksAsAsked ==
    \A n \in Names :
        LET mine == {l \in ToSet(user_wake_locks) : l.name = n}
        IN  /\ asked[n] = Released => \A l \in mine : l.lock = "free"
            /\ asked[n] # Released => mine # {} /\ \A l \in mine : l.lock # "free"
            /\ asked[n] = NoTimeout => \A l \in mine : l.lock = "held"

(* A timeout is never shortened to less than what was asked nor lengthened *)
(* by a jiffy, and above all never becomes 0, which means forever - as     *)
(* long as the jiffies fit into a long.                                    *)
TimeoutsKept ==
    \A l \in ToSet(user_wake_locks) :
        LET ns == asked[l.name]
        IN  ns \in 0 .. LongMax * JiffyNs =>
              /\ l.lock = "timed"
              /\ l.timeout >= 1 /\ l.timeout * JiffyNs >= ns
              /\ l.timeout > 1 => (l.timeout - 1) * JiffyNs < ns

=============================================================================
