------------------------------ MODULE DNSCache ------------------------------
(****************************************************************************)
(* One shard of the DNS cache (internal/dnscache/store.go), as the client   *)
(* uses it (dns_listener.go): a query creates a pending record and is sent  *)
(* through the tunnel, the answer makes it ready.  A loop saves the ready   *)
(* records to a file, which is read when the program starts.                *)
(*                                                                          *)
(* Every operation on the shard is one step.  A save is many: it counts,    *)
(* writes each record, renames the file, and clears the flag; the program   *)
(* may stop at any of these.  A response stands for its bytes.              *)
(****************************************************************************)
EXTENDS Queues, SequencesExt

CONSTANTS
    Keys,            \* the keys that fall into the shard
    Responses,
    ShardLimit,           \* maxRecords / shardCount, at least 1
    CacheTTL, PendingTimeout,
    Stops,           \* bound: how often the program stops
    LastTick         \* bound: the clock

ASSUME DNSCacheAssumption ==
    /\ ShardLimit \in Nat \ {0} /\ Responses # {}
    /\ CacheTTL \in Nat \ {0} /\ PendingTimeout \in Nat \ {0}
    /\ Stops \in Nat /\ LastTick \in Nat

VARIABLES
    items,        \* key -> record; records of the shard's map
    order,        \* the keys, least recently used first
    pendingTotal,
    dirty,        \* whether the counter is not 0
    clock,
    file,         \* the records in the file, in order
    save,         \* the save under way: [at, left, out]
    stops,
    missed        \* history: keys changed since they were passed by a save

cacheVars == <<items, order, pendingTotal, dirty, clock, file, save, stops, missed>>

NoSave == [at |-> "idle", left |-> <<>>, out |-> <<>>]
Record(status, answer, used, sentAt) ==
    [status |-> status, answer |-> answer, used |-> used, sentAt |-> sentAt]
Cached == DOMAIN items
NoRecords == [k \in {} |-> 0]

CacheInit ==
    /\ items = NoRecords /\ order = <<>> /\ pendingTotal = 0 /\ dirty = FALSE
    /\ clock = 0 /\ file = <<>> /\ save = NoSave /\ stops = 0 /\ missed = {}
-----------------------------------------------------------------------------
(* A pending record never expires; a ready one does when nobody used it.    *)
Expired(rec) == rec.status = "ready" /\ clock - rec.used >= CacheTTL

Without(k) == PickedAt(order, {i \in 1 .. Len(order) : order[i] # k})
Back(k) == Append(Without(k), k)
Less(total, rec) == IF rec.status = "pending" /\ total > 0 THEN total - 1 ELSE total

(* The cache after a record is put at the back, and the oldest are evicted. *)
Put(k, rec, total, ord) ==
    LET full == Len(ord) > ShardLimit
        out  == Head(ord)
        kept == IF full THEN (Cached \cup {k}) \ {out} ELSE Cached \cup {k}
    IN  /\ items' = [q \in kept |-> IF q = k THEN rec ELSE items[q]]
        /\ order' = IF full THEN Tail(ord) ELSE ord
        /\ pendingTotal' = IF full THEN Less(total, items[out]) ELSE total

(* Changes that a save under way may have passed by.                        *)
Changed(k) == /\ dirty' = TRUE
              /\ missed' = IF save.at = "idle" THEN missed ELSE missed \cup {k}

(* Of touchEntryLocked, a new time of use sets the flag only when it is old *)
(* by a second, a tick here.                                                *)
Touch(k, rec) ==
    /\ items' = [items EXCEPT ![k] = [rec EXCEPT !.used = clock]]
    /\ order' = Back(k)
    /\ dirty' = (dirty \/ clock > rec.used)
    /\ UNCHANGED missed

(* LookupOrCreatePending: [dispatch] tells whether the query is sent.       *)
Lookup(k) ==
    LET found == k \in Cached /\ ~Expired(items[k])
        fresh == Record("pending", "none", clock, clock)
        total == IF k \in Cached THEN Less(pendingTotal, items[k]) ELSE pendingTotal
        again == found /\ items[k].status = "pending"
                       /\ clock - items[k].sentAt >= PendingTimeout
    IN  /\ IF again
           THEN /\ items' = [items EXCEPT ![k].used = clock, ![k].sentAt = clock]
                /\ order' = Back(k) /\ Changed(k) /\ UNCHANGED pendingTotal
           ELSE IF found
           THEN Touch(k, items[k]) /\ UNCHANGED pendingTotal
           ELSE Put(k, fresh, total + 1, Back(k)) /\ Changed(k)
        /\ UNCHANGED <<clock, file, save, stops>>

(* GetReady, of the server.                                                 *)
GetReady(k) ==
    /\ k \in Cached
    /\ IF Expired(items[k])
       THEN /\ items' = [q \in Cached \ {k} |-> items[q]]
            /\ order' = Without(k) /\ Changed(k)
            /\ pendingTotal' = Less(pendingTotal, items[k])
       ELSE Touch(k, items[k]) /\ UNCHANGED pendingTotal
    /\ UNCHANGED <<clock, file, save, stops>>

(* An answer has come, for a record that may be gone by now.                *)
SetReady(k, r) ==
    LET rec == Record("ready", r, clock, 0)
        total == IF k \in Cached THEN Less(pendingTotal, items[k]) ELSE pendingTotal
    IN  /\ Put(k, rec, total, Back(k)) /\ Changed(k)
        /\ UNCHANGED <<clock, file, save, stops>>

(* At the end of a session nobody waits any more.                           *)
ClearPending ==
    LET ready == {k \in Cached : items[k].status = "ready"}
    IN  /\ ready # Cached
        /\ items' = [k \in ready |-> items[k]]
        /\ order' = PickedAt(order, {i \in 1 .. Len(order) : order[i] \in ready})
        /\ pendingTotal' = pendingTotal - Cardinality(Cached \ ready)
        /\ dirty' = TRUE
        /\ UNCHANGED <<clock, file, save, stops, missed>>

CacheTick ==
    /\ clock < LastTick /\ clock' = clock + 1
    /\ UNCHANGED <<items, order, pendingTotal, dirty, file, save, stops, missed>>
-----------------------------------------------------------------------------
(* SaveToFile: the number of records goes first.                            *)
Ready(k) == items[k].status = "ready" /\ ~Expired(items[k])
ReadyKeys == PickedAt(order, {i \in 1 .. Len(order) : Ready(order[i])})
SaveStarts ==
    /\ save.at = "idle" /\ dirty
    /\ save' = [at |-> "count", left |-> <<>>, out |-> <<>>] /\ missed' = {}
    /\ UNCHANGED <<items, order, pendingTotal, dirty, clock, file, stops>>

SaveCounts ==
    /\ save.at = "count"
    /\ save' = [at |-> "write", left |-> ReadyKeys, out |-> <<>>]
    /\ UNCHANGED <<items, order, pendingTotal, dirty, clock, file, stops, missed>>

(* The records are written under the lock of the shard, which may have      *)
(* changed since it was counted; the count stays.  The file says how many   *)
(* records to read; what is missing ends the reading, what is more is not   *)
(* read.                                                                    *)
SaveWrites ==
    LET more == Len(ReadyKeys) > Len(save.left)
        read == IF more THEN SubSeq(ReadyKeys, 1, Len(save.left)) ELSE ReadyKeys
    IN  /\ save.at = "write"
        /\ save' = [at |-> "rename", left |-> <<>>,
                    out |-> [i \in DOMAIN read |-> [key |-> read[i], rec |-> items[read[i]]]]]
        /\ UNCHANGED <<items, order, pendingTotal, dirty, clock, file, stops, missed>>

SaveRenames ==
    /\ save.at = "rename"
    /\ file' = save.out /\ save' = [save EXCEPT !.at = "clear"]
    /\ UNCHANGED <<items, order, pendingTotal, dirty, clock, stops, missed>>

SaveEnds ==
    /\ save.at = "clear"
    /\ dirty' = FALSE /\ save' = NoSave
    /\ UNCHANGED <<items, order, pendingTotal, clock, file, stops, missed>>

\* Mutant: a save that fails clears the flag as well.
SaveFailsClean ==
    /\ save.at \in {"count", "write", "rename"}
    /\ save' = NoSave /\ dirty' = FALSE
    /\ UNCHANGED <<items, order, pendingTotal, clock, file, stops, missed>>

(* An error of the file system: the temporary file is removed, the flag     *)
(* stays.                                                                   *)
SaveFails ==
    /\ save.at \in {"count", "write", "rename"}
    /\ save' = NoSave
    /\ UNCHANGED <<items, order, pendingTotal, dirty, clock, file, stops, missed>>

(* The program stops and starts again: LoadFromFile.  A file that cannot be *)
(* read to its end is removed, what was read of it stays.                   *)
Lasting == PickedAt(file, {i \in 1 .. Len(file) : clock - file[i].rec.used < CacheTTL})
WithinLimit(e) == IF Len(e) > ShardLimit THEN SubSeq(e, Len(e) - ShardLimit + 1, Len(e)) ELSE e
Load(e) ==
    /\ order' = [i \in DOMAIN e |-> e[i].key]
    /\ items' = [k \in {e[i].key : i \in DOMAIN e} |->
                   (CHOOSE x \in ToSet(e) : x.key = k).rec]
Restart ==
    /\ stops < Stops /\ stops' = stops + 1
    /\ \/ Load(WithinLimit(Lasting)) /\ missed' = {} /\ UNCHANGED file
       \/ \E n \in 0 .. Len(Lasting) - 1 :
             /\ Load(SubSeq(Lasting, 1, n))
             /\ file' = <<>> /\ missed' = DOMAIN items'
    /\ pendingTotal' = 0 /\ dirty' = FALSE /\ save' = NoSave
    /\ UNCHANGED clock

CacheNext ==
    \/ \E k \in Keys : Lookup(k) \/ GetReady(k) \/ \E r \in Responses : SetReady(k, r)
    \/ ClearPending \/ CacheTick
    \/ SaveStarts \/ SaveCounts \/ SaveWrites \/ SaveRenames \/ SaveEnds \/ SaveFails
    \/ Restart
-----------------------------------------------------------------------------
CacheRecord == [status : {"pending", "ready"}, answer : Responses \cup {"none"},
                used : Nat, sentAt : Nat]
FileRecords == [key : Keys, rec : CacheRecord]

CacheTypeOK ==
    /\ order \in Seq(Keys) /\ Cached \subseteq Keys /\ items \in [Cached -> CacheRecord]
    /\ pendingTotal \in Nat /\ dirty \in BOOLEAN /\ clock \in Nat /\ stops \in Nat
    /\ file \in Seq(FileRecords) /\ missed \subseteq Keys
    /\ save \in [at : {"idle", "count", "write", "rename", "clear"},
                 left : Seq(Keys), out : Seq(FileRecords)]

\* The records are those of the order, each once, at most the limit; and the
\* count of the pending ones, which HasPending reads, is right, through
\* evictions, answers to evicted records, expiry and restarts.
CacheConsistent ==
    /\ IsInjective(order) /\ ToSet(order) = Cached /\ Len(order) <= ShardLimit
    /\ pendingTotal = Cardinality({k \in Cached : items[k].status = "pending"})

\* What the file holds was an answer to the key, and no key is in it twice,
\* wherever the program stopped; when the flag is clear, the file has every
\* record that is ready, unless one changed while they were saved.
Holds(f, k) == \E i \in DOMAIN f : f[i].key = k /\ f[i].rec.answer = items[k].answer
FileComplete ==
    /\ IsInjective([i \in DOMAIN file |-> file[i].key])
    /\ save.at = "idle" /\ ~dirty /\ missed = {} =>
           \A k \in Cached : Ready(k) => Holds(file, k)

CacheSound == CacheConsistent /\ FileComplete
=============================================================================
