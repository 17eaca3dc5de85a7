----------------------------- MODULE Reassembly -----------------------------
(****************************************************************************)
(* DNS queries and their answers in fragments: the store that puts them     *)
(* together (internal/fragmentstore/store.go), on the server for queries    *)
(* (udpserver/server_postsession.go, server_deferred.go) and on the client  *)
(* for answers (client/dns_listener.go).                                    *)
(*                                                                          *)
(* Fragments are lost, come late, doubled and in any order.  Those of a     *)
(* query are sent again until they are acknowledged, those of an answer are *)
(* not.                                                                     *)
(* A fragment stands for its bytes by the message it was cut from.  Queries *)
(* are numbered; the sequence number of a query is a counter that wraps.    *)
(****************************************************************************)
EXTENDS Integers, FiniteSets, FiniteSetsExt

CONSTANTS
    Asked,          \* the queries, 1 .. n
    SeqSpace,       \* sequence numbers: 65536
    Cuts,           \* fragments of each query: functions, one is chosen
    AnswerCut,      \* fragments of an answer
    Remembers,      \* retention of a store
    EndOfTime       \* bound: the clock, in units of the purge interval

ASSUME ReassemblyAssumption ==
    /\ Asked \in Nat \ {0} /\ SeqSpace \in Nat \ {0} /\ AnswerCut \in Nat \ {0}
    /\ Cuts \subseteq [1 .. Asked -> Nat \ {0}]
    /\ Remembers \in Nat /\ EndOfTime \in Nat

VARIABLES
    cut,       \* the fragments of each query
    asked,     \* queries dispatched so far
    wire,      \* fragments and acknowledgements on the way: [kind, of, id]
    store,     \* of the server and of the client
    tasks,     \* assembled queries in the deferred queue
    instant,
    last,      \* history: side -> sequence number -> when it was assembled last
    joined,    \* history: side -> the messages put together last
    doubled      \* history: something was assembled again while remembered

fragVars == <<cut, asked, wire, store, tasks, instant, last, joined, doubled>>

Sides == {"server", "client"}
Seq16(q) == ((q - 1) % SeqSpace) + 1
Frag(kind, q, id) == [kind |-> kind, of |-> q, id |-> id]
NoItems == [k \in {} |-> 0]
EmptyStore == [items |-> NoItems, completed |-> NoItems, lastPurge |-> 0]

FragInit ==
    /\ cut \in Cuts /\ asked = 0 /\ wire = {}
    /\ store = [side \in Sides |-> EmptyStore]
    /\ tasks = {} /\ instant = 1
    /\ last = [side \in Sides |-> NoItems] /\ joined = [side \in Sides |-> {}]
    /\ doubled = FALSE
-----------------------------------------------------------------------------
Only(f, S) == [k \in S |-> f[k]]
Drop1(f, k) == Only(f, DOMAIN f \ {k})
With(f, k, v) == [x \in DOMAIN f \cup {k} |-> IF x = k THEN v ELSE f[x]]

(* purgeLocked, at most once in a unit of time.                             *)
Purged(s) ==
    IF instant - s.lastPurge < 1 THEN s
    ELSE IF Remembers = 0 THEN [EmptyStore EXCEPT !.lastPurge = instant]
    ELSE [items |-> Only(s.items, {k \in DOMAIN s.items :
                        s.items[k].created > instant - Remembers}),
          completed |-> Only(s.completed, {k \in DOMAIN s.completed :
                        instant < s.completed[k]}),
          lastPurge |-> instant]

Known(s, k) == k \in DOMAIN s.completed /\ instant < s.completed[k]
Remember(s, k) ==
    [s EXCEPT !.items = Drop1(@, k),
              !.completed = IF Remembers > 0 THEN With(@, k, instant + Remembers)
                            ELSE Drop1(@, k)]

(* Collect: what becomes of the store s, and what comes out.                *)
Result(s, out, parts) == [store |-> s, out |-> out, parts |-> parts]
\* Mutant: a fragment of another cut joins the assembly.
CollectAnyCut(raw, k, f, total) ==
    LET s == Purged(raw)
        item == IF k \in DOMAIN s.items THEN s.items[k]
                ELSE [total |-> total, created |-> instant, chunks |-> [i \in {} |-> 0]]
        got == With(item.chunks, f.id, f.of)
    IN  IF total = 1 /\ Remembers = 0 THEN Result(raw, "ready", {f.of})
        ELSE IF Known(s, k) THEN Result(s, "completed", {})
        ELSE IF total = 1 THEN Result(Remember(s, k), "ready", {f.of})
        ELSE IF Cardinality(DOMAIN got) < total
        THEN Result([s EXCEPT !.items = With(@, k, [item EXCEPT !.chunks = got])],
                    "waiting", {})
        ELSE Result(Remember(s, k), "ready", {got[i] : i \in DOMAIN got})
CollectFragment(raw, k, f, total) ==
    LET s == Purged(raw)
        item == IF k \in DOMAIN s.items THEN s.items[k]
                ELSE [total |-> total, created |-> instant, chunks |-> [i \in {} |-> 0]]
        got == With(item.chunks, f.id, f.of)
    IN  IF total = 1 /\ Remembers = 0 THEN Result(raw, "ready", {f.of})
        ELSE IF Known(s, k) THEN Result(s, "completed", {})
        ELSE IF total = 1 THEN Result(Remember(s, k), "ready", {f.of})
        ELSE IF item.total # total
        THEN Result([s EXCEPT !.items = Drop1(@, k)], "conflict", {})
        ELSE IF Cardinality(DOMAIN got) < total
        THEN Result([s EXCEPT !.items = With(@, k, [item EXCEPT !.chunks = got])],
                    "waiting", {})
        ELSE Result(Remember(s, k), "ready", {got[i] : i \in DOMAIN got})

History(side, k, r) ==
    IF r.out # "ready" THEN UNCHANGED <<last, joined, doubled>>
    ELSE /\ last' = [last EXCEPT ![side] = With(@, k, instant)]
         /\ joined' = [joined EXCEPT ![side] = r.parts]
         /\ doubled' = (doubled \/ (/\ k \in DOMAIN last[side]
                                /\ instant < last[side][k] + Remembers))
-----------------------------------------------------------------------------
(* dispatchDNSQueryToTunnel: the fragments are control packets of stream 0, *)
(* sent again until they are acknowledged.  What is on the way may arrive   *)
(* any number of times, or never.                                           *)
AskQuery ==
    /\ asked < Asked /\ asked' = asked + 1
    /\ wire' = wire \cup {Frag("query", asked', i) : i \in 1 .. cut[asked']}
    /\ UNCHANGED <<cut, store, tasks, instant, last, joined, doubled>>

(* handleDNSQueryRequest.  Only the fragment that completes the query is    *)
(* acknowledged, and only when the deferred queue takes the query; one that *)
(* the queue refuses is remembered like the others.                         *)
Receives(f) ==
    LET k == Seq16(f.of)
        r == CollectFragment(store["server"], k, f, cut[f.of])
    IN  /\ f \in wire /\ f.kind = "query"
        /\ store' = [store EXCEPT !["server"] = r.store]
        /\ History("server", k, r)
        /\ \/ r.out # "ready" /\ UNCHANGED <<tasks, wire>>
           \/ /\ r.out = "ready" /\ tasks' = tasks \cup {f.of} 
              /\ wire' = wire \cup {Frag("ack", f.of, f.id)}
           \/ r.out = "ready" /\ UNCHANGED <<tasks, wire>>
        /\ UNCHANGED <<cut, asked, instant>>

(* processDeferredDNSQuery: the end of the session cuts the answer short.   *)
RunTask(q) ==
    /\ q \in tasks /\ tasks' = tasks \ {q}
    /\ \E n \in 0 .. AnswerCut :
          wire' = wire \cup {Frag("answer", q, i) : i \in 1 .. n}
    /\ UNCHANGED <<cut, asked, store, instant, last, joined, doubled>>

(* HandleDNSQueryRes.                                                       *)
Hears(f) ==
    LET r == CollectFragment(store["client"], Seq16(f.of), f, AnswerCut)
    IN  /\ f \in wire /\ f.kind = "answer"
        /\ store' = [store EXCEPT !["client"] = r.store]
        /\ History("client", Seq16(f.of), r)
        /\ UNCHANGED <<cut, asked, wire, tasks, instant>>

(* Time passes; the server also purges its store in its cleanup loop.       *)
Passes ==
    /\ instant < EndOfTime /\ instant' = instant + 1
    /\ UNCHANGED <<cut, asked, wire, store, tasks, last, joined, doubled>>
Cleans ==
    /\ store' = [store EXCEPT !["server"] = Purged(@)] /\ store' # store
    /\ UNCHANGED <<cut, asked, wire, tasks, instant, last, joined, doubled>>

FragNext ==
    \/ AskQuery \/ Passes \/ Cleans
    \/ \E f \in wire : Receives(f) \/ Hears(f)
    \/ \E q \in tasks : RunTask(q)

FragSpec == FragInit /\ [][FragNext]_fragVars
-----------------------------------------------------------------------------
FragTypeOK ==
    /\ cut \in [1 .. Asked -> Nat \ {0}] /\ asked \in 0 .. Asked /\ instant \in Nat
    /\ wire \subseteq [kind : {"query", "ack", "answer"}, of : 1 .. Asked, id : Nat]
    /\ tasks \subseteq 1 .. Asked /\ doubled \in BOOLEAN
    /\ \A side \in Sides : LET s == store[side] IN
          /\ s.lastPurge \in Nat
          /\ DOMAIN s.items \cup DOMAIN s.completed \cup DOMAIN last[side] \subseteq 1 .. SeqSpace
          /\ \A k \in DOMAIN s.items :
                /\ s.items[k].total \in Nat /\ s.items[k].created \in Nat
                /\ \A i \in DOMAIN s.items[k].chunks : s.items[k].chunks[i] \in 1 .. Asked
          /\ \A k \in DOMAIN s.completed : s.completed[k] \in Nat
          /\ \A k \in DOMAIN last[side] : last[side][k] \in Nat
          /\ joined[side] \subseteq 1 .. Asked

\* Fragments of two messages are never put together, but for messages of the
\* same sequence number that are cut into as many pieces.
NotMixed ==
    \A side \in Sides : \A p, q \in joined[side] :
        Seq16(p) = Seq16(q) /\ (side = "client" \/ cut[p] = cut[q])

\* A query is run once and an answer is taken once while it is remembered,
\* whatever comes again.
OnceWhileKnown == ~doubled

\* What a store holds has not grown old, as of its last look at it, and is not
\* put together again while it is remembered.
StoreFresh ==
    \A side \in Sides : LET s == store[side] IN
        /\ \A k \in DOMAIN s.items :
              s.items[k].created > s.lastPurge - Max({1, Remembers})
        /\ \A k \in DOMAIN s.items : ~Known(s, k)

FragmentsSound == NotMixed /\ OnceWhileKnown /\ StoreFresh
=============================================================================
