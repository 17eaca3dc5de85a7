---------------------------- MODULE FailureWindows ----------------------------
(****************************************************************************)
(* Two memories of failures: the server's tracker of packets with a wrong   *)
(* cookie, which decides when an error is sent (internal/udpserver/         *)
(* invalid_cookie_tracker.go), and the client's limiter of SOCKS5 logins,   *)
(* which bans addresses for longer and longer (internal/client/             *)
(* socks_ratelimit.go).  Each operation holds the lock of its table.        *)
(*                                                                          *)
(* Time is counted in ticks from 1.                                         *)
(****************************************************************************)
EXTENDS Integers, Sequences, FiniteSets

CONSTANTS
    Cookies,        \* keys of the tracker
    Window,         \* invalidCookieWindow
    ErrorThreshold,
    MaxRecords,     \* maxInvalidCookieTrackerRecords
    Logins,         \* addresses that log in
    LoginWindow,    \* socksRateLimitWindow
    MaxFailures,    \* socksRateLimitMaxFailures
    BaseBan, MaxBan,
    DecayAfter,     \* socksRateLimitBanDecayAfter
    PurgeEvery,     \* socksRateLimitPurgeInterval
    LastMinute      \* bound

ASSUME FailureWindowsAssumption ==
    /\ Window \in Nat \ {0} /\ ErrorThreshold \in Nat \ {0}
    /\ MaxFailures \in Nat \ {0} /\ LoginWindow \in Nat \ {0}
    /\ BaseBan \in Nat \ {0} /\ MaxBan \in Nat /\ MaxBan >= BaseBan
    /\ DecayAfter \in Nat /\ PurgeEvery \in Nat \ {0}

VARIABLES
    time,
    tracked,     \* records of the tracker: attempts and lastEmitAt
    failed,      \* history: per cookie, the times of the last packets
    emitted,     \* history: per cookie, the last error: when, how long after
                 \* the one before, and for how many packets of its window
    logins,      \* records of the limiter: timestamps, banUntil and banCount
    purgedAt,    \* lastPurge
    ban          \* history: per address, the last ban and its length

trackVars == <<tracked, emitted, failed>>
loginVars == <<logins, purgedAt, ban>>
windowVars == <<time, trackVars, loginVars>>

NoError == [last |-> 0, gap |-> Window, count |-> ErrorThreshold]
NoBan == [until |-> 0, long |-> 0]

WindowsInit ==
    /\ time = 1
    /\ tracked = <<>>
    /\ failed = [k \in Cookies |-> <<>>] /\ emitted = [k \in Cookies |-> NoError]
    /\ logins = <<>> /\ purgedAt = 1
    /\ ban = [ip \in Logins |-> NoBan]

With(f, k, v) == [j \in DOMAIN f \cup {k} |-> IF j = k THEN v ELSE f[j]]
Since(times, cutoff) ==
    LET first == CHOOSE n \in 1 .. Len(times) + 1 :
                    /\ n <= Len(times) => times[n] >= cutoff
                    /\ \A m \in 1 .. n - 1 : times[m] < cutoff
    IN  SubSeq(times, first, Len(times))
After(times, cutoff) == SelectSeq(times, LAMBDA t : t > cutoff)
Newest(times, n) == SubSeq(times, IF Len(times) > n THEN Len(times) - n + 1 ELSE 1, Len(times))
-----------------------------------------------------------------------------
(* The tracker of cookies.                                                  *)
Attempts(k) ==
    IF k \in DOMAIN tracked THEN Since(tracked[k].attempts, time - Window) ELSE <<>>
LastEmit(k) == IF k \in DOMAIN tracked THEN tracked[k].lastEmitAt ELSE 0

Quiet(k) == LastEmit(k) # 0 /\ time - LastEmit(k) < Window

Note(k) ==
    LET attempts == Newest(Append(Attempts(k), time), ErrorThreshold)
        emits == Len(attempts) >= ErrorThreshold /\ ~Quiet(k)
    IN  /\ k \in DOMAIN tracked \/ Cardinality(DOMAIN tracked) < MaxRecords
        /\ tracked' = With(tracked, k, [attempts |-> attempts,
                              lastEmitAt |-> IF emits THEN time ELSE LastEmit(k)])
        /\ failed' = [failed EXCEPT ![k] = Newest(Append(@, time), ErrorThreshold)]
        /\ emitted' = IF ~emits THEN emitted
             ELSE [emitted EXCEPT ![k] =
                      [last |-> time,
                       gap |-> IF @.last = 0 THEN Window ELSE time - @.last,
                       count |-> Cardinality({n \in DOMAIN failed'[k] :
                                                 failed'[k][n] >= time - Window})]]
        /\ UNCHANGED <<time, loginVars>>

Expired(k) == Attempts(k) = <<>> /\ (LastEmit(k) = 0 \/ LastEmit(k) < time - Window)

CleanTracker ==
    /\ tracked' = [k \in {j \in DOMAIN tracked : ~Expired(j)} |->
                      [attempts |-> Attempts(k), lastEmitAt |-> tracked[k].lastEmitAt]]
    /\ UNCHANGED <<time, emitted, failed, loginVars>>
-----------------------------------------------------------------------------
(* The limiter of logins.                                                   *)
Known(ip) == ip \in DOMAIN logins
IsBlocked(ip) == Known(ip) /\ time < logins[ip].banUntil

PurgeDue == time - purgedAt >= PurgeEvery
\* Mutant: an address is dropped although it is banned.
PurgeableBanned(ip) == After(logins[ip].timestamps, time - LoginWindow) = <<>>
Purgeable(ip) ==
    /\ time > logins[ip].banUntil
    /\ After(logins[ip].timestamps, time - LoginWindow) = <<>>

KeptLogins ==
    {ip \in DOMAIN logins : PurgeDue => ~Purgeable(ip)}

Fresh == [timestamps |-> <<>>, banUntil |-> 0, banCount |-> 0]
RecordOf(ip) == IF ip \in KeptLogins THEN logins[ip] ELSE Fresh

BanLength(n) ==
    LET doubled == BaseBan * 2 ^ (n - 1)
    IN  IF doubled >= MaxBan THEN MaxBan ELSE doubled

Failure(ip) ==
    LET rec == RecordOf(ip)
        blocked == rec.banUntil # 0 /\ time < rec.banUntil
        decayed == rec.banUntil # 0 /\ time > rec.banUntil /\ time - rec.banUntil >= DecayAfter
        count == IF decayed THEN 0 ELSE rec.banCount
        times == Append(After(rec.timestamps, time - LoginWindow), time)
        bans == ~blocked /\ Len(times) >= MaxFailures
        length == BanLength(count + 1)
        new == IF blocked THEN rec
               ELSE IF bans
               THEN [timestamps |-> <<>>, banUntil |-> time + length, banCount |-> count + 1]
               ELSE [timestamps |-> times, banUntil |-> rec.banUntil, banCount |-> count]
    IN  /\ logins' = With([j \in KeptLogins |-> logins[j]], ip, new)
        /\ purgedAt' = IF PurgeDue THEN time ELSE purgedAt
        /\ ban' = IF bans THEN [ban EXCEPT ![ip] = [until |-> time + length, long |-> length]]
                  ELSE ban
        /\ UNCHANGED <<time, trackVars>>

(* A login under way when the address is banned may still succeed.          *)
Success(ip) ==
    /\ Known(ip)
    /\ logins' = [j \in DOMAIN logins \ {ip} |-> logins[j]]
    /\ ban' = [ban EXCEPT ![ip] = NoBan]
    /\ UNCHANGED <<time, trackVars, purgedAt>>

Minute ==
    /\ time < LastMinute /\ time' = time + 1
    /\ UNCHANGED <<trackVars, loginVars>>

WindowsNext ==
    \/ \E k \in Cookies : Note(k)
    \/ CleanTracker
    \/ \E ip \in Logins : Failure(ip) \/ Success(ip)
    \/ Minute

WindowsSpec == WindowsInit /\ [][WindowsNext]_windowVars
-----------------------------------------------------------------------------
\* Errors for a wrong cookie are sent only for so many packets in a window,
\* and never twice within one, though records are dropped and made again.
EmitsRare ==
    \A k \in Cookies : emitted[k].gap >= Window /\ emitted[k].count >= ErrorThreshold

\* A ban lasts as long as it was given for, unless a login succeeds: neither
\* failures of others, nor the clean-up they cause, end it.
BanLasts == \A ip \in Logins : time < ban[ip].until => IsBlocked(ip)

WindowsSound == EmitsRare /\ BanLasts

\* Each ban is twice as long as the one before, up to a limit, as long as the
\* address was not clean for the time of decay (socks_ratelimit.go:28 and 34).
BansEscalate ==
    [][\A ip \in Logins :
          ban[ip] # NoBan /\ ban'[ip] # ban[ip] /\ ban'[ip] # NoBan
            /\ time < ban[ip].until + DecayAfter
          => ban'[ip].long = IF 2 * ban[ip].long >= MaxBan THEN MaxBan
                             ELSE 2 * ban[ip].long]_windowVars
=============================================================================
