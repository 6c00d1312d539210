----------------------------- MODULE RateLimiter -----------------------------
(***************************************************************************)
(* FixedWindowRateLimiter and RateLimitMiddleware (public_app.py:122-195). *)
(* A request is charged to its client address and, when it carries a       *)
(* bearer token, to the token as well.  consume() never suspends while it  *)
(* holds its lock, so one request is one step.                             *)
(*                                                                         *)
(* time.monotonic() is a clock of TicksPerSecond ticks to the second, so   *)
(* that the rounding of Retry-After to whole seconds shows.  The           *)
(* OrderedDict is a function from the keys present and the sequence of     *)
(* those keys, oldest first.                                               *)
(***************************************************************************)
EXTENDS Integers, Sequences, FiniteSets

CONSTANTS
    Ips, Tokens,                \* client addresses, token digests
    IpLimit, TokenLimit,        \* requests per window
    WindowSeconds,
    TicksPerSecond,
    MaxKeys,                    \* windows kept at most
    MaxTime, MaxCharges         \* bounds of the model: ticks, charges

ASSUME RateAssumption ==
    /\ Ips \intersect Tokens = {}
    /\ IpLimit \in Nat \ {0} /\ TokenLimit \in Nat \ {0}
    /\ WindowSeconds \in Nat \ {0} /\ TicksPerSecond \in Nat \ {0}
    /\ MaxKeys \in Nat /\ MaxKeys >= 2
    /\ MaxTime \in Nat /\ MaxCharges \in Nat

VARIABLES
    now,            \* the clock, in ticks
    windows,        \* windows[k]: start and requests of the window of k
    order,          \* the keys of windows, least recently charged first
    log,            \* every charge so far (ghost)
    forgotten,      \* forgotten[k]: length of log when k was last evicted (ghost)
    refusal         \* the last refusal, as a set of at most one (ghost)

vars == <<now, windows, order, log, forgotten, refusal>>
ghosts == <<log, forgotten, refusal>>

Keys == Ips \union Tokens
Limit(k) == IF k \in Ips THEN IpLimit ELSE TokenLimit
WindowTicks == WindowSeconds * TicksPerSecond
Window == [started : 0..MaxTime, requests : Nat]

(* The keys of a request in the order consume() takes them: <<ip>> without *)
(* a bearer token, <<ip, token>> with one.                                 *)
Limits == {<<ip>> : ip \in Ips} \union (Ips \X Tokens)
Charged(limits) == {limits[i] : i \in DOMAIN limits}

Init ==
    /\ now = 0
    /\ windows = <<>>
    /\ order = <<>>
    /\ log = <<>>
    /\ forgotten = [k \in Keys |-> 0]
    /\ refusal = {}

-----------------------------------------------------------------------------
(* An operator commented "faulty" is never used by Next: it is a plausible *)
(* bug of the definition that follows it.                                  *)

Live(k) == k \in DOMAIN windows /\ now - windows[k].started < WindowTicks

(* The window a request finds: an expired one counts as a new one. *)
Current(k) == IF Live(k) THEN windows[k] ELSE [started |-> now, requests |-> 0]

(* Faulty: one request more than the limit. *)
RefusingLate(k) == Current(k).requests > Limit(k)

Refusing(k) == Current(k).requests >= Limit(k)

(* Faulty: rounds to the second below. *)
Floor(ticks) == ticks \div TicksPerSecond

Ceiling(ticks) == (ticks + TicksPerSecond - 1) \div TicksPerSecond
RetryAfter(k) ==
    LET seconds == Ceiling(WindowTicks - (now - Current(k).started))
    IN  IF seconds < 1 THEN 1 ELSE seconds

Charge(keys) ==
    [k \in DOMAIN windows \union keys |->
        IF k \in keys THEN [Current(k) EXCEPT !.requests = @ + 1] ELSE windows[k]]

Without(s, k) ==
    IF \E i \in DOMAIN s : s[i] = k
    THEN LET i == CHOOSE i \in DOMAIN s : s[i] = k
         IN  SubSeq(s, 1, i - 1) \o SubSeq(s, i + 1, Len(s))
    ELSE s

(* Faulty: a key keeps its place when it is charged again. *)
AppendedOnce(limits) == order \o SelectSeq(limits, LAMBDA k : k \notin DOMAIN windows)

(* move_to_end for the one or two keys of a request, in their order. *)
MovedToEnd(limits) == Without(Without(order, limits[1]), limits[Len(limits)]) \o limits

(* Oldest keys go while there are more than MaxKeys. *)
Evict(charged, moved) ==
    LET excess == IF Len(moved) > MaxKeys THEN Len(moved) - MaxKeys ELSE 0
        kept == SubSeq(moved, excess + 1, Len(moved))
    IN  /\ order' = kept
        /\ windows' = [k \in {kept[i] : i \in DOMAIN kept} |-> charged[k]]

-----------------------------------------------------------------------------
(* Every key has room: all of them are charged. *)
Admit(limits) ==
    /\ \A k \in Charged(limits) : ~Refusing(k)
    /\ Evict(Charge(Charged(limits)), MovedToEnd(limits))
    /\ UNCHANGED now

(* Faulty: the keys before the refusing one are charged on the way. *)
RefuseAfterCharging(limits, i) ==
    /\ Refusing(limits[i])
    /\ \A j \in 1..(i - 1) : ~Refusing(limits[j])
    /\ IF i = 1 THEN UNCHANGED <<windows, order>>
       ELSE Evict(Charge({limits[1]}), MovedToEnd(<<limits[1]>>))
    /\ UNCHANGED now

(* The first key without room is answered for; nothing is charged. *)
Refuse(limits, i) ==
    /\ Refusing(limits[i])
    /\ \A j \in 1..(i - 1) : ~Refusing(limits[j])
    /\ UNCHANGED <<now, windows, order>>

Tick ==
    /\ now < MaxTime
    /\ now' = now + 1
    /\ UNCHANGED <<windows, order, log, forgotten, refusal>>

Admitted(limits) ==
    /\ Len(log) + Len(limits) <= MaxCharges
    /\ Admit(limits)
    /\ log' = log \o [i \in DOMAIN limits |-> [key |-> limits[i], at |-> now]]
    /\ forgotten' = [k \in Keys |->
                        IF k \in (DOMAIN windows \union Charged(limits)) \ DOMAIN windows'
                        THEN Len(log') ELSE forgotten[k]]
    /\ UNCHANGED refusal

Refused(limits, i) ==
    /\ Refuse(limits, i)
    /\ refusal' = {[key |-> limits[i], at |-> now, mark |-> Len(log),
                    due |-> now + RetryAfter(limits[i]) * TicksPerSecond]}
    /\ UNCHANGED <<log, forgotten>>

Next ==
    \/ \E limits \in Limits : Admitted(limits)
    \/ \E limits \in Limits : \E i \in DOMAIN limits : Refused(limits, i)
    \/ Tick

Spec == Init /\ [][Next]_vars

-----------------------------------------------------------------------------
(* Properties                                                              *)

TypeOK ==
    /\ now \in 0..MaxTime
    /\ DOMAIN windows \subseteq Keys
    /\ \A k \in DOMAIN windows : windows[k] \in Window
    /\ order \in Seq(Keys)
    /\ log \in Seq([key : Keys, at : 0..MaxTime])
    /\ forgotten \in [Keys -> Nat]
    /\ refusal \subseteq [key : Keys, at : 0..MaxTime, mark : Nat, due : Nat]

(* The charges of k since its window was last evicted, and those among     *)
(* them from tick a to tick b.                                             *)
Remembered(k) == {i \in DOMAIN log : log[i].key = k /\ i > forgotten[k]}
Span(k, a, b) == {i \in Remembered(k) : log[i].at \in a..b}

(* A window counts exactly the admitted requests since it started: a       *)
(* request another key refuses is charged to nobody, a shared address is   *)
(* charged with every token behind it, and a kept window never loses a     *)
(* charge (consume's two passes, public_app.py:140-151).                   *)
CountsExact ==
    \A k \in DOMAIN windows :
        /\ windows[k].requests = Cardinality(Span(k, windows[k].started, now))
        /\ windows[k].requests \in 1..Limit(k)

(* What a fixed window promises of any span as long as a window, wherever  *)
(* it begins: one request less than two windows' worth (public_app.py:142, *)
(* the comparison that renews a window, and :144).                         *)
SpanBounded ==
    \A k \in Keys : \A t \in 0..MaxTime :
        Cardinality(Span(k, t, t + WindowTicks - 1)) < 2 * Limit(k)

(* Retry-After is honest both ways, as long as the key is not evicted.     *)
(* Once it has elapsed, the window that refused is over; a whole second    *)
(* before, the key would still be refused (public_app.py:145).             *)
RetryAfterHonest ==
    \A r \in refusal : forgotten[r.key] <= r.mark =>
        /\ now >= r.due => ~(Live(r.key) /\ windows[r.key].started <= r.at)
        /\ now <= r.due - TicksPerSecond => Refusing(r.key)

(* k is charged after the charge numbered i. *)
Later(k, i) == \E j \in DOMAIN log : j > i /\ log[j].key = k

(* A window is given up only for MaxKeys keys that were all charged after  *)
(* its key last was, so an active key keeps its count however many others  *)
(* come and go (public_app.py:151-153).                                    *)
LeastRecentForgotten ==
    \A i \in DOMAIN log :
        log[i].key \notin DOMAIN windows =>
            Cardinality({k \in Keys : Later(k, i)}) >= MaxKeys

-----------------------------------------------------------------------------
(* The inductive invariant behind these properties                         *)

(* The charges of an absent key are forgotten.  Those of a present one lie *)
(* before the end of its window, one exactly at the start; and those that  *)
(* can share a span with the window leave room for one more, because the   *)
(* charge that opened the window before is too old for the span.           *)
WindowInv ==
    \A k \in Keys :
        /\ k \notin DOMAIN windows => Remembered(k) = {}
        /\ k \in DOMAIN windows =>
              LET started == windows[k].started
              IN  /\ started <= now
                  /\ \E i \in Remembered(k) : log[i].at = started
                  /\ \A i \in Remembered(k) : log[i].at < started + WindowTicks
                  /\ \A t \in 0..MaxTime : t > started - WindowTicks =>
                        Cardinality(Span(k, t, started - 1)) < Limit(k)

(* The window that refused is full and unchanged, or a later one replaced  *)
(* it after it was over.                                                   *)
RefusalInv ==
    \A r \in refusal :
        /\ r.at <= now /\ r.mark <= Len(log)
        /\ forgotten[r.key] <= r.mark =>
              /\ r.key \in DOMAIN windows
              /\ LET w == windows[r.key]
                 IN  \/ /\ w.requests >= Limit(r.key)
                        /\ r.at < w.started + WindowTicks
                        /\ r.due \in (w.started + WindowTicks)..(w.started + WindowTicks + TicksPerSecond - 1)
                     \/ /\ w.started > r.at
                        /\ w.started > r.due - TicksPerSecond

(* order lists the windows once each, by their last charge, and is full    *)
(* once a key has been evicted.                                            *)
OrderInv ==
    /\ DOMAIN windows = {order[i] : i \in DOMAIN order}
    /\ Len(order) <= MaxKeys
    /\ \A a, b \in DOMAIN order : a < b =>
          /\ order[a] # order[b]
          /\ \A i \in DOMAIN log : log[i].key = order[a] => Later(order[b], i)
    /\ \A i \in DOMAIN log : log[i].key \notin DOMAIN windows =>
          /\ Len(order) = MaxKeys
          /\ \A k \in DOMAIN windows : Later(k, i)

IInv ==
    /\ TypeOK /\ CountsExact /\ SpanBounded
    /\ WindowInv /\ RefusalInv /\ OrderInv
    /\ \A i \in DOMAIN log : log[i].at <= now
    /\ \A k \in Keys : forgotten[k] <= Len(log)
=============================================================================
