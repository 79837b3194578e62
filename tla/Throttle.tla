-------------------------------- MODULE Throttle --------------------------------
(***************************************************************************)
(* The attempts at signing in, counted in this process's memory over a     *)
(* window that slides (throttle.py), and the sign-in that asks before it   *)
(* looks at a password and counts after it (routers/auth.py, login).       *)
(* Several sign-ins are under way at the same time, each call of a Limit   *)
(* holding its lock.                                                       *)
(***************************************************************************)
EXTENDS Integers, Sequences, FiniteSets

CONSTANTS
    Caller,        \* the sign-ins that may be under way at the same time
    Address,       \* where they come from
    Username,      \* whose sign-in they try
    NoName,        \* a username too long to be one: it is not counted
    Attempts,      \* per limit, the attempts a key has within the window
    Window,        \* ticks the window lasts
    MaxKeys,       \* keys a table holds
    SweepEvery,    \* records between two sweeps
    MaxNow         \* bound: the clock stops there

ASSUME ThrottleAssumption ==
    /\ {Window, MaxKeys, SweepEvery} \subseteq Nat \ {0}
    /\ Attempts \in [{"address", "account"} -> Nat \ {0}]
    /\ NoName \notin Username \cup Address

\* Requests run in a pool of threads.
ASSUME FiniteCallers == IsFiniteSet(Caller)

VARIABLES
    now,        \* time.monotonic()
    tables,     \* per limit: the keys held, each with its attempts, oldest first
    records,    \* per limit: the records since the last sweep
    trying,     \* the sign-ins whose password is being looked at
    failed,     \* history variable: per limit and key, the attempts that count
                \* and happened in the last Window ticks
    lost        \* history variable: the keys a full table has forgotten

throttleVars == <<now, tables, records, trying, failed, lost>>

LimitKey == [address |-> Address, account |-> Username]
Limit == DOMAIN LimitKey

Nobody == [address |-> NoName, account |-> NoName]

\* The first attempt later than `cut`, or the end.
FirstAfter(seen, cut) ==
    CHOOSE i \in 1..Len(seen) + 1 :
        /\ \A j \in 1..i - 1 : seen[j] <= cut
        /\ i <= Len(seen) => seen[i] > cut

\* What is left when the oldest are taken away up to `cut`.
Since(seen, cut) == SubSeq(seen, FirstAfter(seen, cut), Len(seen))

\* Mutant: an attempt is in the window until after its last moment.
CutInclusive == now - Window - 1

Cut == now - Window

Recent(seen) == Since(seen, Cut)

\* A key left with no attempt in the window is dropped.
Pruned(table, keys) ==
    LET kept == {k \in DOMAIN table : k \in keys => Recent(table[k]) # <<>>}
    IN  [k \in kept |-> IF k \in keys THEN Recent(table[k]) ELSE table[k]]

Without(table, gone) == [k \in DOMAIN table \ gone |-> table[k]]

Last(seen) == seen[Len(seen)]

Stalest(table, forgotten) ==
    \A k \in forgotten, m \in DOMAIN table \ forgotten : Last(table[k]) <= Last(table[m])

Excess(table) ==
    IF Cardinality(DOMAIN table) > MaxKeys THEN Cardinality(DOMAIN table) - MaxKeys ELSE 0

\* The keys a sweep of the pruned table forgets; ties are broken either way.
Forgettable(table) ==
    {f \in SUBSET DOMAIN table : Cardinality(f) = Excess(table) /\ Stalest(table, f)}

ThrottleInit ==
    /\ now = 0
    /\ tables = [l \in Limit |-> [k \in {} |-> <<>>]]
    /\ records = [l \in Limit |-> 0]
    /\ trying = [c \in Caller |-> Nobody]
    /\ failed = [l \in Limit |-> [k \in LimitKey[l] |-> <<>>]]
    /\ lost = [l \in Limit |-> {}]

\* Mutant: the last attempt is one more than was meant.
SpentAbove(l, k) == k \in DOMAIN tables[l] /\ Len(Recent(tables[l][k])) > Attempts[l]

Spent(l, k) == k \in DOMAIN tables[l] /\ Len(Recent(tables[l][k])) >= Attempts[l]

\* refuse_if_spent, of the address and then of the account.
Arrive(c, address, name) ==
    /\ trying[c] = Nobody
    /\ IF Spent("address", address)
       THEN /\ tables' = [tables EXCEPT !["address"] = Pruned(@, {address})]
            /\ trying' = trying
       ELSE /\ tables' = [l \in Limit |->
                            Pruned(tables[l], IF l = "address" THEN {address} ELSE {name})]
            /\ trying' = IF name # NoName /\ Spent("account", name) THEN trying
                         ELSE [trying EXCEPT ![c] = [address |-> address, account |-> name]]
    /\ UNCHANGED <<now, records, failed, lost>>

Appended(table, k) ==
    LET pruned == Pruned(table, {k})
    IN  [m \in DOMAIN pruned \cup {k} |->
            IF m # k THEN pruned[m]
            ELSE IF k \in DOMAIN pruned THEN Append(pruned[k], now) ELSE <<now>>]

\* Mutant: a table is swept on its schedule only.
SweepsOnSchedule(l, table) == records[l] + 1 >= SweepEvery

Sweeps(l, table) ==
    records[l] + 1 >= SweepEvery \/ Cardinality(DOMAIN table) > MaxKeys

\* record, of one key: its attempt is appended and the table swept when due.
\* The tables of the limits in `of` take part; the others rest.
Record(of, keys) ==
    LET grown == [l \in Limit |-> Appended(tables[l], keys[l])]
        swept == [l \in Limit |-> Pruned(grown[l], DOMAIN grown[l])]
        Due(l) == l \in of /\ Sweeps(l, grown[l])
        Forgotten(l) == IF Due(l) THEN Forgettable(swept[l]) ELSE {{}}
    IN  \E byAddress \in Forgotten("address"), byAccount \in Forgotten("account") :
        LET forgotten == [address |-> byAddress, account |-> byAccount]
        IN  /\ tables' = [l \in Limit |->
                    IF Due(l) THEN Without(swept[l], forgotten[l])
                    ELSE IF l \in of THEN grown[l] ELSE tables[l]]
            /\ records' = [l \in Limit |->
                    IF Due(l) THEN 0 ELSE IF l \in of THEN records[l] + 1 ELSE records[l]]
            /\ lost' = [l \in Limit |-> lost[l] \cup forgotten[l]]
            /\ failed' = [l \in Limit |->
                    IF l \in of /\ keys[l] \notin lost[l]
                    THEN [failed[l] EXCEPT ![keys[l]] = Append(@, now)]
                    ELSE failed[l]]

\* A wrong password, or no such account; a name too long counts against the
\* address only, and its password is never looked at.
Fail(c) ==
    /\ trying[c] # Nobody
    /\ Record(IF trying[c].account = NoName THEN {"address"} ELSE Limit, trying[c])
    /\ trying' = [trying EXCEPT ![c] = Nobody]
    /\ UNCHANGED now

\* The right password forgets the account's attempts, and not the address's.
Succeed(c) ==
    /\ trying[c] # Nobody /\ trying[c].account # NoName
    /\ tables' = [tables EXCEPT !["account"] = Without(@, {trying[c].account})]
    /\ failed' = [failed EXCEPT !["account"][trying[c].account] = <<>>]
    /\ trying' = [trying EXCEPT ![c] = Nobody]
    /\ UNCHANGED <<now, records, lost>>

\* A disabled account's right password: neither counted nor forgotten.
Disabled(c) ==
    /\ trying[c] # Nobody /\ trying[c].account # NoName
    /\ trying' = [trying EXCEPT ![c] = Nobody]
    /\ UNCHANGED <<now, tables, records, failed, lost>>

Tick ==
    /\ now < MaxNow
    /\ now' = now + 1
    /\ failed' = [l \in Limit |-> [k \in LimitKey[l] |->
                    Since(failed[l][k], now + 1 - Window)]]
    /\ UNCHANGED <<tables, records, trying, lost>>

ThrottleNext ==
    \/ Tick
    \/ \E c \in Caller :
        \/ \E address \in Address, name \in Username \cup {NoName} : Arrive(c, address, name)
        \/ Fail(c) \/ Succeed(c) \/ Disabled(c)

ThrottleSpec == ThrottleInit /\ [][ThrottleNext]_throttleVars

-----------------------------------------------------------------------------
HeldInWindow(l, k) == IF k \in DOMAIN tables[l] THEN Len(Recent(tables[l][k])) ELSE 0

\* What a table counts of a key is what happened to it in the window: pruning,
\* forgetting a success and sweeping other keys neither lose an attempt nor
\* bring one back, unless the table was full and forgot the key.
CountsAreTheWindow ==
    \A l \in Limit : \A k \in LimitKey[l] \ lost[l] :
        HeldInWindow(l, k) = Len(failed[l][k])

\* However sign-ins overlap, a key fails at most its attempts within a window
\* and once more for each other sign-in that was under way when it was asked.
FailuresAreFew ==
    \A l \in Limit : \A k \in LimitKey[l] \ lost[l] :
        Len(failed[l][k]) <= Attempts[l] + Cardinality(Caller) - 1

\* A table never holds more keys than its bound, whatever usernames are tried.
TableIsBounded == \A l \in Limit : Cardinality(DOMAIN tables[l]) <= MaxKeys

\* What a table counts is the window, a key fails only so often within it, and
\* the table stays within its bound, however sign-ins overlap.
AttemptsAreLimited == CountsAreTheWindow /\ FailuresAreFew /\ TableIsBounded

-----------------------------------------------------------------------------
(* The inductive invariant behind AttemptsAreLimited.                      *)

IsTable(table) == IsFiniteSet(DOMAIN table) /\ table \in [DOMAIN table -> Seq(Int)]

ThrottleTypeOK ==
    /\ now \in Nat
    /\ tables = [l \in Limit |-> tables[l]] /\ \A l \in Limit : IsTable(tables[l])
    /\ records \in [Limit -> Nat]
    /\ trying \in [Caller -> [address : Address, account : Username \cup {NoName}] \cup {Nobody}]
    /\ failed = [l \in Limit |-> failed[l]]
    /\ \A l \in Limit : failed[l] \in [LimitKey[l] -> Seq(Int)]
    /\ lost = [l \in Limit |-> lost[l]]

\* The attempts of a table that are in the window.
InWindow(table, cut, k) == IF k \in DOMAIN table THEN Since(table[k], cut) ELSE <<>>

WindowIsHeld ==
    \A l \in Limit : \A k \in LimitKey[l] \ lost[l] :
        InWindow(tables[l], Cut, k) = failed[l][k]

TryingIn(under, l, k) == {c \in Caller : under[c][l] = k}

\* Each sign-in under way may fail once more, and was let in below the limit.
RoomForTrying ==
    \A l \in Limit : \A k \in LimitKey[l] \ lost[l] :
        Len(failed[l][k]) + Cardinality(TryingIn(trying, l, k))
            <= Attempts[l] + Cardinality(Caller) - 1

ThrottleInv == ThrottleTypeOK /\ WindowIsHeld /\ RoomForTrying /\ TableIsBounded
=============================================================================
