------------------------------- MODULE TabSession -------------------------------
(***************************************************************************)
(* The session of one account as a browser keeps it (shared/api.js and     *)
(* shared/auth.jsx): a pair of tokens in storage that every tab shares,    *)
(* the requests each tab has out at the same time, the one refresh a tab   *)
(* makes when an access token has expired, and signing in and out.  The    *)
(* server's side is its judgement of a token: the account's version, and   *)
(* whether the access token has expired.                                   *)
(***************************************************************************)
EXTENDS Integers, FiniteSets

CONSTANTS
    Tab,          \* the open tabs
    Call,         \* the requests of all tabs that may be out at the same time
    TabOf,        \* [Call -> Tab]
    HastySignIn,  \* may somebody sign in while requests of the last session are out?
    MaxSerial     \* bound: the pairs of tokens the server issues

ASSUME TabSessionAssumption ==
    /\ TabOf \in [Call -> Tab]
    /\ HastySignIn \in BOOLEAN
    /\ MaxSerial \in Nat \ {0}

VARIABLES
    stored,       \* localStorage: a pair of tokens, or none
    call,         \* per request: how far it is and the pair it was sent with
    refreshing,   \* per tab: the refresh in flight, and the pair it was sent with
    version,      \* the account's token_version
    serial,       \* pairs issued so far
    fresh,        \* the pairs whose access token has not expired
    left,         \* history variable: has the visitor signed out since signing in?
    wronged       \* history variable: has a session the server keeps been ended?

tabVars == <<stored, call, refreshing, version, serial, fresh, left, wronged>>

NoPair == [serial |-> 0, version |-> 0]

Resting == [at |-> "idle", with |-> NoPair]

NoRefresh == [at |-> "none", with |-> NoPair, got |-> NoPair]

TabInit ==
    /\ stored = NoPair
    /\ call = [c \in Call |-> Resting]
    /\ refreshing = [t \in Tab |-> NoRefresh]
    /\ version = 1
    /\ serial = 0
    /\ fresh = {}
    /\ left = FALSE
    /\ wronged = FALSE

Accesses(pair) == pair # NoPair /\ pair.serial \in fresh /\ pair.version = version

Refreshes(pair) == pair # NoPair /\ pair.version = version

NextPair == [serial |-> serial + 1, version |-> version]

\* Ending the stored session now takes away one the server would go on with.
Wrongs == Refreshes(stored) /\ ~left

Issue == serial' = serial + 1 /\ fresh' = fresh \cup {serial + 1}

\* auth.login: a fresh pair is stored over whatever there was.
SignIn ==
    /\ serial < MaxSerial /\ stored = NoPair
    /\ ~HastySignIn => /\ \A c \in Call : call[c] = Resting
                       /\ \A t \in Tab : refreshing[t] = NoRefresh
    /\ stored' = NextPair
    /\ Issue
    /\ left' = FALSE
    /\ UNCHANGED <<call, refreshing, version, wronged>>

\* The account's version moves on: signed out from elsewhere, or a new password.
Retire ==
    /\ version < MaxSerial
    /\ version' = version + 1
    /\ UNCHANGED <<stored, call, refreshing, serial, fresh, left, wronged>>

\* An access token outlives every call that was out when it was issued: it
\* expires while the only calls out are those that were first sent with it.
Expire(n) ==
    /\ n \in fresh
    /\ \A c \in Call :
         call[c] # Resting => call[c].with.serial = n /\ call[c].at # "replayed"
    /\ \A t \in Tab : refreshing[t].got.serial # n
    /\ fresh' = fresh \ {n}
    /\ UNCHANGED <<stored, call, refreshing, version, serial, left, wronged>>

Send(c) ==
    /\ call[c].at = "idle" /\ stored # NoPair
    /\ call' = [call EXCEPT ![c] = [at |-> "out", with |-> stored]]
    /\ UNCHANGED <<stored, refreshing, version, serial, fresh, left, wronged>>

\* The server's answer: anything but a 401 ends the call.
ServerAnswers(c) ==
    /\ call[c].at = "out"
    /\ call' = [call EXCEPT ![c] =
                   IF Accesses(call[c].with) THEN Resting ELSE [@ EXCEPT !.at = "refused"]]
    /\ UNCHANGED <<stored, refreshing, version, serial, fresh, left, wronged>>

\* A 401.  Another call's tokens are taken if they moved on meanwhile, ...
RefreshedMeanwhile(c) == stored # NoPair /\ stored.serial # call[c].with.serial

TakeStored(c) ==
    /\ call[c].at = "refused" /\ RefreshedMeanwhile(c)
    /\ call' = [call EXCEPT ![c] = [at |-> "replayed", with |-> stored]]
    /\ UNCHANGED <<stored, refreshing, version, serial, fresh, left, wronged>>

\* ... otherwise the call waits for the tab's one refresh, begun if there is none.
JoinRefresh(c) ==
    LET t == TabOf[c]
    IN  /\ call[c].at = "refused" /\ ~RefreshedMeanwhile(c)
        /\ call' = [call EXCEPT ![c].at = "waiting"]
        /\ refreshing' =
              IF refreshing[t].at # "none" THEN refreshing
              ELSE [refreshing EXCEPT ![t] =
                       [at |-> IF stored = NoPair THEN "refused" ELSE "out",
                        with |-> stored, got |-> NoPair]]
        /\ UNCHANGED <<stored, version, serial, fresh, left, wronged>>

\* The refresh reaches the server, which issues a pair or refuses the token.
ServerRefreshes(t) ==
    /\ refreshing[t].at = "out"
    /\ IF Refreshes(refreshing[t].with)
       THEN /\ serial < MaxSerial
            /\ refreshing' = [refreshing EXCEPT ![t].at = "issued", ![t].got = NextPair]
            /\ Issue
       ELSE /\ refreshing' = [refreshing EXCEPT ![t].at = "refused"]
            /\ UNCHANGED <<serial, fresh>>
    /\ UNCHANGED <<stored, call, version, left, wronged>>

\* A proxy's 502, a server restarting: nothing is said about the session.
RefreshFails(t) ==
    /\ refreshing[t].at = "out"
    /\ refreshing' = [refreshing EXCEPT ![t].at = "failed"]
    /\ UNCHANGED <<stored, call, version, serial, fresh, left, wronged>>

\* Mutant: any failure refuses the session.
EndsSessionOnFailure(t) == refreshing[t].at \in {"refused", "failed"}

EndsSession(t) == refreshing[t].at = "refused"

\* Mutant: only one of the calls was told of the refresh it shared.
OneWaiting(t) ==
    LET waiting == {c \in Call : TabOf[c] = t /\ call[c].at = "waiting"}
    IN  IF waiting = {} THEN {} ELSE {CHOOSE c \in waiting : TRUE}

Waiting(t) == {c \in Call : TabOf[c] = t /\ call[c].at = "waiting"}

\* The refresh is over: its pair is stored and the waiting calls are sent again,
\* or they fail; a call whose 401 stands ends the session.
RefreshOver(t) ==
    /\ refreshing[t].at \in {"issued", "refused", "failed"}
    /\ LET waiting == Waiting(t)
           got == refreshing[t].got
       IN  /\ call' = [c \in Call |->
                          IF c \notin waiting THEN call[c]
                          ELSE IF got # NoPair THEN [at |-> "replayed", with |-> got]
                          ELSE Resting]
           /\ stored' = IF got # NoPair THEN got
                        ELSE IF EndsSession(t) /\ waiting # {} THEN NoPair
                        ELSE stored
           /\ wronged' = (wronged \/ (got = NoPair /\ EndsSession(t) /\ waiting # {} /\ Wrongs))
    /\ refreshing' = [refreshing EXCEPT ![t] = NoRefresh]
    /\ UNCHANGED <<version, serial, fresh, left>>

\* The answer to a call sent again: a 401 now ends the session.
ReplayAnswered(c) ==
    /\ call[c].at = "replayed"
    /\ call' = [call EXCEPT ![c] = Resting]
    /\ IF Accesses(call[c].with) THEN UNCHANGED <<stored, wronged>>
       ELSE stored' = NoPair /\ wronged' = (wronged \/ Wrongs)
    /\ UNCHANGED <<refreshing, version, serial, fresh, left>>

\* auth.logout: the server is asked to move the version on, its answer decides
\* nothing, and the tokens are dropped.
SignOut ==
    /\ stored # NoPair
    /\ stored' = NoPair
    /\ version' \in {version} \cup
          (IF Accesses(stored) /\ version < MaxSerial THEN {version + 1} ELSE {})
    /\ left' = TRUE
    /\ UNCHANGED <<call, refreshing, serial, fresh, wronged>>

CallStep(c) == ServerAnswers(c) \/ TakeStored(c) \/ JoinRefresh(c) \/ ReplayAnswered(c)

RefreshStep(t) == ServerRefreshes(t) \/ RefreshFails(t) \/ RefreshOver(t)

TabNext ==
    \/ SignIn \/ SignOut \/ Retire
    \/ \E n \in fresh : Expire(n)
    \/ \E c \in Call : Send(c) \/ CallStep(c)
    \/ \E t \in Tab : RefreshStep(t)

TabFairness ==
    /\ \A c \in Call : WF_tabVars(CallStep(c))
    /\ \A t \in Tab : WF_tabVars(RefreshStep(t))

TabSpec == TabInit /\ [][TabNext]_tabVars /\ TabFairness

-----------------------------------------------------------------------------
\* However many requests of however many tabs find their access token expired
\* together, and whatever a failing server answers, a session is ended only
\* when the server has retired it.
OnlyRetiredIsDropped == ~wronged

\* Every request is answered in the end, a refresh shared with others included:
\* none is left waiting for a refresh that is over.
CallsAreAnswered == \A c \in Call : []<>(call[c] = Resting)

-----------------------------------------------------------------------------
(* The inductive invariant behind OnlyRetiredIsDropped.                    *)

Pair == [serial : Nat, version : Nat]

TabTypeOK ==
    /\ stored \in Pair
    /\ call \in [Call -> [at : {"idle", "out", "refused", "waiting", "replayed"}, with : Pair]]
    /\ refreshing \in [Tab -> [at : {"none", "out", "issued", "refused", "failed"},
                               with : Pair, got : Pair]]
    /\ version \in Nat
    /\ serial \in Nat
    /\ fresh \subseteq Nat

\* The pairs somebody may still use.
PairsInUse ==
    ({stored} \cup {call[c].with : c \in Call}
        \cup {refreshing[t].with : t \in Tab} \cup {refreshing[t].got : t \in Tab}) \ {NoPair}

\* They are those of one session, ...
OneSession ==
    \A p, q \in PairsInUse : p.version = q.version /\ p.version <= version

\* ... which is over when somebody signed out or the server retired it.
SessionOver == left \/ \A p \in PairsInUse : p.version # version

\* Nobody is told that the session is refused, and nobody finds none, before
\* that: a refresh is sent only with a token.
EndsWhenOver ==
    /\ stored = NoPair => SessionOver
    /\ \A t \in Tab : refreshing[t].at = "out" => refreshing[t].with # NoPair
    /\ \A t \in Tab : refreshing[t].at = "refused" => SessionOver

\* A call is sent again with an access token that outlives it.
ReplaysAreFresh ==
    /\ \A t \in Tab : refreshing[t].got # NoPair => refreshing[t].got.serial \in fresh
    /\ \A c \in Call : call[c].at = "replayed" =>
           call[c].with # NoPair /\ call[c].with.serial \in fresh
    /\ \A c \in Call : stored # NoPair /\ call[c] # Resting
                       /\ call[c].with.serial # stored.serial => stored.serial \in fresh

TabInv == OneSession /\ EndsWhenOver /\ ReplaysAreFresh /\ OnlyRetiredIsDropped
=============================================================================
