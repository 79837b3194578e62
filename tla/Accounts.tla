-------------------------------- MODULE Accounts --------------------------------
(***************************************************************************)
(* Sign-in, the tokens it issues, and the management of accounts           *)
(* (routers/auth.py, routers/users.py, security.py, deps.py).  A request   *)
(* reads the account's row without a lock, works (hashing a password takes *)
(* long), and writes what it computed from the row it read.  The columns   *)
(* of a row are written by value: a version moves on to the version that   *)
(* was read, plus one.                                                     *)
(***************************************************************************)
EXTENDS Integers, FiniteSets

CONSTANTS
    Account,          \* the accounts
    Visit,            \* the requests that may be under way at the same time
    AccountKinds,     \* what they ask
    SameRowOverlap,   \* may two of them be writing one account's row?
    MaxVersion        \* bound: a token_version is not moved past it

AccountKind ==
    {"login", "refresh", "logout", "set password",
     "promote", "demote", "activate", "deactivate"}

ASSUME AccountsAssumption ==
    /\ AccountKinds \subseteq AccountKind
    /\ SameRowOverlap \in BOOLEAN
    /\ MaxVersion \in Nat \ {0}

\* The users table has rows, and finitely many.
ASSUME SomeAccounts == IsFiniteSet(Account) /\ Account # {}

VARIABLES
    account,     \* the users table
    visit,       \* the requests: what they ask, of whom, and how far they are
    issued,      \* history variable: the tokens ever issued
    retired      \* history variable: the last version a request has retired

accountVars == <<account, visit, issued, retired>>

\* Access and refresh tokens are judged alike; what a token carries besides its
\* account and version is the password it was obtained with, for the properties.
Token == [of : Account, tv : 1..MaxVersion, password : 1..MaxVersion]

Idle == [kind |-> "none"]

Manages(a) == account[a].manager /\ account[a].active

Managers == {a \in Account : Manages(a)}

\* get_current_user and refresh: the version and the account's standing decide.
Accepted(t) == t.tv = account[t.of].version /\ account[t.of].active

MovesVersion(kind) == kind \in {"logout", "set password", "deactivate"}

WritesRow(kind, row) ==
    \/ kind \notin {"login", "refresh"}
    \/ kind = "login" /\ row.oldHash

AccountsInit ==
    /\ account = [a \in Account |->
                    [manager |-> TRUE, active |-> TRUE, version |-> 1,
                     password |-> 1, oldHash |-> TRUE]]
    /\ visit = [v \in Visit |-> Idle]
    /\ issued = {}
    /\ retired = [a \in Account |-> 0]

MayBegin(a, kind) ==
    /\ MovesVersion(kind) => account[a].version < MaxVersion
    /\ ~SameRowOverlap /\ WritesRow(kind, account[a]) =>
         \A w \in Visit : visit[w] # Idle /\ visit[w].of = a =>
             ~WritesRow(visit[w].kind, visit[w].row)

Begun(kind, a, password, at) ==
    [kind |-> kind, of |-> a, row |-> account[a], password |-> password,
     at |-> at, counted |-> {}]

\* The account is looked up and its row read.  A refused sign-in or token ends
\* here and writes nothing.
BeginLogin(v, a) ==
    /\ visit[v] = Idle
    /\ "login" \in AccountKinds /\ MayBegin(a, "login")
    /\ account[a].active
    /\ visit' = [visit EXCEPT ![v] = Begun("login", a, account[a].password, "write")]
    /\ UNCHANGED <<account, issued, retired>>

BeginWithToken(v, kind, t) ==
    /\ visit[v] = Idle
    /\ kind \in AccountKinds /\ MayBegin(t.of, kind)
    /\ Accepted(t)
    /\ visit' = [visit EXCEPT ![v] = Begun(kind, t.of, t.password, "write")]
    /\ UNCHANGED <<account, issued, retired>>

\* Losing a manager is counted first, when the row read says it is one.
FirstStep(kind, row) ==
    IF kind \in {"demote", "deactivate"} /\ row.manager /\ row.active
    THEN "count" ELSE "write"

BeginManaging(v, kind, a) ==
    /\ visit[v] = Idle
    /\ kind \in AccountKinds \ {"login", "refresh", "logout"} /\ MayBegin(a, kind)
    /\ Managers # {}
    /\ visit' = [visit EXCEPT ![v] = Begun(kind, a, 0, FirstStep(kind, account[a]))]
    /\ UNCHANGED <<account, issued, retired>>

\* The managers' rows are selected FOR UPDATE: those there are when the
\* statement starts, ...
StartCount(v) ==
    /\ visit[v] # Idle /\ visit[v].at = "count"
    /\ visit' = [visit EXCEPT ![v].at = "counting", ![v].counted = Managers]
    /\ UNCHANGED <<account, issued, retired>>

\* Mutant: without their order, two counts each hold rows the other waits for.
RowFreeUnordered(v, a) ==
    \A w \in Visit \ {v} :
        visit[w] # Idle /\ visit[w].at \in {"counting", "counted"} => a \notin visit[w].counted

RowFree(v, a) ==
    \A w \in Visit \ {v} : visit[w] # Idle /\ visit[w].at = "counted" => a \notin visit[w].counted

\* Mutant: the rows as the statement first saw them.
CountedAtStart(v) == visit[v].counted

\* ... each waited for, and read again before it counts.
CountedAgain(v) == visit[v].counted \cap Managers

Count(v) ==
    /\ visit[v] # Idle /\ visit[v].at = "counting"
    /\ \A a \in visit[v].counted : RowFree(v, a)
    /\ visit' = [visit EXCEPT ![v] =
                    IF Cardinality(CountedAgain(v)) <= 1 THEN Idle
                    ELSE [@ EXCEPT !.at = "counted", !.counted = CountedAgain(v)]]
    /\ UNCHANGED <<account, issued, retired>>

\* Mutant: only a password ends the sessions there are.
VersionAfterPassword(kind, row) ==
    IF kind \in {"logout", "set password"} THEN row.version + 1 ELSE row.version

\* An account that is not active has nothing to end.
VersionAfter(kind, row) ==
    IF MovesVersion(kind) /\ (kind = "deactivate" => row.active)
    THEN row.version + 1 ELSE row.version

\* The columns that differ from the row that was read are written, and only they.
RowAfter(kind, row, now) ==
    [manager |-> \/ kind = "promote" /\ ~row.manager
                 \/ now.manager /\ ~(kind = "demote" /\ row.manager),
     active |-> \/ kind = "activate" /\ ~row.active
                \/ now.active /\ ~(kind = "deactivate" /\ row.active),
     version |-> IF VersionAfter(kind, row) # row.version
                 THEN VersionAfter(kind, row) ELSE now.version,
     password |-> IF kind = "set password" THEN row.password + 1
                  ELSE IF kind = "login" /\ row.oldHash THEN row.password ELSE now.password,
     oldHash |-> now.oldHash /\ kind # "set password" /\ ~(kind = "login" /\ row.oldHash)]

\* Mutant: the account is read again when its token is made.
VersionIssuedNow(v) == account[visit[v].of].version

\* The session keeps the row it read through its own commit.
VersionIssued(v) == visit[v].row.version

AnswerVisit(v) ==
    LET kind == visit[v].kind
        a == visit[v].of
    IN  /\ visit[v] # Idle /\ visit[v].at \in {"write", "counted"}
        /\ WritesRow(kind, visit[v].row) => RowFree(v, a)
        /\ account' = [account EXCEPT ![a] = RowAfter(kind, visit[v].row, @)]
        /\ issued' = IF kind \in {"login", "refresh"}
                     THEN issued \cup {[of |-> a, tv |-> VersionIssued(v),
                                        password |-> visit[v].password]}
                     ELSE issued
        /\ retired' = IF MovesVersion(kind) /\ (kind = "deactivate" => visit[v].row.active)
                      THEN [retired EXCEPT ![a] = IF @ < visit[v].row.version THEN visit[v].row.version ELSE @]
                      ELSE retired
        /\ visit' = [visit EXCEPT ![v] = Idle]

VisitStep(v) == StartCount(v) \/ Count(v) \/ AnswerVisit(v)

AccountsNext ==
    \E v \in Visit :
        \/ \E a \in Account : BeginLogin(v, a)
        \/ \E kind \in {"refresh", "logout"}, t \in issued : BeginWithToken(v, kind, t)
        \/ \E kind \in AccountKinds, a \in Account : BeginManaging(v, kind, a)
        \/ VisitStep(v)

\* The database hands a row to those who wait for it in turn.
AccountsSpec == AccountsInit /\ [][AccountsNext]_accountVars

-----------------------------------------------------------------------------
\* However requests to demote and deactivate managers overlap, somebody is
\* left who can manage the site (_refuse_last_admin, _admin_count).
SomeManager == Managers # {}

\* Signing out everywhere, setting a password and deactivating an account each
\* end every session there is, for good: no later step makes one of those
\* tokens good again.
RetiredStaysRetired ==
    \A t \in issued : t.tv <= retired[t.of] => t.tv # account[t.of].version

\* Whoever signed in with a password that has since been replaced is signed
\* out, even when the password was replaced while they were signing in.
OldPasswordOpensNothing ==
    \A t \in issued : t.password # account[t.of].password => t.tv # account[t.of].version

\* However the counts of two requests overlap, whoever is waited for gets on:
\* their rows are taken in one order, so no two wait for each other.
CountBlocked(v) ==
    /\ visit[v] # Idle /\ visit[v].at = "counting"
    /\ \E a \in visit[v].counted : ~RowFree(v, a)

CountsDoNotCircle ==
    (\E v \in Visit : CountBlocked(v)) =>
        \E w \in Visit : visit[w] # Idle /\ ~CountBlocked(w)

\* A site keeps somebody who can manage it, and no two requests that see to
\* it wait for each other.
ManagersRemain == SomeManager /\ CountsDoNotCircle

\* A session that was ended -- by signing out everywhere, by a new password, by
\* deactivation -- stays ended, one signing in at that moment included.
EndedSessionsStayEnded == RetiredStaysRetired /\ OldPasswordOpensNothing

-----------------------------------------------------------------------------
(* The inductive invariant behind both.                                    *)

AccountRow ==
    [manager : BOOLEAN, active : BOOLEAN, version : Nat, password : Nat, oldHash : BOOLEAN]

AccountsTypeOK ==
    /\ account \in [Account -> AccountRow]
    /\ visit \in [Visit -> {Idle} \cup
           [kind : AccountKind, of : Account, row : AccountRow, password : Nat,
            at : {"write", "count", "counting", "counted"}, counted : SUBSET Account]]
    /\ issued \subseteq [of : Account, tv : Nat, password : Nat]
    /\ retired \in [Account -> Nat]

Writes(v) == visit[v] # Idle /\ WritesRow(visit[v].kind, visit[v].row)

\* Whoever writes a row is alone in it: what it read is what there is.
WritersAreCurrent ==
    \A v \in Visit : Writes(v) =>
        /\ visit[v].row = account[visit[v].of]
        /\ \A w \in Visit \ {v} : Writes(w) => visit[w].of # visit[v].of

\* A manager is lost by a visit that has counted, and holds, another one.
LossesAreCounted ==
    \A v \in Visit : visit[v] # Idle =>
        /\ visit[v].at # "write" => visit[v].kind \in {"demote", "deactivate"}
        /\ visit[v].kind \in {"demote", "deactivate"} /\ visit[v].at = "write" =>
               ~(visit[v].row.manager /\ visit[v].row.active)
        /\ visit[v].at = "counted" =>
               visit[v].counted \subseteq Managers /\ Cardinality(visit[v].counted) > 1

RetiredIsPast == \A a \in Account : retired[a] < account[a].version

\* A version goes with one password, in the tokens and in those being made.
VersionTellsPassword ==
    /\ \A t \in issued : /\ t.tv <= account[t.of].version
                         /\ t.tv = account[t.of].version => t.password = account[t.of].password
    /\ \A v \in Visit : visit[v] # Idle /\ visit[v].kind \in {"login", "refresh"} =>
           /\ visit[v].row.version <= account[visit[v].of].version
           /\ visit[v].row.version = account[visit[v].of].version =>
                  visit[v].password = account[visit[v].of].password

AccountsInv ==
    /\ WritersAreCurrent
    /\ LossesAreCounted
    /\ RetiredIsPast
    /\ VersionTellsPassword
    /\ SomeManager
=============================================================================
