------------------------------ MODULE Sessions ------------------------------
(***************************************************************************)
(* Signing in and out of one account: passwords, the lock after failed     *)
(* logins, refresh tokens that are exchanged for new ones, password        *)
(* resets, and the second factor.                                          *)
(*                                                                         *)
(* A request reads what it needs, works on what it has read, and commits   *)
(* all its writes at once; between the two, others commit.  Of a row, only *)
(* the columns are written that the request has given another value than   *)
(* the one it has loaded.  A request that is refused has no effect, and is *)
(* left out, and so has one that dies before its commit.                   *)
(*                                                                         *)
(* Expired tokens are refused like deleted ones: their rows are left out.  *)
(***************************************************************************)
EXTENDS Integers, FiniteSets

CONSTANTS
    Calls,        \* the requests that may be in progress at once
    Passwords,
    MaxAttempts,  \* MAX_FAILED_LOGIN_ATTEMPTS
    MaxSessions,  \* bound on the tokens that are issued,
    MaxResets     \* and on password resets

ASSUME SessionsAssumption ==
    /\ IsFiniteSet(Calls) /\ Calls # {}
    /\ {MaxAttempts, MaxSessions, MaxResets} \subseteq Nat \ {0}

VARIABLES
    account,   \* the user's row
    tokens,    \* the refresh tokens that are stored
    access,    \* the access tokens that are neither revoked nor expired
    issued,    \* how many pairs of tokens have been issued: they are numbered
    resets,    \* the password reset tokens that are stored
    lastReset, \* how many of them have been issued
    mfa,       \* the row of the second factor
    pending,   \* somebody has proved the password, and not yet the second factor
    call,      \* what each request has loaded, or Idle
    \* what the properties compare the state with:
    parent,    \* the token that each pair was exchanged for, or 0
    cut,       \* how many pairs there were when the sessions were last revoked
    guesses    \* wrong passwords tried since a success or a lock

\* How many of the requests may still try at least so many wrong passwords,
\* for every number of them that is below the limit.
Profiles ==
    {f \in [1..MaxAttempts - 1 -> 0..Cardinality(Calls)] : \A a, b \in DOMAIN f : a <= b => f[b] <= f[a]}

\* How many wrong passwords may be tried before a lock.
MaxGuesses == Cardinality(Profiles) - 1

factor  == <<mfa, pending>>
lineage == <<parent, cut>>
sessVars == <<account, tokens, access, issued, resets, lastReset, factor, call, lineage, guesses>>

Idle == [op |-> "idle"]

\* failed_login_attempts matters up to the limit.  locked_until is unset, in
\* the future, or over.
Locks == [failed : 0..MaxAttempts, locked : {"no", "yes", "over"}]
Accounts == [failed : 0..MaxAttempts, locked : {"no", "yes", "over"}, password : Passwords]

Lock(row) == [failed |-> row.failed, locked |-> row.locked]

Ids == 1..MaxSessions
\* Which secret the row holds makes no difference to the rest.
FactorRows == {"none", "not enabled", "enabled"}

SessionsInit ==
    /\ account \in {[failed |-> 0, locked |-> "no", password |-> p] : p \in Passwords}
    /\ tokens = {} /\ access = {} /\ issued = 0
    /\ parent = [n \in Ids |-> 0] /\ cut = 0
    /\ resets = {} /\ lastReset = 0
    /\ mfa = "none" /\ pending = FALSE
    /\ call = [c \in Calls |-> Idle]
    /\ guesses = 0

-----------------------------------------------------------------------------
\* What requests begin and end with

Begin(c, request) ==
    /\ call[c] = Idle
    /\ call' = [call EXCEPT ![c] = request]
    /\ UNCHANGED <<account, tokens, access, issued, resets, lastReset, factor, lineage, guesses>>

Ends(c) == call' = [call EXCEPT ![c] = Idle]

\* get_current_user: an access token that has expired or been revoked is refused
SignedIn(id) == id \in access

FactorOn == mfa = "enabled"

\* A new pair of tokens, beside those that remain.
Issue(remaining, old) ==
    /\ issued < MaxSessions
    /\ issued' = issued + 1
    /\ tokens' = remaining \cup {issued + 1}
    /\ access' = access \cup {issued + 1}
    /\ parent' = [parent EXCEPT ![issued + 1] = old]
    /\ UNCHANGED cut

\* revoke_refresh_tokens: all rows of the user that are there at this moment
RevokeAll == tokens' = {} /\ cut' = issued /\ UNCHANGED parent

\* The process is killed, or the client goes away, before the commit.
Dies(c) ==
    /\ call[c] # Idle
    /\ Ends(c)
    /\ UNCHANGED <<account, tokens, access, issued, resets, lastReset, factor, lineage, guesses>>

-----------------------------------------------------------------------------
\* Logging in

LoginLoads(c, password) ==
    /\ account.locked # "yes"
    /\ Begin(c, [op |-> "login", row |-> Lock(account), right |-> password = account.password])

\* Wrong on purpose: failures are only counted once a lock is over
LoginFailsUncounted(c) ==
    /\ call[c].op = "login" /\ ~ call[c].right
    /\ Ends(c)
    /\ guesses' = IF guesses > MaxGuesses THEN guesses ELSE guesses + 1
    /\ UNCHANGED <<account, tokens, access, issued, resets, lastReset, factor, lineage>>

LoginFails(c) ==
    /\ call[c].op = "login" /\ ~ call[c].right
    /\ LET row  == call[c].row
           lock == row.failed + 1 >= MaxAttempts
       IN  /\ account' = [account EXCEPT !.failed = IF lock THEN MaxAttempts ELSE row.failed + 1,
                                         !.locked = IF lock THEN "yes" ELSE @]
           /\ guesses' = IF lock THEN 0 ELSE IF guesses > MaxGuesses THEN guesses ELSE guesses + 1
    /\ Ends(c)
    /\ UNCHANGED <<tokens, access, issued, resets, lastReset, factor, lineage>>

\* The row is flushed when the second factor is looked up, and committed
\* together with the tokens, if that row is not there.
LoginSucceeds(c) ==
    /\ call[c].op = "login" /\ call[c].right
    /\ LET row == call[c].row
       IN  account' = [account EXCEPT !.failed = IF row.failed = 0 THEN @ ELSE 0,
                                      !.locked = IF row.locked = "no" THEN @ ELSE "no"]
    /\ guesses' = 0
    /\ IF FactorOn
       THEN pending' = TRUE /\ UNCHANGED <<tokens, access, issued, lineage>>
       ELSE Issue(tokens, 0) /\ UNCHANGED pending
    /\ Ends(c)
    /\ UNCHANGED <<resets, lastReset, mfa>>

LockEnds ==
    /\ account.locked = "yes"
    /\ account' = [account EXCEPT !.locked = "over"]
    /\ UNCHANGED <<tokens, access, issued, resets, lastReset, factor, call, lineage, guesses>>

\* Google has vouched for the address, and an account has it.
GoogleVerified(c) == Begin(c, [op |-> "google"])

GoogleSignsIn(c) ==
    /\ call[c].op = "google"
    /\ Issue(tokens, 0)
    /\ Ends(c)
    /\ UNCHANGED <<account, resets, lastReset, factor, guesses>>

-----------------------------------------------------------------------------
\* Exchanging tokens, and giving them up

RefreshReads(c, id) == id \in tokens /\ Begin(c, [op |-> "refresh", id |-> id])

\* Wrong on purpose: the token that was exchanged remains valid
RefreshCommitsBoth(c) ==
    /\ call[c].op = "refresh"
    /\ Issue(tokens, call[c].id)
    /\ Ends(c)
    /\ UNCHANGED <<account, resets, lastReset, factor, guesses>>

\* The old row may be gone: deleting it once more is no error.
RefreshCommits(c) ==
    /\ call[c].op = "refresh"
    /\ Issue(tokens \ {call[c].id}, call[c].id)
    /\ Ends(c)
    /\ UNCHANGED <<account, resets, lastReset, factor, guesses>>

LogoutReads(c, id) == SignedIn(id) /\ Begin(c, [op |-> "logout", id |-> id])

\* It fails when the token has been revoked or has expired in the meantime.
LogoutCommits(c) ==
    /\ call[c].op = "logout"
    /\ SignedIn(call[c].id)
    /\ access' = access \ {call[c].id}
    /\ RevokeAll
    /\ Ends(c)
    /\ UNCHANGED <<account, issued, resets, lastReset, factor, guesses>>

TokenExpires(id) ==
    /\ id \in tokens
    /\ tokens' = tokens \ {id}
    /\ UNCHANGED <<account, access, issued, resets, lastReset, factor, call, lineage, guesses>>

AccessExpires(id) ==
    /\ id \in access
    /\ access' = access \ {id}
    /\ UNCHANGED <<account, tokens, issued, resets, lastReset, factor, call, lineage, guesses>>

-----------------------------------------------------------------------------
\* Changing the password

PasswordReads(c, id, current, new) ==
    /\ SignedIn(id)
    /\ current = account.password
    /\ Begin(c, [op |-> "password", new |-> new])

PasswordCommits(c) ==
    /\ call[c].op = "password"
    /\ account' = [account EXCEPT !.password = call[c].new]
    /\ RevokeAll
    /\ Ends(c)
    /\ UNCHANGED <<access, issued, resets, lastReset, factor, guesses>>

\* The row is committed before the mail is sent, and stays when that fails.
ForgotPassword ==
    /\ lastReset < MaxResets
    /\ lastReset' = lastReset + 1
    /\ resets' = resets \cup {lastReset + 1}
    /\ UNCHANGED <<account, tokens, access, issued, factor, call, lineage, guesses>>

ResetReads(c, id, new) == id \in resets /\ Begin(c, [op |-> "reset", id |-> id, new |-> new])

ResetCommits(c) ==
    /\ call[c].op = "reset"
    /\ resets' = resets \ {call[c].id}
    /\ account' = [account EXCEPT !.password = call[c].new]
    /\ RevokeAll
    /\ Ends(c)
    /\ UNCHANGED <<access, issued, lastReset, factor, guesses>>

ResetExpires(id) ==
    /\ id \in resets
    /\ resets' = resets \ {id}
    /\ UNCHANGED <<account, tokens, access, issued, lastReset, factor, call, lineage, guesses>>

-----------------------------------------------------------------------------
\* The second factor

SetupReads(c, id) ==
    /\ SignedIn(id)
    /\ ~ FactorOn
    /\ Begin(c, [op |-> "setup", new |-> mfa = "none"])

\* A new secret for the row, or a new row: is_enabled was loaded as false and
\* is not written.  It fails if the row has come, or gone, in the meantime.
SetupCommits(c) ==
    /\ call[c].op = "setup"
    /\ call[c].new <=> mfa = "none"
    /\ mfa' = IF call[c].new THEN "not enabled" ELSE mfa
    /\ Ends(c)
    /\ UNCHANGED <<account, tokens, access, issued, resets, lastReset, pending, lineage, guesses>>

\* The code was computed from the secret that is stored.
VerifyReads(c, id) ==
    /\ SignedIn(id)
    /\ mfa # "none"
    /\ Begin(c, [op |-> "verify"])

VerifyCommits(c) ==
    /\ call[c].op = "verify"
    /\ mfa # "none"
    /\ mfa' = "enabled"
    /\ Ends(c)
    /\ UNCHANGED <<account, tokens, access, issued, resets, lastReset, pending, lineage, guesses>>

\* get_mfa_pending_user lets only a token of this kind in.
ValidateReads(c) ==
    /\ pending
    /\ FactorOn
    /\ Begin(c, [op |-> "validate"])

ValidateCommits(c) ==
    /\ call[c].op = "validate"
    /\ Issue(tokens, 0)
    /\ Ends(c)
    /\ UNCHANGED <<account, resets, lastReset, factor, guesses>>

PendingExpires ==
    /\ pending /\ pending' = FALSE
    /\ UNCHANGED <<account, tokens, access, issued, resets, lastReset, mfa, call, lineage, guesses>>

DisableReads(c, id) ==
    /\ SignedIn(id)
    /\ FactorOn
    /\ Begin(c, [op |-> "disable"])

DisableCommits(c) ==
    /\ call[c].op = "disable"
    /\ mfa' = "none"
    /\ Ends(c)
    /\ UNCHANGED <<account, tokens, access, issued, resets, lastReset, pending, lineage, guesses>>

-----------------------------------------------------------------------------
Begins(c) ==
    \/ \E p \in Passwords : LoginLoads(c, p)
    \/ GoogleVerified(c)
    \/ \E id \in tokens : RefreshReads(c, id)
    \/ \E id \in resets, p \in Passwords : ResetReads(c, id, p)
    \/ ValidateReads(c)
    \/ \E id \in access :
          \/ LogoutReads(c, id)
          \/ \E current, new \in Passwords : PasswordReads(c, id, current, new)
          \/ SetupReads(c, id) \/ VerifyReads(c, id) \/ DisableReads(c, id)

Commits(c) ==
    \/ LoginFails(c) \/ LoginSucceeds(c) \/ GoogleSignsIn(c)
    \/ RefreshCommits(c) \/ LogoutCommits(c)
    \/ PasswordCommits(c) \/ ResetCommits(c)
    \/ SetupCommits(c) \/ VerifyCommits(c) \/ ValidateCommits(c) \/ DisableCommits(c)

Elapses ==
    \/ LockEnds \/ PendingExpires
    \/ \E id \in Ids : TokenExpires(id) \/ AccessExpires(id)
    \/ \E id \in resets : ResetExpires(id)

SessionsNext ==
    \/ \E c \in Calls : Begins(c) \/ Commits(c) \/ Dies(c)
    \/ ForgotPassword
    \/ Elapses

SessionsSpec == SessionsInit /\ [][SessionsNext]_sessVars

-----------------------------------------------------------------------------
Requests ==
    {Idle}
    \cup [op : {"login"}, row : Locks, right : BOOLEAN]
    \cup [op : {"refresh", "logout"}, id : Ids]
    \cup [op : {"password"}, new : Passwords]
    \cup [op : {"reset"}, id : 1..MaxResets, new : Passwords]
    \cup [op : {"setup"}, new : BOOLEAN]
    \cup [op : {"google", "verify", "validate", "disable"}]

SessionsTypeOK ==
    /\ account \in Accounts
    /\ issued \in 0..MaxSessions /\ tokens \subseteq 1..issued /\ access \subseteq 1..issued
    /\ lastReset \in 0..MaxResets /\ resets \subseteq 1..lastReset
    /\ mfa \in FactorRows /\ pending \in BOOLEAN
    /\ parent \in [Ids -> 0..MaxSessions] /\ cut \in 0..issued
    /\ call \in [Calls -> Requests]
    /\ guesses \in 0..(MaxGuesses + 1)

\* Failures are counted from the number that a request has loaded: attempts
\* at the same time count as one, and a late one winds the counter back.
\* There is still a bound on the wrong passwords that get an answer before
\* the account is locked: each of them leaves less to the requests than
\* before, and there are so many ways of having something left.
GuessesAreBounded == guesses <= MaxGuesses

\* The pairs that a token was exchanged for, and the requests that have read
\* it and are about to exchange it.
ExchangesOf(id) == {n \in 1..issued : parent[n] = id}
ReadersOf(ids)  == {c \in Calls : call[c].op = "refresh" /\ call[c].id \in ids}

\* Refresh tokens are meant to be used once.  Two requests can exchange the
\* same one, if both have read it before either commits; but nobody else can
\* ever after, so that a session becomes no more than there are requests.
ExchangesAreFew ==
    \A id \in 1..issued :
        ExchangesOf(id) # {} =>
            /\ id \notin tokens
            /\ Cardinality(ExchangesOf(id)) + Cardinality(ReadersOf({id})) <= Cardinality(Calls)

\* The pairs that were exchanged, after all sessions had been revoked, for
\* a token from before.
Survivors == {n \in cut + 1..issued : parent[n] \in 1..cut}

\* A logout, or a new password, revokes the tokens it finds: requests that
\* have read one can still exchange it.  These are the only ones, and fewer
\* than there are requests, as one of these is the logout.
FewSurvive ==
    cut > 0 => Cardinality(Survivors) + Cardinality(ReadersOf(1..cut)) < Cardinality(Calls)

\* A token is exchanged, and a session outlives its end, only by requests
\* that had read the token before: by a few, once.
SessionsAreFew == ExchangesAreFew /\ FewSurvive
=============================================================================
