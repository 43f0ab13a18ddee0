-------------------------- MODULE Accounts_proofs --------------------------
(***************************************************************************)
(* Machine-checked proofs about Sessions and Membership, for any number of *)
(* requests at a time, attempts, tokens, users and companies, and about    *)
(* what companies are told: Billing and Alerts, for any events, replicas,  *)
(* browsers and bounds.                                                    *)
(***************************************************************************)
EXTENDS MCAccounts, MCNotices, FiniteSetTheorems, SequenceTheorems, WellFoundedInduction, TLAPS

----------------------------------------------------------------------------
(* Sessions: types *)

\* There are finitely many profiles, as there are sets of pairs of a number and
\* a number of requests.
LEMMA ProfilesAreFinite ==
    /\ IsFiniteSet(Profiles) /\ Cardinality(Profiles) \in Nat \ {0}
    /\ \A S \in SUBSET Profiles : IsFiniteSet(S) /\ Cardinality(S) \in Nat
<1> DEFINE levels == 1..MaxAttempts - 1
           counts == 0..Cardinality(Calls)
           pairs == levels \X counts
           graph == [f \in Profiles |-> {<<e, f[e]>> : e \in levels}]
<1>1. MaxAttempts - 1 \in Int /\ Cardinality(Calls) \in Nat
    BY SessionsAssumption, FS_CardinalityType
<1>2. IsFiniteSet(SUBSET pairs)
    <2>1. IsFiniteSet(levels) /\ IsFiniteSet(counts)
        BY <1>1, FS_Interval
    <2>2. IsFiniteSet(pairs)
        BY <2>1, FS_Product
    <2> QED
        BY <2>2, FS_SUBSET
<1>3. \A f \in Profiles : f \in [levels -> counts]
    BY DEF Profiles
<1> HIDE DEF levels, counts
<1>4. graph \in [Profiles -> SUBSET pairs]
    <2>1. ASSUME NEW f \in Profiles
          PROVE  {<<e, f[e]>> : e \in levels} \in SUBSET pairs
        BY <1>3
    <2> QED
        BY <2>1
<1>5. ASSUME NEW f \in Profiles, NEW g \in Profiles, graph[f] = graph[g]
      PROVE  f = g
    <2>1. ASSUME NEW e \in levels
          PROVE  f[e] = g[e]
        <3>1. <<e, f[e]>> \in {<<d, g[d]>> : d \in levels}
            BY <1>5
        <3> QED
            BY <3>1
    <2> QED
        BY <1>3, <2>1
<1>6. graph \in Injection(Profiles, SUBSET pairs)
    BY <1>4, <1>5 DEF Injection, IsInjective
<1> HIDE DEF graph, pairs
<1>7. IsFiniteSet(Profiles)
    BY <1>2, <1>6, FS_Injection
<1>8. Profiles # {}
    <2>1. [e \in 1..MaxAttempts - 1 |-> 0] \in Profiles
        BY <1>1 DEF Profiles
    <2> QED
        BY <2>1
<1>9. Cardinality(Profiles) \in Nat \ {0}
    BY <1>7, <1>8, FS_CardinalityType, FS_EmptySet
<1>10. \A S \in SUBSET Profiles : IsFiniteSet(S) /\ Cardinality(S) \in Nat
    BY <1>7, FS_Subset, FS_CardinalityType
<1> QED
    BY <1>7, <1>9, <1>10

LEMMA Limits ==
    /\ MaxAttempts \in Nat \ {0} /\ MaxGuesses \in Nat
    /\ MaxSessions \in Nat \ {0} /\ MaxResets \in Nat \ {0}
    /\ IsFiniteSet(Calls)
BY SessionsAssumption, ProfilesAreFinite DEF MaxGuesses

\* What a request of each kind has loaded.
LEMMA LoadedIs ==
    ASSUME NEW r \in Requests
    PROVE  /\ r.op = "login" => r.row \in Locks /\ r.right \in BOOLEAN
           /\ r.op \in {"refresh", "logout"} => r.id \in Ids
           /\ r.op \in {"password", "reset"} => r.new \in Passwords
           /\ r.op = "setup" => r.new \in BOOLEAN
BY DEF Requests, Idle

\* The tokens that are stored after a new pair has been issued.
LEMMA IssueKeeps ==
    ASSUME SessionsTypeOK, NEW remaining, remaining \subseteq tokens,
           NEW old \in 0..MaxSessions, Issue(remaining, old)
    PROVE  /\ issued' \in 0..MaxSessions
           /\ tokens' \subseteq 1..issued' /\ access' \subseteq 1..issued'
           /\ parent' \in [Ids -> 0..MaxSessions] /\ cut' \in 0..issued'
<1>1. /\ issued \in Nat /\ issued < MaxSessions /\ issued' = issued + 1
      /\ tokens \subseteq 1..issued /\ access \subseteq 1..issued
    BY Limits DEF SessionsTypeOK, Issue
<1>2. issued + 1 \in 1..(issued + 1) /\ 1..issued \subseteq 1..(issued + 1)
    BY <1>1
<1>3. parent' \in [Ids -> 0..MaxSessions]
    BY DEF SessionsTypeOK, Issue
<1>4. cut' \in 0..issued'
    BY <1>1 DEF SessionsTypeOK, Issue
<1> QED
    BY Limits, <1>1, <1>2, <1>3, <1>4 DEF Issue

LEMMA SessionsTypeInit == SessionsInit => SessionsTypeOK
<1> SUFFICES ASSUME SessionsInit PROVE SessionsTypeOK
    OBVIOUS
<1>1. account \in Accounts
    <2>1. PICK p \in Passwords : account = [failed |-> 0, locked |-> "no", password |-> p]
        BY DEF SessionsInit
    <2> QED
        BY <2>1, Limits DEF Accounts
<1>2. call \in [Calls -> Requests]
    BY DEF SessionsInit, Requests
<1>3. guesses \in 0..(MaxGuesses + 1) /\ issued \in 0..MaxSessions /\ lastReset \in 0..MaxResets
    BY Limits DEF SessionsInit
<1>4. parent \in [Ids -> 0..MaxSessions] /\ cut \in 0..issued
    BY Limits DEF SessionsInit
<1> QED
    BY <1>1, <1>2, <1>3, <1>4 DEF SessionsInit, SessionsTypeOK, FactorRows

LEMMA EndsKeeps ==
    ASSUME SessionsTypeOK, NEW c \in Calls, Ends(c)
    PROVE  call' \in [Calls -> Requests]
BY DEF SessionsTypeOK, Ends, Requests

LEMMA BeginsType ==
    ASSUME SessionsTypeOK, NEW c \in Calls, Begins(c)
    PROVE  SessionsTypeOK'
<1>1. PICK r \in Requests : Begin(c, r)
    <2>1. ASSUME NEW p \in Passwords, LoginLoads(c, p)
          PROVE  \E r \in Requests : Begin(c, r)
        <3> DEFINE r == [op |-> "login", row |-> Lock(account), right |-> p = account.password]
        <3>1. Lock(account) \in Locks /\ (p = account.password) \in BOOLEAN
            BY DEF SessionsTypeOK, Accounts, Locks, Lock
        <3>2. r \in [op : {"login"}, row : Locks, right : BOOLEAN]
            BY <3>1
        <3>3. Begin(c, r)
            BY <2>1 DEF LoginLoads
        <3> QED
            BY <3>2, <3>3 DEF Requests
    <2>2. ASSUME NEW id \in tokens, RefreshReads(c, id)
          PROVE  \E r \in Requests : Begin(c, r)
        <3>1. id \in Ids
            BY <2>2, Limits DEF SessionsTypeOK, Ids
        <3> QED
            BY <2>2, <3>1 DEF RefreshReads, Requests
    <2>3. ASSUME NEW id \in resets, NEW p \in Passwords, ResetReads(c, id, p)
          PROVE  \E r \in Requests : Begin(c, r)
        <3>1. id \in 1..MaxResets
            BY <2>3, Limits DEF SessionsTypeOK
        <3> QED
            BY <2>3, <3>1 DEF ResetReads, Requests
    <2>4. ASSUME NEW id \in access, LogoutReads(c, id)
          PROVE  \E r \in Requests : Begin(c, r)
        <3>1. id \in Ids
            BY <2>4, Limits DEF SessionsTypeOK, Ids
        <3> QED
            BY <2>4, <3>1 DEF LogoutReads, Requests
    <2>5. ASSUME NEW id \in access, NEW p \in Passwords, NEW q \in Passwords, PasswordReads(c, id, p, q)
          PROVE  \E r \in Requests : Begin(c, r)
        BY <2>5 DEF PasswordReads, Requests
    <2>6. ASSUME NEW id \in access, SetupReads(c, id)
          PROVE  \E r \in Requests : Begin(c, r)
        <3>1. (mfa = "none") \in BOOLEAN
            OBVIOUS
        <3>2. [op |-> "setup", new |-> mfa = "none"] \in [op : {"setup"}, new : BOOLEAN]
            BY <3>1
        <3> QED
            BY <2>6, <3>2 DEF SetupReads, Requests
    <2>7. ASSUME GoogleVerified(c) \/ ValidateReads(c)
                 \/ \E id \in access : VerifyReads(c, id) \/ DisableReads(c, id)
          PROVE  \E r \in Requests : Begin(c, r)
        <3>1. \E op \in {"google", "verify", "validate", "disable"} : Begin(c, [op |-> op])
            BY <2>7 DEF GoogleVerified, ValidateReads, VerifyReads, DisableReads
        <3> QED
            BY <3>1 DEF Requests
    <2> QED
        BY <2>1, <2>2, <2>3, <2>4, <2>5, <2>6, <2>7 DEF Begins
<1> QED
    BY <1>1 DEF Begin, SessionsTypeOK, factor, lineage

LEMMA CommitsType ==
    ASSUME SessionsTypeOK, NEW c \in Calls, Commits(c)
    PROVE  SessionsTypeOK'
<1>1. call[c] \in Requests
    BY DEF SessionsTypeOK
<1>2. CASE LoginFails(c)
    <2>1. call[c].row \in Locks
        BY <1>1, <1>2, LoadedIs DEF LoginFails
    <2>2. account' \in Accounts
        <3> DEFINE row == call[c].row
                   full == row.failed + 1 >= MaxAttempts
                   failed == IF full THEN MaxAttempts ELSE row.failed + 1
                   locked == IF full THEN "yes" ELSE account.locked
        <3>1. account' = [failed |-> failed, locked |-> locked, password |-> account.password]
            <4>1. account' = [account EXCEPT !.failed = failed, !.locked = locked]
                BY <1>2 DEF LoginFails
            <4> HIDE DEF failed, locked
            <4> QED
                BY <4>1 DEF SessionsTypeOK, Accounts
        <3>2. failed \in 0..MaxAttempts
            BY <2>1, Limits DEF Locks
        <3>3. locked \in {"no", "yes", "over"} /\ account.password \in Passwords
            BY DEF SessionsTypeOK, Accounts
        <3> HIDE DEF failed, locked
        <3> QED
            BY <3>1, <3>2, <3>3 DEF Accounts
    <2>3. guesses' \in 0..(MaxGuesses + 1)
        BY <1>2, Limits DEF LoginFails, SessionsTypeOK
    <2> QED
        BY <1>2, <2>2, <2>3, EndsKeeps DEF LoginFails, SessionsTypeOK, factor, lineage
<1>3. CASE LoginSucceeds(c)
    <2>1. call[c].row \in Locks
        BY <1>1, <1>3, LoadedIs DEF LoginSucceeds
    <2>2. account' \in Accounts
        <3> DEFINE row == call[c].row
                   failed == IF row.failed = 0 THEN account.failed ELSE 0
                   locked == IF row.locked = "no" THEN account.locked ELSE "no"
        <3>1. account' = [failed |-> failed, locked |-> locked, password |-> account.password]
            <4>1. account' = [account EXCEPT !.failed = failed, !.locked = locked]
                BY <1>3 DEF LoginSucceeds
            <4> HIDE DEF failed, locked
            <4> QED
                BY <4>1 DEF SessionsTypeOK, Accounts
        <3>2. failed \in 0..MaxAttempts
            BY Limits DEF SessionsTypeOK, Accounts
        <3>3. locked \in {"no", "yes", "over"} /\ account.password \in Passwords
            BY DEF SessionsTypeOK, Accounts
        <3> HIDE DEF failed, locked
        <3> QED
            BY <3>1, <3>2, <3>3 DEF Accounts
    <2>3. CASE FactorOn
        BY <1>3, <2>2, <2>3, EndsKeeps, Limits DEF LoginSucceeds, SessionsTypeOK, lineage
    <2>4. CASE ~FactorOn
        <3>1. Issue(tokens, 0) /\ UNCHANGED pending /\ 0 \in 0..MaxSessions
            BY <1>3, <2>4, Limits DEF LoginSucceeds
        <3>2. /\ issued' \in 0..MaxSessions
              /\ tokens' \subseteq 1..issued' /\ access' \subseteq 1..issued'
              /\ parent' \in [Ids -> 0..MaxSessions] /\ cut' \in 0..issued'
            BY <3>1, IssueKeeps
        <3>3. call' \in [Calls -> Requests]
            BY <1>3, EndsKeeps DEF LoginSucceeds
        <3> QED
            BY <1>3, <2>2, <3>1, <3>2, <3>3, Limits DEF LoginSucceeds, SessionsTypeOK
    <2> QED
        BY <2>3, <2>4
<1>4. CASE GoogleSignsIn(c) \/ ValidateCommits(c)
    <2>1. Issue(tokens, 0) /\ 0 \in 0..MaxSessions
        BY <1>4, Limits DEF GoogleSignsIn, ValidateCommits
    <2> QED
        BY <1>4, <2>1, IssueKeeps, EndsKeeps DEF GoogleSignsIn, ValidateCommits, SessionsTypeOK, factor, lineage
<1>5. CASE RefreshCommits(c)
    <2>1. Issue(tokens \ {call[c].id}, call[c].id) /\ call[c].id \in 0..MaxSessions
        BY <1>1, <1>5, LoadedIs, Limits DEF RefreshCommits, Ids
    <2> QED
        BY <1>5, <2>1, IssueKeeps, EndsKeeps DEF RefreshCommits, SessionsTypeOK, factor, lineage
<1>6. CASE LogoutCommits(c)
    <2>1. cut' \in 0..issued' /\ parent' = parent /\ tokens' = {}
        BY <1>6, Limits DEF LogoutCommits, RevokeAll, SessionsTypeOK
    <2> QED
        BY <1>6, <2>1, EndsKeeps DEF LogoutCommits, SessionsTypeOK, factor
<1>7. CASE PasswordCommits(c) \/ ResetCommits(c)
    <2>1. call[c].new \in Passwords
        BY <1>1, <1>7, LoadedIs DEF PasswordCommits, ResetCommits
    <2>2. account' \in Accounts
        BY <1>7, <2>1 DEF PasswordCommits, ResetCommits, SessionsTypeOK, Accounts
    <2>3. cut' \in 0..issued' /\ parent' = parent /\ tokens' = {}
        BY <1>7, Limits DEF PasswordCommits, ResetCommits, RevokeAll, SessionsTypeOK
    <2> QED
        BY <1>7, <2>2, <2>3, EndsKeeps DEF PasswordCommits, ResetCommits, SessionsTypeOK, factor
<1>8. CASE SetupCommits(c) \/ VerifyCommits(c) \/ DisableCommits(c)
    BY <1>8, EndsKeeps DEF SetupCommits, VerifyCommits, DisableCommits, SessionsTypeOK, FactorRows, lineage
<1> QED
    BY <1>2, <1>3, <1>4, <1>5, <1>6, <1>7, <1>8 DEF Commits

LEMMA SessionsTypeNext == SessionsTypeOK /\ [SessionsNext]_sessVars => SessionsTypeOK'
<1> SUFFICES ASSUME SessionsTypeOK, [SessionsNext]_sessVars PROVE SessionsTypeOK'
    OBVIOUS
<1>1. ASSUME NEW c \in Calls, Dies(c)
      PROVE  SessionsTypeOK'
    BY <1>1, EndsKeeps DEF Dies, SessionsTypeOK, factor, lineage
<1>2. CASE ForgotPassword
    <2>1. /\ lastReset \in Nat /\ lastReset' = lastReset + 1 /\ lastReset < MaxResets
          /\ resets \subseteq 1..lastReset
        BY <1>2, Limits DEF ForgotPassword, SessionsTypeOK
    <2>2. resets' \subseteq 1..lastReset' /\ lastReset' \in 0..MaxResets
        BY <1>2, <2>1, Limits DEF ForgotPassword
    <2> QED
        BY <1>2, <2>2 DEF ForgotPassword, SessionsTypeOK, factor, lineage
<1>3. CASE Elapses
    <2>1. ASSUME LockEnds
          PROVE  SessionsTypeOK'
        <3>1. account' \in Accounts
            BY <2>1 DEF LockEnds, SessionsTypeOK, Accounts
        <3> QED
            BY <2>1, <3>1 DEF LockEnds, SessionsTypeOK, factor, lineage
    <2> QED
        BY <1>3, <2>1 DEF Elapses, PendingExpires, TokenExpires, AccessExpires, ResetExpires, SessionsTypeOK, factor, lineage
<1>4. CASE UNCHANGED sessVars
    BY <1>4 DEF sessVars, SessionsTypeOK, factor, lineage
<1> QED
    BY <1>1, <1>2, <1>3, <1>4, BeginsType, CommitsType DEF SessionsNext

\* Every reachable state of Sessions is well typed.
THEOREM SessionsTypeCorrect == SessionsSpec => []SessionsTypeOK
BY SessionsTypeInit, SessionsTypeNext, PTL DEF SessionsSpec

----------------------------------------------------------------------------
(* Sessions: tokens *)

\* Who has read a token has read one that was issued; pairs are exchanged for
\* older ones; and no token from before a revocation is stored.
LineageInv ==
    /\ \A c \in Calls : call[c].op = "refresh" => call[c].id \in 1..issued
    /\ \A n \in 1..issued : parent[n] \in 0..issued
    /\ \A id \in tokens : id > cut
    /\ SessionsAreFew

\* Only requests read tokens.
LEMMA ReadersAreCalls ==
    ASSUME NEW ids
    PROVE  /\ IsFiniteSet(ReadersOf(ids))
           /\ Cardinality(ReadersOf(ids)) \in Nat
           /\ Cardinality(ReadersOf(ids)) <= Cardinality(Calls)
<1>1. ReadersOf(ids) \in SUBSET Calls
    BY DEF ReadersOf
<1> QED
    BY <1>1, Limits, FS_Subset, FS_CardinalityType

\* The pairs that a set of tokens was exchanged for are finitely many.
LEMMA ExchangesAreCounted ==
    ASSUME NEW ids, issued \in Nat
    PROVE  LET pairs == {n \in 1..issued : parent[n] \in ids}
           IN  IsFiniteSet(pairs) /\ Cardinality(pairs) \in Nat
<1>1. {n \in 1..issued : parent[n] \in ids} \in SUBSET (1..issued)
    OBVIOUS
<1>2. IsFiniteSet(1..issued)
    BY FS_Interval
<1> QED
    BY <1>1, <1>2, FS_Subset, FS_CardinalityType

LEMMA ExchangesOfToken ==
    ASSUME NEW id, issued \in Nat
    PROVE  IsFiniteSet(ExchangesOf(id)) /\ Cardinality(ExchangesOf(id)) \in Nat
<1>1. ExchangesOf(id) = {n \in 1..issued : parent[n] \in {id}}
    BY DEF ExchangesOf
<1> QED
    BY <1>1, ExchangesAreCounted

LEMMA SurvivorsAreCounted ==
    ASSUME issued \in Nat, cut \in Nat
    PROVE  IsFiniteSet(Survivors) /\ Cardinality(Survivors) \in Nat
<1>1. Survivors \in SUBSET (1..issued)
    BY DEF Survivors
<1>2. IsFiniteSet(1..issued)
    BY FS_Interval
<1> QED
    BY <1>1, <1>2, FS_Subset, FS_CardinalityType

\* Requests that end, or read something else, and tokens that expire, leave
\* fewer readers and as many exchanges.
LEMMA LineageKept ==
    ASSUME SessionsTypeOK, LineageInv, UNCHANGED <<issued, parent, cut>>, tokens' \subseteq tokens,
           \A c \in Calls : call'[c].op = "refresh" => call'[c] = call[c]
    PROVE  LineageInv'
<1>1. /\ issued \in Nat /\ cut \in Nat
      /\ issued' = issued /\ parent' = parent /\ cut' = cut
    BY Limits DEF SessionsTypeOK
<1>2. ASSUME NEW ids
      PROVE  /\ Cardinality(ReadersOf(ids)') \in Nat /\ Cardinality(ReadersOf(ids)) \in Nat
             /\ Cardinality(ReadersOf(ids)') <= Cardinality(ReadersOf(ids))
    <2>1. ReadersOf(ids)' \in SUBSET ReadersOf(ids)
        BY DEF ReadersOf
    <2> QED
        BY <2>1, ReadersAreCalls, FS_Subset, FS_CardinalityType
<1>3. Cardinality(Calls) \in Nat
    BY Limits, FS_CardinalityType
<1>4. ASSUME NEW id \in 1..issued', ExchangesOf(id)' # {}
      PROVE  /\ id \notin tokens'
             /\ Cardinality(ExchangesOf(id)') + Cardinality(ReadersOf({id})') <= Cardinality(Calls)
    <2>1. ExchangesOf(id)' = ExchangesOf(id)
        BY <1>1 DEF ExchangesOf
    <2>2. /\ id \notin tokens
          /\ Cardinality(ExchangesOf(id)) + Cardinality(ReadersOf({id})) <= Cardinality(Calls)
        BY <1>1, <1>4, <2>1 DEF LineageInv, SessionsAreFew, ExchangesAreFew
    <2> QED
        BY <1>1, <1>2, <1>3, <2>1, <2>2, ExchangesOfToken
<1>5. ASSUME cut' > 0
      PROVE  Cardinality(Survivors') + Cardinality(ReadersOf(1..cut)') < Cardinality(Calls)
    <2>1. Survivors' = Survivors
        BY <1>1 DEF Survivors
    <2>2. Cardinality(Survivors) + Cardinality(ReadersOf(1..cut)) < Cardinality(Calls)
        BY <1>1, <1>5 DEF LineageInv, SessionsAreFew, FewSurvive
    <2>3. ReadersOf(1..cut)' \in SUBSET ReadersOf(1..cut)
        BY <1>1 DEF ReadersOf
    <2>4. /\ Cardinality(ReadersOf(1..cut)') \in Nat /\ Cardinality(ReadersOf(1..cut)) \in Nat
          /\ Cardinality(ReadersOf(1..cut)') <= Cardinality(ReadersOf(1..cut))
        BY <2>3, ReadersAreCalls, FS_Subset, FS_CardinalityType
    <2> QED
        BY <1>1, <1>3, <2>1, <2>2, <2>4, SurvivorsAreCounted
<1> QED
    BY <1>1, <1>4, <1>5 DEF LineageInv, SessionsAreFew, ExchangesAreFew, FewSurvive

\* A request reads a token: one that is stored, that nobody has exchanged.
LEMMA LineageReads ==
    ASSUME SessionsTypeOK, LineageInv, NEW c \in Calls, NEW token \in tokens, RefreshReads(c, token)
    PROVE  LineageInv'
<1>1. /\ issued \in Nat /\ cut \in Nat /\ token \in 1..issued /\ token > cut
      /\ issued' = issued /\ parent' = parent /\ cut' = cut /\ tokens' = tokens
      /\ call' = [call EXCEPT ![c] = [op |-> "refresh", id |-> token]]
    BY Limits DEF SessionsTypeOK, LineageInv, RefreshReads, Begin, lineage
<1>2. /\ call'[c].op = "refresh" /\ call'[c].id = token
      /\ \A d \in Calls \ {c} : call'[d] = call[d]
    BY <1>1 DEF SessionsTypeOK
<1>3. Cardinality(Calls) \in Nat
    BY Limits, FS_CardinalityType
<1>4. ASSUME NEW id \in 1..issued', ExchangesOf(id)' # {}
      PROVE  /\ id \notin tokens'
             /\ Cardinality(ExchangesOf(id)') + Cardinality(ReadersOf({id})') <= Cardinality(Calls)
    <2>1. ExchangesOf(id)' = ExchangesOf(id)
        BY <1>1 DEF ExchangesOf
    <2>2. /\ id \notin tokens
          /\ Cardinality(ExchangesOf(id)) + Cardinality(ReadersOf({id})) <= Cardinality(Calls)
        BY <1>1, <1>4, <2>1 DEF LineageInv, SessionsAreFew, ExchangesAreFew
    <2>3. id # token
        BY <2>2
    <2>4. ReadersOf({id})' \in SUBSET ReadersOf({id})
        BY <1>2, <2>3 DEF ReadersOf
    <2>5. /\ Cardinality(ReadersOf({id})') \in Nat /\ Cardinality(ReadersOf({id})) \in Nat
          /\ Cardinality(ReadersOf({id})') <= Cardinality(ReadersOf({id}))
        BY <2>4, ReadersAreCalls, FS_Subset, FS_CardinalityType
    <2> QED
        BY <1>1, <1>3, <2>1, <2>2, <2>5, ExchangesOfToken
<1>5. ASSUME cut' > 0
      PROVE  Cardinality(Survivors') + Cardinality(ReadersOf(1..cut)') < Cardinality(Calls)
    <2>1. Survivors' = Survivors
        BY <1>1 DEF Survivors
    <2>2. Cardinality(Survivors) + Cardinality(ReadersOf(1..cut)) < Cardinality(Calls)
        BY <1>1, <1>5 DEF LineageInv, SessionsAreFew, FewSurvive
    <2>3. ReadersOf(1..cut)' \in SUBSET ReadersOf(1..cut)
        BY <1>1, <1>2 DEF ReadersOf
    <2>4. /\ Cardinality(ReadersOf(1..cut)') \in Nat /\ Cardinality(ReadersOf(1..cut)) \in Nat
          /\ Cardinality(ReadersOf(1..cut)') <= Cardinality(ReadersOf(1..cut))
        BY <2>3, ReadersAreCalls, FS_Subset, FS_CardinalityType
    <2> QED
        BY <1>1, <1>3, <2>1, <2>2, <2>4, SurvivorsAreCounted
<1>6. \A d \in Calls : call'[d].op = "refresh" => call'[d].id \in 1..issued'
    BY <1>1, <1>2 DEF LineageInv
<1> QED
    BY <1>1, <1>4, <1>5, <1>6 DEF LineageInv, SessionsAreFew, ExchangesAreFew, FewSurvive

\* Sessions are revoked: no reader is left out, but not the request itself.
LEMMA LineageRevoked ==
    ASSUME SessionsTypeOK, LineageInv, NEW c \in Calls, call[c].op # "refresh", Ends(c), RevokeAll, issued' = issued
    PROVE  LineageInv'
<1>1. /\ issued \in Nat /\ issued' = issued /\ parent' = parent /\ cut' = issued /\ tokens' = {}
      /\ call' = [call EXCEPT ![c] = Idle]
    BY Limits DEF SessionsTypeOK, RevokeAll, Ends
<1>2. /\ call'[c].op # "refresh"
      /\ \A d \in Calls \ {c} : call'[d] = call[d]
    BY <1>1 DEF SessionsTypeOK, Idle
<1>3. Cardinality(Calls) \in Nat
    BY Limits, FS_CardinalityType
<1>4. ASSUME NEW id \in 1..issued', ExchangesOf(id)' # {}
      PROVE  Cardinality(ExchangesOf(id)') + Cardinality(ReadersOf({id})') <= Cardinality(Calls)
    <2>1. ExchangesOf(id)' = ExchangesOf(id)
        BY <1>1 DEF ExchangesOf
    <2>2. Cardinality(ExchangesOf(id)) + Cardinality(ReadersOf({id})) <= Cardinality(Calls)
        BY <1>1, <1>4, <2>1 DEF LineageInv, SessionsAreFew, ExchangesAreFew
    <2>3. ReadersOf({id})' \in SUBSET ReadersOf({id})
        BY <1>2 DEF ReadersOf
    <2>4. /\ Cardinality(ReadersOf({id})') \in Nat /\ Cardinality(ReadersOf({id})) \in Nat
          /\ Cardinality(ReadersOf({id})') <= Cardinality(ReadersOf({id}))
        BY <2>3, ReadersAreCalls, FS_Subset, FS_CardinalityType
    <2> QED
        BY <1>1, <1>3, <2>1, <2>2, <2>4, ExchangesOfToken
<1>5. Cardinality(Survivors') + Cardinality(ReadersOf(1..cut)') < Cardinality(Calls)
    <2>1. Survivors' = {}
        BY <1>1 DEF Survivors
    <2>2. ReadersOf(1..cut)' \in SUBSET (Calls \ {c})
        BY <1>2 DEF ReadersOf
    <2>3. IsFiniteSet(Calls \ {c}) /\ Cardinality(Calls \ {c}) = Cardinality(Calls) - 1
        BY Limits, FS_RemoveElement
    <2>4. /\ Cardinality(ReadersOf(1..cut)') \in Nat
          /\ Cardinality(ReadersOf(1..cut)') <= Cardinality(Calls \ {c})
        BY <2>2, <2>3, FS_Subset, FS_CardinalityType
    <2>5. Cardinality(Survivors') = 0
        BY <2>1, FS_EmptySet
    <2> QED
        BY <1>3, <2>3, <2>4, <2>5
<1>6. \A d \in Calls : call'[d].op = "refresh" => call'[d].id \in 1..issued'
    BY <1>1, <1>2 DEF LineageInv
<1> QED
    BY <1>1, <1>4, <1>5, <1>6 DEF LineageInv, SessionsAreFew, ExchangesAreFew, FewSurvive

\* A new session has not been exchanged for anything.
LEMMA LineageIssued ==
    ASSUME SessionsTypeOK, LineageInv, NEW c \in Calls, call[c].op # "refresh", Ends(c), Issue(tokens, 0)
    PROVE  LineageInv'
<1>1. /\ issued \in Nat /\ cut \in 0..issued /\ issued' = issued + 1 /\ cut' = cut
      /\ issued + 1 \in Ids /\ tokens' = tokens \cup {issued + 1}
      /\ parent'[issued + 1] = 0 /\ \A n \in 1..issued : parent'[n] = parent[n]
      /\ call' = [call EXCEPT ![c] = Idle]
    BY Limits DEF SessionsTypeOK, Issue, Ends, Ids
<1>2. /\ call'[c].op # "refresh"
      /\ \A d \in Calls \ {c} : call'[d] = call[d]
    BY <1>1 DEF SessionsTypeOK, Idle
<1>3. Cardinality(Calls) \in Nat
    BY Limits, FS_CardinalityType
<1>4. ASSUME NEW id \in 1..issued', ExchangesOf(id)' # {}
      PROVE  /\ id \notin tokens'
             /\ Cardinality(ExchangesOf(id)') + Cardinality(ReadersOf({id})') <= Cardinality(Calls)
    <2>1. ExchangesOf(id)' = ExchangesOf(id)
        BY <1>1 DEF ExchangesOf
    <2>2. id \in 1..issued
        BY <1>1, <1>4, <2>1 DEF ExchangesOf, LineageInv
    <2>3. /\ id \notin tokens
          /\ Cardinality(ExchangesOf(id)) + Cardinality(ReadersOf({id})) <= Cardinality(Calls)
        BY <1>4, <2>1, <2>2 DEF LineageInv, SessionsAreFew, ExchangesAreFew
    <2>4. ReadersOf({id})' \in SUBSET ReadersOf({id})
        BY <1>2 DEF ReadersOf
    <2>5. /\ Cardinality(ReadersOf({id})') \in Nat /\ Cardinality(ReadersOf({id})) \in Nat
          /\ Cardinality(ReadersOf({id})') <= Cardinality(ReadersOf({id}))
        BY <2>4, ReadersAreCalls, FS_Subset, FS_CardinalityType
    <2>6. id \notin tokens'
        BY <1>1, <2>2, <2>3
    <2> QED
        BY <1>1, <1>3, <2>1, <2>3, <2>5, <2>6, ExchangesOfToken
<1>5. ASSUME cut' > 0
      PROVE  Cardinality(Survivors') + Cardinality(ReadersOf(1..cut)') < Cardinality(Calls)
    <2>1. Survivors' = Survivors
        BY <1>1 DEF Survivors
    <2>2. Cardinality(Survivors) + Cardinality(ReadersOf(1..cut)) < Cardinality(Calls)
        BY <1>1, <1>5 DEF LineageInv, SessionsAreFew, FewSurvive
    <2>3. ReadersOf(1..cut)' \in SUBSET ReadersOf(1..cut)
        BY <1>1, <1>2 DEF ReadersOf
    <2>4. /\ Cardinality(ReadersOf(1..cut)') \in Nat /\ Cardinality(ReadersOf(1..cut)) \in Nat
          /\ Cardinality(ReadersOf(1..cut)') <= Cardinality(ReadersOf(1..cut))
        BY <2>3, ReadersAreCalls, FS_Subset, FS_CardinalityType
    <2> QED
        BY <1>1, <1>3, <2>1, <2>2, <2>4, SurvivorsAreCounted
<1>6. \A d \in Calls : call'[d].op = "refresh" => call'[d].id \in 1..issued'
    BY <1>1, <1>2 DEF LineageInv
<1>7. \A n \in 1..issued' : parent'[n] \in 0..issued'
    BY <1>1 DEF LineageInv
<1>8. \A id \in tokens' : id > cut'
    BY <1>1 DEF LineageInv
<1> QED
    BY <1>4, <1>5, <1>6, <1>7, <1>8 DEF LineageInv, SessionsAreFew, ExchangesAreFew, FewSurvive

\* An exchange turns a reader into a pair.
LEMMA LineageExchanged ==
    ASSUME SessionsTypeOK, LineageInv, NEW c \in Calls, RefreshCommits(c)
    PROVE  LineageInv'
<1> DEFINE token == call[c].id
<1>1. /\ issued \in Nat /\ cut \in 0..issued /\ issued' = issued + 1 /\ cut' = cut
      /\ issued + 1 \in Ids /\ tokens' = (tokens \ {token}) \cup {issued + 1}
      /\ parent'[issued + 1] = token /\ \A n \in 1..issued : parent'[n] = parent[n]
      /\ call' = [call EXCEPT ![c] = Idle]
      /\ call[c].op = "refresh" /\ token \in 1..issued
    BY Limits DEF SessionsTypeOK, LineageInv, RefreshCommits, Issue, Ends, Ids
<1>2. /\ call'[c].op # "refresh"
      /\ \A d \in Calls \ {c} : call'[d] = call[d]
    BY <1>1 DEF SessionsTypeOK, Idle
<1>3. Cardinality(Calls) \in Nat
    BY Limits, FS_CardinalityType
<1> HIDE DEF token
<1>4. ASSUME NEW id \in 1..issued', ExchangesOf(id)' # {}
      PROVE  /\ id \notin tokens'
             /\ Cardinality(ExchangesOf(id)') + Cardinality(ReadersOf({id})') <= Cardinality(Calls)
    <2>1. id \in 1..issued
        BY <1>1, <1>4 DEF ExchangesOf, LineageInv
    <2>2. CASE id # token
        <3>1. ExchangesOf(id)' = ExchangesOf(id)
            BY <1>1, <2>2 DEF ExchangesOf
        <3>2. /\ id \notin tokens
              /\ Cardinality(ExchangesOf(id)) + Cardinality(ReadersOf({id})) <= Cardinality(Calls)
            BY <1>4, <2>1, <3>1 DEF LineageInv, SessionsAreFew, ExchangesAreFew
        <3>3. ReadersOf({id})' \in SUBSET ReadersOf({id})
            BY <1>2 DEF ReadersOf
        <3>4. /\ Cardinality(ReadersOf({id})') \in Nat /\ Cardinality(ReadersOf({id})) \in Nat
              /\ Cardinality(ReadersOf({id})') <= Cardinality(ReadersOf({id}))
            BY <3>3, ReadersAreCalls, FS_Subset, FS_CardinalityType
        <3>5. id \notin tokens'
            BY <1>1, <2>1, <3>2
        <3> QED
            BY <1>1, <1>3, <3>1, <3>2, <3>4, <3>5, ExchangesOfToken
    <2>3. CASE id = token
        <3>1. ExchangesOf(id)' = ExchangesOf(id) \cup {issued + 1} /\ issued + 1 \notin ExchangesOf(id)
            BY <1>1, <2>1, <2>3 DEF ExchangesOf
        <3>2. Cardinality(ExchangesOf(id)') = Cardinality(ExchangesOf(id)) + 1
            BY <1>1, <3>1, ExchangesOfToken, FS_AddElement
        <3>3. ReadersOf({id})' = ReadersOf({id}) \ {c} /\ c \in ReadersOf({id})
            BY <1>1, <1>2, <2>3 DEF ReadersOf, token
        <3>4. Cardinality(ReadersOf({id})') = Cardinality(ReadersOf({id})) - 1
            BY <3>3, ReadersAreCalls, FS_RemoveElement
        <3>5. Cardinality(ExchangesOf(id)) + Cardinality(ReadersOf({id})) <= Cardinality(Calls)
            <4>1. CASE ExchangesOf(id) = {}
                <5>1. Cardinality(ExchangesOf(id)) = 0
                    BY <4>1, FS_EmptySet
                <5> QED
                    BY <1>3, <5>1, ReadersAreCalls
            <4>2. CASE ExchangesOf(id) # {}
                BY <2>1, <4>2 DEF LineageInv, SessionsAreFew, ExchangesAreFew
            <4> QED
                BY <4>1, <4>2
        <3>6. id \notin tokens'
            BY <1>1, <2>1, <2>3
        <3> QED
            BY <1>1, <1>3, <3>2, <3>4, <3>5, <3>6, ExchangesOfToken, ReadersAreCalls
    <2> QED
        BY <2>2, <2>3
<1>5. ASSUME cut' > 0
      PROVE  Cardinality(Survivors') + Cardinality(ReadersOf(1..cut)') < Cardinality(Calls)
    <2>1. Cardinality(Survivors) + Cardinality(ReadersOf(1..cut)) < Cardinality(Calls)
        BY <1>1, <1>5 DEF LineageInv, SessionsAreFew, FewSurvive
    <2>2. IsFiniteSet(Survivors) /\ Cardinality(Survivors) \in Nat
        BY <1>1, SurvivorsAreCounted
    <2>3. CASE token \in 1..cut
        <3>1. Survivors' = Survivors \cup {issued + 1} /\ issued + 1 \notin Survivors
            BY <1>1, <2>3 DEF Survivors
        <3>2. Cardinality(Survivors') = Cardinality(Survivors) + 1
            BY <2>2, <3>1, FS_AddElement
        <3>3. ReadersOf(1..cut)' = ReadersOf(1..cut) \ {c} /\ c \in ReadersOf(1..cut)
            BY <1>1, <1>2, <2>3 DEF ReadersOf, token
        <3>4. Cardinality(ReadersOf(1..cut)') = Cardinality(ReadersOf(1..cut)) - 1
            BY <3>3, ReadersAreCalls, FS_RemoveElement
        <3> QED
            BY <1>3, <2>1, <2>2, <3>2, <3>4, ReadersAreCalls
    <2>4. CASE token \notin 1..cut
        <3>1. Survivors' = Survivors
            BY <1>1, <2>4 DEF Survivors
        <3>2. ReadersOf(1..cut)' \in SUBSET ReadersOf(1..cut)
            BY <1>1, <1>2 DEF ReadersOf
        <3>3. /\ Cardinality(ReadersOf(1..cut)') \in Nat /\ Cardinality(ReadersOf(1..cut)) \in Nat
              /\ Cardinality(ReadersOf(1..cut)') <= Cardinality(ReadersOf(1..cut))
            BY <3>2, ReadersAreCalls, FS_Subset, FS_CardinalityType
        <3> QED
            BY <1>3, <2>1, <2>2, <3>1, <3>3
    <2> QED
        BY <2>3, <2>4
<1>6. \A d \in Calls : call'[d].op = "refresh" => call'[d].id \in 1..issued'
    BY <1>1, <1>2 DEF LineageInv
<1>7. \A n \in 1..issued' : parent'[n] \in 0..issued'
    BY <1>1 DEF LineageInv
<1>8. \A id \in tokens' : id > cut'
    BY <1>1 DEF LineageInv
<1> QED
    BY <1>4, <1>5, <1>6, <1>7, <1>8 DEF LineageInv, SessionsAreFew, ExchangesAreFew, FewSurvive

\* A token is exchanged only by requests that have all read it before the
\* first of them committed, and a session outlives a logout or a new password
\* only by such requests: both are few, however many requests there are.
THEOREM TokensAreSpent == SessionsSpec => []SessionsAreFew
<1>1. SessionsInit => LineageInv
    <2> SUFFICES ASSUME SessionsInit PROVE LineageInv
        OBVIOUS
    <2>1. issued = 0 /\ cut = 0 /\ tokens = {} /\ \A c \in Calls : call[c].op # "refresh"
        BY DEF SessionsInit, Idle
    <2> QED
        BY <2>1 DEF LineageInv, SessionsAreFew, ExchangesAreFew, FewSurvive
<1>2. SessionsTypeOK /\ LineageInv /\ [SessionsNext]_sessVars => LineageInv'
    <2> SUFFICES ASSUME SessionsTypeOK, LineageInv, [SessionsNext]_sessVars
                 PROVE  LineageInv'
        OBVIOUS
    <2>1. ASSUME NEW c \in Calls, NEW r, Begin(c, r), r.op # "refresh"
          PROVE  LineageInv'
        <3>1. \A d \in Calls : call'[d].op = "refresh" => call'[d] = call[d]
            BY <2>1 DEF Begin, SessionsTypeOK
        <3> QED
            BY <2>1, <3>1, LineageKept DEF Begin, lineage
    <2>2. ASSUME NEW c \in Calls, Ends(c)
          PROVE  \A d \in Calls : call'[d].op = "refresh" => call'[d] = call[d]
        BY <2>2 DEF Ends, Idle, SessionsTypeOK
    <2>3. ASSUME NEW c \in Calls, Begins(c)
          PROVE  LineageInv'
        <3>1. CASE \E id \in tokens : RefreshReads(c, id)
            BY <3>1, LineageReads
        <3>2. CASE \E p \in Passwords : LoginLoads(c, p)
            BY <2>1, <3>2 DEF LoginLoads
        <3>3. CASE \E id \in resets, p \in Passwords : ResetReads(c, id, p)
            BY <2>1, <3>3 DEF ResetReads
        <3>4. CASE GoogleVerified(c) \/ ValidateReads(c)
            BY <2>1, <3>4 DEF GoogleVerified, ValidateReads
        <3>5. ASSUME NEW id \in access, NEW current \in Passwords, NEW new \in Passwords,
                     PasswordReads(c, id, current, new)
              PROVE  LineageInv'
            BY <2>1, <3>5 DEF PasswordReads
        <3>6. ASSUME NEW id \in access,
                     LogoutReads(c, id) \/ SetupReads(c, id) \/ VerifyReads(c, id) \/ DisableReads(c, id)
              PROVE  LineageInv'
            BY <2>1, <3>6 DEF LogoutReads, SetupReads, VerifyReads, DisableReads
        <3> QED
            BY <2>3, <3>1, <3>2, <3>3, <3>4, <3>5, <3>6 DEF Begins
    <2>4. ASSUME NEW c \in Calls, Commits(c)
          PROVE  LineageInv'
        <3>1. CASE RefreshCommits(c)
            BY <3>1, LineageExchanged
        <3>2. CASE LogoutCommits(c) \/ PasswordCommits(c) \/ ResetCommits(c)
            BY <3>2, LineageRevoked DEF LogoutCommits, PasswordCommits, ResetCommits
        <3>3. CASE GoogleSignsIn(c) \/ ValidateCommits(c) \/ (LoginSucceeds(c) /\ ~FactorOn)
            BY <3>3, LineageIssued DEF GoogleSignsIn, ValidateCommits, LoginSucceeds
        <3>4. CASE LoginSucceeds(c) /\ FactorOn
            BY <2>2, <3>4, LineageKept DEF LoginSucceeds, lineage
        <3>5. CASE LoginFails(c) \/ SetupCommits(c) \/ VerifyCommits(c) \/ DisableCommits(c)
            BY <2>2, <3>5, LineageKept DEF LoginFails, SetupCommits, VerifyCommits, DisableCommits, lineage
        <3> QED
            BY <2>4, <3>1, <3>2, <3>3, <3>4, <3>5 DEF Commits
    <2>5. ASSUME NEW c \in Calls, Dies(c)
          PROVE  LineageInv'
        BY <2>2, <2>5, LineageKept DEF Dies, lineage
    <2>6. CASE Elapses \/ ForgotPassword \/ UNCHANGED sessVars
        <3>1. UNCHANGED <<issued, parent, cut, call>> /\ tokens' \subseteq tokens
            BY <2>6 DEF Elapses, LockEnds, PendingExpires, TokenExpires, AccessExpires, ResetExpires,
                        ForgotPassword, sessVars, lineage
        <3> QED
            BY <3>1, LineageKept
    <2> QED
        BY <2>3, <2>4, <2>5, <2>6 DEF SessionsNext
<1>3. LineageInv => SessionsAreFew
    BY DEF LineageInv
<1> QED
    BY <1>1, <1>2, <1>3, SessionsTypeCorrect, PTL DEF SessionsSpec

----------------------------------------------------------------------------
(* Sessions: wrong passwords *)

\* How many wrong passwords in a row a count leaves before the lock.
Room(failed) == IF failed < MaxAttempts THEN MaxAttempts - 1 - failed ELSE 0

\* The room of a request: what it has loaded, or what it would load.
RoomFrom(request, failed) ==
    IF request.op = "login" /\ request.row.failed < failed
    THEN Room(request.row.failed) ELSE Room(failed)

RoomOf(c) == RoomFrom(call[c], account.failed)

Rooms == [c \in Calls |-> RoomOf(c)]

Levels == 1..MaxAttempts - 1

\* The requests with at least that room.
Roomy(rooms, e) == {c \in Calls : rooms[c] >= e}

Profile(rooms) == [e \in Levels |-> Cardinality(Roomy(rooms, e))]

\* Lexicographic order, with the most room first.
Lower(f, g) == \E e \in Levels : f[e] < g[e] /\ \A h \in Levels : h > e => f[h] = g[h]

Below(f) == {g \in Profiles : Lower(g, f)}

\* A wrong password that a request has room e for leaves it e - 1, and no other
\* request more than that or than it had: the profile gets lower.  No more
\* are to come than there are profiles below.
GuessInv == guesses + Cardinality(Below(Profile(Rooms))) <= MaxGuesses

LEMMA LeastIs ==
    ASSUME NEW S \in SUBSET Nat, S # {}
    PROVE  \E x \in S : \A y \in S : x <= y
<1>1. PICK x \in S : \A y \in S : ~ (<<y, x>> \in OpToRel(<, Nat))
    BY NatLessThanWellFounded, WFMin
<1>2. ASSUME NEW y \in S
      PROVE  ~ (y < x)
    BY <1>1, <1>2, Zenon DEF OpToRel
<1> QED
    BY <1>2

LEMMA CallsAreSome == Cardinality(Calls) \in Nat \ {0}
BY SessionsAssumption, FS_CardinalityType, FS_EmptySet

LEMMA RoomType ==
    ASSUME NEW n \in Nat
    PROVE  Room(n) \in 0..(MaxAttempts - 1)
BY Limits DEF Room

LEMMA RoomFromType ==
    ASSUME NEW r \in Requests, NEW n \in Nat
    PROVE  RoomFrom(r, n) \in 0..(MaxAttempts - 1)
<1>1. r.op = "login" => r.row.failed \in Nat
    BY LoadedIs, Limits DEF Locks
<1> QED
    BY <1>1, RoomType DEF RoomFrom

\* Each request has some room.
LEMMA RoomOfType ==
    ASSUME SessionsTypeOK
    PROVE  \A c \in Calls : RoomOf(c) \in 0..(MaxAttempts - 1)
<1>1. account.failed \in Nat
    BY Limits DEF SessionsTypeOK, Accounts
<1> QED
    BY <1>1, RoomFromType DEF RoomOf, SessionsTypeOK

LEMMA NextRoomOfType ==
    ASSUME SessionsTypeOK'
    PROVE  \A c \in Calls : RoomOf(c)' \in 0..(MaxAttempts - 1)
<1>1. account'.failed \in Nat
    BY Limits DEF SessionsTypeOK, Accounts
<1> QED
    BY <1>1, RoomFromType DEF RoomOf, SessionsTypeOK

LEMMA RoomyIs ==
    ASSUME NEW rooms, NEW e
    PROVE  /\ IsFiniteSet(Roomy(rooms, e))
           /\ Cardinality(Roomy(rooms, e)) \in 0..Cardinality(Calls)
<1>1. Roomy(rooms, e) \subseteq Calls
    BY DEF Roomy
<1> QED
    BY <1>1, Limits, FS_Subset, FS_CardinalityType

LEMMA ProfileIs ==
    ASSUME NEW rooms \in [Calls -> Int]
    PROVE  Profile(rooms) \in Profiles
<1>1. Profile(rooms) \in [Levels -> 0..Cardinality(Calls)]
    BY RoomyIs DEF Profile
<1>2. ASSUME NEW a \in Levels, NEW b \in Levels, a <= b
      PROVE  Profile(rooms)[b] <= Profile(rooms)[a]
    <2>1. Roomy(rooms, b) \subseteq Roomy(rooms, a)
        BY <1>2 DEF Roomy, Levels
    <2>2. Cardinality(Roomy(rooms, b)) <= Cardinality(Roomy(rooms, a))
        BY <2>1, RoomyIs, FS_Subset
    <2> QED
        BY <2>2 DEF Profile
<1> QED
    BY <1>1, <1>2 DEF Profiles, Levels

LEMMA LowerIsStrict ==
    /\ \A f \in Profiles : ~ Lower(f, f)
    /\ \A f, g, h \in Profiles : Lower(f, g) /\ Lower(g, h) => Lower(f, h)
<1>1. \A f \in Profiles : \A e \in Levels : f[e] \in Int
    BY DEF Profiles, Levels
<1>2. \A f \in Profiles : ~ Lower(f, f)
    BY <1>1 DEF Lower
<1>3. ASSUME NEW f \in Profiles, NEW g \in Profiles, NEW h \in Profiles, Lower(f, g), Lower(g, h)
      PROVE  Lower(f, h)
    <2>1. PICK a \in Levels : f[a] < g[a] /\ \A e \in Levels : e > a => f[e] = g[e]
        BY <1>3 DEF Lower
    <2>2. PICK b \in Levels : g[b] < h[b] /\ \A e \in Levels : e > b => g[e] = h[e]
        BY <1>3 DEF Lower
    <2>3. a \in Int /\ b \in Int /\ \A e \in Levels : e \in Int
        BY DEF Levels
    <2>4. CASE a < b
        <3>1. f[b] < h[b] /\ \A e \in Levels : e > b => f[e] = h[e]
            BY <2>1, <2>2, <2>3, <2>4
        <3> QED
            BY <3>1 DEF Lower
    <2>5. CASE b <= a
        <3>1. f[a] < h[a]
            <4>1. g[a] <= h[a]
                BY <1>1, <2>2, <2>3, <2>5
            <4> QED
                BY <1>1, <2>1, <4>1
        <3>2. \A e \in Levels : e > a => f[e] = h[e]
            BY <2>1, <2>2, <2>3, <2>5
        <3> QED
            BY <3>1, <3>2 DEF Lower
    <2> QED
        BY <2>3, <2>4, <2>5
<1> QED
    BY <1>2, <1>3

\* A profile that is lower somewhere, and higher nowhere from there on.
LEMMA LowerFrom ==
    ASSUME NEW f \in Profiles, NEW g \in Profiles, NEW e \in Levels, f[e] < g[e],
           \A h \in Levels : h >= e => f[h] <= g[h]
    PROVE  Lower(f, g)
<1> DEFINE above == {MaxAttempts - h : h \in {h \in Levels : h >= e /\ f[h] < g[h]}}
<1>1. \A h \in Levels : h \in Int /\ MaxAttempts - h \in Nat /\ f[h] \in Int /\ g[h] \in Int
    BY Limits DEF Levels, Profiles
<1>2. above \in SUBSET Nat /\ above # {}
    BY <1>1
<1>3. PICK n \in above : \A m \in above : n <= m
    BY <1>2, LeastIs
<1>4. PICK h \in Levels : n = MaxAttempts - h /\ h >= e /\ f[h] < g[h]
    OBVIOUS
<1>5. ASSUME NEW k \in Levels, k > h
      PROVE  f[k] = g[k]
    <2>1. k >= e
        BY <1>1, <1>4, <1>5
    <2>2. CASE f[k] < g[k]
        <3>1. MaxAttempts - k \in above
            BY <2>1, <2>2
        <3>2. MaxAttempts - h <= MaxAttempts - k
            BY <1>3, <1>4, <3>1
        <3> QED
            BY <1>1, <1>5, <3>2, Limits
    <2>3. f[k] <= g[k]
        BY <2>1
    <2> QED
        BY <1>1, <2>2, <2>3
<1> QED
    BY <1>4, <1>5 DEF Lower

\* From a lower profile there is at least one less to come.
LEMMA BelowFalls ==
    ASSUME NEW f \in Profiles, NEW g \in Profiles, Lower(f, g)
    PROVE  /\ Cardinality(Below(f)) \in Nat /\ Cardinality(Below(g)) \in Nat
           /\ Cardinality(Below(f)) + 1 <= Cardinality(Below(g))
<1>1. /\ Below(f) \in SUBSET Profiles /\ Below(g) \in SUBSET Profiles
      /\ f \notin Below(f) /\ Below(f) \cup {f} \subseteq Below(g)
    BY LowerIsStrict DEF Below
<1>2. /\ IsFiniteSet(Below(f)) /\ Cardinality(Below(f)) \in Nat
      /\ IsFiniteSet(Below(g)) /\ Cardinality(Below(g)) \in Nat
    BY <1>1, ProfilesAreFinite
<1>3. Cardinality(Below(f) \cup {f}) = Cardinality(Below(f)) + 1
    BY <1>1, <1>2, FS_AddElement
<1>4. Cardinality(Below(f) \cup {f}) <= Cardinality(Below(g))
    BY <1>1, <1>2, FS_Subset
<1> QED
    BY <1>2, <1>3, <1>4

\* No profile has as many below it as there are.
LEMMA BelowIsBounded ==
    ASSUME NEW f \in Profiles
    PROVE  Cardinality(Below(f)) \in Nat /\ Cardinality(Below(f)) <= MaxGuesses
<1>1. Below(f) \in SUBSET Profiles /\ Below(f) \subseteq Profiles \ {f}
    BY LowerIsStrict DEF Below
<1>2. /\ IsFiniteSet(Profiles \ {f})
      /\ Cardinality(Profiles \ {f}) = MaxGuesses
    BY ProfilesAreFinite, FS_RemoveElement DEF MaxGuesses
<1> QED
    BY <1>1, <1>2, ProfilesAreFinite, FS_Subset

LEMMA RoomsAre ==
    ASSUME SessionsTypeOK
    PROVE  Rooms \in [Calls -> Int] /\ Profile(Rooms) \in Profiles
<1>1. Rooms \in [Calls -> Int]
    BY RoomOfType, Limits DEF Rooms
<1> QED
    BY <1>1, ProfileIs

LEMMA NextRoomsAre ==
    ASSUME SessionsTypeOK'
    PROVE  Rooms' \in [Calls -> Int] /\ Profile(Rooms') \in Profiles
<1>1. Rooms' \in [Calls -> Int]
    BY NextRoomOfType, Limits DEF Rooms
<1> QED
    BY <1>1, ProfileIs

\* Where no request gets more room, no more guesses are to come.
LEMMA NoMoreRoom ==
    ASSUME SessionsTypeOK, SessionsTypeOK', GuessInv,
           guesses' = guesses, \A c \in Calls : RoomOf(c)' <= RoomOf(c)
    PROVE  GuessInv'
<1> DEFINE f == Profile(Rooms')
           g == Profile(Rooms)
<1>1. /\ Rooms \in [Calls -> Int] /\ Rooms' \in [Calls -> Int]
      /\ f \in Profiles /\ g \in Profiles
    BY RoomsAre, NextRoomsAre
<1>2. \A c \in Calls : Rooms'[c] <= Rooms[c]
    BY DEF Rooms
<1>3. ASSUME NEW e \in Levels
      PROVE  f[e] <= g[e] /\ f[e] \in Int /\ g[e] \in Int
    <2>1. Roomy(Rooms', e) \subseteq Roomy(Rooms, e)
        BY <1>1, <1>2 DEF Roomy, Levels
    <2>2. Cardinality(Roomy(Rooms', e)) <= Cardinality(Roomy(Rooms, e))
        BY <2>1, RoomyIs, FS_Subset
    <2>3. Cardinality(Roomy(Rooms', e)) \in Int /\ Cardinality(Roomy(Rooms, e)) \in Int
        BY RoomyIs
    <2> QED
        BY <2>2, <2>3 DEF Profile
<1>4. f = g \/ Lower(f, g)
    <2>1. CASE \E e \in Levels : f[e] # g[e]
        <3>1. PICK e \in Levels : f[e] < g[e]
            BY <1>3, <2>1
        <3> HIDE DEF f, g
        <3> QED
            BY <1>1, <1>3, <3>1, LowerFrom
    <2>2. CASE \A e \in Levels : f[e] = g[e]
        BY <2>2 DEF Profile
    <2> QED
        BY <2>1, <2>2
<1> HIDE DEF f, g
<1>5. /\ Cardinality(Below(f)) <= Cardinality(Below(g))
      /\ Cardinality(Below(f)) \in Nat /\ Cardinality(Below(g)) \in Nat
    BY <1>1, <1>4, BelowFalls, BelowIsBounded
<1>6. guesses' + Cardinality(Below(f)) <= MaxGuesses
    <2>1. guesses + Cardinality(Below(g)) <= MaxGuesses
        BY DEF GuessInv, g
    <2>2. guesses \in Nat
        BY Limits DEF SessionsTypeOK
    <2> QED
        BY <1>5, <2>1, <2>2, Limits
<1> QED
    BY <1>6 DEF GuessInv, f

\* A wrong password takes one guess of those to come.
LEMMA GuessIsTaken ==
    ASSUME SessionsTypeOK, SessionsTypeOK', GuessInv,
           NEW c \in Calls, LoginFails(c), call[c].row.failed + 1 < MaxAttempts
    PROVE  GuessInv'
<1>1. /\ call[c].row.failed \in Nat /\ account.failed \in Nat /\ call[c].op = "login"
      /\ \A d \in Calls : call[d].op = "login" => call[d].row.failed \in Nat
    BY LoadedIs, Limits DEF SessionsTypeOK, Locks, Accounts, LoginFails
<1> PICK n \in Nat, e \in Nat : n = call[c].row.failed /\ e = MaxAttempts - 1 - n
    BY <1>1, Limits
<1> DEFINE f == Profile(Rooms')
           g == Profile(Rooms)
<1>2. e \in Levels
    BY <1>1, Limits DEF Levels
<1>3. /\ account'.failed = n + 1
      /\ call' = [call EXCEPT ![c] = Idle]
      /\ guesses' <= guesses + 1
    <2>1. ~ (n + 1 >= MaxAttempts) /\ guesses \in Nat
        BY Limits DEF SessionsTypeOK
    <2> QED
        BY <2>1 DEF LoginFails, SessionsTypeOK, Accounts, Ends
<1>4. /\ Rooms \in [Calls -> Int] /\ Rooms' \in [Calls -> Int]
      /\ f \in Profiles /\ g \in Profiles
    BY RoomsAre, NextRoomsAre
<1>5. Rooms[c] >= e /\ Rooms'[c] = e - 1
    BY <1>1, <1>3, Limits DEF Rooms, RoomOf, RoomFrom, Room, Idle, SessionsTypeOK
<1>6. ASSUME NEW d \in Calls, d # c
      PROVE  Rooms'[d] <= e - 1 \/ Rooms'[d] <= Rooms[d]
    <2>1. call'[d] = call[d]
        BY <1>3, <1>6 DEF SessionsTypeOK
    <2> QED
        BY <1>1, <1>3, <2>1, Limits DEF Rooms, RoomOf, RoomFrom, Room
<1>7. ASSUME NEW h \in Levels, h >= e
      PROVE  Roomy(Rooms', h) \subseteq Roomy(Rooms, h) \ {c}
    <2>1. h \in Int /\ e \in Int
        BY DEF Levels
    <2>2. c \notin Roomy(Rooms', h)
        BY <1>5, <1>7, <2>1 DEF Roomy
    <2>3. ASSUME NEW d \in Roomy(Rooms', h)
          PROVE  d \in Roomy(Rooms, h)
        <3>1. d \in Calls /\ d # c /\ Rooms'[d] >= h
            BY <2>2 DEF Roomy
        <3>2. ~ (Rooms'[d] <= e - 1)
            BY <1>4, <1>7, <2>1, <3>1
        <3>3. Rooms'[d] <= Rooms[d]
            BY <1>6, <3>1, <3>2
        <3> QED
            BY <1>4, <2>1, <3>1, <3>3 DEF Roomy
    <2> QED
        BY <2>2, <2>3
<1>8. ASSUME NEW h \in Levels, h >= e
      PROVE  f[h] <= g[h]
    <2>1. Roomy(Rooms', h) \subseteq Roomy(Rooms, h)
        BY <1>7, <1>8
    <2>2. Cardinality(Roomy(Rooms', h)) <= Cardinality(Roomy(Rooms, h))
        BY <2>1, RoomyIs, FS_Subset
    <2> QED
        BY <2>2 DEF Profile
<1>9. f[e] < g[e]
    <2>1. c \in Roomy(Rooms, e)
        BY <1>5 DEF Roomy
    <2>2. Roomy(Rooms', e) \subseteq Roomy(Rooms, e) \ {c}
        BY <1>2, <1>7
    <2>3. /\ IsFiniteSet(Roomy(Rooms, e) \ {c})
          /\ Cardinality(Roomy(Rooms, e) \ {c}) = Cardinality(Roomy(Rooms, e)) - 1
        BY <2>1, RoomyIs, FS_RemoveElement
    <2>4. Cardinality(Roomy(Rooms', e)) <= Cardinality(Roomy(Rooms, e) \ {c})
        BY <2>2, <2>3, FS_Subset
    <2>5. Cardinality(Roomy(Rooms', e)) \in Int /\ Cardinality(Roomy(Rooms, e)) \in Int
        BY RoomyIs
    <2>6. Cardinality(Roomy(Rooms', e)) < Cardinality(Roomy(Rooms, e))
        BY <2>3, <2>4, <2>5
    <2> QED
        BY <1>2, <2>6 DEF Profile
<1> HIDE DEF f, g
<1>10. Lower(f, g)
    BY <1>2, <1>4, <1>8, <1>9, LowerFrom
<1>11. guesses' + Cardinality(Below(f)) <= MaxGuesses
    <2>1. guesses + Cardinality(Below(g)) <= MaxGuesses
        BY DEF GuessInv, g
    <2>2. guesses \in Nat /\ guesses' \in Nat
        BY Limits DEF SessionsTypeOK
    <2>3. /\ Cardinality(Below(f)) \in Nat /\ Cardinality(Below(g)) \in Nat
          /\ Cardinality(Below(f)) + 1 <= Cardinality(Below(g))
        BY <1>4, <1>10, BelowFalls
    <2> QED
        BY <1>3, <2>1, <2>2, <2>3, Limits
<1> QED
    BY <1>11 DEF GuessInv, f

LEMMA GuessInit == SessionsInit => GuessInv
<1> SUFFICES ASSUME SessionsInit PROVE GuessInv
    OBVIOUS
<1>1. Profile(Rooms) \in Profiles
    BY SessionsTypeInit, RoomsAre
<1>2. /\ Cardinality(Below(Profile(Rooms))) \in Nat
      /\ Cardinality(Below(Profile(Rooms))) <= MaxGuesses
    BY <1>1, BelowIsBounded
<1> QED
    BY <1>2, Limits DEF SessionsInit, GuessInv

LEMMA GuessNext ==
    ASSUME SessionsTypeOK, SessionsTypeOK', GuessInv, [SessionsNext]_sessVars
    PROVE  GuessInv'
<1>1. /\ account.failed \in Nat
      /\ \A d \in Calls : call[d].op = "login" => call[d].row.failed \in Nat
    BY LoadedIs, Limits DEF SessionsTypeOK, Locks, Accounts
<1>2. \A d \in Calls : RoomOf(d) >= Room(account.failed) /\ Room(account.failed) \in Nat
    BY <1>1, Limits DEF RoomOf, RoomFrom, Room
<1>3. ASSUME NEW c \in Calls, call[c] = Idle, NEW r, Begin(c, r),
             r.op = "login" => r.row.failed = account.failed
      PROVE  GuessInv'
    <2>1. /\ account' = account /\ guesses' = guesses
          /\ call' = [call EXCEPT ![c] = r]
        BY <1>3 DEF Begin
    <2>2. \A d \in Calls : RoomOf(d)' <= RoomOf(d)
        <3>1. ASSUME NEW d \in Calls PROVE RoomOf(d)' = RoomOf(d)
            BY <1>1, <1>3, <2>1 DEF RoomOf, RoomFrom, Idle, SessionsTypeOK
        <3> QED
            BY <3>1, RoomOfType
    <2> QED
        BY <2>1, <2>2, NoMoreRoom
<1>4. ASSUME NEW c \in Calls, Begins(c)
      PROVE  GuessInv'
    <2>1. ASSUME NEW p \in Passwords, LoginLoads(c, p)
          PROVE  GuessInv'
        <3>1. Begin(c, [op |-> "login", row |-> Lock(account), right |-> p = account.password])
            BY <2>1 DEF LoginLoads
        <3>2. call[c] = Idle
            BY <3>1 DEF Begin
        <3> QED
            BY <1>3, <3>1, <3>2 DEF Lock
    <2>2. ASSUME ~ \E p \in Passwords : LoginLoads(c, p)
          PROVE  \E r : Begin(c, r) /\ r.op # "login"
        <3>1. \/ \E op \in {"google", "verify", "validate", "disable"} : Begin(c, [op |-> op])
              \/ \E op \in {"refresh", "logout"} : \E id : Begin(c, [op |-> op, id |-> id])
              \/ \E id, p : Begin(c, [op |-> "reset", id |-> id, new |-> p])
              \/ \E op \in {"password", "setup"} : \E p : Begin(c, [op |-> op, new |-> p])
            BY <1>4, <2>2 DEF Begins, GoogleVerified, RefreshReads, ResetReads, ValidateReads,
                        LogoutReads, PasswordReads, SetupReads, VerifyReads, DisableReads
        <3>2. ASSUME NEW op \in {"google", "verify", "validate", "disable"}, Begin(c, [op |-> op])
              PROVE  \E r : Begin(c, r) /\ r.op # "login"
            <4>1. [op |-> op].op # "login"
                OBVIOUS
            <4> QED
                BY <3>2, <4>1
        <3>3. ASSUME NEW op \in {"refresh", "logout"}, NEW id, Begin(c, [op |-> op, id |-> id])
              PROVE  \E r : Begin(c, r) /\ r.op # "login"
            <4>1. [op |-> op, id |-> id].op # "login"
                OBVIOUS
            <4> QED
                BY <3>3, <4>1
        <3>4. ASSUME NEW id, NEW p, Begin(c, [op |-> "reset", id |-> id, new |-> p])
              PROVE  \E r : Begin(c, r) /\ r.op # "login"
            <4>1. [op |-> "reset", id |-> id, new |-> p].op # "login"
                OBVIOUS
            <4> QED
                BY <3>4, <4>1
        <3>5. ASSUME NEW op \in {"password", "setup"}, NEW p, Begin(c, [op |-> op, new |-> p])
              PROVE  \E r : Begin(c, r) /\ r.op # "login"
            <4>1. [op |-> op, new |-> p].op # "login"
                OBVIOUS
            <4> QED
                BY <3>5, <4>1
        <3> QED
            BY <3>1, <3>2, <3>3, <3>4, <3>5
    <2>3. ASSUME NEW r, Begin(c, r), r.op # "login"
          PROVE  GuessInv'
        BY <1>3, <2>3 DEF Begin
    <2> QED
        BY <2>1, <2>2, <2>3
<1>5. ASSUME NEW c \in Calls, Ends(c), account'.failed = account.failed, guesses' = guesses
      PROVE  GuessInv'
    <2>1. ASSUME NEW d \in Calls
          PROVE  RoomOf(d)' <= RoomOf(d)
        <3>1. CASE d = c
            BY <1>2, <1>5, <3>1 DEF Ends, RoomOf, RoomFrom, Idle, SessionsTypeOK
        <3>2. CASE d # c
            BY <1>5, <3>2, RoomOfType DEF Ends, RoomOf, SessionsTypeOK
        <3> QED
            BY <3>1, <3>2
    <2> QED
        BY <1>5, <2>1, NoMoreRoom
<1>6. ASSUME guesses' = 0
      PROVE  GuessInv'
    <2>1. Profile(Rooms') \in Profiles
        BY NextRoomsAre
    <2>2. /\ Cardinality(Below(Profile(Rooms'))) \in Nat
          /\ Cardinality(Below(Profile(Rooms'))) <= MaxGuesses
        BY <2>1, BelowIsBounded
    <2> QED
        BY <1>6, <2>2, Limits DEF GuessInv
<1>7. ASSUME NEW c \in Calls, Commits(c)
      PROVE  GuessInv'
    <2>1. CASE LoginFails(c)
        <3>1. CASE call[c].row.failed + 1 < MaxAttempts
            BY <2>1, <3>1, GuessIsTaken
        <3>2. CASE ~ (call[c].row.failed + 1 < MaxAttempts)
            <4>1. guesses' = 0
                <5>1. call[c].row.failed + 1 >= MaxAttempts
                    BY <1>1, <2>1, <3>2, Limits DEF LoginFails
                <5> QED
                    BY <2>1, <5>1 DEF LoginFails
            <4> QED
                BY <1>6, <4>1
        <3> QED
            BY <3>1, <3>2
    <2>2. CASE LoginSucceeds(c)
        BY <1>6, <2>2 DEF LoginSucceeds
    <2>3. CASE PasswordCommits(c) \/ ResetCommits(c)
        <3>1. account'.failed = account.failed
            BY <2>3 DEF PasswordCommits, ResetCommits, SessionsTypeOK, Accounts
        <3> QED
            BY <1>5, <2>3, <3>1 DEF PasswordCommits, ResetCommits
    <2>4. CASE GoogleSignsIn(c) \/ RefreshCommits(c) \/ LogoutCommits(c)
               \/ SetupCommits(c) \/ VerifyCommits(c) \/ ValidateCommits(c) \/ DisableCommits(c)
        BY <1>5, <2>4 DEF GoogleSignsIn, RefreshCommits, LogoutCommits, SetupCommits, VerifyCommits,
                          ValidateCommits, DisableCommits
    <2> QED
        BY <1>7, <2>1, <2>2, <2>3, <2>4 DEF Commits
<1>8. ASSUME call' = call, account'.failed = account.failed, guesses' = guesses
      PROVE  GuessInv'
    <2>1. \A d \in Calls : RoomOf(d)' <= RoomOf(d)
        <3>1. \A d \in Calls : RoomOf(d)' = RoomOf(d)
            BY <1>8 DEF RoomOf
        <3> QED
            BY <3>1, RoomOfType
    <2> QED
        BY <1>8, <2>1, NoMoreRoom
<1>9. CASE Elapses
    <2>1. CASE LockEnds
        <3>1. account'.failed = account.failed
            BY <2>1 DEF LockEnds, SessionsTypeOK, Accounts
        <3> QED
            BY <1>8, <2>1, <3>1 DEF LockEnds
    <2> QED
        BY <1>8, <1>9, <2>1 DEF Elapses, PendingExpires, TokenExpires, AccessExpires, ResetExpires
<1> QED
    BY <1>4, <1>5, <1>7, <1>8, <1>9 DEF SessionsNext, Dies, ForgotPassword, sessVars

\* However many requests try passwords at once, and whatever counts they wind
\* back, the wrong ones before a lock or a success are bounded: of N requests
\* at a time, by the number of ways to choose MaxAttempts - 1 of
\* N + MaxAttempts - 1, less one.
THEOREM WrongPasswordsAreFew == SessionsSpec => []GuessesAreBounded
<1>1. SessionsInit => SessionsTypeOK /\ GuessInv
    BY SessionsTypeInit, GuessInit
<1>2. SessionsTypeOK /\ GuessInv /\ [SessionsNext]_sessVars => (SessionsTypeOK /\ GuessInv)'
    BY SessionsTypeNext, GuessNext
<1>3. SessionsTypeOK /\ GuessInv => GuessesAreBounded
    <2> SUFFICES ASSUME SessionsTypeOK, GuessInv PROVE guesses <= MaxGuesses
        BY DEF GuessesAreBounded
    <2>1. Profile(Rooms) \in Profiles
        BY RoomsAre
    <2>2. Cardinality(Below(Profile(Rooms))) \in Nat /\ guesses \in Nat
        BY <2>1, BelowIsBounded, Limits DEF SessionsTypeOK
    <2> QED
        BY <2>2, Limits DEF GuessInv
<1> QED
    BY <1>1, <1>2, <1>3, PTL DEF SessionsSpec
----------------------------------------------------------------------------
(* Membership: types *)

LEMMA Founding ==
    /\ Founder \in Persons /\ FounderEmail \in Emails /\ FirstCompany \in Companies
    /\ NoUser \notin UserRows /\ Purged \notin UserRows /\ NoUser # Purged
    /\ MaxInvites \in Nat
BY MembershipAssumption

\* What a request of each kind has loaded.
LEMMA VisitIs ==
    ASSUME NEW r \in VisitRecords
    PROVE  /\ r.op \in {"found", "profile", "invite"} => r.email \in Emails
           /\ r.op \in {"profile", "delete", "purge", "role", "remove"} => r.of \in Persons
           /\ r.op \in {"purge", "invite"} => r.company \in Companies
           /\ r.op \in {"invite", "role"} => r.role \in Roles
           /\ r.op \in {"invite", "role", "remove"} => r.by \in Persons
           /\ r.op = "accept" => r.invite \in DOMAIN invites
BY DEF VisitRecords, Here

LEMMA RowsAre ==
    ASSUME MembershipTypeOK, NEW u \in Persons
    PROVE  u \in Rows <=> users[u] \in UserRows
BY Founding DEF MembershipTypeOK, Rows

LEMMA MembershipTypeInit == MembershipInit => MembershipTypeOK
<1> SUFFICES ASSUME MembershipInit PROVE MembershipTypeOK
    OBVIOUS
<1>1. FounderRow \in UserRows
    BY Founding DEF FounderRow, UserRows, Roles
<1> QED
    BY <1>1, Founding DEF MembershipInit, MembershipTypeOK, VisitRecords, Here

\* A request that is over leaves no trace in visit.
LEMMA FinishKeeps ==
    ASSUME MembershipTypeOK, NEW v \in Visits, Finishes(v), DOMAIN invites \subseteq DOMAIN invites'
    PROVE  visit' \in [Visits -> VisitRecords']
<1>1. VisitRecords \subseteq VisitRecords'
    BY DEF VisitRecords
<1>2. Here \in VisitRecords
    BY DEF VisitRecords
<1> QED
    BY <1>1, <1>2 DEF MembershipTypeOK, Finishes

LEMMA ChecksType ==
    ASSUME MembershipTypeOK, NEW v \in Visits, Checks(v)
    PROVE  MembershipTypeOK'
<1>1. \A u \in Persons : u \in Rows => users[u].company \in Companies /\ users[u].role \in Roles
    BY RowsAre DEF UserRows
<1>2. PICK r \in VisitRecords : Starts(v, r)
    <2>1. ASSUME NEW e \in Emails, RegisterChecks(v, e) \/ GoogleChecks(v, e)
          PROVE  \E r \in VisitRecords : Starts(v, r)
        BY <2>1 DEF RegisterChecks, GoogleChecks, VisitRecords
    <2>2. ASSUME NEW u \in Persons, NEW e \in Emails, ProfileChecks(v, u, e)
          PROVE  \E r \in VisitRecords : Starts(v, r)
        BY <2>2 DEF ProfileChecks, VisitRecords
    <2>3. ASSUME NEW u \in Persons, DeleteStarts(v, u)
          PROVE  \E r \in VisitRecords : Starts(v, r)
        BY <2>3 DEF DeleteStarts, VisitRecords
    <2>4. ASSUME NEW a \in Persons, NEW u \in Persons, PurgeChecks(v, a, u)
          PROVE  \E r \in VisitRecords : Starts(v, r)
        <3> DEFINE last == Members(users[u].company) \ {u} = {}
        <3>1. users[u].company \in Companies /\ last \in BOOLEAN
            BY <1>1, <2>4 DEF PurgeChecks
        <3>2. Starts(v, [op |-> "purge", of |-> u, company |-> users[u].company, last |-> last])
            BY <2>4 DEF PurgeChecks
        <3> HIDE DEF last
        <3>3. [op |-> "purge", of |-> u, company |-> users[u].company, last |-> last]
                 \in [op : {"purge"}, of : Persons, company : Companies, last : BOOLEAN]
            BY <3>1
        <3> QED
            BY <3>2, <3>3 DEF VisitRecords
    <2>5. ASSUME NEW a \in Persons, NEW u \in Persons, RemoveChecks(v, a, u)
          PROVE  \E r \in VisitRecords : Starts(v, r)
        BY <2>5 DEF RemoveChecks, VisitRecords
    <2>6. ASSUME NEW a \in Persons, NEW e \in Emails, NEW role \in Roles, InviteChecks(v, a, e, role)
          PROVE  \E r \in VisitRecords : Starts(v, r)
        <3>1. users[a].company \in Companies
            BY <1>1, <2>6 DEF InviteChecks, IsAdmin, Undeleted
        <3> QED
            BY <2>6, <3>1 DEF InviteChecks, VisitRecords
    <2>7. ASSUME NEW i \in DOMAIN invites, AcceptChecks(v, i)
          PROVE  \E r \in VisitRecords : Starts(v, r)
        BY <2>7 DEF AcceptChecks, VisitRecords
    <2>8. ASSUME NEW a \in Persons, NEW u \in Persons, NEW role \in Roles, RoleChecks(v, a, u, role)
          PROVE  \E r \in VisitRecords : Starts(v, r)
        <3>1. users[u].role \in Roles
            BY <1>1, <2>8 DEF RoleChecks, Members, Undeleted
        <3> QED
            BY <2>8, <3>1 DEF RoleChecks, VisitRecords
    <2> QED
        BY <2>1, <2>2, <2>3, <2>4, <2>5, <2>6, <2>7, <2>8 DEF Checks
<1>3. /\ visit' = [visit EXCEPT ![v] = r]
      /\ UNCHANGED <<users, founded, served, invites>>
    BY <1>2 DEF Starts
<1>4. VisitRecords' = VisitRecords
    BY <1>3 DEF VisitRecords
<1> QED
    BY <1>3, <1>4 DEF MembershipTypeOK

LEMMA CompletesType ==
    ASSUME MembershipTypeOK, NEW v \in Visits, Completes(v)
    PROVE  MembershipTypeOK'
<1>1. visit[v] \in VisitRecords
    BY DEF MembershipTypeOK
<1>2. \A u \in Persons : u \in Rows => users[u] \in UserRows
    BY RowsAre
<1>3. ASSUME users' \in [Persons -> UserRows \cup {NoUser, Purged}], UNCHANGED <<founded, invites>>, Finishes(v),
             served' \subseteq served
      PROVE  MembershipTypeOK'
    BY <1>3, FinishKeeps DEF MembershipTypeOK
<1>4. ASSUME NEW u \in Persons, NEW c \in Companies, RegisterCommits(v, u, c)
      PROVE  MembershipTypeOK'
    <2>1. [email |-> visit[v].email, company |-> c, role |-> "admin", deleted |-> FALSE] \in UserRows
        BY <1>1, <1>4, VisitIs DEF RegisterCommits, UserRows, Roles
    <2>2. users' \in [Persons -> UserRows \cup {NoUser, Purged}]
        BY <1>4, <2>1 DEF RegisterCommits, Insert, MembershipTypeOK
    <2>3. visit' \in [Visits -> VisitRecords']
        BY <1>4, FinishKeeps DEF RegisterCommits
    <2> QED
        BY <1>4, <2>2, <2>3 DEF RegisterCommits, MembershipTypeOK
<1>5. CASE ProfileCommits(v)
    <2>1. /\ visit[v].email \in Emails /\ visit[v].of \in Persons
          /\ users[visit[v].of] \in UserRows
        BY <1>1, <1>2, <1>5, VisitIs DEF ProfileCommits
    <2>2. [users[visit[v].of] EXCEPT !.email = visit[v].email] \in UserRows
        BY <2>1 DEF UserRows
    <2>3. users' = [users EXCEPT ![visit[v].of] = [users[visit[v].of] EXCEPT !.email = visit[v].email]]
        BY <1>5, <2>1 DEF ProfileCommits, MembershipTypeOK
    <2>4. users' \in [Persons -> UserRows \cup {NoUser, Purged}]
        BY <2>2, <2>3 DEF MembershipTypeOK
    <2> QED
        BY <1>3, <1>5, <2>4 DEF ProfileCommits
<1>6. ASSUME NEW u \in Persons, SoftDelete(u)
      PROVE  users' \in [Persons -> UserRows \cup {NoUser, Purged}]
    <2>1. users[u] \in UserRows
        BY <1>2, <1>6 DEF SoftDelete
    <2>2. [users[u] EXCEPT !.deleted = TRUE, !.email = Tombstone] \in UserRows
        BY <2>1 DEF UserRows
    <2>3. users' = [users EXCEPT ![u] = [users[u] EXCEPT !.deleted = TRUE, !.email = Tombstone]]
        BY <1>6, <2>1 DEF SoftDelete, MembershipTypeOK
    <2> QED
        BY <2>2, <2>3 DEF MembershipTypeOK
<1>7. CASE DeleteCommits(v) \/ RemoveCommits(v)
    <2>1. visit[v].of \in Persons
        BY <1>1, <1>7, VisitIs DEF DeleteCommits, RemoveCommits
    <2>2. users' \in [Persons -> UserRows \cup {NoUser, Purged}]
        BY <1>6, <1>7, <2>1 DEF DeleteCommits, RemoveCommits
    <2> QED
        BY <1>3, <1>7, <2>2 DEF DeleteCommits, RemoveCommits
<1>8. CASE PurgeCommits(v)
    <2>1. users' \in [Persons -> UserRows \cup {NoUser, Purged}]
        BY <1>8 DEF PurgeCommits, MembershipTypeOK
    <2> QED
        BY <1>3, <1>8, <2>1 DEF PurgeCommits
<1>9. CASE InviteCommits(v)
    <2> DEFINE i == [company |-> visit[v].company, email |-> visit[v].email, role |-> visit[v].role,
                     by |-> visit[v].by, status |-> "open"]
    <2>1. i \in Invitations
        BY <1>1, <1>9, VisitIs DEF InviteCommits, Invitations
    <2>2. invites' = Append(invites, i)
        BY <1>9 DEF InviteCommits
    <2> HIDE DEF i
    <2>3. /\ invites' \in Seq(Invitations)
          /\ Len(invites') = Len(invites) + 1 /\ Len(invites) \in Nat
          /\ DOMAIN invites \subseteq DOMAIN invites'
        BY <2>1, <2>2 DEF MembershipTypeOK
    <2>4. visit' \in [Visits -> VisitRecords']
        BY <1>9, <2>3, FinishKeeps DEF InviteCommits
    <2>5. Len(invites') <= MaxInvites
        BY <1>9, <2>3, Founding DEF InviteCommits
    <2> QED
        BY <1>9, <2>3, <2>4, <2>5 DEF InviteCommits, MembershipTypeOK
<1>10. ASSUME NEW u \in Persons, AcceptCommits(v, u)
       PROVE  MembershipTypeOK'
    <2> DEFINE i == visit[v].invite
    <2>1. i \in DOMAIN invites /\ invites[i] \in Invitations
        BY <1>1, <1>10, VisitIs DEF AcceptCommits, MembershipTypeOK
    <2>2. [email |-> invites[i].email, company |-> invites[i].company,
           role |-> invites[i].role, deleted |-> FALSE] \in UserRows
        BY <2>1 DEF Invitations, UserRows
    <2>3. users' \in [Persons -> UserRows \cup {NoUser, Purged}]
        BY <1>10, <2>2 DEF AcceptCommits, Insert, MembershipTypeOK
    <2>4. [invites[i] EXCEPT !.status = "accepted"] \in Invitations
        BY <2>1 DEF Invitations
    <2>5. invites' = [invites EXCEPT ![i] = [invites[i] EXCEPT !.status = "accepted"]]
        BY <1>10, <2>1 DEF AcceptCommits, MembershipTypeOK
    <2> HIDE DEF i
    <2>6. /\ invites' \in Seq(Invitations) /\ Len(invites') = Len(invites)
          /\ DOMAIN invites' = DOMAIN invites
        BY <2>1, <2>4, <2>5 DEF MembershipTypeOK
    <2>7. visit' \in [Visits -> VisitRecords']
        BY <1>10, <2>6, FinishKeeps DEF AcceptCommits
    <2> QED
        BY <1>10, <2>3, <2>6, <2>7 DEF AcceptCommits, MembershipTypeOK
<1>11. CASE RoleCommits(v)
    <2>1. /\ visit[v].role \in Roles /\ visit[v].of \in Persons
          /\ users[visit[v].of] \in UserRows
        BY <1>1, <1>2, <1>11, VisitIs DEF RoleCommits
    <2>2. [users[visit[v].of] EXCEPT !.role = visit[v].role] \in UserRows
        BY <2>1 DEF UserRows
    <2>3. \/ users' = users
          \/ users' = [users EXCEPT ![visit[v].of] = [users[visit[v].of] EXCEPT !.role = visit[v].role]]
        BY <1>11, <2>1 DEF RoleCommits, MembershipTypeOK
    <2>4. users' \in [Persons -> UserRows \cup {NoUser, Purged}]
        BY <2>2, <2>3 DEF MembershipTypeOK
    <2> QED
        BY <1>3, <1>11, <2>4 DEF RoleCommits
<1> QED
    BY <1>4, <1>5, <1>7, <1>8, <1>9, <1>10, <1>11 DEF Completes

LEMMA MembershipTypeNext == MembershipTypeOK /\ [MembershipNext]_memberVars => MembershipTypeOK'
<1> SUFFICES ASSUME MembershipTypeOK, [MembershipNext]_memberVars PROVE MembershipTypeOK'
    OBVIOUS
<1>1. ASSUME NEW v \in Visits, Fails(v)
      PROVE  MembershipTypeOK'
    BY <1>1, FinishKeeps DEF Fails, MembershipTypeOK
<1>2. ASSUME NEW i \in DOMAIN invites, InviteExpires(i)
      PROVE  MembershipTypeOK'
    <2>1. invites[i] \in Invitations
        BY DEF MembershipTypeOK
    <2>2. [invites[i] EXCEPT !.status = "expired"] \in Invitations
        BY <2>1 DEF Invitations
    <2>3. invites' = [invites EXCEPT ![i] = [invites[i] EXCEPT !.status = "expired"]]
        BY <1>2 DEF InviteExpires, MembershipTypeOK
    <2>4. /\ invites' \in Seq(Invitations) /\ Len(invites') = Len(invites)
          /\ DOMAIN invites' = DOMAIN invites
        BY <2>2, <2>3 DEF MembershipTypeOK
    <2>5. VisitRecords' = VisitRecords
        BY <2>4 DEF VisitRecords
    <2> QED
        BY <1>2, <2>4, <2>5 DEF InviteExpires, MembershipTypeOK
<1>3. CASE UNCHANGED memberVars
    BY <1>3 DEF memberVars, MembershipTypeOK, VisitRecords
<1> QED
    BY <1>1, <1>2, <1>3, ChecksType, CompletesType DEF MembershipNext

\* Every reachable state of Membership is well typed.
THEOREM MembershipTypeCorrect == MembershipSpec => []MembershipTypeOK
BY MembershipTypeInit, MembershipTypeNext, PTL DEF MembershipSpec
-----------------------------------------------------------------------------
(***************************************************************************)
(* The last administrator.  The model needs no lock: what protects a       *)
(* company is that a request acts on somebody else than whoever sends it,  *)
(* which is checked long before it commits but compares two ids, that do   *)
(* not change; and that a row to be purged had been deleted when it was    *)
(* checked, which nothing undoes.                                          *)
(***************************************************************************)
Dead(row) == row = Purged \/ (row # NoUser /\ row.deleted)

AdminsInv ==
    /\ MembershipTypeOK
    /\ \A v \in Visits :
          /\ visit[v].op \in {"role", "remove"} => visit[v].by # visit[v].of
          /\ visit[v].op = "purge" => Dead(users[visit[v].of])

LEMMA DeadStays ==
    ASSUME MembershipTypeOK, [MembershipNext]_memberVars, NEW u \in Persons, Dead(users[u])
    PROVE  Dead(users'[u])
<1>1. ASSUME users' = users
      PROVE  Dead(users'[u])
    BY <1>1 DEF Dead, Rows
<1>2. ASSUME NEW w \in Persons, NEW row, Insert(w, row)
      PROVE  Dead(users'[u])
    <2>1. w # u
        BY <1>2, Founding DEF Insert, Dead, Rows
    <2>2. users'[u] = users[u]
        BY <1>2, <2>1 DEF Insert, MembershipTypeOK
    <2> QED
        BY <2>2 DEF Dead, Rows
<1>3. ASSUME NEW w \in Persons, SoftDelete(w)
      PROVE  Dead(users'[u])
    <2>1. CASE w = u
        <3>1. users[u] \in UserRows
            BY <1>3, <2>1, RowsAre DEF SoftDelete
        <3>2. [users[u] EXCEPT !.deleted = TRUE, !.email = Tombstone] \in UserRows
            BY <3>1 DEF UserRows
        <3>3. users'[u] = [users[u] EXCEPT !.deleted = TRUE, !.email = Tombstone]
            BY <1>3, <2>1 DEF SoftDelete, MembershipTypeOK
        <3>4. users'[u].deleted
            BY <3>1, <3>3 DEF UserRows
        <3> QED
            BY <3>2, <3>3, <3>4, Founding DEF Dead, Rows
    <2>2. CASE w # u
        <3>1. users'[u] = users[u]
            BY <1>3, <2>2 DEF SoftDelete, MembershipTypeOK
        <3> QED
            BY <3>1 DEF Dead, Rows
    <2> QED
        BY <2>1, <2>2
<1>4. ASSUME NEW v \in Visits, Completes(v)
      PROVE  Dead(users'[u])
    <2>1. visit[v] \in VisitRecords
        BY DEF MembershipTypeOK
    <2>2. ASSUME NEW w \in Persons, NEW c \in Companies, RegisterCommits(v, w, c)
          PROVE  Dead(users'[u])
        BY <1>2, <2>2 DEF RegisterCommits
    <2>3. CASE ProfileCommits(v)
        <3>1. CASE visit[v].of = u
            <4>1. users[u] \in UserRows /\ visit[v].email \in Emails
                BY <2>1, <2>3, <3>1, VisitIs, RowsAre DEF ProfileCommits
            <4>2. users'[u] = [users[u] EXCEPT !.email = visit[v].email]
                BY <2>3, <3>1 DEF ProfileCommits, MembershipTypeOK
            <4>3. users'[u] \in UserRows /\ users'[u].deleted = users[u].deleted
                BY <4>1, <4>2 DEF UserRows
            <4> QED
                BY <4>1, <4>3, Founding DEF Dead, Rows
        <3>2. CASE visit[v].of # u
            <4>1. users'[u] = users[u]
                BY <2>3, <3>2 DEF ProfileCommits, MembershipTypeOK
            <4> QED
                BY <4>1 DEF Dead, Rows
        <3> QED
            BY <3>1, <3>2
    <2>4. CASE DeleteCommits(v) \/ RemoveCommits(v)
        <3>1. visit[v].of \in Persons
            BY <2>1, <2>4, VisitIs DEF DeleteCommits, RemoveCommits
        <3> QED
            BY <1>3, <2>4, <3>1 DEF DeleteCommits, RemoveCommits
    <2>5. CASE PurgeCommits(v)
        <3>1. users'[u] = users[u] \/ users'[u] = Purged
            BY <2>5 DEF PurgeCommits, MembershipTypeOK
        <3> QED
            BY <3>1 DEF Dead, Rows
    <2>6. CASE InviteCommits(v)
        BY <1>1, <2>6 DEF InviteCommits
    <2>7. ASSUME NEW w \in Persons, AcceptCommits(v, w)
          PROVE  Dead(users'[u])
        BY <1>2, <2>7 DEF AcceptCommits
    <2>8. CASE RoleCommits(v)
        <3>1. CASE users' = users
            BY <1>1, <3>1
        <3>2. CASE visit[v].of = u /\ users' # users
            <4>1. users[u] \in UserRows /\ visit[v].role \in Roles
                BY <2>1, <2>8, <3>2, VisitIs, RowsAre DEF RoleCommits
            <4>2. users'[u] = [users[u] EXCEPT !.role = visit[v].role]
                BY <2>8, <3>2 DEF RoleCommits, MembershipTypeOK
            <4>3. users'[u] \in UserRows /\ users'[u].deleted = users[u].deleted
                BY <4>1, <4>2 DEF UserRows
            <4> QED
                BY <4>1, <4>3, Founding DEF Dead, Rows
        <3>3. CASE visit[v].of # u
            <4>1. users'[u] = users[u]
                BY <2>8, <3>3 DEF RoleCommits, MembershipTypeOK
            <4> QED
                BY <4>1 DEF Dead, Rows
        <3> QED
            BY <3>1, <3>2, <3>3
    <2> QED
        BY <1>4, <2>2, <2>3, <2>4, <2>5, <2>6, <2>7, <2>8 DEF Completes
<1>5. ASSUME NEW v \in Visits, Checks(v)
      PROVE  Dead(users'[u])
    BY <1>1, <1>5 DEF Checks, RegisterChecks, GoogleChecks, ProfileChecks, DeleteStarts, PurgeChecks, RemoveChecks,
       InviteChecks, AcceptChecks, RoleChecks, Starts
<1>6. ASSUME NEW v \in Visits, Fails(v)
      PROVE  Dead(users'[u])
    BY <1>1, <1>6 DEF Fails
<1>7. ASSUME NEW i \in DOMAIN invites, InviteExpires(i)
      PROVE  Dead(users'[u])
    BY <1>1, <1>7 DEF InviteExpires
<1> QED
    BY <1>1, <1>4, <1>5, <1>6, <1>7 DEF MembershipNext, memberVars

\* What a request has established when it starts, whichever it is.
LEMMA StartsWell ==
    ASSUME MembershipTypeOK, NEW v \in Visits, Checks(v)
    PROVE  \E r : /\ Starts(v, r)
                  /\ r.op \in {"role", "remove"} => r.by # r.of
                  /\ r.op = "purge" => Dead(users[r.of])
<1> DEFINE Well(r) == /\ r.op \in {"role", "remove"} => r.by # r.of
                      /\ r.op = "purge" => Dead(users[r.of])
<1>1. ASSUME NEW r, Starts(v, r), r.op \notin {"role", "remove", "purge"}
      PROVE  \E q : Starts(v, q) /\ Well(q)
    BY <1>1
<1>2. ASSUME NEW e \in Emails, RegisterChecks(v, e) \/ GoogleChecks(v, e)
      PROVE  \E r : Starts(v, r) /\ Well(r)
    <2> DEFINE r == [op |-> "found", email |-> e]
    <2>1. r.op \notin {"role", "remove", "purge"} /\ Starts(v, r)
        BY <1>2 DEF RegisterChecks, GoogleChecks
    <2> QED
        BY <1>1, <2>1
<1>3. ASSUME NEW u \in Persons, NEW e \in Emails, ProfileChecks(v, u, e)
      PROVE  \E r : Starts(v, r) /\ Well(r)
    <2> DEFINE r == [op |-> "profile", of |-> u, email |-> e]
    <2>1. r.op \notin {"role", "remove", "purge"} /\ Starts(v, r)
        BY <1>3 DEF ProfileChecks
    <2> QED
        BY <1>1, <2>1
<1>4. ASSUME NEW u \in Persons, DeleteStarts(v, u)
      PROVE  \E r : Starts(v, r) /\ Well(r)
    <2> DEFINE r == [op |-> "delete", of |-> u]
    <2>1. r.op \notin {"role", "remove", "purge"} /\ Starts(v, r)
        BY <1>4 DEF DeleteStarts
    <2> QED
        BY <1>1, <2>1
<1>5. ASSUME NEW a \in Persons, NEW u \in Persons, PurgeChecks(v, a, u)
      PROVE  \E r : Starts(v, r) /\ Well(r)
    <2> DEFINE r == [op |-> "purge", of |-> u, company |-> users[u].company,
                     last |-> Members(users[u].company) \ {u} = {}]
    <2>1. r.op = "purge" /\ r.of = u /\ Starts(v, r)
        BY <1>5 DEF PurgeChecks
    <2>2. Dead(users[u])
        BY <1>5 DEF PurgeChecks, Undeleted, Rows, Dead
    <2> HIDE DEF r
    <2> QED
        BY <2>1, <2>2
<1>6. ASSUME NEW a \in Persons, NEW u \in Persons, RemoveChecks(v, a, u)
      PROVE  \E r : Starts(v, r) /\ Well(r)
    <2> DEFINE r == [op |-> "remove", by |-> a, of |-> u]
    <2>1. r.op = "remove" /\ r.by # r.of /\ Starts(v, r)
        BY <1>6 DEF RemoveChecks
    <2> HIDE DEF r
    <2> QED
        BY <2>1
<1>7. ASSUME NEW a \in Persons, NEW e \in Emails, NEW role \in Roles, InviteChecks(v, a, e, role)
      PROVE  \E r : Starts(v, r) /\ Well(r)
    <2> DEFINE r == [op |-> "invite", by |-> a, company |-> users[a].company, email |-> e, role |-> role]
    <2>1. r.op \notin {"role", "remove", "purge"} /\ Starts(v, r)
        BY <1>7 DEF InviteChecks
    <2> QED
        BY <1>1, <2>1
<1>8. ASSUME NEW i \in DOMAIN invites, AcceptChecks(v, i)
      PROVE  \E r : Starts(v, r) /\ Well(r)
    <2> DEFINE r == [op |-> "accept", invite |-> i]
    <2>1. r.op \notin {"role", "remove", "purge"} /\ Starts(v, r)
        BY <1>8 DEF AcceptChecks
    <2> QED
        BY <1>1, <2>1
<1>9. ASSUME NEW a \in Persons, NEW u \in Persons, NEW role \in Roles, RoleChecks(v, a, u, role)
      PROVE  \E r : Starts(v, r) /\ Well(r)
    <2> DEFINE r == [op |-> "role", by |-> a, of |-> u, role |-> role, loaded |-> users[u].role]
    <2>1. r.op = "role" /\ r.by # r.of /\ Starts(v, r)
        BY <1>9 DEF RoleChecks
    <2> HIDE DEF r
    <2> QED
        BY <2>1
<1> QED
    BY <1>2, <1>3, <1>4, <1>5, <1>6, <1>7, <1>8, <1>9 DEF Checks

LEMMA AdminsInit == MembershipInit => AdminsInv
<1> SUFFICES ASSUME MembershipInit PROVE AdminsInv
    OBVIOUS
<1>1. \A v \in Visits : visit[v].op = "idle"
    BY DEF MembershipInit, Here
<1> QED
    BY <1>1, MembershipTypeInit DEF AdminsInv

LEMMA AdminsNext == AdminsInv /\ [MembershipNext]_memberVars => AdminsInv'
<1> SUFFICES ASSUME AdminsInv, [MembershipNext]_memberVars PROVE AdminsInv'
    OBVIOUS
<1> DEFINE Fit(r) == /\ r.op \in {"role", "remove"} => r.by # r.of
                     /\ r.op = "purge" => Dead(users[r.of])
<1>1. MembershipTypeOK /\ MembershipTypeOK'
    BY MembershipTypeNext DEF AdminsInv
<1>2. ASSUME NEW w \in Visits, visit'[w] = visit[w] \/ visit'[w] = Here
      PROVE  /\ visit'[w].op \in {"role", "remove"} => visit'[w].by # visit'[w].of
             /\ visit'[w].op = "purge" => Dead(users'[visit'[w].of])
    <2>1. CASE visit'[w] = Here
        BY <2>1 DEF Here
    <2>2. CASE visit'[w] = visit[w] /\ visit[w].op = "purge"
        <3>1. visit[w].of \in Persons
            BY <1>1, <2>2, VisitIs DEF MembershipTypeOK
        <3>2. \A u \in Persons : Dead(users[u]) => Dead(users'[u])
            BY <1>1, DeadStays
        <3> QED
            BY <2>2, <3>1, <3>2 DEF AdminsInv
    <2>3. CASE visit'[w] = visit[w] /\ visit[w].op # "purge"
        BY <2>3 DEF AdminsInv
    <2> QED
        BY <1>2, <2>1, <2>2, <2>3
<1>3. ASSUME NEW v \in Visits, Finishes(v) \/ UNCHANGED visit
      PROVE  \A w \in Visits : visit'[w] = visit[w] \/ visit'[w] = Here
    BY <1>1, <1>3 DEF Finishes, MembershipTypeOK
<1>4. ASSUME NEW v \in Visits, Checks(v)
      PROVE  AdminsInv'
    <2>1. PICK r : Starts(v, r) /\ Fit(r)
        BY <1>1, <1>4, StartsWell
    <2>2. /\ users' = users
          /\ visit'[v] = r
          /\ \A w \in Visits \ {v} : visit'[w] = visit[w]
        BY <1>1, <2>1 DEF Starts, MembershipTypeOK
    <2>3. /\ r.op \in {"role", "remove"} => r.by # r.of
          /\ r.op = "purge" => Dead(users'[r.of])
        BY <2>1, <2>2 DEF Dead, Rows
    <2> QED
        BY <1>1, <1>2, <2>2, <2>3 DEF AdminsInv
<1>5. ASSUME NEW v \in Visits, Completes(v) \/ Fails(v)
      PROVE  AdminsInv'
    <2>1. Finishes(v)
        BY <1>5 DEF Completes, Fails, RegisterCommits, ProfileCommits, DeleteCommits, PurgeCommits, InviteCommits,
           AcceptCommits, RoleCommits, RemoveCommits
    <2> QED
        BY <1>1, <1>2, <1>3, <2>1 DEF AdminsInv
<1>6. CASE UNCHANGED visit
    BY <1>1, <1>2, <1>6 DEF AdminsInv
<1> QED
    BY <1>4, <1>5, <1>6 DEF MembershipNext, InviteExpires, memberVars

LEMMA AdminStays ==
    ASSUME NEW c \in Companies, NEW a \in Admins(c),
           \/ users'[a] = users[a]
           \/ /\ users[a] \in UserRows
              /\ \E e \in Emails : users'[a] = [users[a] EXCEPT !.email = e]
    PROVE  a \in Admins(c)'
<1>1. /\ a \in Persons /\ users[a] \notin {NoUser, Purged} /\ ~ users[a].deleted
      /\ users[a].company = c /\ users[a].role = "admin"
    BY DEF Admins, Members, Undeleted, Rows
<1>2. /\ users'[a] \notin {NoUser, Purged} /\ ~ users'[a].deleted
      /\ users'[a].company = c /\ users'[a].role = "admin"
    <2>1. CASE users'[a] = users[a]
        BY <1>1, <2>1
    <2>2. ASSUME users[a] \in UserRows, NEW e \in Emails, users'[a] = [users[a] EXCEPT !.email = e]
          PROVE  /\ users'[a] \notin {NoUser, Purged} /\ ~ users'[a].deleted
                 /\ users'[a].company = c /\ users'[a].role = "admin"
        <3>1. /\ users'[a] \in UserRows /\ users'[a].deleted = users[a].deleted
              /\ users'[a].company = users[a].company /\ users'[a].role = users[a].role
            BY <2>2 DEF UserRows
        <3> QED
            BY <1>1, <3>1, Founding
    <2> QED
        BY <2>1, <2>2
<1> QED
    BY <1>1, <1>2 DEF Admins, Members, Undeleted, Rows

\* A company loses its last administrator only if that one deletes the own
\* account, or if whoever demotes or removes that one is no longer one.
THEOREM LastAdministrators == MembershipSpec => AdminsRemain
<1> DEFINE Explained(c) == \E v \in Visits :
                              /\ visit'[v] = Here
                              /\ \/ visit[v].op = "delete"
                                 \/ visit[v].op \in {"role", "remove"} /\ visit[v].by \notin Admins(c)
           Lost(c) == Admins(c) # {} /\ Admins(c)' = {}
<1>1. AdminsInv /\ [MembershipNext]_memberVars => [\A c \in Companies : Lost(c) => Explained(c)]_memberVars
    <2> SUFFICES ASSUME AdminsInv, MembershipNext, NEW c \in Companies, Lost(c)
                 PROVE  Explained(c)
        OBVIOUS
    <2>1. PICK a : a \in Admins(c)
        OBVIOUS
    <2>2. MembershipTypeOK /\ a \in Undeleted /\ a \in Rows /\ a \in Persons /\ users[a] \in UserRows
        BY <2>1, RowsAre DEF AdminsInv, Admins, Members, Undeleted, Rows
    <2>3. users'[a] # users[a]
        BY <2>1, AdminStays
    <2>4. PICK v \in Visits : Completes(v)
        BY <2>3 DEF MembershipNext, Checks, RegisterChecks, GoogleChecks, ProfileChecks, DeleteStarts, PurgeChecks,
           RemoveChecks, InviteChecks, AcceptChecks, RoleChecks, Starts, Fails, InviteExpires
    <2>5. visit[v] \in VisitRecords
        BY <2>2 DEF MembershipTypeOK
    <2>6. visit'[v] = Here
        BY <2>2, <2>4 DEF Completes, RegisterCommits, ProfileCommits, DeleteCommits, PurgeCommits, InviteCommits,
           AcceptCommits, RoleCommits, RemoveCommits, Finishes, MembershipTypeOK
    <2>7. ASSUME NEW u \in Persons, NEW row, Insert(u, row)
          PROVE  FALSE
        BY <2>2, <2>3, <2>7 DEF Insert, Rows, MembershipTypeOK
    <2>8. CASE \E u \in Persons : AcceptCommits(v, u) \/ \E d \in Companies : RegisterCommits(v, u, d)
        BY <2>7, <2>8 DEF AcceptCommits, RegisterCommits
    <2>9. CASE ProfileCommits(v)
        <3>1. visit[v].email \in Emails
            BY <2>5, <2>9, VisitIs DEF ProfileCommits
        <3>2. users'[a] = [users[a] EXCEPT !.email = visit[v].email]
            BY <2>2, <2>3, <2>9 DEF ProfileCommits, MembershipTypeOK
        <3> QED
            BY <2>1, <2>2, <3>1, <3>2, AdminStays
    <2>10. CASE DeleteCommits(v)
        BY <2>6, <2>10 DEF DeleteCommits
    <2>11. CASE PurgeCommits(v)
        <3>1. Dead(users[visit[v].of])
            BY <2>11 DEF PurgeCommits, AdminsInv
        <3>2. a # visit[v].of
            BY <2>2, <3>1 DEF Dead, Undeleted, Rows
        <3> QED
            BY <2>2, <2>3, <2>11, <3>2 DEF PurgeCommits, MembershipTypeOK
    <2>12. CASE InviteCommits(v)
        BY <2>3, <2>12 DEF InviteCommits
    <2>13. CASE RoleCommits(v) \/ RemoveCommits(v)
        <3>1. /\ visit[v].op \in {"role", "remove"}
              /\ visit[v].by # visit[v].of
            BY <2>13 DEF RoleCommits, RemoveCommits, AdminsInv
        <3>2. CASE visit[v].by \in Admins(c)
            <4>1. visit[v].by \in Persons
                BY <3>2 DEF Admins, Members, Undeleted, Rows
            <4>2. users'[visit[v].by] = users[visit[v].by]
                BY <2>2, <2>13, <3>1, <4>1 DEF RoleCommits, RemoveCommits, SoftDelete, MembershipTypeOK
            <4>3. visit[v].by \in Admins(c)'
                BY <3>2, <4>2, AdminStays
            <4> QED
                BY <4>3
        <3>3. CASE visit[v].by \notin Admins(c)
            BY <2>6, <3>1, <3>3
        <3> QED
            BY <3>2, <3>3
    <2> QED
        BY <2>4, <2>8, <2>9, <2>10, <2>11, <2>12, <2>13 DEF Completes
<1> QED
    BY <1>1, AdminsInit, AdminsNext, PTL DEF MembershipSpec, AdminsRemain

-----------------------------------------------------------------------------
(* Sessions and Membership *)

\* Accounts and teams side by side are well typed, for any numbers of
\* requests, sessions, users and companies.
THEOREM TypeCorrect == Spec => []TypeOK
<1>1. Init => TypeOK
    BY SessionsTypeInit, MembershipTypeInit DEF Init, TypeOK
<1>2. TypeOK /\ [Next]_vars => TypeOK'
    <2>1. TypeOK /\ [Next]_vars => [SessionsNext]_sessVars /\ [MembershipNext]_memberVars
        BY DEF Next, vars
    <2> QED
        BY <2>1, SessionsTypeNext, MembershipTypeNext DEF TypeOK
<1> QED
    BY <1>1, <1>2, PTL DEF Spec
-----------------------------------------------------------------------------
(* Billing *)

\* A failed payment is alerted once for every time that its event has been
\* handled.  What has been handled is answered, unless an error makes it come
\* again: there are no more alerts than errors, but for one that is answered or
\* about to be.
BillingInv ==
    /\ plan \in Subscriptions
    /\ open \subseteq sent /\ sent \subseteq Events
    /\ handler \in [Events -> Handlers]
    /\ alerted \in [Events -> Nat]
    /\ errors \in 0..MaxErrors
    /\ \A e \in Events :
          /\ handler[e] # Unhandled => e \in open
          /\ handler[e].at = "loaded" => Understood(e)
          /\ alerted[e] <= errors + 1
          /\ e \notin sent => alerted[e] = 0
          /\ e \in open /\ handler[e] # Committed => alerted[e] <= errors

LEMMA BillingInvType == BillingInv => BillingTypeOK
BY BillingAssumption DEF BillingInv, BillingTypeOK

\* The three states of a handler are told apart by where it is.
LEMMA HandlersAre ==
    /\ Unhandled \in Handlers /\ Unhandled.at = "waiting"
    /\ Committed \in Handlers /\ Committed.at = "committed"
    /\ \A row \in Subscriptions : Loaded(row) \in Handlers /\ Loaded(row).at = "loaded"
BY DEF Handlers, Unhandled, Committed, Loaded

LEMMA SubscriptionIs ==
    ASSUME BillingInv
    PROVE  /\ \A s \in SubscriptionStatus : [plan EXCEPT !.status = s] \in Subscriptions
           /\ \A c \in Customers : [plan EXCEPT !.customer = c] \in Subscriptions
           /\ [plan EXCEPT !.there = TRUE] \in Subscriptions
           /\ plan.status \in SubscriptionStatus /\ plan.customer \in Customers \cup {Nobody}
BY DEF BillingInv, Subscriptions

LEMMA BillingInvInit == BillingInit => BillingInv
BY BillingAssumption, HandlersAre DEF BillingInit, BillingInv, Subscriptions, SubscriptionStatus

\* A status that is set is one, whether it is written or not.
LEMMA StatusIsSet ==
    ASSUME BillingInv, NEW e \in Events, NEW new \in SubscriptionStatus, SetStatus(e, new)
    PROVE  plan' \in Subscriptions
BY SubscriptionIs DEF SetStatus

LEMMA BillingInvNext == BillingInv /\ [BillingNext]_billVars => BillingInv'
<1> SUFFICES ASSUME BillingInv, [BillingNext]_billVars PROVE BillingInv'
    OBVIOUS
<1> USE BillingAssumption, HandlersAre
<1>1. ASSUME NEW e \in Events, StripeSends(e)
      PROVE  BillingInv'
    BY <1>1 DEF StripeSends, BillingInv, Understood
<1>2. ASSUME NEW e \in Events, Deliver(e)
      PROVE  BillingInv'
    <2>1. CASE RowIsFound(e) /\ Understood(e)
        <3>1. /\ handler' = [handler EXCEPT ![e] = Loaded(plan)] /\ UNCHANGED <<plan, sent, open, alerted, errors>>
              /\ e \in open /\ handler[e] = Unhandled
            BY <1>2, <2>1 DEF Deliver
        <3>2. Loaded(plan) \in Handlers /\ Loaded(plan).at = "loaded" /\ plan \in Subscriptions
            BY DEF BillingInv
        <3> QED
            BY <2>1, <3>1, <3>2 DEF BillingInv, Understood
    <2>2. CASE ~ (RowIsFound(e) /\ Understood(e))
        <3>1. /\ handler' = [handler EXCEPT ![e] = Committed] /\ UNCHANGED <<plan, sent, open, alerted, errors>>
              /\ e \in open
            BY <1>2, <2>2 DEF Deliver
        <3> QED
            BY <3>1 DEF BillingInv, Understood
    <2> QED
        BY <2>1, <2>2
<1>3. ASSUME NEW e \in Events, LinkCustomer(e)
      PROVE  BillingInv'
    <2>1. plan' \in Subscriptions
        <3>1. CustomerOf[e] \in Customers
            BY DEF Customers
        <3>2. plan' = [plan EXCEPT !.customer = plan.customer] \/ plan' = [plan EXCEPT !.customer = CustomerOf[e]]
            BY <1>3 DEF LinkCustomer
        <3>3. [plan EXCEPT !.customer = plan.customer] = plan /\ plan \in Subscriptions
            BY DEF BillingInv, Subscriptions
        <3> QED
            BY <3>1, <3>2, <3>3, SubscriptionIs
    <2> QED
        BY <1>3, <2>1 DEF LinkCustomer, BillingInv, Understood
<1>4. ASSUME NEW e \in Events, SyncStatus(e)
      PROVE  BillingInv'
    <2>1. Mapped(KindOf[e]) \in SubscriptionStatus
        <3>1. Understood(e) /\ KindOf[e] \notin {"checkout", "failed"}
            BY <1>4 DEF SyncStatus, BillingInv
        <3> QED
            BY <3>1 DEF Understood, Mapped, SubscriptionStatus
    <2>2. plan' \in Subscriptions
        BY <1>4, <2>1, StatusIsSet DEF SyncStatus
    <2> QED
        BY <1>4, <2>2 DEF SyncStatus, BillingInv, Understood
<1>5. ASSUME NEW e \in Events, PaymentFailed(e)
      PROVE  BillingInv'
    <2>1. "past_due" \in SubscriptionStatus
        BY DEF SubscriptionStatus
    <2>2. plan' \in Subscriptions
        BY <1>5, <2>1, StatusIsSet DEF PaymentFailed
    <2> QED
        BY <1>5, <2>2 DEF PaymentFailed, BillingInv, Understood
<1>6. ASSUME NEW e \in Events, Acknowledged(e)
      PROVE  BillingInv'
    BY <1>6 DEF Acknowledged, BillingInv, Understood
<1>7. ASSUME NEW e \in Events, HandlerFails(e)
      PROVE  BillingInv'
    BY <1>7 DEF HandlerFails, BillingInv, Understood
<1>8. CASE Opens
    BY <1>8, SubscriptionIs DEF Opens, BillingInv, Understood
<1>9. CASE UNCHANGED billVars
    BY <1>9 DEF billVars, BillingInv, Understood
<1> QED
    BY <1>1, <1>2, <1>3, <1>4, <1>5, <1>6, <1>7, <1>8, <1>9 DEF BillingNext, Handles

\* Stripe's events leave the subscription well typed, and a failed payment no
\* more alerts than one and one for each error.
THEOREM BillingTypeCorrect == BillingSpec => []BillingTypeOK
BY BillingInvInit, BillingInvNext, BillingInvType, PTL DEF BillingSpec

-----------------------------------------------------------------------------
(* Alerts *)

LEMMA PlacesAre ==
    ASSUME AlertsTypeOK
    PROVE  Live \subseteq Places /\ Places \subseteq Nat \ {0} /\ IsFiniteSet(Live)
<1>1. DOMAIN reports = 1..Len(reports) /\ Len(reports) \in Nat /\ Len(reports) <= MaxReports
    BY DEF AlertsTypeOK
<1>2. Live \subseteq Places
    BY <1>1, AlertsAssumption DEF Live, Places
<1>3. IsFiniteSet(Places)
    BY AlertsAssumption, FS_Interval DEF Places
<1>4. Places \subseteq Nat \ {0}
    BY AlertsAssumption DEF Places
<1> QED
    BY <1>2, <1>3, <1>4, FS_Subset

\* The latest of the reports is one of them.
LEMMA LatestIs ==
    ASSUME AlertsTypeOK, Cardinality(Live) >= 2
    PROVE  Latest \in Places
<1>1. Live \subseteq Places /\ Places \subseteq Nat /\ IsFiniteSet(Live)
    BY PlacesAre
<1>2. Live # {}
    BY FS_EmptySet
<1> DEFINE ages == {MaxReports - p : p \in Live}
<1>3. ages \in SUBSET Nat /\ ages # {}
    <2>1. \A p \in Live : MaxReports - p \in Nat
        BY <1>1, AlertsAssumption DEF Places
    <2> QED
        BY <1>2, <2>1
<1>4. PICK n \in ages : \A m \in ages : n <= m
    BY <1>3, LeastIs
<1>5. PICK p \in Live : n = MaxReports - p
    OBVIOUS
<1>6. \A q \in Live : q <= p
    <2>1. \A q \in Live : MaxReports - p <= MaxReports - q
        BY <1>4, <1>5
    <2> QED
        BY <1>1, <2>1, AlertsAssumption DEF Places
<1>7. Latest \in Live
    BY <1>5, <1>6 DEF Latest
<1> QED
    BY <1>1, <1>7

LEMMA FoundIs ==
    ASSUME AlertsTypeOK
    PROVE  Found \in SUBSET AlertRows
<1>1. Increased => Latest \in Places
    BY LatestIs DEF Increased
<1> QED
    BY <1>1 DEF Found, AlertRows

LEMMA RowsAreFinite ==
    ASSUME NEW new \in SUBSET AlertRows
    PROVE  IsFiniteSet(new) /\ Cardinality(new) \in Nat
<1> DEFINE row == [p \in 0..MaxReports |-> IF p = 0 THEN [type |-> "confidence_drop"]
                                           ELSE [type |-> "emission_increase", report |-> p]]
<1>1. IsFiniteSet(0..MaxReports)
    BY AlertsAssumption, FS_Interval
<1>2. row \in Surjection(0..MaxReports, AlertRows)
    <2>1. row \in [0..MaxReports -> AlertRows]
        BY AlertsAssumption DEF AlertRows, Places
    <2>2. ASSUME NEW a \in AlertRows
          PROVE  \E p \in 0..MaxReports : row[p] = a
        <3>1. CASE a \in [type : {"emission_increase"}, report : Places]
            <4>1. a.report \in 0..MaxReports /\ a.report # 0 /\ a = [type |-> "emission_increase", report |-> a.report]
                BY <3>1, AlertsAssumption DEF Places
            <4> QED
                BY <4>1
        <3>2. CASE a \in [type : {"confidence_drop"}]
            BY <3>2, AlertsAssumption
        <3> QED
            BY <3>1, <3>2 DEF AlertRows
    <2> QED
        BY <2>1, <2>2 DEF Surjection
<1>3. IsFiniteSet(AlertRows)
    BY <1>1, <1>2, FS_Surjection
<1> QED
    BY <1>3, FS_Subset, FS_CardinalityType

\* New alerts go before the latest ones, of which no more than the window are kept.
LEMMA CommitKeepsWindow ==
    ASSUME AlertsTypeOK, NEW new \in SUBSET AlertRows, Commit(new)
    PROVE  /\ alerts' \in Seq(AlertRows) /\ Len(alerts') <= Window
           /\ named' \subseteq Places
<1>1. IsFiniteSet(new) /\ Cardinality(new) \in Nat
    BY RowsAreFinite
<1>2. SetToSeq(new) \in Seq(AlertRows) /\ Len(SetToSeq(new)) = Cardinality(new)
    <2>1. \E f \in [1..Cardinality(new) -> new] : IsInjective(f)
        BY <1>1, FS_CardinalityType DEF ExistsBijection, Bijection, Injection
    <2>2. SetToSeq(new) \in [1..Cardinality(new) -> new]
        BY <2>1 DEF SetToSeq
    <2> QED
        BY <1>1, <2>2
<1> DEFINE all == SetToSeq(new) \o alerts
           n == IF Len(alerts) + Cardinality(new) < Window THEN Len(alerts) + Cardinality(new) ELSE Window
<1>3. alerts \in Seq(AlertRows) /\ Len(alerts) \in Nat /\ Window \in Nat
    BY AlertsAssumption DEF AlertsTypeOK
<1>4. all \in Seq(AlertRows) /\ Len(all) = Cardinality(new) + Len(alerts)
    BY <1>2, <1>3, ConcatProperties
<1>5. alerts' = SubSeq(all, 1, n)
    BY DEF Commit
<1>6. n \in Nat /\ n <= Window /\ n <= Len(all)
    BY <1>1, <1>3, <1>4
<1> HIDE DEF all, n
<1>7. alerts' \in Seq(AlertRows) /\ Len(alerts') <= Window
    <2>1. \A i \in 1..n : all[i] \in AlertRows
        BY <1>4, <1>6
    <2>2. /\ SubSeq(all, 1, n) \in Seq(AlertRows)
          /\ Len(SubSeq(all, 1, n)) = IF 1 <= n THEN n - 1 + 1 ELSE 0
        BY <1>6, <2>1, SubSeqProperties
    <2> QED
        BY <1>3, <1>5, <1>6, <2>2
<1>8. {a.report : a \in {x \in new : x.type = "emission_increase"}} \subseteq Places
    BY DEF AlertRows
<1> QED
    BY <1>7, <1>8 DEF Commit, AlertsTypeOK

LEMMA PublishType ==
    ASSUME AlertsTypeOK, NEW h, Publish(h)
    PROVE  inbox' \in [Browsers -> 0..QueueSize \cup {Gone}]
BY AlertsAssumption DEF AlertsTypeOK, Publish

Steps == {Waiting, [at |-> "dead"]} \cup [at : {"kept"}, new : SUBSET AlertRows]

LEMMA AtStepType ==
    ASSUME AlertsTypeOK, NEW c \in Checkers, NEW step \in Steps, AtStep(c, step)
    PROVE  DOMAIN check' = Checkers /\ \A d \in Checkers : check'[d] \in Steps
BY DEF AlertsTypeOK, AtStep, Steps

LEMMA AlertsTypeInit == AlertsInit => AlertsTypeOK
BY AlertsAssumption DEF AlertsInit, AlertsTypeOK, Checkers

LEMMA HourlyType ==
    ASSUME AlertsTypeOK, NEW r \in Replicas, HourlyChecks(r), lock' \in Checkers
    PROVE  AlertsTypeOK'
<1>1. CASE UNCHANGED <<check, inbox>>
    BY <1>1 DEF HourlyChecks, AlertsTypeOK
<1>2. CASE ~ UNCHANGED <<check, inbox>>
    <2> DEFINE kept == {a \in Found : Fresh(a)}
    <2>1. AtStep(r, [at |-> "kept", new |-> kept]) /\ Publish(r)
        BY <1>2 DEF HourlyChecks
    <2>2. [at |-> "kept", new |-> kept] \in Steps /\ r \in Checkers
        BY FoundIs DEF Steps, Checkers
    <2>3. DOMAIN check' = Checkers /\ \A d \in Checkers : check'[d] \in Steps
        BY <2>1, <2>2, AtStepType
    <2>4. inbox' \in [Browsers -> 0..QueueSize \cup {Gone}]
        BY <2>1, PublishType
    <2> QED
        BY <2>3, <2>4 DEF HourlyChecks, AlertsTypeOK, Steps
<1> QED
    BY <1>1, <1>2

LEMMA AlertsTypeNext == AlertsTypeOK /\ [AlertsNext]_alertVars => AlertsTypeOK'
<1> SUFFICES ASSUME AlertsTypeOK, [AlertsNext]_alertVars PROVE AlertsTypeOK'
    OBVIOUS
<1>1. ASSUME NEW row \in ReportRows, ReportArrives(row)
      PROVE  AlertsTypeOK'
    BY <1>1, AlertsAssumption DEF AlertsTypeOK, ReportArrives
<1>2. ASSUME NEW p \in Places, ReportDeleted(p)
      PROVE  AlertsTypeOK'
    BY <1>2 DEF AlertsTypeOK, ReportDeleted, Live
<1>3. ASSUME NEW b \in Browsers, Subscribe(b) \/ Receive(b) \/ Disconnect(b)
      PROVE  AlertsTypeOK'
    <2>1. inbox' \in [Browsers -> 0..QueueSize \cup {Gone}]
        <3>1. inbox \in [Browsers -> 0..QueueSize \cup {Gone}] /\ QueueSize \in Nat
            BY AlertsAssumption DEF AlertsTypeOK
        <3>2. CASE Subscribe(b)
            BY <3>1, <3>2 DEF Subscribe
        <3>3. CASE Receive(b)
            <4>1. inbox[b] \in 0..QueueSize /\ inbox[b] - 1 \in 0..QueueSize
                BY <3>1, <3>3 DEF Receive
            <4> QED
                BY <3>1, <3>3, <4>1 DEF Receive
        <3>4. CASE Disconnect(b)
            BY <3>1, <3>4 DEF Disconnect
        <3> QED
            BY <1>3, <3>2, <3>3, <3>4
    <2> QED
        BY <1>3, <2>1 DEF AlertsTypeOK, Subscribe, Receive, Disconnect
<1>4. ASSUME NEW r \in Replicas, WithLock(r) \/ FailsOpen(r)
      PROVE  AlertsTypeOK'
    <2>1. HourlyChecks(r) /\ lock' \in Checkers
        BY <1>4 DEF WithLock, FailsOpen, Checkers, AlertsTypeOK
    <2> QED
        BY <2>1, HourlyType
<1>5. ASSUME NEW c \in Checkers, check[c].at = "kept"
      PROVE  check[c].new \in SUBSET AlertRows
    BY <1>5 DEF AlertsTypeOK, Waiting
<1>6. Waiting \in Steps /\ [at |-> "dead"] \in Steps /\ Admin \in Checkers /\ Replicas \subseteq Checkers
    BY DEF Steps, Checkers
<1>7. ASSUME NEW r \in Replicas, HourlyCommits(r)
      PROVE  AlertsTypeOK'
    <2>1. Commit(check[r].new) /\ AtStep(r, Waiting) /\ check[r].new \in SUBSET AlertRows
        BY <1>5, <1>6, <1>7 DEF HourlyCommits
    <2> QED
        BY <1>6, <1>7, <2>1, CommitKeepsWindow, AtStepType DEF HourlyCommits, AlertsTypeOK, Steps
<1>8. ASSUME NEW h \in Replicas, AdminCommits(h)
      PROVE  AlertsTypeOK'
    <2>1. /\ Commit(check[Admin].new) /\ AtStep(Admin, Waiting) /\ Publish(h)
          /\ check[Admin].new \in SUBSET AlertRows
        BY <1>5, <1>6, <1>8 DEF AdminCommits
    <2> QED
        BY <1>6, <1>8, <2>1, CommitKeepsWindow, AtStepType, PublishType DEF AdminCommits, AlertsTypeOK, Steps
<1>9. CASE AdminChecks
    <2>1. AtStep(Admin, [at |-> "kept", new |-> Found]) /\ [at |-> "kept", new |-> Found] \in Steps
        BY <1>9, FoundIs DEF AdminChecks, Steps
    <2> QED
        BY <1>6, <1>9, <2>1, AtStepType DEF AdminChecks, AlertsTypeOK, Steps
<1>10. ASSUME NEW c \in Checkers, CheckFails(c)
       PROVE  AlertsTypeOK'
    BY <1>6, <1>10, AtStepType, AlertsAssumption DEF CheckFails, AlertsTypeOK, Steps
<1>11. ASSUME NEW r \in Replicas, LoopDies(r)
       PROVE  AlertsTypeOK'
    BY <1>6, <1>11, AtStepType DEF LoopDies, AlertsTypeOK, Steps
<1>12. ASSUME NEW h \in Replicas, Acknowledge(h)
       PROVE  AlertsTypeOK'
    BY <1>12, PublishType DEF Acknowledge, AlertsTypeOK
<1>13. CASE LockRunsOut \/ UNCHANGED alertVars
    BY <1>6, <1>13 DEF LockRunsOut, AlertsTypeOK, alertVars
<1> QED
    BY <1>1, <1>2, <1>3, <1>4, <1>7, <1>8, <1>9, <1>10, <1>11, <1>12, <1>13 DEF AlertsNext, HourlyCheck

\* The alerts are well typed in every reachable state: what is dropped as a
\* duplicate is looked for in no more rows than the window has, and no queue
\* outgrows its limit.
THEOREM AlertsTypeCorrect == AlertsSpec => []AlertsTypeOK
BY AlertsTypeInit, AlertsTypeNext, PTL DEF AlertsSpec

-----------------------------------------------------------------------------
(* Billing and Alerts *)

\* Stripe's events and the alerts side by side are well typed, for any numbers
\* of events, replicas, reports and browsers.
THEOREM NoticesTypeCorrect == NoticesSpec => []NoticesTypeOK
<1> DEFINE Inv == BillingInv /\ AlertsTypeOK
<1>1. NoticesInit => Inv
    BY BillingInvInit, AlertsTypeInit DEF NoticesInit
<1>2. Inv /\ [NoticesNext]_noticeVars => Inv'
    <2>1. [NoticesNext]_noticeVars => [BillingNext]_billVars /\ [AlertsNext]_alertVars
        BY DEF NoticesNext, InBilling, InAlerts, noticeVars
    <2> QED
        BY <2>1, BillingInvNext, AlertsTypeNext
<1>3. Inv => NoticesTypeOK
    BY BillingInvType DEF NoticesTypeOK
<1> QED
    BY <1>1, <1>2, <1>3, PTL DEF NoticesSpec
=============================================================================
