----------------------------- MODULE Membership -----------------------------
(***************************************************************************)
(* Who belongs to which company: registration, invitations, roles, the     *)
(* removal of members, and the deletion of accounts and companies' data.   *)
(*                                                                         *)
(* A request loads the user it acts for and what it checks, and commits    *)
(* all its writes at once; between the two, others commit.  The unique key *)
(* on addresses, and foreign keys, make a commit fail.  Requests that are  *)
(* refused, and those that fail, have no effect.                           *)
(***************************************************************************)
EXTENDS Integers, FiniteSets, Sequences

CONSTANTS
    Visits,       \* the requests that may be in progress at once
    Persons,      \* the ids that users may get
    Emails,
    Companies,
    MaxInvites,   \* bound on invitations
    Founder,      \* the user, the address
    FounderEmail, \* and the company that are there at first
    FirstCompany,
    NoUser,       \* the id has not been given to anybody yet
    Purged,       \* its row has been deleted
    Tombstone     \* an address deleted_..., which nobody else has

Roles == {"admin", "member"}

\* is_active is false exactly for those that are deleted.
UserRows == [email : Emails \cup {Tombstone}, company : Companies, role : Roles, deleted : BOOLEAN]

ASSUME MembershipAssumption ==
    /\ Founder \in Persons /\ FounderEmail \in Emails /\ FirstCompany \in Companies
    /\ Tombstone \notin Emails
    /\ {NoUser, Purged} \cap UserRows = {} /\ NoUser # Purged
    /\ MaxInvites \in Nat

VARIABLES
    users,     \* [Persons -> the user's row, NoUser or Purged]
    founded,   \* the companies that have been created
    served,    \* those whose subscription and data are there
    invites,   \* sequence of invitations
    visit      \* what each request has loaded, or Idle

memberVars == <<users, founded, served, invites, visit>>

\* An invitation that has expired is no longer open.
Invitations ==
    [company : Companies, email : Emails, role : Roles, by : Persons, status : {"open", "accepted", "expired"}]

Here == [op |-> "idle"]

Rows        == {u \in Persons : users[u] \notin {NoUser, Purged}}
Undeleted   == {u \in Rows : ~ users[u].deleted}
Members(c)  == {u \in Undeleted : users[u].company = c}
Admins(c)   == {u \in Members(c) : users[u].role = "admin"}
HasEmail(e) == {u \in Rows : users[u].email = e}
FounderRow     == [email |-> FounderEmail, company |-> FirstCompany, role |-> "admin", deleted |-> FALSE]

MembershipInit ==
    /\ users = [u \in Persons |-> IF u = Founder THEN FounderRow ELSE NoUser]
    /\ founded = {FirstCompany} /\ served = {FirstCompany}
    /\ invites = <<>>
    /\ visit = [v \in Visits |-> Here]

-----------------------------------------------------------------------------
Starts(v, request) ==
    /\ visit[v] = Here
    /\ visit' = [visit EXCEPT ![v] = request]
    /\ UNCHANGED <<users, founded, served, invites>>

Finishes(v) == visit' = [visit EXCEPT ![v] = Here]

\* The process dies, or a constraint makes the commit fail.
Fails(v) ==
    /\ visit[v] # Here
    /\ Finishes(v)
    /\ UNCHANGED <<users, founded, served, invites>>

\* require_admin: the role, and the company, are those of this moment.
IsAdmin(u) == u \in Undeleted /\ users[u].role = "admin"

\* A row for a new user; the unique key refuses an address in use.
Insert(u, row) ==
    /\ users[u] = NoUser
    /\ HasEmail(row.email) = {}
    /\ users' = [users EXCEPT ![u] = row]

\* The address and the name make room; the row stays.
SoftDelete(u) ==
    /\ u \in Rows
    /\ users' = [users EXCEPT ![u].deleted = TRUE, ![u].email = Tombstone]

-----------------------------------------------------------------------------
\* Accounts

RegisterChecks(v, email) == HasEmail(email) = {} /\ Starts(v, [op |-> "found", email |-> email])

\* google_verify looks at undeleted users only.
GoogleChecks(v, email) ==
    /\ HasEmail(email) \cap Undeleted = {}
    /\ Starts(v, [op |-> "found", email |-> email])

\* Wrong on purpose: the subscription is committed before the company
RegisterCommitsHalf(v, u, c) ==
    /\ visit[v].op = "found"
    /\ c \notin founded
    /\ served' = served \cup {c}
    /\ Finishes(v)
    /\ UNCHANGED <<users, founded, invites>>

\* The company, its administrator and its subscription, or none of them.
RegisterCommits(v, u, c) ==
    /\ visit[v].op = "found"
    /\ c \notin founded
    /\ Insert(u, [email |-> visit[v].email, company |-> c, role |-> "admin", deleted |-> FALSE])
    /\ founded' = founded \cup {c} /\ served' = served \cup {c}
    /\ Finishes(v)
    /\ UNCHANGED invites

ProfileChecks(v, u, email) ==
    /\ u \in Undeleted
    /\ HasEmail(email) = {}
    /\ Starts(v, [op |-> "profile", of |-> u, email |-> email])

ProfileCommits(v) ==
    /\ visit[v].op = "profile"
    /\ visit[v].of \in Rows
    /\ HasEmail(visit[v].email) = {}
    /\ users' = [users EXCEPT ![visit[v].of].email = visit[v].email]
    /\ Finishes(v)
    /\ UNCHANGED <<founded, served, invites>>

DeleteStarts(v, u) == u \in Undeleted /\ Starts(v, [op |-> "delete", of |-> u])

DeleteCommits(v) ==
    /\ visit[v].op = "delete"
    /\ SoftDelete(visit[v].of)
    /\ Finishes(v)
    /\ UNCHANGED <<founded, served, invites>>

\* The administrator of any company may purge; the company's data go with its
\* last user.
PurgeChecks(v, admin, u) ==
    /\ IsAdmin(admin)
    /\ u \in Rows \ Undeleted
    /\ Starts(v, [op |-> "purge", of |-> u, company |-> users[u].company,
                  last |-> Members(users[u].company) \ {u} = {}])

\* Invitations refer to whoever has sent them.
PurgeCommits(v) ==
    /\ visit[v].op = "purge"
    /\ \A i \in DOMAIN invites : invites[i].by # visit[v].of
    /\ users' = [users EXCEPT ![visit[v].of] = Purged]
    /\ served' = IF visit[v].last THEN served \ {visit[v].company} ELSE served
    /\ Finishes(v)
    /\ UNCHANGED <<founded, invites>>

-----------------------------------------------------------------------------
\* The team

InviteChecks(v, admin, email, role) ==
    /\ IsAdmin(admin)
    /\ HasEmail(email) \cap Members(users[admin].company) = {}
    /\ \A i \in DOMAIN invites :
          ~ (invites[i].email = email /\ invites[i].company = users[admin].company /\ invites[i].status = "open")
    /\ Starts(v, [op |-> "invite", by |-> admin, company |-> users[admin].company, email |-> email, role |-> role])

InviteCommits(v) ==
    /\ visit[v].op = "invite"
    /\ Len(invites) < MaxInvites
    /\ visit[v].by \in Rows
    /\ invites' = Append(invites, [company |-> visit[v].company, email |-> visit[v].email, role |-> visit[v].role,
                                   by |-> visit[v].by, status |-> "open"])
    /\ Finishes(v)
    /\ UNCHANGED <<users, founded, served>>

AcceptChecks(v, i) ==
    /\ invites[i].status = "open"
    /\ HasEmail(invites[i].email) \cap Undeleted = {}
    /\ Starts(v, [op |-> "accept", invite |-> i])

AcceptCommits(v, u) ==
    /\ visit[v].op = "accept"
    /\ LET i == visit[v].invite
       IN  /\ Insert(u, [email |-> invites[i].email, company |-> invites[i].company,
                         role |-> invites[i].role, deleted |-> FALSE])
           /\ invites' = [invites EXCEPT ![i].status = "accepted"]
    /\ Finishes(v)
    /\ UNCHANGED <<founded, served>>

InviteExpires(i) ==
    /\ invites[i].status = "open"
    /\ invites' = [invites EXCEPT ![i].status = "expired"]
    /\ UNCHANGED <<users, founded, served, visit>>

\* Wrong on purpose: administrators may act on themselves
RoleChecksAnybody(v, admin, u, role) ==
    /\ IsAdmin(admin)
    /\ u \in Members(users[admin].company)
    /\ Starts(v, [op |-> "role", by |-> admin, of |-> u, role |-> role, loaded |-> users[u].role])

RoleChecks(v, admin, u, role) ==
    /\ IsAdmin(admin) /\ u # admin
    /\ u \in Members(users[admin].company)
    /\ Starts(v, [op |-> "role", by |-> admin, of |-> u, role |-> role, loaded |-> users[u].role])

\* A role that was loaded with this value is not written.
RoleCommits(v) ==
    /\ visit[v].op = "role"
    /\ visit[v].of \in Rows
    /\ users' = IF visit[v].role = visit[v].loaded THEN users
                ELSE [users EXCEPT ![visit[v].of].role = visit[v].role]
    /\ Finishes(v)
    /\ UNCHANGED <<founded, served, invites>>

RemoveChecks(v, admin, u) ==
    /\ IsAdmin(admin) /\ u # admin
    /\ u \in Members(users[admin].company)
    /\ Starts(v, [op |-> "remove", by |-> admin, of |-> u])

RemoveCommits(v) ==
    /\ visit[v].op = "remove"
    /\ SoftDelete(visit[v].of)
    /\ Finishes(v)
    /\ UNCHANGED <<founded, served, invites>>

-----------------------------------------------------------------------------
Checks(v) ==
    \/ \E e \in Emails : RegisterChecks(v, e) \/ GoogleChecks(v, e)
    \/ \E u \in Persons, e \in Emails : ProfileChecks(v, u, e)
    \/ \E u \in Persons : DeleteStarts(v, u)
    \/ \E a, u \in Persons : PurgeChecks(v, a, u) \/ RemoveChecks(v, a, u)
    \/ \E a \in Persons, e \in Emails, role \in Roles : InviteChecks(v, a, e, role)
    \/ \E i \in DOMAIN invites : AcceptChecks(v, i)
    \/ \E a, u \in Persons, role \in Roles : RoleChecks(v, a, u, role)

Completes(v) ==
    \/ \E u \in Persons, c \in Companies : RegisterCommits(v, u, c)
    \/ ProfileCommits(v) \/ DeleteCommits(v) \/ PurgeCommits(v)
    \/ InviteCommits(v) \/ \E u \in Persons : AcceptCommits(v, u)
    \/ RoleCommits(v) \/ RemoveCommits(v)

MembershipNext ==
    \/ \E v \in Visits : Checks(v) \/ Completes(v) \/ Fails(v)
    \/ \E i \in DOMAIN invites : InviteExpires(i)

MembershipSpec == MembershipInit /\ [][MembershipNext]_memberVars

-----------------------------------------------------------------------------
VisitRecords ==
    {Here}
    \cup [op : {"found"}, email : Emails]
    \cup [op : {"profile"}, of : Persons, email : Emails]
    \cup [op : {"delete"}, of : Persons]
    \cup [op : {"purge"}, of : Persons, company : Companies, last : BOOLEAN]
    \cup [op : {"invite"}, by : Persons, company : Companies, email : Emails, role : Roles]
    \cup [op : {"accept"}, invite : DOMAIN invites]
    \cup [op : {"role"}, by : Persons, of : Persons, role : Roles, loaded : Roles]
    \cup [op : {"remove"}, by : Persons, of : Persons]

MembershipTypeOK ==
    /\ users \in [Persons -> UserRows \cup {NoUser, Purged}]
    /\ served \subseteq founded /\ founded \subseteq Companies
    /\ invites \in Seq(Invitations) /\ Len(invites) <= MaxInvites
    /\ visit \in [Visits -> VisitRecords]

\* Nobody can change the own role, nor remove oneself: a company loses its
\* last administrator only if that one deletes the own account, or if whoever
\* demotes or removes that one has ceased to be administrator since the check.
AdminsRemain ==
    [][\A c \in Companies : Admins(c) # {} /\ Admins(c)' = {} =>
          \E v \in Visits :
             /\ visit'[v] = Here
             /\ \/ visit[v].op = "delete"
                \/ visit[v].op \in {"role", "remove"} /\ visit[v].by \notin Admins(c)]_memberVars

=============================================================================
