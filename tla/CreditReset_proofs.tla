------------------------- MODULE CreditReset_proofs -------------------------
(***************************************************************************)
(* Machine-checked proofs about CreditReset, for any number of replicas    *)
(* and companies and any calendar.                                         *)
(***************************************************************************)
EXTENDS CreditReset, TLAPS

(***************************************************************************)
(* The calendar.                                                           *)
(***************************************************************************)

\* When month m begins; its first day lasts until Start(m) + Day.
Start(m) == Day * (DaysPerMonth * m)

\* A quotient and a remainder are unique.
LEMMA DivisionIsUnique ==
    ASSUME NEW d \in Nat \ {0}, NEW a \in Int, NEW b \in Int, NEW s \in 0..(d - 1), NEW u \in 0..(d - 1),
           d * a + s = d * b + u
    PROVE  a = b /\ s = u
<1>1. d * (a - b) = u - s /\ d * (b - a) = s - u
  OBVIOUS
<1>2. \A x \in Nat : x >= 1 => d * x >= d
  OBVIOUS
<1>3. ~(a - b >= 1)
  BY <1>1, <1>2
<1>4. ~(b - a >= 1)
  BY <1>1, <1>2
<1>5. QED
  BY <1>1, <1>3, <1>4

\* Quotient and remainder, as the provers know them.
LEMMA Division ==
    ASSUME NEW t \in Nat, NEW d \in Nat \ {0}
    PROVE  /\ t \div d \in Nat /\ t % d \in 0..(d - 1)
           /\ t = d * (t \div d) + (t % d)
OBVIOUS

\* How to recognise a quotient and a remainder.
LEMMA QuotientIs ==
    ASSUME NEW t \in Nat, NEW d \in Nat \ {0}, NEW a \in Int, NEW s \in 0..(d - 1), t = d * a + s
    PROVE  t \div d = a /\ t % d = s
<1> DEFINE b == t \div d
           u == t % d
<1>1. b \in Int /\ u \in 0..(d - 1) /\ d * b + u = d * a + s
  BY Division, SMTT(40)
<1> HIDE DEF b, u
<1>2. b = a /\ u = s
  BY <1>1, DivisionIsUnique
<1>3. QED
  BY <1>2 DEF b, u

\* The first of the month is the first day of a month.
LEMMA FirstDay ==
    ASSUME NEW t \in Nat, DayOf(t) = 1
    PROVE  MonthOf(t) \in Nat /\ Start(MonthOf(t)) <= t /\ t < Start(MonthOf(t)) + Day
<1> DEFINE a == t \div Day
           s == t % Day
           b == a \div DaysPerMonth
           k == t \div (Day * DaysPerMonth)
           v == t % (Day * DaysPerMonth)
<1>1. Day \in Nat \ {0} /\ DaysPerMonth \in Nat \ {0}
  BY CreditResetAssumption
<1>2. Day * DaysPerMonth \in Nat \ {0} /\ Day <= Day * DaysPerMonth
  BY <1>1
<1>3. a \in Nat /\ s \in 0..(Day - 1) /\ t = Day * a + s
  BY <1>1, Division
<1>4. b \in Nat /\ a = DaysPerMonth * b
  <2>1. a % DaysPerMonth = 0
    <3>1. a % DaysPerMonth \in Int /\ (a % DaysPerMonth) + 1 = 1
      BY <1>1, <1>3, Division DEF DayOf
    <3>2. QED
      BY <3>1
  <2>2. a = DaysPerMonth * b + (a % DaysPerMonth) /\ b \in Nat
    BY <1>1, <1>3, Division
  <2>3. QED
    BY <1>1, <2>1, <2>2
<1>5. k \in Nat /\ v \in 0..(Day * DaysPerMonth - 1) /\ t = (Day * DaysPerMonth) * k + v
  BY <1>2, Division
<1> HIDE DEF a, s, b, k, v
<1>6. t = (Day * DaysPerMonth) * b + s
  BY <1>1, <1>3, <1>4
<1>7. s \in 0..(Day * DaysPerMonth - 1)
  BY <1>1, <1>2, <1>3
<1>8. k = b
  BY <1>2, <1>4, <1>5, <1>6, <1>7, DivisionIsUnique
<1>9. QED
  BY <1>1, <1>3, <1>4, <1>8 DEF MonthOf, Start, k

\* A time of the first day of m has m as its month and 1 as its day.
LEMMA FirstDayOf ==
    ASSUME NEW t \in Nat, NEW m \in Nat, Start(m) <= t, t < Start(m) + Day
    PROVE  DayOf(t) = 1 /\ MonthOf(t) = m
<1> DEFINE s == t - Start(m)
<1>1. Day \in Nat \ {0} /\ DaysPerMonth \in Nat \ {0}
  BY CreditResetAssumption
<1>2. Day * DaysPerMonth \in Nat \ {0} /\ Day <= Day * DaysPerMonth
  BY <1>1
<1>3. Start(m) \in Nat /\ DaysPerMonth * m \in Nat
  BY <1>1 DEF Start
<1>4. s \in 0..(Day - 1) /\ t = Day * (DaysPerMonth * m) + s
  BY <1>1, <1>3 DEF Start
<1> HIDE DEF s
<1>5. t \div Day = DaysPerMonth * m
  <2> DEFINE a == DaysPerMonth * m
  <2>1. a \in Nat /\ t = Day * a + s
    BY <1>3, <1>4
  <2> HIDE DEF a
  <2>2. t \div Day = a
    BY <1>1, <1>4, <2>1, QuotientIs
  <2>3. QED
    BY <2>2 DEF a
<1>6. (DaysPerMonth * m) % DaysPerMonth = 0
  <2>1. DaysPerMonth * m = DaysPerMonth * m + 0 /\ 0 \in 0..(DaysPerMonth - 1)
    BY <1>1
  <2>2. QED
    BY <1>1, <1>3, <2>1, QuotientIs, SMTT(40)
<1>7. t = (Day * DaysPerMonth) * m + s /\ s \in 0..(Day * DaysPerMonth - 1)
  BY <1>1, <1>2, <1>4
<1>8. t \div (Day * DaysPerMonth) = m
  BY <1>2, <1>7, QuotientIs
<1>9. QED
  BY <1>5, <1>6, <1>8 DEF DayOf, MonthOf

\* Months are DaysPerMonth days apart.
LEMMA LaterMonth ==
    ASSUME NEW m \in Nat, NEW n \in Nat, m < n
    PROVE  Start(m) + Day * DaysPerMonth <= Start(n)
<1>1. Day \in Nat \ {0} /\ DaysPerMonth \in Nat \ {0}
  BY CreditResetAssumption
<1>2. \A x \in Nat, d \in Nat : x >= 1 => d * x >= d
  OBVIOUS
<1>3. n - m \in Nat /\ n - m >= 1 /\ Day * DaysPerMonth \in Nat
  BY <1>1
<1>4. (Day * DaysPerMonth) * (n - m) >= Day * DaysPerMonth
  BY <1>2, <1>3
<1>5. (Day * DaysPerMonth) * (n - m) = Start(n) - Start(m)
  BY <1>1 DEF Start
<1>6. Start(n) \in Int /\ Start(m) \in Int
  BY <1>1 DEF Start
<1>7. QED
  BY <1>3, <1>4, <1>5, <1>6

\* Every time up to the horizon is in one of the Months.
LEMMA MonthInRange == ASSUME NEW t \in 0..Horizon PROVE MonthOf(t) \in Months
<1> DEFINE d == Day * DaysPerMonth
<1>1. d \in Nat \ {0} /\ Horizon \in Nat
  BY CreditResetAssumption
<1> HIDE DEF d
<1>2. /\ t \div d \in Nat /\ t % d \in 0..(d - 1) /\ t = d * (t \div d) + (t % d)
      /\ Horizon \div d \in Nat /\ Horizon % d \in 0..(d - 1)
      /\ Horizon = d * (Horizon \div d) + (Horizon % d)
  BY <1>1, Division
<1>3. t \div d <= Horizon \div d
  <2> SUFFICES ASSUME (t \div d) - (Horizon \div d) >= 1 PROVE FALSE
    BY <1>2
  <2>1. \A x \in Nat : x >= 1 => d * x >= d
    BY <1>1
  <2>2. d * ((t \div d) - (Horizon \div d)) >= d
    BY <1>2, <2>1
  <2>3. d * ((t \div d) - (Horizon \div d)) = d * (t \div d) - d * (Horizon \div d)
    BY <1>1, <1>2
  <2>4. d * (t \div d) \in Int /\ d * (Horizon \div d) \in Int
    BY <1>1, <1>2
  <2>5. QED
    BY <1>1, <1>2, <2>2, <2>3, <2>4
<1>4. QED
  BY <1>2, <1>3 DEF MonthOf, Months, d

(***************************************************************************)
(* Type correctness.                                                       *)
(***************************************************************************)

\* With the types: a replica in the middle of a company is at one.
TypeInv ==
    /\ TypeOK
    /\ \A r \in Replicas : pc[r] \in {"insert", "read", "grant"} => at[r] \in Companies

\* Plan limits are natural numbers.
LEMMA LimitsAreNat == \A p : monthly_credits(p) \in Nat
BY DEF monthly_credits

\* The constants by themselves.
LEMMA ConstantsOK ==
    /\ LastCompany \in Nat /\ Horizon \in Nat /\ Lateness \in Nat /\ Spread \in Nat
    /\ MaxRequests \in Nat
    /\ Day \in Nat \ {0} /\ DaysPerMonth \in Nat \ {0}
    /\ LockTTL \in Nat \ {0} /\ LockTTL <= Day
    /\ None \notin Replicas /\ None \notin Plans /\ None \notin Months
BY CreditResetAssumption

\* The sessions that the actions build.
LEMMA CleanType ==
    ASSUME NEW m \in Months
    PROVE  /\ Clean(m) \in Sessions
           /\ Clean(m).month = m /\ Clean(m).opened = {} /\ Clean(m).granted = {}
           /\ Clean(m).done = {} /\ Clean(m).failed = {}
           /\ \A c \in Companies : Clean(m).delta[c] = 0
BY DEF Clean, Sessions

\* The calendar is never empty.
LEMMA ZeroIsAMonth == 0 \in Months
<1>1. Day * DaysPerMonth \in Nat \ {0} /\ Horizon \in Nat
  BY ConstantsOK
<1>2. Horizon \div (Day * DaysPerMonth) \in Nat
  BY <1>1, Division
<1>3. QED
  BY <1>2 DEF Months

\* What the steps on one company make of the session.
Inserted(s, c)   == [Add(s, c, monthly_credits("free")) EXCEPT !.opened = @ \cup {c}]
Granted(s, c, n) == [Add(s, c, n) EXCEPT !.granted = @ \cup {c}, !.done = @ \cup {c}]
Passed(s, c)     == [s EXCEPT !.done = @ \cup {c}]
Undone(s, c)     == [s EXCEPT !.opened = @ \ {c}, !.delta = [s.delta EXCEPT ![c] = 0],
                              !.failed = @ \cup {c}]
Conflicted(s, c) == [Clean(s.month) EXCEPT !.failed = s.failed \cup {c}]

\* Each of them field by field, and that it is a session again.
LEMMA InsertedType ==
    ASSUME NEW s \in Sessions, NEW c \in Companies
    PROVE  /\ Inserted(s, c) \in Sessions
           /\ Inserted(s, c).month = s.month
           /\ Inserted(s, c).done = s.done /\ Inserted(s, c).failed = s.failed
           /\ Inserted(s, c).granted = s.granted
           /\ Inserted(s, c).opened = s.opened \cup {c}
           /\ Inserted(s, c).delta[c] = s.delta[c] + monthly_credits("free")
           /\ \A d \in Companies : d # c => Inserted(s, c).delta[d] = s.delta[d]
<1>1. s.delta \in [Companies -> Nat] /\ s.delta[c] + monthly_credits("free") \in Nat
  BY LimitsAreNat DEF Sessions
<1>2. PICK f : f = [s.delta EXCEPT ![c] = s.delta[c] + monthly_credits("free")]
  OBVIOUS
<1>3. PICK g : g = s.opened \cup {c}
  OBVIOUS
<1>4. /\ f \in [Companies -> Nat] /\ f[c] = s.delta[c] + monthly_credits("free")
      /\ \A d \in Companies : d # c => f[d] = s.delta[d]
      /\ g \subseteq Companies
  BY <1>1, <1>2, <1>3 DEF Sessions
<1>5. Inserted(s, c) = [s EXCEPT !.delta = f, !.opened = g]
  BY <1>2, <1>3 DEF Inserted, Add, Sessions
<1>6. QED
  BY <1>3, <1>4, <1>5 DEF Sessions

\* A grant for a company.
LEMMA GrantedType ==
    ASSUME NEW s \in Sessions, NEW c \in Companies, NEW n \in Nat
    PROVE  /\ Granted(s, c, n) \in Sessions
           /\ Granted(s, c, n).month = s.month
           /\ Granted(s, c, n).done = s.done \cup {c} /\ Granted(s, c, n).failed = s.failed
           /\ Granted(s, c, n).granted = s.granted \cup {c}
           /\ Granted(s, c, n).opened = s.opened
           /\ Granted(s, c, n).delta[c] = s.delta[c] + n
           /\ \A d \in Companies : d # c => Granted(s, c, n).delta[d] = s.delta[d]
<1>1. s.delta \in [Companies -> Nat] /\ s.delta[c] + n \in Nat
  BY DEF Sessions
<1>2. PICK f : f = [s.delta EXCEPT ![c] = s.delta[c] + n]
  OBVIOUS
<1>3. PICK g, h : g = s.granted \cup {c} /\ h = s.done \cup {c}
  OBVIOUS
<1>4. /\ f \in [Companies -> Nat] /\ f[c] = s.delta[c] + n
      /\ \A d \in Companies : d # c => f[d] = s.delta[d]
      /\ g \subseteq Companies /\ h \subseteq Companies
  BY <1>1, <1>2, <1>3 DEF Sessions
<1>5. Granted(s, c, n) = [s EXCEPT !.delta = f, !.granted = g, !.done = h]
  BY <1>2, <1>3 DEF Granted, Add, Sessions
<1>6. QED
  BY <1>3, <1>4, <1>5 DEF Sessions

\* A company that misses nothing.
LEMMA PassedType ==
    ASSUME NEW s \in Sessions, NEW c \in Companies
    PROVE  /\ Passed(s, c) \in Sessions
           /\ Passed(s, c).month = s.month
           /\ Passed(s, c).done = s.done \cup {c} /\ Passed(s, c).failed = s.failed
           /\ Passed(s, c).granted = s.granted
           /\ Passed(s, c).opened = s.opened /\ Passed(s, c).delta = s.delta
BY DEF Passed, Sessions

\* A company's savepoint rolled back.
LEMMA UndoneType ==
    ASSUME NEW s \in Sessions, NEW c \in Companies
    PROVE  /\ Undone(s, c) \in Sessions
           /\ Undone(s, c).month = s.month
           /\ Undone(s, c).done = s.done /\ Undone(s, c).failed = s.failed \cup {c}
           /\ Undone(s, c).granted = s.granted
           /\ Undone(s, c).opened = s.opened \ {c}
           /\ Undone(s, c).delta[c] = 0
           /\ \A d \in Companies : d # c => Undone(s, c).delta[d] = s.delta[d]
<1>1. PICK f : f = [s.delta EXCEPT ![c] = 0]
  OBVIOUS
<1>2. PICK g, h : g = s.opened \ {c} /\ h = s.failed \cup {c}
  OBVIOUS
<1>3. /\ f \in [Companies -> Nat] /\ f[c] = 0
      /\ \A d \in Companies : d # c => f[d] = s.delta[d]
      /\ g \subseteq Companies /\ h \subseteq Companies
  BY <1>1, <1>2 DEF Sessions
<1>4. Undone(s, c) = [s EXCEPT !.opened = g, !.delta = f, !.failed = h]
  BY <1>1, <1>2 DEF Undone
<1>5. QED
  BY <1>2, <1>3, <1>4 DEF Sessions

\* The whole session rolled back.
LEMMA ConflictedType ==
    ASSUME NEW s \in Sessions, NEW c \in Companies
    PROVE  /\ Conflicted(s, c) \in Sessions
           /\ Conflicted(s, c).month = s.month
           /\ Conflicted(s, c).done = {} /\ Conflicted(s, c).failed = s.failed \cup {c}
           /\ Conflicted(s, c).granted = {} /\ Conflicted(s, c).opened = {}
           /\ \A d \in Companies : Conflicted(s, c).delta[d] = 0
BY DEF Conflicted, Sessions, Clean

\* The initial state is well typed.
LEMMA TypeInit == Init => TypeInv
<1> SUFFICES ASSUME Init PROVE TypeInv
  OBVIOUS
<1>1. sub \in [Companies -> Plans \cup {None}]
  BY DEF Init, Plans
<1>2. balance \in [Companies -> Nat]
  <2>1. balance \in [Companies -> {0} \cup OpeningBalances]
    BY DEF Init
  <2>2. {0} \cup OpeningBalances \subseteq Nat
    BY CreditResetAssumption
  <2>3. QED
    BY <2>1, <2>2
<1>3. wake \in [Replicas -> Nat]
  BY ConstantsOK DEF Init
<1>4. at \in [Replicas -> 1..(LastCompany + 1)]
  BY ConstantsOK DEF Init
<1>5. tx \in [Replicas -> Sessions]
  BY ZeroIsAMonth, CleanType DEF Init
<1>6. now \in 0..Horizon
  BY ConstantsOK DEF Init
<1>7. requests \in 0..MaxRequests
  BY ConstantsOK DEF Init
<1>8. QED
  BY <1>1, <1>2, <1>3, <1>4, <1>5, <1>6, <1>7 DEF Init, TypeInv, TypeOK

\* The steps on one company keep the sessions well formed.
LEMMA Inserts ==
    ASSUME TypeInv, NEW r \in Replicas, InsertSubscription(r)
    PROVE  /\ at[r] \in Companies /\ tx[r] \in Sessions
           /\ tx'[r] = Inserted(tx[r], at[r])
           /\ tx' \in [Replicas -> Sessions]
<1>1. at[r] \in Companies /\ tx[r] \in Sessions
  BY DEF InsertSubscription, TypeInv, TypeOK
<1>2. Inserted(tx[r], at[r]) \in Sessions
  BY <1>1, InsertedType
<1>3. tx' = [tx EXCEPT ![r] = Inserted(tx[r], at[r])]
  BY DEF InsertSubscription, SetSession, Inserted
<1>4. QED
  BY <1>1, <1>2, <1>3 DEF TypeInv, TypeOK

\* The same for the handler of the IntegrityError,
LEMMA Conflicts ==
    ASSUME TypeInv, NEW r \in Replicas, InsertConflict(r)
    PROVE  /\ at[r] \in Companies /\ tx[r] \in Sessions
           /\ tx'[r] = Conflicted(tx[r], at[r])
           /\ tx' \in [Replicas -> Sessions]
<1>1. at[r] \in Companies /\ tx[r] \in Sessions
  BY DEF InsertConflict, TypeInv, TypeOK
<1>2. Conflicted(tx[r], at[r]) \in Sessions
  BY <1>1, ConflictedType
<1>3. tx' = [tx EXCEPT ![r] = Conflicted(tx[r], at[r])]
  BY DEF InsertConflict, SetSession, Conflicted
<1>4. QED
  BY <1>1, <1>2, <1>3 DEF TypeInv, TypeOK

\* for a grant,
LEMMA Grants ==
    ASSUME TypeInv, NEW r \in Replicas, Grant(r)
    PROVE  /\ at[r] \in Companies /\ tx[r] \in Sessions /\ topUp[r] \in Nat
           /\ tx'[r] = Granted(tx[r], at[r], topUp[r])
           /\ tx' \in [Replicas -> Sessions]
<1>1. at[r] \in Companies /\ tx[r] \in Sessions /\ topUp[r] \in Nat
  BY DEF Grant, TypeInv, TypeOK
<1>2. Granted(tx[r], at[r], topUp[r]) \in Sessions
  BY <1>1, GrantedType
<1>3. tx' = [tx EXCEPT ![r] = Granted(tx[r], at[r], topUp[r])]
  BY DEF Grant, SetSession, Granted
<1>4. QED
  BY <1>1, <1>2, <1>3 DEF TypeInv, TypeOK

\* for a failing statement,
LEMMA Fails ==
    ASSUME TypeInv, NEW r \in Replicas, CompanyFails(r)
    PROVE  /\ at[r] \in Companies /\ tx[r] \in Sessions
           /\ tx'[r] = Undone(tx[r], at[r])
           /\ tx' \in [Replicas -> Sessions]
<1>1. at[r] \in Companies /\ tx[r] \in Sessions
  BY DEF CompanyFails, TypeInv, TypeOK
<1>2. Undone(tx[r], at[r]) \in Sessions
  BY <1>1, UndoneType
<1>3. tx' = [tx EXCEPT ![r] = Undone(tx[r], at[r])]
  BY DEF CompanyFails, SetSession, Undone
<1>4. QED
  BY <1>1, <1>2, <1>3 DEF TypeInv, TypeOK

\* A plan that is found is remembered for its company.
LEMMA Finding ==
    ASSUME TypeInv, NEW r \in Replicas, at[r] \in Companies, NEW plan, Finds(r, plan)
    PROVE  /\ monthly' \in [Replicas -> [Companies -> Nat]]
           /\ monthly'[r][at[r]] = monthly_credits(plan)
           /\ \A q \in Replicas, c \in Companies :
                 q # r \/ c # at[r] => monthly'[q][c] = monthly[q][c]
<1>1. monthly \in [Replicas -> [Companies -> Nat]] /\ monthly_credits(plan) \in Nat
  BY LimitsAreNat DEF TypeInv, TypeOK
<1>2. PICK f : f = [monthly[r] EXCEPT ![at[r]] = monthly_credits(plan)]
  OBVIOUS
<1>3. monthly' = [monthly EXCEPT ![r] = f]
  BY <1>2 DEF Finds
<1>4. f \in [Companies -> Nat] /\ f[at[r]] = monthly_credits(plan)
      /\ \A c \in Companies : c # at[r] => f[c] = monthly[r][c]
  BY <1>1, <1>2
<1>5. QED
  BY <1>1, <1>3, <1>4

\* A company that is to be topped up has been credited nothing since.
LEMMA Filling ==
    ASSUME TypeInv, NEW r \in Replicas, at[r] \in Companies, NEW n, FillUpBy(r, n)
    PROVE  /\ credited' \in [Replicas -> [Companies -> Nat]]
           /\ credited'[r][at[r]] = 0
           /\ \A q \in Replicas, c \in Companies :
                 q # r \/ c # at[r] => credited'[q][c] = credited[q][c]
<1>1. credited \in [Replicas -> [Companies -> Nat]]
  BY DEF TypeInv, TypeOK
<1>2. PICK f : f = [credited[r] EXCEPT ![at[r]] = 0]
  OBVIOUS
<1>3. credited' = [credited EXCEPT ![r] = f]
  BY <1>2 DEF FillUpBy
<1>4. f \in [Companies -> Nat] /\ f[at[r]] = 0
      /\ \A c \in Companies : c # at[r] => f[c] = credited[r][c]
  BY <1>1, <1>2
<1>5. QED
  BY <1>1, <1>3, <1>4

\* What a request adds is on the balance, and counted for every replica.
LEMMA Gaining ==
    ASSUME TypeInv, NEW c \in Companies, NEW n \in Nat, Gain(c, n)
    PROVE  /\ credited' \in [Replicas -> [Companies -> Nat]]
           /\ balance' \in [Companies -> Nat] /\ balance'[c] = balance[c] + n
           /\ \A d \in Companies : d # c => balance'[d] = balance[d]
           /\ \A q \in Replicas : /\ credited'[q][c] = credited[q][c] + n
                                  /\ \A d \in Companies : d # c => credited'[q][d] = credited[q][d]
<1>1. credited \in [Replicas -> [Companies -> Nat]] /\ balance \in [Companies -> Nat]
  BY DEF TypeInv, TypeOK
<1>2. /\ balance' = [balance EXCEPT ![c] = balance[c] + n]
      /\ credited' = [q \in Replicas |-> [credited[q] EXCEPT ![c] = credited[q][c] + n]]
  BY DEF Gain
<1>3. ASSUME NEW q \in Replicas
      PROVE  /\ credited'[q] \in [Companies -> Nat]
             /\ credited'[q][c] = credited[q][c] + n
             /\ \A d \in Companies : d # c => credited'[q][d] = credited[q][d]
  BY <1>1, <1>2
<1>4. credited' \in [Replicas -> [Companies -> Nat]]
  BY <1>2, <1>3
<1>5. QED
  BY <1>1, <1>2, <1>3, <1>4

\* A plan change adds the difference, or takes what is above the new plan's
\* credits.
LEMMA Upgrades ==
    ASSUME TypeInv, NEW c \in Companies, Upgrade(c)
    PROVE  \E n \in Nat : Gain(c, n)
BY LimitsAreNat DEF Upgrade

LEMMA Downgrades ==
    ASSUME TypeInv, NEW c \in Companies, Downgrade(c)
    PROVE  /\ balance' \in [Companies -> Nat] /\ balance'[c] <= balance[c]
           /\ \A d \in Companies : d # c => balance'[d] = balance[d]
<1>1. PICK plan \in Offered :
          balance' = [balance EXCEPT ![c] = IF @ > monthly_credits(plan) THEN monthly_credits(plan) ELSE @]
  BY DEF Downgrade
<1>2. monthly_credits(plan) \in Nat /\ balance \in [Companies -> Nat]
  BY LimitsAreNat DEF TypeInv, TypeOK
<1>3. PICK n \in Nat : n = monthly_credits(plan)
  BY <1>2
<1>4. balance' = [balance EXCEPT ![c] = IF @ > n THEN n ELSE @]
  BY <1>1, <1>3
<1>5. QED
  BY <1>2, <1>4

\* A request leaves the replicas alone, and the subscription in being.
LEMMA Requests ==
    ASSUME TypeInv, NEW c \in Companies, Spend(c) \/ Credit(c) \/ Upgrade(c) \/ Downgrade(c)
    PROVE  /\ sub[c] # None /\ sub'[c] # None /\ subLock[c] = None
           /\ sub' \in [Companies -> Plans \cup {None}]
           /\ \A d \in Companies : d # c => sub'[d] = sub[d]
           /\ requests' \in 0..MaxRequests
           /\ UNCHANGED <<now, subLock, redisLock, wake, lastMonth, pc, at, monthly, topUp, tx, ghost,
                          happened>>
<1>1. /\ sub[c] # None /\ subLock[c] = None /\ requests' \in 0..MaxRequests
      /\ UNCHANGED <<now, subLock, redisLock, wake, lastMonth, pc, at, monthly, topUp, tx, ghost, happened>>
  BY ConstantsOK DEF Spend, Credit, Upgrade, Downgrade, Request, TypeInv, TypeOK
<1>2. sub' = sub \/ \E plan \in Offered : sub' = [sub EXCEPT ![c] = plan]
  BY DEF Spend, Credit, Upgrade, Downgrade
<1>3. Offered \subseteq Plans /\ None \notin Plans /\ sub \in [Companies -> Plans \cup {None}]
  BY CreditResetAssumption DEF TypeInv, TypeOK
<1>4. QED
  BY <1>1, <1>2, <1>3

\* Spending lowers a balance.
LEMMA Spends ==
    ASSUME TypeInv, NEW c \in Companies, Spend(c)
    PROVE  /\ balance' \in [Companies -> Nat] /\ balance'[c] <= balance[c]
           /\ \A d \in Companies : d # c => balance'[d] = balance[d]
<1>1. PICK n \in Spending : balance[c] >= n /\ balance' = [balance EXCEPT ![c] = @ - n]
  BY DEF Spend
<1>2. n \in Nat /\ balance \in [Companies -> Nat]
  BY CreditResetAssumption DEF TypeInv, TypeOK
<1>3. QED
  BY <1>1, <1>2

\* and for reading the balance, which leads to a grant or passes on.
LEMMA Reads ==
    ASSUME TypeInv, NEW r \in Replicas, ReadBalance(r)
    PROVE  /\ at[r] \in Companies /\ tx[r] \in Sessions
           /\ tx' \in [Replicas -> Sessions]
           /\ credited' \in [Replicas -> [Companies -> Nat]]
           /\ \A q \in Replicas, c \in Companies :
                 q # r \/ c # at[r] => credited'[q][c] = credited[q][c]
           /\ \/ /\ pc'[r] = "grant" /\ at' = at /\ tx'[r] = tx[r]
                 /\ topUp'[r] = monthly[r][at[r]] - VisibleBalance(r, at[r])
                 /\ topUp'[r] \in Nat /\ topUp'[r] > 0 /\ credited'[r][at[r]] = 0
              \/ /\ pc'[r] = "select" /\ at' = [at EXCEPT ![r] = @ + 1] /\ topUp' = topUp
                 /\ tx'[r] = Passed(tx[r], at[r]) /\ credited' = credited
<1>1. at[r] \in Companies /\ tx[r] \in Sessions
  BY DEF ReadBalance, TypeInv, TypeOK
<1>2. Passed(tx[r], at[r]) \in Sessions
  BY <1>1, PassedType
<1> DEFINE missing == monthly[r][at[r]] - VisibleBalance(r, at[r])
<1>3. missing \in Int
  <2>1. VisibleBalance(r, at[r]) \in Nat /\ monthly[r][at[r]] \in Nat
    BY <1>1 DEF VisibleBalance, Sessions, TypeInv, TypeOK
  <2>2. QED
    BY <2>1
<1>4. \/ missing > 0 /\ FillUpBy(r, missing) /\ UNCHANGED <<at, tx>>
      \/ /\ tx' = [tx EXCEPT ![r] = Passed(tx[r], at[r])]
         /\ at' = [at EXCEPT ![r] = @ + 1]
         /\ pc' = [pc EXCEPT ![r] = "select"] /\ UNCHANGED <<topUp, credited>>
  BY DEF ReadBalance, SetSession, Goto, Passed
<1>5. missing = monthly[r][at[r]] - VisibleBalance(r, at[r])
  BY DEF missing
<1> HIDE DEF missing
<1>6. CASE missing > 0 /\ FillUpBy(r, missing) /\ UNCHANGED <<at, tx>>
  <2>1. topUp' = [topUp EXCEPT ![r] = missing] /\ pc' = [pc EXCEPT ![r] = "grant"]
    BY <1>6 DEF FillUpBy, Goto
  <2>2. /\ credited' \in [Replicas -> [Companies -> Nat]] /\ credited'[r][at[r]] = 0
        /\ \A q \in Replicas, c \in Companies :
              q # r \/ c # at[r] => credited'[q][c] = credited[q][c]
    BY <1>1, <1>6, Filling
  <2>3. pc'[r] = "grant" /\ topUp'[r] = missing /\ tx' \in [Replicas -> Sessions]
    BY <1>6, <2>1 DEF TypeInv, TypeOK
  <2>4. missing \in Nat /\ missing > 0
    BY <1>3, <1>6
  <2>5. QED
    BY <1>1, <1>5, <1>6, <2>2, <2>3, <2>4
<1>7. CASE /\ tx' = [tx EXCEPT ![r] = Passed(tx[r], at[r])]
           /\ at' = [at EXCEPT ![r] = @ + 1]
           /\ pc' = [pc EXCEPT ![r] = "select"] /\ UNCHANGED <<topUp, credited>>
  BY <1>1, <1>2, <1>7 DEF TypeInv, TypeOK
<1>8. QED
  BY <1>4, <1>6, <1>7

\* Every step keeps the types.
LEMMA TypeNext == TypeInv /\ [Next]_vars => TypeInv'
<1> SUFFICES ASSUME TypeInv, [Next]_vars PROVE TypeInv'
  OBVIOUS
<1> USE ConstantsOK
<1>1. CASE UNCHANGED vars
  BY <1>1 DEF vars, store, found, ghost, TypeInv, TypeOK
<1>2. CASE Tick
  BY <1>2 DEF Tick, store, found, ghost, TypeInv, TypeOK
<1>3. ASSUME NEW r \in Replicas, NotDue(r) \/ LockIsHeld(r) PROVE TypeInv'
  <2>1. /\ pc' = [pc EXCEPT ![r] = "asleep"] /\ wake' = [wake EXCEPT ![r] = now + Day]
        /\ UNCHANGED <<now, store, redisLock, lastMonth, at, topUp, tx, found, ghost, happened>>
    BY <1>3 DEF NotDue, LockIsHeld, Sleep, Goto
  <2>2. QED
    BY <2>1 DEF store, found, ghost, TypeInv, TypeOK
<1>4. ASSUME NEW r \in Replicas, Begin(r), redisLock' \in Nat, happened' \subseteq Incidents
      PROVE  TypeInv'
  <2>1. Clean(MonthOf(now)) \in Sessions
    BY MonthInRange, CleanType DEF TypeInv, TypeOK
  <2>2. tx' \in [Replicas -> Sessions]
    BY <1>4, <2>1 DEF Begin, SetSession, TypeInv, TypeOK
  <2>3. at' \in [Replicas -> 1..(LastCompany + 1)]
    BY <1>4 DEF Begin, TypeInv, TypeOK
  <2>4. pc' = [pc EXCEPT ![r] = "select"] /\ at' = [at EXCEPT ![r] = 1]
        /\ UNCHANGED <<now, store, wake, lastMonth, topUp, found, ghost>>
    BY <1>4 DEF Begin, Goto
  <2>5. QED
    BY <1>4, <2>2, <2>3, <2>4 DEF store, found, ghost, TypeInv, TypeOK
<1>5. ASSUME NEW r \in Replicas, AcquireLock(r) \/ NoRedis(r) PROVE TypeInv'
  <2>1. redisLock' \in Nat
    BY <1>5 DEF AcquireLock, NoRedis, TypeInv, TypeOK
  <2>2. happened' \subseteq Incidents
    BY <1>5, CreditResetAssumption
       DEF AcquireLock, NoRedis, Strike, Incidents, KindsOfFault, TypeInv, TypeOK
  <2>3. Begin(r)
    BY <1>5 DEF AcquireLock, NoRedis
  <2>4. QED
    BY <1>4, <2>1, <2>2, <2>3
<1>6. ASSUME NEW r \in Replicas, RedisError(r) PROVE TypeInv'
  BY <1>6, CreditResetAssumption
     DEF RedisError, Goto, Strike, Incidents, KindsOfFault, store, found, ghost, TypeInv, TypeOK
<1>7. ASSUME NEW r \in Replicas, Select(r) PROVE TypeInv'
  <2>1. at[r] \in Companies /\ DOMAIN pc = Replicas
    BY <1>7 DEF Select, TypeInv, TypeOK
  <2>2. monthly' \in [Replicas -> [Companies -> Nat]]
    BY <1>7, <2>1, Finding DEF Select, TypeInv, TypeOK
  <2>3. pc' = [pc EXCEPT ![r] = "insert"] \/ pc' = [pc EXCEPT ![r] = "read"]
    BY <1>7 DEF Select, Goto
  <2>4. UNCHANGED <<now, store, redisLock, wake, lastMonth, at, topUp, tx, credited, requests, ghost, happened>>
    BY <1>7 DEF Select
  <2>5. QED
    BY <2>1, <2>2, <2>3, <2>4 DEF store, ghost, TypeInv, TypeOK
<1>8. ASSUME NEW r \in Replicas, InsertSubscription(r) PROVE TypeInv'
  <2>1. at[r] \in Companies /\ tx' \in [Replicas -> Sessions]
    BY <1>8, Inserts
  <2>2. subLock' \in [Companies -> Replicas \cup {None}]
    BY <1>8, <2>1 DEF InsertSubscription, TakeLock, TypeInv, TypeOK
  <2>3. monthly' \in [Replicas -> [Companies -> Nat]]
    BY <1>8, <2>1, Finding DEF InsertSubscription
  <2>4. QED
    BY <1>8, <2>1, <2>2, <2>3 DEF InsertSubscription, Goto, ghost, TypeInv, TypeOK
<1>9. ASSUME NEW r \in Replicas PROVE Unlocked(r) \in [Companies -> Replicas \cup {None}]
  BY DEF Unlocked, TypeInv, TypeOK
<1>10. ASSUME NEW r \in Replicas, at[r] \in Companies, at' = [at EXCEPT ![r] = @ + 1]
       PROVE  at' \in [Replicas -> 1..(LastCompany + 1)]
  BY <1>10 DEF Companies, TypeInv, TypeOK
<1>11. ASSUME NEW r \in Replicas, InsertConflict(r) PROVE TypeInv'
  <2>1. at[r] \in Companies /\ tx' \in [Replicas -> Sessions]
    BY <1>11, Conflicts
  <2>2. at' \in [Replicas -> 1..(LastCompany + 1)]
    BY <1>10, <1>11, <2>1 DEF InsertConflict
  <2>3. QED
    BY <1>9, <1>11, <2>1, <2>2 DEF InsertConflict, Goto, found, ghost, Incidents, TypeInv, TypeOK
<1>12. ASSUME NEW r \in Replicas, ReadBalance(r) PROVE TypeInv'
  <2>1. /\ at[r] \in Companies /\ tx' \in [Replicas -> Sessions]
        /\ credited' \in [Replicas -> [Companies -> Nat]]
        /\ \/ at' = at /\ topUp'[r] \in Nat
           \/ at' = [at EXCEPT ![r] = @ + 1] /\ topUp' = topUp
    BY <1>12, Reads
  <2>2. at' \in [Replicas -> 1..(LastCompany + 1)]
    BY <1>10, <2>1 DEF TypeInv, TypeOK
  <2>3. /\ topUp' \in [Replicas -> Nat]
        /\ UNCHANGED <<now, store, redisLock, wake, lastMonth, monthly, requests, ghost, happened>>
    BY <1>12, <2>1 DEF ReadBalance, FillUpBy, TypeInv, TypeOK
  <2>4. (pc' = [pc EXCEPT ![r] = "grant"] /\ at' = at) \/ pc' = [pc EXCEPT ![r] = "select"]
    BY <1>12 DEF ReadBalance, FillUpBy, Goto
  <2>5. QED
    BY <2>1, <2>2, <2>3, <2>4 DEF store, found, ghost, TypeInv, TypeOK
<1>13. ASSUME NEW r \in Replicas, Grant(r) PROVE TypeInv'
  <2>1. at[r] \in Companies /\ tx' \in [Replicas -> Sessions]
    BY <1>13, Grants
  <2>2. subLock' \in [Companies -> Replicas \cup {None}]
    BY <1>13, <2>1 DEF Grant, TakeLock, TypeInv, TypeOK
  <2>3. at' \in [Replicas -> 1..(LastCompany + 1)]
    BY <1>10, <1>13, <2>1 DEF Grant
  <2>4. QED
    BY <1>13, <2>1, <2>2, <2>3 DEF Grant, Goto, found, ghost, TypeInv, TypeOK
<1>14. ASSUME NEW r \in Replicas, CompanyFails(r) PROVE TypeInv'
  <2>1. at[r] \in Companies /\ tx' \in [Replicas -> Sessions]
    BY <1>14, Fails
  <2>2. subLock' \in [Companies -> Replicas \cup {None}]
    BY <1>14, <2>1 DEF CompanyFails, TypeInv, TypeOK
  <2>3. at' \in [Replicas -> 1..(LastCompany + 1)]
    BY <1>10, <1>14, <2>1 DEF CompanyFails
  <2>4. happened' \subseteq Incidents
    BY <1>14, CreditResetAssumption DEF CompanyFails, Strike, Incidents, KindsOfFault, TypeInv, TypeOK
  <2>5. QED
    BY <1>14, <2>1, <2>2, <2>3, <2>4 DEF CompanyFails, Goto, found, ghost, TypeInv, TypeOK
<1>15. Clean(0) \in Sessions
  BY ZeroIsAMonth, CleanType
<1>16. ASSUME NEW r \in Replicas, Commit(r) PROVE TypeInv'
  <2>1. tx[r] \in Sessions
    BY DEF TypeInv, TypeOK
  <2>2. sub' \in [Companies -> Plans \cup {None}]
    BY <1>16 DEF Commit, Plans, TypeInv, TypeOK
  <2>3. balance' \in [Companies -> Nat]
    BY <1>16, <2>1 DEF Commit, Sessions, TypeInv, TypeOK
  <2>4. topUps' \in [Companies \X Months -> Nat]
    BY <1>16 DEF Commit, TypeInv, TypeOK
  <2>5. served' \subseteq Companies \X Months
    BY <1>16, <2>1 DEF Commit, Sessions, TypeInv, TypeOK
  <2>6. lastMonth' \in [Replicas -> Months \cup {None}]
    BY <1>16, <2>1 DEF Commit, Sessions, TypeInv, TypeOK
  <2>7. /\ tx' \in [Replicas -> Sessions]
        /\ wake' \in [Replicas -> Nat]
        /\ pc' = [pc EXCEPT ![r] = "asleep"]
        /\ UNCHANGED <<now, redisLock, at, topUp, found, happened>>
    BY <1>15, <1>16 DEF Commit, SetSession, Sleep, Goto, TypeInv, TypeOK
  <2>8. subLock' \in [Companies -> Replicas \cup {None}]
    BY <1>9, <1>16 DEF Commit
  <2>9. QED
    BY <2>2, <2>3, <2>4, <2>5, <2>6, <2>7, <2>8 DEF found, TypeInv, TypeOK
<1>17. ASSUME NEW r \in Replicas, Restart(r) PROVE TypeInv'
  <2>1. happened' \subseteq Incidents
    BY <1>17, CreditResetAssumption DEF Restart, Strike, Incidents, KindsOfFault, TypeInv, TypeOK
  <2>2. QED
    BY <1>9, <1>15, <1>17, <2>1 DEF Restart, SetSession, Sleep, Goto, found, ghost, TypeInv, TypeOK
<1>18. ASSUME NEW r \in Replicas, RunFails(r) PROVE TypeInv'
  <2>1. happened' \subseteq Incidents
    BY <1>18, CreditResetAssumption DEF RunFails, Strike, Incidents, KindsOfFault, TypeInv, TypeOK
  <2>2. QED
    BY <1>9, <1>15, <1>18, <2>1 DEF RunFails, SetSession, Sleep, Goto, found, ghost, TypeInv, TypeOK
<1>19. ASSUME NEW c \in Companies, Spend(c) \/ Credit(c) \/ Upgrade(c) \/ Downgrade(c) PROVE TypeInv'
  <2>1. balance' \in [Companies -> Nat] /\ credited' \in [Replicas -> [Companies -> Nat]]
    <3>1. CASE Spend(c) \/ Downgrade(c)
      <4>1. UNCHANGED credited
        BY <3>1 DEF Spend, Downgrade
      <4>2. QED
        BY <3>1, <4>1, Spends, Downgrades DEF TypeInv, TypeOK
    <3>2. CASE Credit(c) \/ Upgrade(c)
      <4>1. Incomes \subseteq Nat
        BY CreditResetAssumption
      <4>2. PICK n \in Nat : Gain(c, n)
        BY <3>2, <4>1, Upgrades DEF Credit
      <4>3. QED
        BY <4>2, Gaining
    <3>3. QED
      BY <1>19, <3>1, <3>2
  <2>2. /\ sub' \in [Companies -> Plans \cup {None}] /\ requests' \in 0..MaxRequests
        /\ UNCHANGED <<now, subLock, redisLock, wake, lastMonth, pc, at, monthly, topUp, tx, ghost,
                       happened>>
    BY <1>19, Requests
  <2>3. QED
    BY <2>1, <2>2 DEF ghost, TypeInv, TypeOK
<1>20. ASSUME NEW c \in Companies, Open(c) PROVE TypeInv'
  BY <1>20, LimitsAreNat DEF Open, found, ghost, Plans, TypeInv, TypeOK
<1>21. QED
  BY <1>1, <1>2, <1>3, <1>5, <1>6, <1>7, <1>8, <1>11, <1>12, <1>13, <1>14, <1>16, <1>17, <1>18,
     <1>19, <1>20 DEF Next, Loop, Quiet

\* Type correctness: in particular no balance is ever negative, and every
\* month that is written down is one of the period looked at.
THEOREM TypeCorrect == Spec => []TypeOK
<1>1. TypeInv => TypeOK
  BY DEF TypeInv
<1>2. QED
  BY <1>1, TypeInit, TypeNext, PTL DEF Spec

(***************************************************************************)
(* Subscriptions, locks and sessions.                                      *)
(***************************************************************************)

\* A step of replica r leaves the others alone.
OnlyMoves(r) ==
    \A q \in Replicas \ {r} :
        /\ pc'[q] = pc[q] /\ at'[q] = at[q] /\ topUp'[q] = topUp[q] /\ tx'[q] = tx[q]
        /\ wake'[q] = wake[q] /\ lastMonth'[q] = lastMonth[q]


\* Every step is a step of one replica at most.
LEMMA OnlyOneMoves ==
    ASSUME TypeInv, NEW r \in Replicas, Loop(r) \/ Restart(r)
    PROVE  OnlyMoves(r)
<1>1. /\ DOMAIN pc = Replicas /\ DOMAIN at = Replicas /\ DOMAIN topUp = Replicas
      /\ DOMAIN tx = Replicas /\ DOMAIN wake = Replicas /\ DOMAIN lastMonth = Replicas
  BY DEF TypeInv, TypeOK
<1>2. NotDue(r) \/ LockIsHeld(r) \/ RedisError(r) \/ Select(r) => OnlyMoves(r)
  BY <1>1 DEF NotDue, LockIsHeld, RedisError, Select, Sleep, Goto, OnlyMoves
<1>3. AcquireLock(r) \/ NoRedis(r) => OnlyMoves(r)
  BY <1>1 DEF AcquireLock, NoRedis, Begin, Goto, SetSession, OnlyMoves
<1>4. InsertSubscription(r) \/ InsertConflict(r) => OnlyMoves(r)
  BY <1>1 DEF InsertSubscription, InsertConflict, Goto, SetSession, OnlyMoves
<1>5. ReadBalance(r) \/ Grant(r) \/ CompanyFails(r) => OnlyMoves(r)
  BY <1>1 DEF ReadBalance, FillUpBy, Grant, CompanyFails, Goto, SetSession, OnlyMoves
<1>6. RunFails(r) \/ Commit(r) \/ Restart(r) => OnlyMoves(r)
  BY <1>1 DEF RunFails, Commit, Restart, Sleep, Goto, SetSession, OnlyMoves
<1>7. QED
  BY <1>2, <1>3, <1>4, <1>5, <1>6 DEF Loop

\* A session holds the rows it has opened and has counted credits only for
\* companies that it has passed, or has opened, and that have a plan.
RowsOf(r) ==
    /\ \A c \in tx[r].opened : subLock[c] = r /\ sub[c] = None
    /\ \A c \in Companies : tx[r].delta[c] > 0 => VisibleSub(r, c) # None
    /\ pc[r] \in {"read", "grant"} => VisibleSub(r, at[r]) # None
    /\ \A c \in Companies :
          c > at[r] \/ (c = at[r] /\ pc[r] \in {"select", "insert"}) => tx[r].delta[c] = 0

\* This holds of every session, and a replica that is not working has none.
RowInv ==
    /\ \A c \in Companies : sub[c] = None => balance[c] = 0
    /\ \A r \in Replicas : RowsOf(r) /\ (~Working(r) => tx[r] = Clean(0))

\* Nobody takes a row from q, and subscriptions stay.
Respects(q) ==
    \A c \in Companies : /\ subLock[c] = q => subLock'[c] = q /\ sub'[c] = sub[c]
                         /\ sub[c] # None => sub'[c] # None

\* Initially there are no sessions.
LEMMA RowInit == Init => RowInv
<1> SUFFICES ASSUME Init PROVE RowInv
  OBVIOUS
<1>1. ASSUME NEW c \in Companies, sub[c] = None PROVE balance[c] = 0
  BY <1>1, ConstantsOK DEF Init, Plans
<1>2. \A r \in Replicas : tx[r] = Clean(0) /\ pc[r] = "asleep"
  BY DEF Init
<1>3. \A r \in Replicas : RowsOf(r)
  BY <1>2, CleanType, ZeroIsAMonth DEF RowsOf
<1>4. QED
  BY <1>1, <1>2, <1>3 DEF RowInv

\* A step of others keeps what is said of q.
LEMMA RowsKept ==
    ASSUME TypeInv, NEW q \in Replicas, RowsOf(q), Respects(q),
           pc'[q] = pc[q], tx'[q] = tx[q], at'[q] = at[q]
    PROVE  RowsOf(q)'
<1>1. tx[q] \in Sessions /\ (pc[q] \in {"read", "grant"} => at[q] \in Companies)
  BY DEF TypeInv, TypeOK
<1>2. \A c \in tx[q].opened : subLock'[c] = q /\ sub'[c] = None
  BY <1>1 DEF RowsOf, Respects, Sessions
<1>3. \A c \in Companies : VisibleSub(q, c) # None => VisibleSub(q, c)' # None
  BY <1>1 DEF VisibleSub, Respects
<1>4. QED
  BY <1>1, <1>2, <1>3 DEF RowsOf

\* A session without rows says nothing.
LEMMA RowsOfNone ==
    ASSUME NEW r \in Replicas, tx'[r].opened = {}, \A c \in Companies : tx'[r].delta[c] = 0,
           pc'[r] \notin {"read", "grant"}
    PROVE  RowsOf(r)'
BY DEF RowsOf

\* Every step keeps all this.
LEMMA RowNext == TypeInv /\ TypeInv' /\ RowInv /\ [Next]_vars => RowInv'
<1> SUFFICES ASSUME TypeInv, TypeInv', RowInv, [Next]_vars PROVE RowInv'
  OBVIOUS
<1> USE ConstantsOK
<1>1. ASSUME NEW r \in Replicas, OnlyMoves(r), \A q \in Replicas \ {r} : Respects(q),
             RowsOf(r)', Working(r)' \/ tx'[r] = Clean(0),
             \A c \in Companies : sub'[c] = None => balance'[c] = 0
      PROVE  RowInv'
  <2>1. ASSUME NEW q \in Replicas \ {r} PROVE RowsOf(q)' /\ (~Working(q)' => tx'[q] = Clean(0))
    BY <1>1, <2>1, RowsKept DEF OnlyMoves, RowInv, Working
  <2>2. QED
    BY <1>1, <2>1 DEF RowInv
<1>2. ASSUME \A q \in Replicas : Respects(q), UNCHANGED <<pc, tx, at>>,
             \A c \in Companies : sub'[c] = None => balance'[c] = 0
      PROVE  RowInv'
  <2>1. ASSUME NEW q \in Replicas PROVE RowsOf(q)' /\ (~Working(q)' => tx'[q] = Clean(0))
    BY <1>2, <2>1, RowsKept DEF RowInv, Working
  <2>2. QED
    BY <1>2, <2>1 DEF RowInv
<1>3. CASE UNCHANGED vars \/ Tick
  BY <1>2, <1>3 DEF Tick, vars, store, Respects, RowInv
<1>4. \A c \in Companies : sub[c] = None => balance[c] = 0
  BY DEF RowInv
<1>5. ASSUME NEW r \in Replicas
      PROVE  /\ tx[r] \in Sessions /\ RowsOf(r)
             /\ Loop(r) \/ Restart(r) => OnlyMoves(r)
             /\ pc[r] \in {"insert", "read", "grant"} => at[r] \in Companies
  BY OnlyOneMoves DEF RowInv, TypeInv, TypeOK
<1>6. ASSUME UNCHANGED <<sub, subLock>> PROVE \A q \in Replicas : Respects(q)
  BY <1>6 DEF Respects
<1>7. Clean(0).opened = {} /\ \A c \in Companies : Clean(0).delta[c] = 0
  BY CleanType, ZeroIsAMonth
<1>8. ASSUME NEW r \in Replicas, NotDue(r) \/ LockIsHeld(r) \/ RedisError(r) PROVE RowInv'
  <2>1. pc[r] = "asleep" /\ pc'[r] \in {"asleep", "dead"} /\ UNCHANGED <<store, tx>>
    BY <1>8 DEF NotDue, LockIsHeld, RedisError, WakesOnFirst, Sleep, Goto, TypeInv, TypeOK
  <2>2. tx'[r] = Clean(0)
    BY <2>1 DEF RowInv, Working
  <2>3. RowsOf(r)'
    BY <1>7, <2>1, <2>2, RowsOfNone
  <2>4. QED
    BY <1>1, <1>4, <1>5, <1>6, <1>8, <2>1, <2>2, <2>3 DEF Loop, store
<1>9. ASSUME NEW r \in Replicas, AcquireLock(r) \/ NoRedis(r) PROVE RowInv'
  <2>1. pc'[r] = "select" /\ tx'[r] = Clean(MonthOf(now)) /\ UNCHANGED store
    BY <1>9 DEF AcquireLock, NoRedis, Begin, Goto, SetSession, TypeInv, TypeOK
  <2>2. tx'[r].opened = {} /\ \A c \in Companies : tx'[r].delta[c] = 0
    BY <2>1, CleanType, MonthInRange DEF TypeInv, TypeOK
  <2>3. RowsOf(r)'
    BY <2>1, <2>2, RowsOfNone
  <2>4. QED
    BY <1>1, <1>4, <1>5, <1>6, <1>9, <2>1, <2>3 DEF Loop, store, Working
<1>10. ASSUME NEW r \in Replicas, Select(r) PROVE RowInv'
  <2>1. /\ pc[r] = "select" /\ at[r] \in Companies /\ UNCHANGED <<store, tx, at>>
        /\ pc'[r] = IF VisibleSub(r, at[r]) = None THEN "insert" ELSE "read"
    BY <1>10 DEF Select, Goto, TypeInv, TypeOK
  <2>2. \A c : VisibleSub(r, c)' = VisibleSub(r, c)
    BY <2>1 DEF VisibleSub, store
  <2>3. RowsOf(r)'
    BY <1>5, <2>1, <2>2 DEF RowsOf, store
  <2>4. QED
    BY <1>1, <1>4, <1>5, <1>6, <1>10, <2>1, <2>3 DEF Loop, store, Working
<1>11. ASSUME NEW r \in Replicas, InsertSubscription(r) PROVE RowInv'
  <2>1. PICK c \in Companies : c = at[r]
    BY <1>11, Inserts
  <2>2. /\ pc[r] = "insert" /\ pc'[r] = "read" /\ UNCHANGED <<sub, balance, at>>
        /\ sub[c] = None /\ subLock[c] \in {None, r} /\ subLock' = [subLock EXCEPT ![c] = r]
    BY <1>11, <2>1 DEF InsertSubscription, TakeLock, Goto, TypeInv, TypeOK
  <2>3. /\ tx'[r].opened = tx[r].opened \cup {c}
        /\ \A d \in Companies : d # c => tx'[r].delta[d] = tx[r].delta[d]
    BY <1>5, <1>11, <2>1, Inserts, InsertedType
  <2>4. \A q \in Replicas \ {r} : Respects(q)
    BY <2>1, <2>2 DEF Respects, TypeInv, TypeOK
  <2>5. \A d \in Companies : VisibleSub(r, d) # None => VisibleSub(r, d)' # None
    BY <2>2, <2>3 DEF VisibleSub, Plans
  <2>6. VisibleSub(r, c)' # None
    BY <2>3 DEF VisibleSub, Plans
  <2>7. \A d \in tx'[r].opened : subLock'[d] = r /\ sub'[d] = None
    BY <1>5, <2>1, <2>2, <2>3 DEF RowsOf, Sessions, TypeInv, TypeOK
  <2>8. VisibleSub(r, at[r])' # None
    BY <2>1, <2>2, <2>6
  <2>9. \A d \in Companies : d > at'[r] => tx'[r].delta[d] = 0
    BY <1>5, <2>1, <2>2, <2>3 DEF RowsOf, Companies
  <2>10. \A d \in Companies : tx'[r].delta[d] > 0 => VisibleSub(r, d)' # None
    BY <1>5, <2>3, <2>5, <2>6 DEF RowsOf
  <2>11. RowsOf(r)'
    BY <2>2, <2>7, <2>8, <2>9, <2>10 DEF RowsOf
  <2>12. QED
    BY <1>1, <1>4, <1>5, <1>11, <2>2, <2>4, <2>11 DEF Loop, Working
<1>12. ASSUME NEW r \in Replicas
       PROVE  Unlocked(r) = subLock' /\ UNCHANGED sub => \A q \in Replicas \ {r} : Respects(q)
  BY <1>12 DEF Unlocked, Respects
<1>13. ASSUME NEW r \in Replicas, InsertConflict(r) PROVE RowInv'
  <2>1. pc[r] = "insert" /\ pc'[r] = "select" /\ UNCHANGED <<sub, balance>> /\ subLock' = Unlocked(r)
    BY <1>13 DEF InsertConflict, Goto, TypeInv, TypeOK
  <2>2. tx'[r].opened = {} /\ \A c \in Companies : tx'[r].delta[c] = 0
    BY <1>5, <1>13, Conflicts, ConflictedType
  <2>3. RowsOf(r)'
    BY <2>1, <2>2, RowsOfNone
  <2>4. QED
    BY <1>1, <1>4, <1>5, <1>12, <1>13, <2>1, <2>3 DEF Loop, Working
<1>14. ASSUME NEW r \in Replicas, ReadBalance(r) PROVE RowInv'
  <2>1. pc[r] = "read" /\ UNCHANGED store
    BY <1>14 DEF ReadBalance
  <2>2. at[r] \in Companies /\ at[r] \in Int /\ \A d \in Companies : d \in Int
    BY <1>5, <2>1 DEF Companies
  <2>3. /\ tx'[r].opened = tx[r].opened /\ tx'[r].delta = tx[r].delta
        /\ (pc'[r] = "grant" /\ at'[r] = at[r]) \/ (pc'[r] = "select" /\ at'[r] = at[r] + 1)
    <3>1. /\ DOMAIN at = Replicas
          /\ Passed(tx[r], at[r]).opened = tx[r].opened /\ Passed(tx[r], at[r]).delta = tx[r].delta
      BY <1>5, <2>2, PassedType DEF TypeInv, TypeOK
    <3>2. QED
      BY <1>14, <3>1, Reads
  <2>4. \A c : VisibleSub(r, c)' = VisibleSub(r, c)
    BY <2>1, <2>3 DEF VisibleSub, store
  <2>5. VisibleSub(r, at[r]) # None
    BY <1>5, <2>1 DEF RowsOf
  <2>6. pc'[r] = "grant" => VisibleSub(r, at[r])' # None
    BY <2>1, <2>3, <2>5 DEF VisibleSub, store
  <2>7. \A d \in Companies : d > at'[r] \/ (d = at'[r] /\ pc'[r] = "select") => tx'[r].delta[d] = 0
    BY <1>5, <2>1, <2>2, <2>3 DEF RowsOf
  <2>8. RowsOf(r)'
    BY <1>5, <2>1, <2>3, <2>4, <2>6, <2>7 DEF RowsOf, store
  <2>9. QED
    BY <1>1, <1>4, <1>5, <1>6, <1>14, <2>1, <2>3, <2>8 DEF Loop, store, Working
<1>15. ASSUME NEW r \in Replicas, Grant(r) PROVE RowInv'
  <2>1. PICK c \in Companies : c = at[r]
    BY <1>15, Grants
  <2>2. /\ pc[r] = "grant" /\ pc'[r] = "select" /\ UNCHANGED <<sub, balance>>
        /\ at'[r] = c + 1
        /\ subLock[c] \in {None, r} /\ subLock' = [subLock EXCEPT ![c] = r]
    BY <1>15, <2>1 DEF Grant, TakeLock, Goto, TypeInv, TypeOK
  <2>3. /\ tx'[r].opened = tx[r].opened
        /\ \A d \in Companies : d # c => tx'[r].delta[d] = tx[r].delta[d]
    BY <1>5, <1>15, <2>1, Grants, GrantedType
  <2>4. \A q \in Replicas \ {r} : Respects(q)
    BY <2>1, <2>2 DEF Respects, TypeInv, TypeOK
  <2>5. \A d \in Companies : VisibleSub(r, d)' = VisibleSub(r, d)
    BY <2>2, <2>3 DEF VisibleSub
  <2>6. VisibleSub(r, c) # None
    BY <1>5, <2>1, <2>2 DEF RowsOf
  <2>7. \A d \in tx'[r].opened : subLock'[d] = r /\ sub'[d] = None
    BY <1>5, <2>1, <2>2, <2>3 DEF RowsOf, Sessions, TypeInv, TypeOK
  <2>8. \A d \in Companies : d >= at'[r] => tx'[r].delta[d] = 0
    BY <1>5, <2>1, <2>2, <2>3 DEF RowsOf, Companies
  <2>9. \A d \in Companies : tx'[r].delta[d] > 0 => VisibleSub(r, d)' # None
    BY <1>5, <2>3, <2>5, <2>6 DEF RowsOf
  <2>10. RowsOf(r)'
    BY <2>1, <2>2, <2>7, <2>8, <2>9 DEF RowsOf, Companies
  <2>11. QED
    BY <1>1, <1>4, <1>5, <1>15, <2>2, <2>4, <2>10 DEF Loop, Working
<1>16. ASSUME NEW r \in Replicas, CompanyFails(r) PROVE RowInv'
  <2>1. PICK c \in Companies : c = at[r]
    BY <1>16, Fails
  <2>2. /\ pc[r] \in {"insert", "read", "grant"} /\ pc'[r] = "select" /\ UNCHANGED <<sub, balance>>
        /\ at'[r] = c + 1
        /\ subLock' = IF c \in tx[r].opened THEN [subLock EXCEPT ![c] = None] ELSE subLock
    BY <1>16, <2>1 DEF CompanyFails, Goto, TypeInv, TypeOK
  <2>3. /\ tx'[r].opened = tx[r].opened \ {c} /\ tx'[r].delta[c] = 0
        /\ \A d \in Companies : d # c => tx'[r].delta[d] = tx[r].delta[d]
    BY <1>5, <1>16, <2>1, Fails, UndoneType
  <2>4. \A q \in Replicas \ {r} : Respects(q)
    BY <1>5, <2>1, <2>2 DEF Respects, RowsOf, TypeInv, TypeOK
  <2>5. \A d \in Companies : d # c => VisibleSub(r, d)' = VisibleSub(r, d)
    BY <2>2, <2>3 DEF VisibleSub
  <2>6. \A d \in tx'[r].opened : subLock'[d] = r /\ sub'[d] = None
    BY <1>5, <2>1, <2>2, <2>3 DEF RowsOf, Sessions, TypeInv, TypeOK
  <2>7. \A d \in Companies : d >= at'[r] => tx'[r].delta[d] = 0
    BY <1>5, <2>1, <2>2, <2>3 DEF RowsOf, Companies
  <2>8. \A d \in Companies : tx'[r].delta[d] > 0 => VisibleSub(r, d)' # None
    BY <1>5, <2>3, <2>5 DEF RowsOf
  <2>9. RowsOf(r)'
    BY <2>1, <2>2, <2>6, <2>7, <2>8 DEF RowsOf, Companies
  <2>10. QED
    BY <1>1, <1>4, <1>5, <1>16, <2>2, <2>4, <2>9 DEF Loop, Working
<1>17. ASSUME NEW r \in Replicas, Commit(r) PROVE RowInv'
  <2>1. /\ pc'[r] = "asleep" /\ tx'[r] = Clean(0)
        /\ sub' = [c \in Companies |-> IF c \in tx[r].opened THEN "free" ELSE sub[c]]
        /\ balance' = [c \in Companies |-> balance[c] + tx[r].delta[c]]
        /\ subLock' = Unlocked(r)
    BY <1>17 DEF Commit, Sleep, Goto, SetSession, TypeInv, TypeOK
  <2>2. RowsOf(r)'
    BY <1>7, <2>1, RowsOfNone
  <2>3. \A q \in Replicas \ {r} : Respects(q)
    BY <1>5, <2>1 DEF Respects, Unlocked, RowsOf, Plans
  <2>4. ASSUME NEW c \in Companies, sub'[c] = None PROVE balance'[c] = 0
    <3>1. c \notin tx[r].opened /\ sub[c] = None
      BY <2>1, <2>4 DEF Plans
    <3>2. VisibleSub(r, c) = None /\ tx[r].delta[c] \in Nat
      BY <1>5, <3>1 DEF VisibleSub, Sessions
    <3>3. tx[r].delta[c] = 0 /\ balance[c] = 0
      BY <1>4, <1>5, <3>1, <3>2 DEF RowsOf
    <3>4. QED
      BY <2>1, <3>3
  <2>5. QED
    BY <1>1, <1>5, <1>17, <2>1, <2>2, <2>3, <2>4 DEF Loop
<1>18. ASSUME NEW r \in Replicas, Restart(r) \/ RunFails(r) PROVE RowInv'
  <2>1. /\ pc'[r] = "asleep" /\ tx'[r] = Clean(0) /\ UNCHANGED <<sub, balance>>
        /\ subLock' = Unlocked(r)
    BY <1>18 DEF Restart, RunFails, Sleep, Goto, SetSession, TypeInv, TypeOK
  <2>2. RowsOf(r)'
    BY <1>7, <2>1, RowsOfNone
  <2>3. QED
    BY <1>1, <1>4, <1>5, <1>12, <1>18, <2>1, <2>2 DEF Loop
<1>19. ASSUME NEW c \in Companies, Spend(c) \/ Credit(c) \/ Upgrade(c) \/ Downgrade(c) PROVE RowInv'
  <2>1. /\ sub'[c] # None /\ subLock[c] = None /\ UNCHANGED <<subLock, pc, tx, at>>
        /\ \A d \in Companies : d # c => sub'[d] = sub[d]
    BY <1>19, Requests
  <2>2. \A d \in Companies : d # c => balance'[d] = balance[d]
    <3>1. Credit(c) => \E n \in Nat : Gain(c, n)
      BY CreditResetAssumption DEF Credit
    <3>2. QED
      BY <1>19, <3>1, Spends, Downgrades, Upgrades, Gaining
  <2>3. \A d \in Companies : sub'[d] = None => balance'[d] = 0
    BY <1>4, <2>1, <2>2
  <2>4. \A q \in Replicas : Respects(q)
    BY <2>1 DEF Respects
  <2>5. QED
    BY <1>2, <2>1, <2>3, <2>4
<1>20. ASSUME NEW c \in Companies, Open(c) PROVE RowInv'
  <2>1. /\ sub[c] = None /\ subLock[c] = None /\ sub' = [sub EXCEPT ![c] = "free"]
        /\ balance' = [balance EXCEPT ![c] = monthly_credits("free")]
        /\ UNCHANGED <<subLock, pc, tx, at>>
    BY <1>20 DEF Open
  <2>2. \A q \in Replicas : Respects(q)
    BY <2>1 DEF Respects, Plans, TypeInv, TypeOK
  <2>3. \A d \in Companies : sub'[d] = None => balance'[d] = 0
    BY <1>4, <2>1 DEF Plans, TypeInv, TypeOK
  <2>4. QED
    BY <1>2, <2>1, <2>2, <2>3
<1>21. QED
  BY <1>3, <1>8, <1>9, <1>10, <1>11, <1>13, <1>14, <1>15, <1>16, <1>17, <1>18, <1>19, <1>20
     DEF Next, Loop, Quiet

(***************************************************************************)
(* The schedule and the lock.                                              *)
(***************************************************************************)

\* A replica that sleeps or works is at most Lateness behind its schedule,
\* and a run outlasts its lock only if it takes that long.
TimeInv ==
    \A r \in Replicas :
        /\ pc[r] # "dead" => now <= wake[r] + Lateness
        /\ Working(r) => /\ wake[r] <= now
                         /\ "no_redis" \notin happened => wake[r] + LockTTL <= redisLock

\* The kinds of steps: a replica goes on sleeping,
Naps(r) ==
    /\ pc[r] = "asleep" /\ pc'[r] = "asleep" /\ wake[r] <= now /\ wake'[r] = now + Day
    /\ UNCHANGED <<redisLock, tx, at, lastMonth, topUps, served, happened>>
    /\ \/ ~Due(r)
       \/ redisLock > now

\* it starts to work, with the lock or without Redis,
Begins(r) ==
    /\ pc[r] = "asleep" /\ pc'[r] = "select" /\ wake[r] <= now /\ Due(r) /\ at'[r] = 1
    /\ tx'[r] = Clean(MonthOf(now))
    /\ UNCHANGED <<wake, lastMonth, topUps, served>>
    /\ \/ redisLock <= now /\ redisLock' = now + LockTTL /\ UNCHANGED happened
       \/ UNCHANGED redisLock /\ happened' = happened \cup {"no_redis"}

\* it works, or dies when it wakes up,
Works(r) ==
    /\ UNCHANGED <<wake, redisLock, lastMonth, topUps, served>>
    /\ \/ pc'[r] = "dead" /\ pc[r] = "asleep" /\ UNCHANGED <<tx, at>>
       \/ Working(r) /\ Working(r)' /\ tx'[r].month = tx[r].month

\* or it lies down to sleep, after a run, a failure of one, or a restart.
Ends(r) ==
    /\ Commit(r) \/ RunFails(r) \/ Restart(r)
    /\ pc'[r] = "asleep" /\ wake'[r] = now + Day /\ tx'[r] = Clean(0) /\ UNCHANGED redisLock

\* Every step of a replica is of one of these kinds.
LEMMA KindsOfStep ==
    ASSUME TypeInv, NEW r \in Replicas, Loop(r) \/ Restart(r)
    PROVE  /\ now' = now /\ happened \subseteq happened' /\ OnlyMoves(r)
           /\ Naps(r) \/ Begins(r) \/ Works(r) \/ Ends(r)
<1>1. OnlyMoves(r)
  BY OnlyOneMoves
<1>2. DOMAIN pc = Replicas /\ DOMAIN wake = Replicas /\ DOMAIN tx = Replicas /\ DOMAIN at = Replicas
  BY DEF TypeInv, TypeOK
<1>3. NotDue(r) \/ LockIsHeld(r) => Naps(r) /\ now' = now
  BY <1>2 DEF NotDue, LockIsHeld, WakesOnFirst, Sleep, Goto, Naps, ghost
<1>4. AcquireLock(r) \/ NoRedis(r) => Begins(r) /\ now' = now /\ happened \subseteq happened'
  BY <1>2 DEF AcquireLock, NoRedis, WakesOnFirst, Begin, Strike, Goto, SetSession, Begins, ghost
<1>5. RedisError(r) => Works(r) /\ now' = now /\ happened \subseteq happened'
  BY <1>2 DEF RedisError, WakesOnFirst, Strike, Goto, Works, ghost
<1>6. Select(r) \/ InsertSubscription(r) \/ InsertConflict(r)
      \/ ReadBalance(r) \/ Grant(r) \/ CompanyFails(r) => Works(r)
  <2>1. tx[r] \in Sessions /\ topUp[r] \in Nat
    BY DEF TypeInv, TypeOK
  <2>2. Select(r) => Works(r)
    BY <1>2 DEF Select, Goto, Works, Working, ghost
  <2>3. InsertSubscription(r) => Works(r)
    <3>1. InsertSubscription(r) => tx'[r].month = tx[r].month
      BY <2>1, Inserts, InsertedType
    <3>2. QED
      BY <1>2, <3>1 DEF InsertSubscription, Goto, Works, Working, ghost
  <2>4. InsertConflict(r) => Works(r)
    <3>1. InsertConflict(r) => tx'[r].month = tx[r].month
      BY <2>1, Conflicts, ConflictedType
    <3>2. QED
      BY <1>2, <3>1 DEF InsertConflict, Goto, Works, Working, ghost
  <2>5. ReadBalance(r) => Works(r)
    <3>1. ReadBalance(r) => tx'[r].month = tx[r].month
      BY <2>1, Reads, PassedType
    <3>2. QED
      BY <1>2, <3>1 DEF ReadBalance, FillUpBy, Goto, Works, Working, ghost
  <2>6. Grant(r) => Works(r)
    <3>1. Grant(r) => tx'[r].month = tx[r].month
      BY <2>1, Grants, GrantedType
    <3>2. QED
      BY <1>2, <3>1 DEF Grant, Goto, Works, Working, ghost
  <2>7. CompanyFails(r) => Works(r)
    <3>1. CompanyFails(r) => tx'[r].month = tx[r].month
      BY <2>1, Fails, UndoneType
    <3>2. QED
      BY <1>2, <3>1 DEF CompanyFails, Goto, Works, Working, ghost
  <2>8. QED
    BY <2>2, <2>3, <2>4, <2>5, <2>6, <2>7
<1>7. Select(r) \/ InsertSubscription(r) \/ InsertConflict(r)
      \/ ReadBalance(r) \/ Grant(r) \/ CompanyFails(r)
      => now' = now /\ happened \subseteq happened'
  BY DEF Select, InsertSubscription, InsertConflict, ReadBalance, Grant, CompanyFails, Strike
<1>8. Commit(r) \/ RunFails(r) \/ Restart(r) => Ends(r) /\ now' = now /\ happened \subseteq happened'
  BY <1>2 DEF Commit, RunFails, Restart, Strike, Sleep, SetSession, Goto, Ends
<1>9. NotDue(r) \/ LockIsHeld(r) => happened \subseteq happened'
  BY DEF NotDue, LockIsHeld
<1>10. QED
  BY <1>1, <1>3, <1>4, <1>5, <1>6, <1>7, <1>8, <1>9 DEF Loop

\* The clock and the requests leave the replicas alone.
LEMMA Elsewhere ==
    ASSUME TypeInv, [Next]_vars, ~\E r \in Replicas : Loop(r) \/ Restart(r)
    PROVE  /\ UNCHANGED <<redisLock, wake, lastMonth, pc, at, monthly, topUp, tx, ghost, happened>>
           /\ \/ Tick
              \/ UNCHANGED vars
              \/ /\ UNCHANGED now
                 /\ \E c \in Companies :
                        Spend(c) \/ Credit(c) \/ Upgrade(c) \/ Downgrade(c) \/ Open(c)
<1>1. \/ Tick \/ UNCHANGED vars
      \/ \E c \in Companies : Spend(c) \/ Credit(c) \/ Upgrade(c) \/ Downgrade(c) \/ Open(c)
  BY DEF Next, Quiet
<1>2. Tick => UNCHANGED <<redisLock, wake, lastMonth, pc, at, monthly, topUp, tx, ghost, happened>>
  BY DEF Tick, found
<1>3. UNCHANGED vars => UNCHANGED <<redisLock, wake, lastMonth, pc, at, monthly, topUp, tx, ghost, happened>>
  BY DEF vars, found
<1>4. ASSUME NEW c \in Companies, Open(c)
      PROVE  UNCHANGED <<now, redisLock, wake, lastMonth, pc, at, monthly, topUp, tx, ghost, happened>>
  BY <1>4 DEF Open, found
<1>5. ASSUME NEW c \in Companies, Spend(c) \/ Credit(c) \/ Upgrade(c) \/ Downgrade(c)
      PROVE  UNCHANGED <<now, redisLock, wake, lastMonth, pc, at, monthly, topUp, tx, ghost, happened>>
  BY <1>5, Requests
<1>6. QED
  BY <1>1, <1>2, <1>3, <1>4, <1>5

\* Initially everybody is on time.
LEMMA TimeInit == Init => TimeInv
<1> SUFFICES ASSUME Init, NEW r \in Replicas PROVE TimeInv!(r)
  BY DEF TimeInv
<1>1. now = 0 /\ wake[r] \in 0..(Day - 1) /\ pc[r] = "asleep"
  BY DEF Init
<1>2. QED
  BY <1>1, ConstantsOK DEF Working

\* Nobody falls behind: time waits for the replicas, and a run renews the lock.
LEMMA TimeNext == TypeInv /\ TypeInv' /\ TimeInv /\ [Next]_vars => TimeInv'
<1> SUFFICES ASSUME TypeInv, TypeInv', TimeInv, [Next]_vars, NEW q \in Replicas
             PROVE  TimeInv!(q)'
  BY DEF TimeInv
<1> USE ConstantsOK
<1>1. /\ pc[q] # "dead" => now <= wake[q] + Lateness
      /\ Working(q) => wake[q] <= now /\ ("no_redis" \notin happened => wake[q] + LockTTL <= redisLock)
      /\ now \in Nat /\ now' \in Nat /\ wake[q] \in Nat /\ redisLock \in Nat /\ redisLock' \in Nat
  BY DEF TimeInv, TypeInv, TypeOK
<1>2. ASSUME NEW r \in Replicas, Loop(r) \/ Restart(r) PROVE TimeInv!(q)'
  <2>1. /\ now' = now /\ happened \subseteq happened' /\ OnlyMoves(r)
        /\ Naps(r) \/ Begins(r) \/ Works(r) \/ Ends(r)
    BY <1>2, KindsOfStep
  <2>2. redisLock' >= redisLock
    BY <1>1, <2>1 DEF Naps, Begins, Works, Ends
  <2>3. CASE q # r
    <3>1. pc'[q] = pc[q] /\ wake'[q] = wake[q]
      BY <2>1, <2>3 DEF OnlyMoves
    <3>2. QED
      BY <1>1, <2>1, <2>2, <3>1 DEF Working
  <2>4. CASE q = r /\ (Naps(r) \/ Ends(r))
    BY <1>1, <2>1, <2>4 DEF Naps, Ends, Working
  <2>5. CASE q = r /\ Begins(r)
    BY <1>1, <2>1, <2>5 DEF Begins, Working
  <2>6. CASE q = r /\ Works(r)
    BY <1>1, <2>1, <2>6 DEF Works, Working
  <2>7. QED
    BY <2>1, <2>3, <2>4, <2>5, <2>6
<1>3. CASE ~\E r \in Replicas : Loop(r) \/ Restart(r)
  <2>1. /\ UNCHANGED <<redisLock, wake, pc, happened>>
        /\ Tick \/ UNCHANGED now
    BY <1>3, Elsewhere DEF vars
  <2>2. Tick => now' = now + 1 /\ (pc[q] = "dead" \/ now < wake[q] + Lateness)
    BY DEF Tick
  <2>3. QED
    BY <1>1, <2>1, <2>2 DEF Working
<1>4. QED
  BY <1>2, <1>3

(***************************************************************************)
(* A reset fills up.                                                       *)
(***************************************************************************)

\* The highest balance that r may bring c to.
Level(r, c) == monthly[r][c] + credited[r][c]

\* What a session has added, or is about to, does not exceed it.
FillsUp(r) ==
    /\ \A c \in Companies : tx[r].delta[c] > 0 => VisibleBalance(r, c) <= Level(r, c)
    /\ pc[r] = "grant" => VisibleBalance(r, at[r]) + topUp[r] <= Level(r, at[r])

\* As long as nobody works without Redis there is one run at a time.
FillInv ==
    "no_redis" \notin happened =>
        /\ \A r, q \in Replicas : Working(r) /\ Working(q) => r = q
        /\ \A r \in Replicas : FillsUp(r)

\* Balances that q looks at do not rise, except as q's level does.
Lowers(q) ==
    \A c \in Companies :
        VisibleSub(q, c) # None =>
            \E n \in Nat : balance'[c] <= balance[c] + n /\ Level(q, c)' = Level(q, c) + n

\* Levels are numbers.
LEMMA LevelType ==
    ASSUME TypeInv, NEW r \in Replicas, NEW c \in Companies
    PROVE  Level(r, c) \in Nat /\ monthly[r][c] \in Nat /\ credited[r][c] \in Nat
BY DEF Level, TypeInv, TypeOK

\* A step of others that raises no balance q looks at keeps what q does right.
LEMMA FillKept ==
    ASSUME TypeInv, TypeInv', NEW q \in Replicas, RowsOf(q), FillsUp(q), Lowers(q),
           pc'[q] = pc[q], tx'[q] = tx[q], at'[q] = at[q], topUp'[q] = topUp[q]
    PROVE  FillsUp(q)'
<1>1. /\ tx[q] \in Sessions /\ topUp[q] \in Nat /\ (pc[q] = "grant" => at[q] \in Companies)
      /\ \A c \in Companies : balance[c] \in Nat /\ balance'[c] \in Nat
  BY DEF TypeInv, TypeOK
<1>2. \A c \in Companies : tx[q].delta[c] \in Nat /\ Level(q, c) \in Nat
  BY <1>1, LevelType DEF Sessions
<1>3. ASSUME NEW c \in Companies, VisibleSub(q, c) # None, NEW u \in Nat,
             VisibleBalance(q, c) + u <= Level(q, c)
      PROVE  VisibleBalance(q, c)' + u <= Level(q, c)'
  <2>1. PICK n \in Nat : balance'[c] <= balance[c] + n /\ Level(q, c)' = Level(q, c) + n
    BY <1>3 DEF Lowers
  <2>2. VisibleBalance(q, c)' = balance'[c] + tx[q].delta[c]
    BY DEF VisibleBalance
  <2>3. QED
    BY <1>1, <1>2, <1>3, <2>1, <2>2 DEF VisibleBalance
<1>4. ASSUME NEW c \in Companies, tx'[q].delta[c] > 0
      PROVE  VisibleBalance(q, c)' <= Level(q, c)'
  <2>1. VisibleSub(q, c) # None /\ VisibleBalance(q, c) <= Level(q, c)
    BY <1>4 DEF RowsOf, FillsUp
  <2>2. VisibleBalance(q, c) \in Nat /\ VisibleBalance(q, c)' \in Nat
    BY <1>1, <1>2 DEF VisibleBalance
  <2>3. VisibleBalance(q, c)' + 0 <= Level(q, c)'
    <3>1. VisibleBalance(q, c) + 0 <= Level(q, c)
      BY <2>1, <2>2
    <3>2. QED
      BY <1>3, <2>1, <3>1
  <2>4. QED
    BY <2>2, <2>3
<1>5. ASSUME pc'[q] = "grant"
      PROVE  VisibleBalance(q, at[q])' + topUp'[q] <= Level(q, at[q])'
  <2>1. PICK c \in Companies : c = at[q] /\ c = at'[q]
    BY <1>1, <1>5
  <2>2. VisibleSub(q, c) # None /\ VisibleBalance(q, c) + topUp[q] <= Level(q, c)
    BY <1>5, <2>1 DEF RowsOf, FillsUp
  <2>3. VisibleBalance(q, c)' + topUp[q] <= Level(q, c)'
    BY <1>1, <1>3, <2>2
  <2>4. VisibleBalance(q, at[q])' = VisibleBalance(q, c)' /\ Level(q, at[q])' = Level(q, c)'
    BY <2>1
  <2>5. QED
    BY <2>3, <2>4
<1>6. QED
  BY <1>4, <1>5 DEF FillsUp

\* A request never brings a replica's companies above its level.
LEMMA RequestLowers ==
    ASSUME TypeInv, TypeInv', NEW q \in Replicas, NEW c \in Companies,
           Spend(c) \/ Credit(c) \/ Upgrade(c) \/ Downgrade(c)
    PROVE  Lowers(q)
<1>1. UNCHANGED <<monthly, tx>>
  BY Requests
<1>2. /\ \A d \in Companies : balance[d] \in Nat /\ balance'[d] \in Nat
      /\ \A d \in Companies : Level(q, d) \in Nat /\ monthly[q][d] \in Nat /\ credited[q][d] \in Nat
  BY LevelType DEF TypeInv, TypeOK
<1>3. CASE Spend(c) \/ Downgrade(c)
  <2>1. UNCHANGED credited
    BY <1>3 DEF Spend, Downgrade
  <2>2. \A d \in Companies : balance'[d] <= balance[d]
    BY <1>2, <1>3, Spends, Downgrades
  <2>3. \A d \in Companies : Level(q, d)' = Level(q, d)
    BY <1>1, <2>1 DEF Level
  <2>4. \A d \in Companies : balance'[d] <= balance[d] + 0 /\ Level(q, d)' = Level(q, d) + 0
    BY <1>2, <2>2, <2>3
  <2>5. QED
    BY <2>4 DEF Lowers
<1>4. CASE Credit(c) \/ Upgrade(c)
  <2>1. PICK n \in Nat : Gain(c, n)
    BY <1>4, Upgrades, CreditResetAssumption DEF Credit
  <2>2. /\ balance'[c] = balance[c] + n /\ credited'[q][c] = credited[q][c] + n
        /\ \A d \in Companies : d # c => balance'[d] = balance[d] /\ credited'[q][d] = credited[q][d]
    BY <2>1, Gaining
  <2>3. balance'[c] <= balance[c] + n /\ Level(q, c)' = Level(q, c) + n
    BY <1>1, <1>2, <2>2 DEF Level
  <2>4. \A d \in Companies : d # c => balance'[d] <= balance[d] + 0 /\ Level(q, d)' = Level(q, d) + 0
    BY <1>1, <1>2, <2>2 DEF Level
  <2>5. QED
    BY <2>3, <2>4 DEF Lowers
<1>5. QED
  BY <1>3, <1>4

\* A step of one replica moves no level of another, and its own only where it
\* is at.
LEMMA LevelsOfOthers ==
    ASSUME TypeInv, NEW r \in Replicas, Loop(r) \/ Restart(r),
           NEW q \in Replicas, NEW c \in Companies, q # r \/ c # at[r]
    PROVE  monthly'[q][c] = monthly[q][c] /\ credited'[q][c] = credited[q][c]
<1>1. CASE Select(r) \/ InsertSubscription(r)
  <2>1. at[r] \in Companies /\ UNCHANGED credited
    BY <1>1, Inserts DEF Select, InsertSubscription
  <2>2. UNCHANGED monthly \/ \E plan : Finds(r, plan)
    BY <1>1 DEF Select, InsertSubscription
  <2>3. ASSUME NEW plan, Finds(r, plan) PROVE monthly'[q][c] = monthly[q][c]
    BY <2>1, <2>3, Finding
  <2>4. QED
    BY <2>1, <2>2, <2>3
<1>2. CASE ReadBalance(r)
  <2>1. UNCHANGED monthly
    BY <1>2 DEF ReadBalance
  <2>2. QED
    BY <1>2, <2>1, Reads
<1>3. CASE /\ ~Select(r) /\ ~InsertSubscription(r) /\ ~ReadBalance(r)
  <2>1. UNCHANGED found
    BY <1>3 DEF Loop, NotDue, AcquireLock, LockIsHeld, NoRedis, RedisError, Begin,
                InsertConflict, Grant, CompanyFails, RunFails, Commit, Restart
  <2>2. QED
    BY <2>1 DEF found
<1>4. QED
  BY <1>1, <1>2, <1>3

\* Initially nothing is added.
LEMMA FillInit == Init => FillInv
<1> SUFFICES ASSUME Init PROVE FillInv
  OBVIOUS
<1>1. \A r \in Replicas : pc[r] = "asleep" /\ tx[r] = Clean(0)
  BY DEF Init
<1>2. QED
  BY <1>1, CleanType, ZeroIsAMonth DEF FillInv, FillsUp, Working

\* A run is over before its lock expires: nobody begins while another works.
LEMMA FillNext ==
    ASSUME Lateness < LockTTL
    PROVE  TypeInv /\ TypeInv' /\ RowInv /\ TimeInv /\ FillInv /\ [Next]_vars => FillInv'
<1> SUFFICES ASSUME TypeInv, TypeInv', RowInv, TimeInv, FillInv, [Next]_vars,
                    "no_redis" \notin happened'
             PROVE  FillInv'
  BY DEF FillInv
<1> USE ConstantsOK
<1>1. happened \subseteq happened'
  BY KindsOfStep, Elsewhere
<1>2. /\ "no_redis" \notin happened
      /\ \A r, q \in Replicas : Working(r) /\ Working(q) => r = q
      /\ \A r \in Replicas : FillsUp(r) /\ RowsOf(r) /\ (~Working(r) => tx[r] = Clean(0))
  BY <1>1 DEF FillInv, RowInv
<1>3. \A r, q \in Replicas : Working(r)' /\ Working(q)' => r = q
  <2>1. ASSUME NEW r \in Replicas, Loop(r) \/ Restart(r), NEW q \in Replicas \ {r},
               Working(q)', Working(r)'
        PROVE  FALSE
    <3>1. OnlyMoves(r) /\ (Naps(r) \/ Begins(r) \/ Works(r) \/ Ends(r))
      BY <2>1, KindsOfStep
    <3>2. Working(q)
      BY <2>1, <3>1 DEF OnlyMoves, Working
    <3>3. Begins(r)
      BY <1>2, <2>1, <3>1, <3>2 DEF Naps, Works, Ends, Working
    <3>4. redisLock <= now
      BY <3>3 DEF Begins
    <3>5. wake[q] + LockTTL <= redisLock /\ now <= wake[q] + Lateness
      BY <1>2, <3>2 DEF TimeInv, Working
    <3>6. now \in Nat /\ wake[q] \in Nat /\ redisLock \in Nat
      BY DEF TypeInv, TypeOK
    <3>7. QED
      BY <3>4, <3>5, <3>6
  <2>2. ASSUME ~\E r \in Replicas : Loop(r) \/ Restart(r)
        PROVE  pc' = pc
    BY <2>2, Elsewhere
  <2>3. ASSUME NEW r \in Replicas, NEW q \in Replicas, Working(r)', Working(q)', r # q PROVE FALSE
    <3>1. CASE ~\E p \in Replicas : Loop(p) \/ Restart(p)
      BY <1>2, <2>2, <2>3, <3>1 DEF Working
    <3>2. ASSUME NEW p \in Replicas, Loop(p) \/ Restart(p), p # r, p # q PROVE FALSE
      <4>1. OnlyMoves(p)
        BY <3>2, KindsOfStep
      <4>2. QED
        BY <1>2, <2>3, <3>2, <4>1 DEF OnlyMoves, Working
    <3>3. QED
      BY <2>1, <2>3, <3>1, <3>2
  <2>4. QED
    BY <2>3
<1>4. SUFFICES ASSUME NEW q \in Replicas PROVE FillsUp(q)'
  BY <1>3 DEF FillInv
<1>5. ASSUME tx'[q] = Clean(0) \/ tx'[q] = Clean(MonthOf(now)), pc'[q] # "grant" PROVE FillsUp(q)'
  BY <1>5, CleanType, ZeroIsAMonth, MonthInRange DEF FillsUp, TypeInv, TypeOK
<1>6. \A c \in Companies : sub[c] = None /\ subLock[c] = None => VisibleSub(q, c) = None
  BY <1>2 DEF RowsOf, VisibleSub
<1>7. \A c \in Companies : balance[c] \in Nat
  BY DEF TypeInv, TypeOK
<1>8. ASSUME UNCHANGED <<pc, tx, at, topUp>>, Lowers(q) PROVE FillsUp(q)'
  BY <1>2, <1>8, FillKept
<1>9. ASSUME UNCHANGED balance, \A c \in Companies : Level(q, c)' = Level(q, c) PROVE Lowers(q)
  <2>1. \A c \in Companies : balance'[c] <= balance[c] + 0 /\ Level(q, c)' = Level(q, c) + 0
    BY <1>7, <1>9, LevelType
  <2>2. QED
    BY <2>1 DEF Lowers
<1>10. CASE ~\E r \in Replicas : Loop(r) \/ Restart(r)
  <2>1. UNCHANGED <<pc, tx, at, topUp, monthly>>
    BY <1>10, Elsewhere
  <2>2. CASE Tick \/ UNCHANGED vars
    <3>1. UNCHANGED <<balance, monthly, credited>>
      BY <2>2 DEF Tick, vars, store, found
    <3>2. QED
      BY <1>8, <1>9, <2>1, <3>1 DEF Level
  <2>3. ASSUME NEW c \in Companies, Spend(c) \/ Credit(c) \/ Upgrade(c) \/ Downgrade(c) PROVE FillsUp(q)'
    BY <1>8, <2>1, <2>3, RequestLowers
  <2>4. ASSUME NEW c \in Companies, Open(c) PROVE FillsUp(q)'
    <3>1. /\ sub[c] = None /\ subLock[c] = None /\ UNCHANGED <<monthly, credited>>
          /\ \A d \in Companies : d # c => balance'[d] = balance[d]
      BY <2>4 DEF Open, found, TypeInv, TypeOK
    <3>2. ASSUME NEW d \in Companies, VisibleSub(q, d) # None
          PROVE  balance'[d] <= balance[d] + 0 /\ Level(q, d)' = Level(q, d) + 0
      <4>1. d # c
        BY <1>6, <3>1, <3>2
      <4>2. Level(q, d)' = Level(q, d) /\ Level(q, d) \in Nat
        BY <3>1, LevelType DEF Level
      <4>3. QED
        BY <1>7, <3>1, <4>1, <4>2
    <3>3. Lowers(q)
      BY <3>2 DEF Lowers
    <3>4. QED
      BY <1>8, <2>1, <3>3
  <2>5. QED
    BY <1>10, <2>2, <2>3, <2>4, Elsewhere
<1>11. ASSUME NEW r \in Replicas, r # q, Loop(r) \/ Restart(r) PROVE FillsUp(q)'
  <2>1. pc'[q] = pc[q] /\ tx'[q] = tx[q] /\ at'[q] = at[q] /\ topUp'[q] = topUp[q]
    BY <1>11, KindsOfStep DEF OnlyMoves
  <2>2. CASE Commit(r)
    <3>1. Working(r)
      BY <2>2 DEF Commit, Working
    <3>2. ~Working(q)
      BY <1>2, <1>11, <3>1
    <3>3. QED
      BY <1>2, <1>5, <2>1, <3>2 DEF Working
  <2>3. CASE ~Commit(r)
    <3>1. UNCHANGED balance
      BY <1>11, <2>3
         DEF Loop, NotDue, AcquireLock, LockIsHeld, NoRedis, RedisError, Begin, Select,
             InsertSubscription, InsertConflict, ReadBalance, Grant, CompanyFails, RunFails, Restart,
             store
    <3>2. \A c \in Companies : Level(q, c)' = Level(q, c)
      BY <1>11, LevelsOfOthers DEF Level
    <3>3. QED
      BY <1>2, <1>9, <2>1, <3>1, <3>2, FillKept
  <2>4. QED
    BY <2>2, <2>3
<1>12. ASSUME Naps(q) \/ Begins(q) \/ Ends(q) PROVE FillsUp(q)'
  <2>1. pc'[q] # "grant"
    BY <1>12 DEF Naps, Begins, Ends
  <2>2. tx'[q] = Clean(0) \/ tx'[q] = Clean(MonthOf(now))
    BY <1>2, <1>12 DEF Naps, Begins, Ends, Working
  <2>3. QED
    BY <1>5, <2>1, <2>2
<1>13. /\ tx[q] \in Sessions /\ topUp[q] \in Nat
       /\ pc[q] \in {"insert", "read", "grant"} => at[q] \in Companies
       /\ \A c \in Companies : tx[q].delta[c] \in Nat
  BY DEF TypeInv, TypeOK, Sessions
<1>14. \A p : monthly_credits(p) \in Nat
  BY LimitsAreNat
<1>15. ASSUME RedisError(q) \/ Select(q) PROVE FillsUp(q)'
  <2>1. /\ UNCHANGED <<balance, tx>> /\ pc'[q] # "grant"
        /\ RedisError(q) \/ (pc[q] = "select" /\ at[q] \in Companies)
    BY <1>15 DEF RedisError, Select, Goto, store, TypeInv, TypeOK
  <2>2. \A c : VisibleBalance(q, c)' = VisibleBalance(q, c)
    BY <2>1 DEF VisibleBalance
  <2>3. ASSUME NEW c \in Companies, tx[q].delta[c] > 0 PROVE Level(q, c)' = Level(q, c)
    <3>1. CASE RedisError(q)
      BY <3>1 DEF RedisError, found, Level
    <3>2. CASE pc[q] = "select" /\ at[q] \in Companies
      <4>1. c # at[q]
        BY <1>2, <2>3, <3>2 DEF RowsOf
      <4>2. QED
        BY <1>15, <4>1, LevelsOfOthers DEF Loop, Level
    <3>3. QED
      BY <2>1, <3>1, <3>2
  <2>4. QED
    BY <1>2, <2>1, <2>2, <2>3 DEF FillsUp
<1>16. ASSUME InsertSubscription(q) PROVE FillsUp(q)'
  <2>1. PICK c \in Companies : c = at[q]
    BY <1>16, Inserts
  <2>2. pc[q] = "insert" /\ pc'[q] = "read" /\ UNCHANGED <<sub, balance, credited>> /\ sub[c] = None
    BY <1>16, <2>1 DEF InsertSubscription, Goto, TypeInv, TypeOK
  <2>3. /\ tx'[q].delta[c] = tx[q].delta[c] + monthly_credits("free")
        /\ \A d \in Companies : d # c => tx'[q].delta[d] = tx[q].delta[d]
    BY <1>13, <1>16, <2>1, Inserts, InsertedType
  <2>4. tx[q].delta[c] = 0 /\ balance[c] = 0
    BY <1>2, <2>1, <2>2 DEF RowsOf, RowInv
  <2>5. VisibleBalance(q, c)' = monthly_credits("free")
    BY <1>14, <2>2, <2>3, <2>4 DEF VisibleBalance
  <2>6. VisibleBalance(q, c)' <= Level(q, c)'
    <3>1. monthly'[q][c] = monthly_credits("free")
      BY <1>16, <2>1, Finding DEF InsertSubscription
    <3>2. credited'[q][c] \in Nat
      BY DEF TypeInv, TypeOK
    <3>3. QED
      BY <1>14, <2>5, <3>1, <3>2 DEF Level
  <2>7. \A d \in Companies : d # c => /\ Level(q, d)' = Level(q, d)
                                      /\ VisibleBalance(q, d)' = VisibleBalance(q, d)
    BY <1>16, <2>1, <2>2, <2>3, LevelsOfOthers DEF Loop, Level, VisibleBalance
  <2>8. QED
    BY <1>2, <2>2, <2>3, <2>6, <2>7 DEF FillsUp
<1>17. ASSUME InsertConflict(q) PROVE FillsUp(q)'
  <2>1. pc'[q] = "select"
    BY <1>17 DEF InsertConflict, Goto, TypeInv, TypeOK
  <2>2. \A c \in Companies : tx'[q].delta[c] = 0
    BY <1>13, <1>17, Conflicts, ConflictedType
  <2>3. QED
    BY <2>1, <2>2 DEF FillsUp
<1>18. ASSUME ReadBalance(q) PROVE FillsUp(q)'
  <2>1. PICK c \in Companies : c = at[q]
    BY <1>18, Reads
  <2>2. UNCHANGED <<balance, monthly>>
    BY <1>18 DEF ReadBalance, store
  <2>3. /\ tx'[q].delta = tx[q].delta
        /\ \/ /\ pc'[q] = "grant" /\ at'[q] = c /\ credited'[q][c] = 0 /\ topUp'[q] > 0
              /\ topUp'[q] = monthly[q][c] - VisibleBalance(q, c) /\ topUp'[q] \in Nat
           \/ pc'[q] = "select" /\ credited' = credited
    <3>1. Passed(tx[q], c).delta = tx[q].delta
      BY <1>13, PassedType
    <3>2. QED
      BY <1>18, <2>1, <3>1, Reads
  <2>4. \A d \in Companies : VisibleBalance(q, d)' = VisibleBalance(q, d)
    BY <2>2, <2>3 DEF VisibleBalance
  <2>5. VisibleBalance(q, c) \in Nat /\ monthly[q][c] \in Nat
    BY <1>7, <1>13, LevelType DEF VisibleBalance
  <2>6. \A d \in Companies : d # c => Level(q, d)' = Level(q, d)
    BY <1>18, <2>1, LevelsOfOthers DEF Loop, Level
  <2>7. CASE pc'[q] = "select" /\ credited' = credited
    <3>1. Level(q, c)' = Level(q, c)
      BY <2>2, <2>7 DEF Level
    <3>2. QED
      BY <1>2, <2>3, <2>4, <2>6, <2>7, <3>1 DEF FillsUp
  <2>8. CASE /\ pc'[q] = "grant" /\ at'[q] = c /\ credited'[q][c] = 0 /\ topUp'[q] > 0
             /\ topUp'[q] = monthly[q][c] - VisibleBalance(q, c) /\ topUp'[q] \in Nat
    <3>1. Level(q, c)' = monthly[q][c]
      BY <2>2, <2>5, <2>8 DEF Level
    <3>2. VisibleBalance(q, c)' + topUp'[q] <= Level(q, c)' /\ VisibleBalance(q, c)' <= Level(q, c)'
      <4> PICK n \in Nat, v \in Nat, k \in Nat :
               n = topUp'[q] /\ v = VisibleBalance(q, c) /\ k = monthly[q][c]
        BY <2>5, <2>8
      <4>1. n = k - v /\ Level(q, c)' = k /\ VisibleBalance(q, c)' = v
        BY <2>4, <2>8, <3>1
      <4>2. v + n <= k /\ v <= k
        BY <4>1
      <4>3. QED
        BY <4>1, <4>2
    <3>3. VisibleBalance(q, at[q])' = VisibleBalance(q, c)' /\ Level(q, at[q])' = Level(q, c)'
      BY <2>8
    <3>4. QED
      BY <1>2, <2>3, <2>4, <2>6, <3>2, <3>3 DEF FillsUp
  <2>9. QED
    BY <2>3, <2>7, <2>8
<1>19. ASSUME Grant(q) PROVE FillsUp(q)'
  <2>1. PICK c \in Companies : c = at[q]
    BY <1>19, Grants
  <2>2. pc[q] = "grant" /\ pc'[q] = "select" /\ UNCHANGED <<balance, monthly, credited>>
    BY <1>19 DEF Grant, Goto, found, TypeInv, TypeOK
  <2>3. /\ tx'[q].delta[c] = tx[q].delta[c] + topUp[q]
        /\ \A d \in Companies : d # c => tx'[q].delta[d] = tx[q].delta[d]
    <3>1. tx'[q] = Granted(tx[q], c, topUp[q])
      BY <1>19, <2>1, Grants
    <3>2. /\ Granted(tx[q], c, topUp[q]).delta[c] = tx[q].delta[c] + topUp[q]
          /\ \A d \in Companies : d # c => Granted(tx[q], c, topUp[q]).delta[d] = tx[q].delta[d]
      <4>1. tx[q] \in Sessions /\ topUp[q] \in Nat /\ c \in Companies
        BY <1>13, <2>1
      <4>2. QED
        BY <4>1, GrantedType
    <3>3. QED
      BY <3>1, <3>2
  <2>4. \A d \in Companies : /\ Level(q, d)' = Level(q, d)
                             /\ d # c => VisibleBalance(q, d)' = VisibleBalance(q, d)
    BY <2>2, <2>3 DEF VisibleBalance, Level
  <2>5. VisibleBalance(q, c)' = VisibleBalance(q, c) + topUp[q]
    BY <1>7, <1>13, <2>2, <2>3 DEF VisibleBalance
  <2>6. VisibleBalance(q, c) + topUp[q] <= Level(q, c)
    BY <1>2, <2>1, <2>2 DEF FillsUp
  <2>7. QED
    BY <1>2, <2>2, <2>3, <2>4, <2>5, <2>6 DEF FillsUp
<1>20. ASSUME CompanyFails(q) PROVE FillsUp(q)'
  <2>1. PICK c \in Companies : c = at[q]
    BY <1>20, Fails
  <2>2. pc'[q] = "select" /\ UNCHANGED <<balance, monthly, credited>>
    BY <1>20 DEF CompanyFails, Goto, found, TypeInv, TypeOK
  <2>3. /\ tx'[q].delta[c] = 0
        /\ \A d \in Companies : d # c => tx'[q].delta[d] = tx[q].delta[d]
    BY <1>13, <1>20, <2>1, Fails, UndoneType
  <2>4. \A d \in Companies : d # c => /\ Level(q, d)' = Level(q, d)
                                      /\ VisibleBalance(q, d)' = VisibleBalance(q, d)
    BY <2>2, <2>3 DEF VisibleBalance, Level
  <2>5. QED
    BY <1>2, <2>2, <2>3, <2>4 DEF FillsUp
<1>21. ASSUME Loop(q) \/ Restart(q) PROVE FillsUp(q)'
  <2>1. \/ Naps(q) \/ Begins(q) \/ Ends(q)
        \/ RedisError(q) \/ Select(q) \/ InsertSubscription(q) \/ InsertConflict(q)
        \/ ReadBalance(q) \/ Grant(q) \/ CompanyFails(q)
    <3>1. NotDue(q) \/ LockIsHeld(q) \/ AcquireLock(q) \/ NoRedis(q)
          \/ RunFails(q) \/ Commit(q) \/ Restart(q)
          => ~Works(q) \/ RedisError(q)
      BY DEF NotDue, LockIsHeld, AcquireLock, NoRedis, RunFails, Commit, Restart, Begin, WakesOnFirst,
             Sleep, Goto, Works, Working, TypeInv, TypeOK
    <3>2. QED
      BY <1>21, <3>1, KindsOfStep DEF Loop
  <2>2. QED
    BY <1>12, <1>15, <1>16, <1>17, <1>18, <1>19, <1>20, <2>1
<1>22. QED
  BY <1>10, <1>11, <1>21

\* TopsUpOnly, if a run ends before its lock expires: a reset brings a company
\* to the credits of the plan it found, and on top of that there is only what
\* requests have added since it read the balance.
THEOREM NothingIsCarriedOver ==
    ASSUME Lateness < LockTTL
    PROVE  Spec => TopsUpOnly
<1> DEFINE Inv == TypeInv /\ RowInv /\ TimeInv /\ FillInv
<1>1. Init => Inv
  BY TypeInit, RowInit, TimeInit, FillInit
<1>2. Inv /\ [Next]_vars => Inv'
  BY TypeNext, RowNext, TimeNext, FillNext
<1>3. Inv /\ [Next]_vars =>
          [\A r \in Replicas, c \in Companies :
              pc'[r] # pc[r] /\ balance'[c] > balance[c] /\ "no_redis" \notin happened
                  => balance'[c] <= monthly[r][c] + credited[r][c]]_vars
  <2> SUFFICES ASSUME Inv, Next, NEW r \in Replicas, NEW c \in Companies,
                      pc'[r] # pc[r], balance'[c] > balance[c], "no_redis" \notin happened
               PROVE  balance'[c] <= Level(r, c)
    BY DEF Level
  <2>1. balance[c] \in Nat /\ FillsUp(r) /\ tx[r].delta[c] \in Nat
    BY DEF FillInv, TypeInv, TypeOK, Sessions
  <2>2. ~(balance' = balance)
    <3>1. ~(balance'[c] = balance[c])
      BY <2>1
    <3>2. QED
      BY <3>1, Zenon
  <2>3. PICK q \in Replicas : Loop(q) \/ Restart(q)
    <3>1. ~(pc' = pc)
      BY Zenon
    <3>2. QED
      BY <3>1, Elsewhere
  <2>4. q = r
    BY <2>3, OnlyOneMoves DEF OnlyMoves
  <2>5. Commit(r)
    BY <2>2, <2>3, <2>4, ZenonT(60)
       DEF store, Loop, NotDue, AcquireLock, LockIsHeld, NoRedis, RedisError, Begin, Select,
           InsertSubscription, InsertConflict, ReadBalance, Grant, CompanyFails, RunFails, Restart
  <2>6. balance'[c] = VisibleBalance(r, c)
    BY <2>5 DEF Commit, VisibleBalance
  <2>7. tx[r].delta[c] > 0
    BY <2>1, <2>6 DEF VisibleBalance
  <2>8. QED
    BY <2>1, <2>6, <2>7 DEF FillsUp
<1>4. QED
  BY <1>1, <1>2, <1>3, PTL DEF Spec, TopsUpOnly

(***************************************************************************)
(* Once a month.                                                           *)
(***************************************************************************)

\* A day later it is the same time of the day.
LEMMA NextDay == ASSUME NEW t \in Nat PROVE (t + Day) % Day = t % Day
<1> DEFINE a == t \div Day
           s == t % Day
<1>1. Day \in Nat \ {0} /\ a \in Nat /\ s \in 0..(Day - 1) /\ t = Day * a + s
  BY ConstantsOK, Division
<1> HIDE DEF a, s
<1>2. t + Day = Day * (a + 1) + s
  BY <1>1
<1>3. (t + Day) % Day = s
  BY <1>1, <1>2, QuotientIs
<1>4. QED
  BY <1>3 DEF s

\* The time of the day during the first day of a month.
LEMMA TimeOfDay ==
    ASSUME NEW t \in Nat, NEW m \in Nat, Start(m) <= t, t < Start(m) + Day
    PROVE  t % Day = t - Start(m)
<1> DEFINE a == DaysPerMonth * m
           s == t - Start(m)
<1>1. Day \in Nat \ {0} /\ a \in Nat
  BY ConstantsOK
<1>2. s \in 0..(Day - 1) /\ t = Day * a + s
  BY <1>1 DEF Start
<1> HIDE DEF a, s
<1>3. t % Day = s
  BY <1>1, <1>2, QuotientIs, SMTT(40)
<1>4. QED
  BY <1>3 DEF s

\* The replicas wake up within Spread of each other.
InPhase == \A r, q \in Replicas : (wake[r] % Day) - (wake[q] % Day) <= Spread

\* Somebody is resetting month m, or has topped somebody up.
Claimed(m) == \/ \E r \in Replicas : Working(r) /\ tx[r].month = m
              \/ \E c \in Companies : topUps[<<c, m>>] > 0

\* Nobody will begin with a month that is claimed: it wakes up after the
\* first, it remembers the month, or it finds the lock taken.
StaysClaimed ==
    \A m \in Months : Claimed(m) =>
        /\ Start(m) <= now
        /\ \A q \in Replicas : pc[q] = "asleep" =>
              wake[q] >= Start(m) + Day \/ lastMonth[q] = m \/ redisLock > wake[q]

\* A run is the first of its month.
FreshRuns == \A r \in Replicas : Working(r) => \A c \in Companies : topUps[<<c, tx[r].month>>] = 0

\* OncePerMonth without its condition.
OnceOnly == \A k \in Companies \X Months : topUps[k] <= 1

\* All of this, unless a fault strikes that costs it.
ClaimInv ==
    happened \cap {"no_redis", "restart"} = {} => InPhase /\ StaysClaimed /\ FreshRuns /\ OnceOnly

\* Initially no month is claimed.
LEMMA ClaimInit == Init => ClaimInv
<1> SUFFICES ASSUME Init PROVE ClaimInv
  OBVIOUS
<1>1. InPhase
  <2>1. ASSUME NEW r \in Replicas PROVE wake[r] % Day = wake[r] /\ wake[r] \in Nat
    <3>1. wake[r] \in 0..(Day - 1) /\ Day \in Nat \ {0}
      BY ConstantsOK DEF Init
    <3>2. QED
      BY <3>1
  <2>2. QED
    BY <2>1 DEF InPhase, Init
<1>2. \A m \in Months : ~Claimed(m)
  <2>1. topUps = [k \in Companies \X Months |-> 0]
    BY DEF Init
  <2>2. ASSUME NEW c \in Companies, NEW m \in Months PROVE ~(topUps[<<c, m>>] > 0)
    <3>1. topUps[<<c, m>>] = 0
      BY <2>1
    <3>2. QED
      BY <3>1
  <2>3. \A r \in Replicas : ~Working(r)
    BY DEF Init, Working
  <2>4. QED
    BY <2>2, <2>3 DEF Claimed
<1>3. FreshRuns /\ OnceOnly
  BY DEF Init, FreshRuns, OnceOnly, Working
<1>4. QED
  BY <1>1, <1>2, <1>3 DEF ClaimInv, StaysClaimed

\* Who begins finds its month unclaimed, and claims it for the others.
LEMMA ClaimNext ==
    ASSUME Lateness = 0, Spread < LockTTL
    PROVE  TypeInv /\ TypeInv' /\ TimeInv /\ FillInv /\ ClaimInv /\ [Next]_vars => ClaimInv'
<1> SUFFICES ASSUME TypeInv, TypeInv', TimeInv, FillInv, ClaimInv, [Next]_vars,
                    happened' \cap {"no_redis", "restart"} = {}
             PROVE  (InPhase /\ StaysClaimed /\ FreshRuns /\ OnceOnly)'
  BY DEF ClaimInv
<1> USE ConstantsOK
<1>1. happened \subseteq happened'
  BY KindsOfStep, Elsewhere
<1>2. /\ InPhase /\ StaysClaimed /\ FreshRuns /\ OnceOnly
      /\ "no_redis" \notin happened' /\ "no_redis" \notin happened /\ "restart" \notin happened'
      /\ \A r, q \in Replicas : Working(r) /\ Working(q) => r = q
  BY <1>1 DEF ClaimInv, FillInv
<1>3. /\ now \in Nat /\ now' \in Nat /\ now \in 0..Horizon /\ redisLock \in Nat /\ redisLock' \in Nat
      /\ \A r \in Replicas : /\ wake[r] \in Nat /\ wake'[r] \in Nat
                             /\ tx[r] \in Sessions /\ tx[r].month \in Months
      /\ \A m \in Months : m \in Nat /\ Start(m) \in Nat
      /\ \A c \in Companies, m \in Months : topUps[<<c, m>>] \in Nat /\ topUps'[<<c, m>>] \in Nat
  <2>1. \A m \in Months : m \in Nat /\ Start(m) \in Nat
    BY DEF Months, Start
  <2>2. QED
    BY <2>1 DEF TypeInv, TypeOK, Sessions
<1>4. \A r \in Replicas : /\ pc[r] # "dead" => now <= wake[r]
                          /\ Working(r) => wake[r] = now
  BY <1>3 DEF TimeInv, Working
<1>5. ASSUME UNCHANGED topUps, \A q \in Replicas : Working(q)' => Working(q) /\ tx'[q].month = tx[q].month
      PROVE  FreshRuns' /\ OnceOnly' /\ \A m \in Months : Claimed(m)' => Claimed(m)
  BY <1>2, <1>5 DEF FreshRuns, OnceOnly, Claimed
<1>6. CASE ~\E r \in Replicas : Loop(r) \/ Restart(r)
  <2>1. /\ UNCHANGED <<redisLock, wake, lastMonth, pc, tx, topUps>>
        /\ now' >= now
    BY <1>3, <1>6, Elsewhere DEF Tick, vars, ghost
  <2>2. InPhase'
    BY <1>2, <2>1 DEF InPhase
  <2>3. FreshRuns' /\ OnceOnly' /\ \A m \in Months : Claimed(m)' => Claimed(m)
    BY <1>5, <2>1 DEF Working
  <2>4. StaysClaimed'
    BY <1>2, <1>3, <2>1, <2>3 DEF StaysClaimed
  <2>5. QED
    BY <2>2, <2>3, <2>4
<1>7. ASSUME NEW r \in Replicas, Loop(r) \/ Restart(r)
      PROVE  (InPhase /\ StaysClaimed /\ FreshRuns /\ OnceOnly)'
  <2>1. now' = now /\ OnlyMoves(r) /\ (Naps(r) \/ Begins(r) \/ Works(r) \/ Ends(r))
    BY <1>7, KindsOfStep
  <2>2. \A q \in Replicas \ {r} :
            /\ pc'[q] = pc[q] /\ tx'[q] = tx[q] /\ wake'[q] = wake[q] /\ lastMonth'[q] = lastMonth[q]
            /\ Working(q)' = Working(q)
    BY <2>1 DEF OnlyMoves, Working
  <2>3. Restart(r) => FALSE
    BY <1>2 DEF Restart, Strike
  <2>4. Ends(r) => Working(r) /\ (Commit(r) \/ RunFails(r))
    BY <2>3 DEF Ends, Commit, RunFails, Working
  <2>5. wake'[r] = wake[r] \/ wake'[r] = wake[r] + Day
    <3>1. Naps(r) => wake[r] = now
      BY <1>3, <1>4 DEF Naps
    <3>2. QED
      BY <1>4, <2>1, <2>4, <3>1 DEF Naps, Begins, Works, Ends
  <2>6. InPhase'
    <3>1. \A q \in Replicas : wake'[q] % Day = wake[q] % Day
      BY <1>3, <2>2, <2>5, NextDay
    <3>2. QED
      BY <1>2, <3>1 DEF InPhase
  <2>7. CASE Naps(r)
    <3>1. UNCHANGED <<topUps, redisLock>> /\ wake'[r] = now + Day /\ ~Working(r)'
      BY <2>7 DEF Naps, Working
    <3>2. FreshRuns' /\ OnceOnly' /\ \A m \in Months : Claimed(m)' => Claimed(m)
      BY <1>5, <2>2, <3>1
    <3>3. StaysClaimed'
      BY <1>2, <1>3, <2>1, <2>2, <3>1, <3>2 DEF StaysClaimed
    <3>4. QED
      BY <2>6, <3>2, <3>3
  <2>8. CASE Works(r)
    <3>1. /\ UNCHANGED <<topUps, redisLock>> /\ pc'[r] # "asleep"
          /\ Working(r)' => Working(r) /\ tx'[r].month = tx[r].month
      BY <2>8 DEF Works, Working
    <3>2. FreshRuns' /\ OnceOnly' /\ \A m \in Months : Claimed(m)' => Claimed(m)
      BY <1>5, <2>2, <3>1
    <3>3. StaysClaimed'
      BY <1>2, <1>3, <2>1, <2>2, <3>1, <3>2 DEF StaysClaimed
    <3>4. QED
      BY <2>6, <3>2, <3>3
  <2>9. CASE Begins(r)
    <3> DEFINE M == MonthOf(now)
    <3>1. /\ pc[r] = "asleep" /\ pc'[r] = "select" /\ wake[r] = now /\ DayOf(now) = 1
          /\ lastMonth[r] # M /\ tx'[r].month = M /\ M \in Months /\ UNCHANGED topUps
      <4>1. M \in Months
        BY <1>3, MonthInRange
      <4>2. QED
        BY <1>3, <1>4, <2>9, <4>1, CleanType DEF Begins, Due
    <3>2. redisLock <= now /\ redisLock' = now + LockTTL
      BY <1>2, <2>9 DEF Begins
    <3>3. Start(M) <= now /\ now < Start(M) + Day
      BY <1>3, <3>1, FirstDay
    <3> HIDE DEF M
    <3>4. ~Claimed(M)
      BY <1>2, <1>3, <3>1, <3>2, <3>3 DEF StaysClaimed
    <3>5. \A c \in Companies : topUps[<<c, M>>] = 0
      BY <1>3, <3>1, <3>4 DEF Claimed
    <3>6. FreshRuns' /\ OnceOnly'
      BY <1>2, <2>2, <3>1, <3>5 DEF FreshRuns, OnceOnly
    <3>7. \A m \in Months : Claimed(m)' => Claimed(m) \/ m = M
      BY <2>2, <3>1 DEF Claimed
    <3>8. ASSUME NEW q \in Replicas, pc'[q] = "asleep", wake[q] < Start(M) + Day
          PROVE  redisLock' > wake[q]
      <4>1. now <= wake[q]
        BY <1>4, <2>2, <3>1, <3>8
      <4>2. wake[q] % Day = wake[q] - Start(M) /\ now % Day = now - Start(M)
        BY <1>3, <3>1, <3>3, <3>8, <4>1, TimeOfDay
      <4>3. (wake[q] % Day) - (now % Day) <= Spread
        BY <1>2, <3>1 DEF InPhase
      <4>4. QED
        BY <1>3, <3>1, <3>2, <4>2, <4>3
    <3>9. ASSUME NEW q \in Replicas, pc'[q] = "asleep", NEW m \in Months, Claimed(m)'
          PROVE  wake'[q] >= Start(m) + Day \/ lastMonth'[q] = m \/ redisLock' > wake'[q]
      <4>1. q # r /\ pc[q] = "asleep" /\ wake'[q] = wake[q] /\ lastMonth'[q] = lastMonth[q]
        BY <2>2, <3>1, <3>9
      <4>2. CASE m = M
        BY <1>3, <3>1, <3>8, <3>9, <4>1, <4>2
      <4>3. CASE Claimed(m)
        BY <1>2, <1>3, <1>4, <3>2, <4>1, <4>3 DEF StaysClaimed
      <4>4. QED
        BY <3>7, <3>9, <4>2, <4>3
    <3>10. ASSUME NEW m \in Months, Claimed(m)' PROVE Start(m) <= now'
      BY <1>2, <2>1, <3>3, <3>7, <3>10 DEF StaysClaimed
    <3>11. StaysClaimed'
      BY <3>9, <3>10 DEF StaysClaimed
    <3>12. QED
      BY <2>6, <3>6, <3>11
  <2>10. CASE Ends(r) /\ RunFails(r)
    <3>1. UNCHANGED <<topUps, redisLock, lastMonth>> /\ wake'[r] = now + Day /\ ~Working(r)'
      BY <2>10 DEF Ends, RunFails, ghost, Working
    <3>2. FreshRuns' /\ OnceOnly' /\ \A m \in Months : Claimed(m)' => Claimed(m)
      BY <1>5, <2>2, <3>1
    <3>3. StaysClaimed'
      BY <1>2, <1>3, <2>1, <2>2, <3>1, <3>2 DEF StaysClaimed
    <3>4. QED
      BY <2>6, <3>2, <3>3
  <2>11. CASE Ends(r) /\ Commit(r)
    <3> DEFINE M == tx[r].month
    <3>1. /\ Working(r) /\ ~Working(r)' /\ wake'[r] = now + Day /\ UNCHANGED redisLock
          /\ lastMonth'[r] = M /\ M \in Months
          /\ topUps' = [k \in Companies \X Months |->
                           IF k[1] \in tx[r].granted /\ k[2] = M THEN topUps[k] + 1 ELSE topUps[k]]
      BY <1>3, <2>4, <2>11 DEF Ends, Commit, Working, TypeInv, TypeOK
    <3>2. \A q \in Replicas : ~Working(q)'
      BY <1>2, <2>2, <3>1
    <3>3. Claimed(M) /\ \A c \in Companies : topUps[<<c, M>>] = 0
      BY <1>2, <3>1 DEF Claimed, FreshRuns
    <3> HIDE DEF M
    <3>4. OnceOnly'
      <4>1. ASSUME NEW k \in Companies \X Months PROVE topUps'[k] <= 1
        <5>1. k[1] \in Companies /\ k = <<k[1], k[2]>> /\ topUps[k] <= 1
          BY <1>2 DEF OnceOnly
        <5>2. k[2] = M => topUps[k] = 0
          BY <3>3, <5>1
        <5>3. QED
          BY <3>1, <5>1, <5>2
      <4>2. QED
        BY <4>1 DEF OnceOnly
    <3>5. FreshRuns'
      BY <3>2 DEF FreshRuns
    <3>6. ASSUME NEW m \in Months, Claimed(m)' PROVE Claimed(m)
      <4>1. PICK c \in Companies : topUps'[<<c, m>>] > 0
        BY <3>2, <3>6 DEF Claimed
      <4>2. m = M \/ topUps[<<c, m>>] > 0
        BY <3>1, <4>1
      <4>3. QED
        BY <3>3, <4>2 DEF Claimed
    <3>7. StaysClaimed'
      BY <1>2, <1>3, <2>1, <2>2, <3>1, <3>6 DEF StaysClaimed
    <3>8. QED
      BY <2>6, <3>4, <3>5, <3>7
  <2>12. QED
    BY <2>1, <2>4, <2>7, <2>8, <2>9, <2>10, <2>11
<1>8. QED
  BY <1>6, <1>7

\* OncePerMonth holds if the replicas keep to their schedule and wake up
\* closer together than the lock lives.
THEOREM ToppedUpOnce ==
    ASSUME Lateness = 0, Spread < LockTTL
    PROVE  Spec => []OncePerMonth
<1> DEFINE Inv == TypeInv /\ RowInv /\ TimeInv /\ FillInv /\ ClaimInv
<1>1. Init => Inv
  BY TypeInit, RowInit, TimeInit, FillInit, ClaimInit
<1>2. Lateness < LockTTL
  BY ConstantsOK
<1>3. Inv /\ [Next]_vars => Inv'
  BY <1>2, TypeNext, RowNext, TimeNext, FillNext, ClaimNext
<1>4. Inv => OncePerMonth
  <2>1. TypeInv => DOMAIN topUps = Companies \X Months
    BY DEF TypeInv, TypeOK
  <2>2. QED
    BY <2>1 DEF ClaimInv, OnceOnly, OncePerMonth
<1>5. QED
  BY <1>1, <1>3, <1>4, PTL DEF Spec

(***************************************************************************)
(* No month is missed.                                                     *)
(***************************************************************************)

\* Month m has been reset, or somebody is at it.
Attended(m) == \/ \A c \in Companies : <<c, m>> \in served
               \/ \E r \in Replicas : Working(r) /\ tx[r].month = m

\* A run began on the first of its month and has all that it has passed.
IsThorough(r) ==
    /\ Start(tx[r].month) <= wake[r] /\ wake[r] < Start(tx[r].month) + Day
    /\ tx[r].failed = {}
    /\ \A c \in Companies : c < at[r] => c \in tx[r].done

\* A living replica does not sleep past the first of a month that nobody
\* attends to,
NobodyOversleeps ==
    \A r \in Replicas : pc[r] # "dead" =>
        \A m \in Months : wake[r] >= Start(m) + Day => Attended(m)

\* remembers only months that somebody attended to,
Remembered == \A r \in Replicas : lastMonth[r] # None => Attended(lastMonth[r])

\* and if the lock was taken, then on a first, and for that month.
LockTaken ==
    redisLock # 0 => \E m \in Months : /\ Start(m) <= redisLock - LockTTL
                                       /\ redisLock - LockTTL < Start(m) + Day
                                       /\ redisLock - LockTTL <= now
                                       /\ Attended(m)

\* All of this, unless a fault strikes that costs a month.
MissInv ==
    happened \cap {"restart", "sql_error", "conflict"} = {} =>
        /\ \A r \in Replicas : Working(r) => IsThorough(r)
        /\ NobodyOversleeps /\ Remembered /\ LockTaken

\* Initially no first is over.
LEMMA MissInit == Init => MissInv
<1> SUFFICES ASSUME Init PROVE MissInv
  OBVIOUS
<1>1. \A r \in Replicas : ~Working(r) /\ lastMonth[r] = None /\ wake[r] \in 0..(Day - 1)
  BY DEF Init, Working
<1>2. ASSUME NEW r \in Replicas, NEW m \in Months PROVE ~(wake[r] >= Start(m) + Day)
  <2>1. Start(m) \in Nat /\ Day \in Nat
    BY ConstantsOK DEF Start, Months
  <2>2. wake[r] \in 0..(Day - 1)
    BY <1>1
  <2>3. QED
    BY <2>1, <2>2
<1>3. redisLock = 0
  BY DEF Init
<1>4. QED
  BY <1>1, <1>2, <1>3 DEF MissInv, NobodyOversleeps, Remembered, LockTaken

\* A run stays thorough while no statement fails.
LEMMA StaysThorough ==
    ASSUME TypeInv, TypeInv', NEW r \in Replicas, Loop(r), Works(r), Working(r)', IsThorough(r),
           happened' \cap {"restart", "sql_error", "conflict"} = {}
    PROVE  IsThorough(r)'
<1>1. ~CompanyFails(r) /\ ~RunFails(r) /\ ~InsertConflict(r)
  BY DEF CompanyFails, RunFails, InsertConflict, Strike
<1>2. UNCHANGED wake /\ tx'[r].month = tx[r].month
  BY DEF Works, Working
<1>3. /\ tx[r] \in Sessions /\ topUp[r] \in Nat /\ DOMAIN at = Replicas
      /\ at[r] \in Int /\ \A c \in Companies : c \in Int
  BY DEF TypeInv, TypeOK, Companies
<1>4. ASSUME tx'[r].failed = tx[r].failed,
             \/ at'[r] = at[r] /\ tx'[r].done = tx[r].done
             \/ at'[r] = at[r] + 1 /\ tx'[r].done = tx[r].done \cup {at[r]}
      PROVE  IsThorough(r)'
  BY <1>2, <1>3, <1>4 DEF IsThorough
<1>5. CASE Select(r)
  BY <1>4, <1>5 DEF Select
<1>6. CASE InsertSubscription(r)
  <2>1. tx'[r].failed = tx[r].failed /\ tx'[r].done = tx[r].done
    BY <1>3, <1>6, Inserts, InsertedType
  <2>2. QED
    BY <1>4, <1>6, <2>1 DEF InsertSubscription
<1>7. CASE ReadBalance(r)
  <2>1. Passed(tx[r], at[r]).failed = tx[r].failed /\ Passed(tx[r], at[r]).done = tx[r].done \cup {at[r]}
    BY <1>3, <1>7, Reads, PassedType
  <2>2. QED
    BY <1>3, <1>4, <1>7, <2>1, Reads
<1>8. CASE Grant(r)
  <2>1. tx'[r].failed = tx[r].failed /\ tx'[r].done = tx[r].done \cup {at[r]}
    BY <1>3, <1>8, Grants, GrantedType
  <2>2. QED
    BY <1>3, <1>4, <1>8, <2>1 DEF Grant
<1>9. QED
  <2>1. Select(r) \/ InsertSubscription(r) \/ ReadBalance(r) \/ Grant(r)
    BY <1>1 DEF Loop, Works, Working, NotDue, AcquireLock, LockIsHeld, NoRedis, RedisError, Commit,
                WakesOnFirst, Sleep, Goto, TypeInv, TypeOK
  <2>2. QED
    BY <1>5, <1>6, <1>7, <1>8, <2>1

\* Two months do not share a first.
LEMMA OneFirst ==
    ASSUME NEW t \in Nat, NEW m \in Nat, NEW n \in Nat,
           Start(m) <= t, t < Start(m) + Day, Start(n) <= t, t < Start(n) + Day
    PROVE  m = n
BY FirstDayOf

\* A lock that is held on a first was taken on it, if a month has more days
\* than one.
LEMMA LockOfTheDay ==
    ASSUME DaysPerMonth >= 2, NEW t \in Int, NEW u \in Nat, NEW m \in Nat, NEW n \in Nat,
           Start(m) <= t, t < Start(m) + Day, t <= u, u < t + Day,
           Start(n) <= u, u < Start(n) + Day
    PROVE  m = n
<1>1. Day \in Nat \ {0} /\ DaysPerMonth \in Nat /\ Start(m) \in Nat /\ Start(n) \in Nat
  BY ConstantsOK DEF Start
<1>2. Day * DaysPerMonth >= Day + Day /\ Day * DaysPerMonth \in Nat
  <2>1. DaysPerMonth - 2 \in Nat /\ Day * (DaysPerMonth - 2) \in Nat
    BY <1>1
  <2>2. Day * DaysPerMonth = Day * (DaysPerMonth - 2) + Day + Day
    BY <1>1
  <2>3. QED
    BY <1>1, <2>1, <2>2
<1>3. ~(m < n)
  <2> SUFFICES ASSUME m < n PROVE FALSE
    OBVIOUS
  <2>1. Start(m) + Day * DaysPerMonth <= Start(n)
    BY LaterMonth
  <2>2. QED
    BY <1>1, <1>2, <2>1
<1>4. ~(n < m)
  <2> SUFFICES ASSUME n < m PROVE FALSE
    OBVIOUS
  <2>1. Start(n) + Day * DaysPerMonth <= Start(m)
    BY LaterMonth
  <2>2. QED
    BY <1>1, <1>2, <2>1
<1>5. QED
  BY <1>3, <1>4

\* Whoever sleeps on does so because the month is attended to.
LEMMA MissNext ==
    ASSUME Lateness = 0, DaysPerMonth >= 2
    PROVE  TypeInv /\ TypeInv' /\ TimeInv /\ MissInv /\ [Next]_vars => MissInv'
<1> SUFFICES ASSUME TypeInv, TypeInv', TimeInv, MissInv, [Next]_vars,
                    happened' \cap {"restart", "sql_error", "conflict"} = {}
             PROVE  /\ \A r \in Replicas : Working(r)' => IsThorough(r)'
                    /\ NobodyOversleeps' /\ Remembered' /\ LockTaken'
  BY DEF MissInv
<1> USE ConstantsOK
<1>1. happened \subseteq happened'
  BY KindsOfStep, Elsewhere
<1>2. /\ \A r \in Replicas : Working(r) => IsThorough(r)
      /\ NobodyOversleeps /\ Remembered /\ LockTaken
      /\ "restart" \notin happened' /\ "sql_error" \notin happened'
  BY <1>1 DEF MissInv
<1>3. /\ now \in Nat /\ now' \in Nat /\ now \in 0..Horizon /\ redisLock \in Nat /\ redisLock' \in Nat
      /\ \A r \in Replicas : /\ wake[r] \in Nat /\ wake'[r] \in Nat
                             /\ tx[r] \in Sessions /\ tx[r].month \in Months
      /\ \A m \in Months : m \in Nat /\ Start(m) \in Nat
  <2>1. \A m \in Months : m \in Nat /\ Start(m) \in Nat
    BY DEF Months, Start
  <2>2. QED
    BY <2>1 DEF TypeInv, TypeOK, Sessions
<1>4. \A r \in Replicas : /\ pc[r] # "dead" => now <= wake[r]
                          /\ Working(r) => wake[r] = now
  BY <1>3 DEF TimeInv, Working
<1>5. ASSUME now <= now', \A m \in Months : Attended(m) => Attended(m)', UNCHANGED redisLock
      PROVE  LockTaken'
  BY <1>2, <1>3, <1>5 DEF LockTaken
<1>6. CASE ~\E r \in Replicas : Loop(r) \/ Restart(r)
  <2>1. /\ UNCHANGED <<redisLock, wake, lastMonth, pc, at, tx, served>>
        /\ now' >= now
    BY <1>3, <1>6, Elsewhere DEF Tick, vars, ghost
  <2>2. \A m \in Months : Attended(m)' = Attended(m)
    BY <2>1 DEF Attended, Working
  <2>3. NobodyOversleeps' /\ \A r \in Replicas : Working(r)' => IsThorough(r)'
    BY <1>2, <2>1, <2>2 DEF NobodyOversleeps, Working, IsThorough
  <2>4. Remembered'
    BY <1>2, <2>1, <2>2 DEF Remembered, Attended, Working
  <2>5. LockTaken'
    BY <1>5, <2>1, <2>2
  <2>6. QED
    BY <2>3, <2>4, <2>5
<1>7. ASSUME NEW r \in Replicas, Loop(r) \/ Restart(r)
      PROVE  /\ \A q \in Replicas : Working(q)' => IsThorough(q)'
             /\ NobodyOversleeps' /\ Remembered' /\ LockTaken'
  <2>1. now' = now /\ OnlyMoves(r) /\ (Naps(r) \/ Begins(r) \/ Works(r) \/ Ends(r))
    BY <1>7, KindsOfStep
  <2>2. \A q \in Replicas \ {r} :
            /\ pc'[q] = pc[q] /\ tx'[q] = tx[q] /\ wake'[q] = wake[q] /\ lastMonth'[q] = lastMonth[q]
            /\ at'[q] = at[q] /\ Working(q)' = Working(q)
    BY <2>1 DEF OnlyMoves, Working
  <2>3. Loop(r) /\ (Ends(r) => Working(r) /\ Commit(r))
    <3>1. ~Restart(r) /\ ~RunFails(r)
      BY <1>2 DEF Restart, RunFails, Strike
    <3>2. QED
      BY <1>7, <3>1 DEF Ends, Commit, Working
  <2>4. Ends(r) => \A c \in Companies : <<c, tx[r].month>> \in served'
    <3> SUFFICES ASSUME Commit(r), IsThorough(r), NEW c \in Companies
                 PROVE  <<c, tx[r].month>> \in served'
      BY <1>2, <2>3
    <3>1. c < at[r]
      BY DEF Commit, Companies, TypeInv, TypeOK
    <3>2. c \in tx[r].done
      BY <3>1 DEF IsThorough
    <3>3. QED
      BY <3>2 DEF Commit
  <2>5. served \subseteq served'
    BY <2>1, <2>3 DEF Naps, Begins, Works, Commit
  <2>6. ASSUME NEW m \in Months, Attended(m) PROVE Attended(m)'
    <3>1. CASE \A c \in Companies : <<c, m>> \in served
      BY <2>5, <3>1 DEF Attended
    <3>2. ASSUME NEW q \in Replicas, Working(q), tx[q].month = m PROVE Attended(m)'
      <4>1. CASE q # r
        BY <2>2, <3>2, <4>1 DEF Attended
      <4>2. CASE q = r
        BY <2>1, <2>4, <3>2, <4>2 DEF Attended, Naps, Begins, Works, Working
      <4>3. QED
        BY <4>1, <4>2
    <3>3. QED
      BY <2>6, <3>1, <3>2 DEF Attended
  <2>7. \A q \in Replicas \ {r} :
            /\ Working(q)' => IsThorough(q)'
            /\ pc'[q] # "dead" => \A m \in Months : wake'[q] >= Start(m) + Day => Attended(m)'
            /\ lastMonth'[q] # None => Attended(lastMonth[q])'
    BY <1>2, <2>2, <2>6 DEF IsThorough, NobodyOversleeps, Remembered, TypeInv, TypeOK
  <2>8. ASSUME Working(r)' => IsThorough(r)',
               pc'[r] # "dead" => \A m \in Months : wake'[r] >= Start(m) + Day => Attended(m)',
               lastMonth'[r] # None => Attended(lastMonth[r])',
               LockTaken'
        PROVE  /\ \A q \in Replicas : Working(q)' => IsThorough(q)'
               /\ NobodyOversleeps' /\ Remembered' /\ LockTaken'
    BY <2>7, <2>8 DEF NobodyOversleeps, Remembered
  <2>9. /\ \A m \in Months : lastMonth[r] = m => Attended(m)'
        /\ lastMonth[r] # None => lastMonth[r] \in Months
        /\ UNCHANGED lastMonth => (lastMonth'[r] # None => Attended(lastMonth[r])')
        /\ \A m \in Months : pc[r] # "dead" /\ wake[r] >= Start(m) + Day => Attended(m)'
        /\ UNCHANGED redisLock => LockTaken'
    BY <1>2, <1>3, <1>5, <2>1, <2>6 DEF Remembered, NobodyOversleeps, TypeInv, TypeOK
  <2>10. CASE Naps(r)
    <3>1. /\ pc[r] = "asleep" /\ wake[r] = now /\ wake'[r] = now + Day /\ ~Working(r)'
          /\ UNCHANGED <<lastMonth, redisLock>> /\ (~Due(r) \/ redisLock > now)
      BY <1>3, <1>4, <2>10 DEF Naps, Working
    <3>2. ASSUME NEW m \in Months, wake'[r] >= Start(m) + Day PROVE Attended(m)'
      <4>1. CASE wake[r] >= Start(m) + Day
        BY <2>9, <3>1, <4>1
      <4>2. CASE wake[r] < Start(m) + Day
        <5>1. Start(m) <= now /\ now < Start(m) + Day
          BY <1>3, <3>1, <3>2, <4>2
        <5>2. DayOf(now) = 1 /\ MonthOf(now) = m
          BY <1>3, <5>1, FirstDayOf
        <5>3. CASE ~Due(r)
          <6>1. lastMonth[r] = m
            BY <5>2, <5>3 DEF Due
          <6>2. QED
            BY <2>9, <6>1
        <5>4. CASE redisLock > now
          <6>1. redisLock # 0
            BY <1>3, <5>4
          <6>2. PICK n \in Months : /\ Start(n) <= redisLock - LockTTL
                                    /\ redisLock - LockTTL < Start(n) + Day
                                    /\ redisLock - LockTTL <= now
                                    /\ Attended(n)
            BY <1>2, <6>1 DEF LockTaken
          <6>3. redisLock - LockTTL \in Int /\ now < (redisLock - LockTTL) + Day
            BY <1>3, <5>4
          <6>4. n = m
            BY <1>3, <5>1, <6>2, <6>3, LockOfTheDay
          <6>5. QED
            BY <2>6, <6>2, <6>4
        <5>5. QED
          BY <3>1, <5>3, <5>4
      <4>3. QED
        BY <1>3, <4>1, <4>2
    <3>3. QED
      BY <2>8, <2>9, <3>1, <3>2
  <2>11. CASE Begins(r)
    <3>1. PICK M \in Months : M = MonthOf(now)
      BY <1>3, MonthInRange
    <3>2. /\ pc[r] = "asleep" /\ wake[r] = now /\ DayOf(now) = 1 /\ at'[r] = 1 /\ Working(r)'
          /\ tx'[r].month = M /\ tx'[r].failed = {} /\ UNCHANGED <<wake, lastMonth>>
      BY <1>3, <1>4, <2>11, <3>1, CleanType DEF Begins, Due, Working
    <3>3. Start(M) <= now /\ now < Start(M) + Day
      BY <1>3, <3>1, <3>2, FirstDay
    <3>4. redisLock' = now + LockTTL \/ UNCHANGED redisLock
      BY <2>11 DEF Begins
    <3>5. IsThorough(r)' /\ Attended(M)'
      BY <1>3, <3>1, <3>2, <3>3 DEF IsThorough, Attended, Companies
    <3>6. redisLock' = now + LockTTL => LockTaken'
      <4>1. redisLock' = now + LockTTL => redisLock' - LockTTL = now
        BY <1>3
      <4>2. QED
        BY <2>1, <3>1, <3>3, <3>5, <4>1 DEF LockTaken
    <3>7. QED
      BY <2>8, <2>9, <3>2, <3>4, <3>5, <3>6
  <2>12. CASE Works(r)
    <3>1. UNCHANGED <<wake, lastMonth, redisLock>> /\ (pc'[r] # "dead" => pc[r] # "dead")
          /\ (Working(r)' => Working(r))
      BY <2>12 DEF Works, Working
    <3>2. Working(r)' => IsThorough(r)'
      BY <1>2, <2>3, <2>12, <3>1, StaysThorough
    <3>3. QED
      BY <2>8, <2>9, <3>1, <3>2
  <2>13. CASE Ends(r)
    <3>0. PICK M \in Months : M = tx[r].month
      BY <1>3
    <3>1. /\ Working(r) /\ ~Working(r)' /\ pc[r] # "dead" /\ wake[r] = now /\ wake'[r] = now + Day
          /\ UNCHANGED redisLock /\ lastMonth'[r] = M
      BY <1>3, <1>4, <2>3, <2>13, <3>0 DEF Ends, Commit, Working, TypeInv, TypeOK
    <3>2. Attended(M)' /\ Attended(lastMonth[r])'
      <4>1. Attended(M)'
        BY <2>4, <2>13, <3>0 DEF Attended
      <4>2. QED
        BY <3>1, <4>1 DEF Attended
    <3>3. Start(M) <= now /\ now < Start(M) + Day
      BY <1>2, <3>0, <3>1 DEF IsThorough
    <3>4. ASSUME NEW m \in Months, wake'[r] >= Start(m) + Day PROVE Attended(m)'
      <4>1. CASE wake[r] >= Start(m) + Day
        BY <2>9, <3>1, <4>1
      <4>2. CASE wake[r] < Start(m) + Day
        <5>1. Start(m) <= now /\ now < Start(m) + Day
          BY <1>3, <3>1, <3>4, <4>2
        <5>2. m = M
          BY <1>3, <3>0, <3>1, <3>3, <5>1, OneFirst
        <5>3. QED
          BY <3>2, <5>2
      <4>3. QED
        BY <1>3, <4>1, <4>2
    <3>5. QED
      BY <2>8, <2>9, <3>1, <3>2, <3>4
  <2>14. QED
    BY <2>1, <2>10, <2>11, <2>12, <2>13
<1>8. QED
  BY <1>6, <1>7

\* MonthNotMissed holds if the replicas keep to their schedule and a month
\* has more than one day.
THEOREM NoMonthIsMissed ==
    ASSUME Lateness = 0, DaysPerMonth >= 2
    PROVE  Spec => []MonthNotMissed
<1> DEFINE Inv == TypeInv /\ TimeInv /\ MissInv
<1>1. Init => Inv
  BY TypeInit, TimeInit, MissInit
<1>2. Inv /\ [Next]_vars => Inv'
  BY TypeNext, TimeNext, MissNext
<1>3. Inv => MonthNotMissed
  <2> SUFFICES ASSUME Inv, happened \cap {"restart", "sql_error", "conflict"} = {},
                      NEW r \in Replicas, pc[r] # "dead",
                      NEW c \in Companies, NEW m \in Months, FirstIsOver(m)
               PROVE  <<c, m>> \in served
    BY DEF MonthNotMissed
  <2>1. m \in Nat /\ Start(m) \in Nat /\ now \in Nat /\ wake[r] \in Nat
    BY ConstantsOK DEF Months, Start, TypeInv, TypeOK
  <2>2. m * Day * DaysPerMonth = Start(m)
    BY <2>1, ConstantsOK DEF Start
  <2>3. wake[r] >= Start(m) + Day
    BY <2>1, <2>2, ConstantsOK DEF FirstIsOver, TimeInv
  <2>4. Attended(m)
    BY <2>3 DEF MissInv, NobodyOversleeps
  <2>5. QED
    BY <2>4 DEF Attended, FirstIsOver
<1>4. QED
  BY <1>1, <1>2, <1>3, PTL DEF Spec
=============================================================================
