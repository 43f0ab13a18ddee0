----------------------------- MODULE MCCredits -----------------------------
(* Workloads under which TLC explores Credits.                             *)
EXTENDS Credits, TLC

CONSTANTS c1, c2, r1, r2, r3

Job(k)     == [kind |-> k, company |-> c1, target |-> "free", amount |-> 0]
Grant(n)   == [Job("grant") EXCEPT !.amount = n]
SetTo(p)   == [Job("plan") EXCEPT !.target = p]
First(j)   == [j EXCEPT !.company = c2]

\* For c1, one plan change or grant against two paid or viewing requests; for
\* c2, the first requests of a company that has no subscription yet.
MixedJobs == r1 :> {SetTo("pro"), SetTo("free"), Grant(7), First(Job("credits"))}
          @@ r2 :> {Job("estimate"), Job("report_pdf"), First(SetTo("pro")), First(Job("compliance"))}
          @@ r3 :> {Job("scenario"), Job("extract"), First(Job("view"))}

=============================================================================
