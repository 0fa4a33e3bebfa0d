----------------------------- MODULE MCCurrencies -----------------------------
(* Currencies on small instances: a customer, the base currency and another *)
(* one, and every combination of three calls, in one process or two.        *)
EXTENDS Currencies, TLC

CONSTANTS c1, c2, c3, u1, w1, w2, EGP

ThreeCalls == {c1, c2, c3}
TwoCodes   == {USD, EGP}
TwoWorkers == {w1, w2}

\* The jobs, with the unused fields fixed.
Job(op, code, rate, status, adjust) ==
  [op |-> op, u |-> u1, code |-> code, rate |-> rate, status |-> status, adjust |-> adjust]

MoneyJobs  == {Job("order", USD, 1, "keep", FALSE)}
                \cup {Job(op, k, 1, "keep", FALSE) : op \in {"deposit", "switch"}, k \in TwoCodes}
AdminJobs  == {Job("setRate", EGP, 4, "keep", TRUE), Job("setRate", EGP, 2, "off", TRUE),
               Job("setRate", USD, 2, "keep", FALSE), Job("setRate", USD, 1, "off", FALSE),
               Job("setStatus", EGP, 1, "off", FALSE), Job("setStatus", USD, 1, "off", FALSE),
               Job("create", EGP, 2, "on", FALSE), Job("create", USD, 1, "on", FALSE),
               Job("delete", EGP, 1, "keep", FALSE)}
\* What converts with a cached rate, and what changes it.
CacheJobs == {Job("order", USD, 1, "keep", FALSE), Job("deposit", EGP, 1, "keep", FALSE),
              Job("setRate", EGP, 4, "keep", FALSE), Job("setRate", EGP, 2, "off", FALSE),
              Job("setStatus", EGP, 1, "off", FALSE), Job("setStatus", EGP, 1, "on", FALSE),
              Job("create", EGP, 2, "on", FALSE), Job("delete", EGP, 1, "keep", FALSE)}
EveryJob == MoneyJobs \cup AdminJobs \cup CacheJobs

\* Three calls of any job in one worker, or of the jobs that meet a cache in two.
MCInit ==
  /\ Init
  /\ \/ \A c, d \in Calls : worker[c] = worker[d] /\ job[c] \in MoneyJobs \cup AdminJobs
     \/ deployment = "standalone" /\ \A c \in Calls : job[c] \in CacheJobs
MCSpec == MCInit /\ [][Next]_vars

CallSymmetry == Permutations(Calls) \cup Permutations(Workers)
=============================================================================
