--------------------------- MODULE MCProviderBudget ---------------------------
(***************************************************************************)
(* Small instances of ProviderBudget.  The accounts are numbered in the    *)
(* order of their account_key.                                             *)
(***************************************************************************)
EXTENDS ProviderBudget

CONSTANTS j1, j2, c1, c2, c3

MCMoney == [c \in Calls |-> {4, 5}]
MCCost  == [c \in Calls |-> IF c = c3 THEN 1 ELSE 2]

\* Two tasks: c1 and c2 are language model calls of two attempts of j1, c3 is a
\* call of j2.  Accounts 1 and 2: the ceilings of the two tasks; 3: the calls of
\* all users in a day; 4 and 5: the costs of all users and of one user in a day.
TwoJob      == [c \in Calls |-> IF c = c3 THEN j2 ELSE j1]
TwoAttempt  == [c \in Calls |-> IF c = c2 THEN 2 ELSE 1]
TwoAccounts == 1..5
TwoCounts   == [c \in Calls |-> IF c = c3 THEN {2, 3} ELSE {1, 3}]
TwoQuota    == [a \in TwoAccounts |-> IF a = 1 THEN 2 ELSE IF a = 2 THEN 1
                                      ELSE IF a = 3 THEN 3 ELSE 4]

\* The same, but c3 is an embedding call: the calls of a day are counted in
\* account 6, which it shares with nobody.
StageAccounts == 1..6
StageCounts   == [c \in Calls |-> IF c = c3 THEN {2, 6} ELSE {1, 3}]
StageQuota    == [a \in StageAccounts |-> IF a \in {4, 5} THEN 4 ELSE 3]

\* One task with a ceiling of two calls and three calls to make, the first one
\* in its first attempt and the others in its second.
TaskJob      == [c \in Calls |-> j1]
TaskAttempt  == [c \in Calls |-> IF c = c1 THEN 1 ELSE 2]
TaskAccounts == {1, 4, 5}
TaskCounts   == [c \in Calls |-> {1}]
TaskQuota    == [a \in TaskAccounts |-> IF a = 1 THEN 2 ELSE 5]
=============================================================================
