---------------------------- MODULE LearnerProofs ----------------------------
(* What holds of a learner's account, for any number of sends, logins, guesses *)
(* and passwords, and of his review schedule, for any questions, activities,   *)
(* concepts and dates.                                                         *)
EXTENDS MCLearner, SequenceTheorems, TLAPS

-----------------------------------------------------------------------------
(* Accounts and mail codes.                                                *)

USE DEF challengeVars, mailVars, accountVars, vars

\* Every variable keeps its type.
THEOREM TypeCorrect == Spec => []TypeOK
<1>1. Init => TypeOK
  BY SendsAssumption, BoundsAssumption DEF Init, TypeOK, Purposes, Statuses, Answers, Passwords
<1>2. TypeOK /\ [Next]_vars => TypeOK'
  <2> SUFFICES ASSUME TypeOK, [Next]_vars PROVE TypeOK'
    OBVIOUS
  <2> USE SendsAssumption, BoundsAssumption DEF TypeOK, Purposes, Statuses, Answers, Passwords
  <2>1. ASSUME NEW s \in Sends, NEW p \in Purposes, ReserveSend(s, p) PROVE TypeOK'
    BY <2>1 DEF ReserveSend, AttemptsKept
  <2>2. ASSUME NEW s \in Sends, NEW answer \in Answers, NEW arrives \in BOOLEAN, Deliver(s, answer, arrives) PROVE TypeOK'
    BY <2>2 DEF Deliver
  <2>3. ASSUME NEW s \in Sends, FinishDelivery(s) PROVE TypeOK'
    BY <2>3 DEF FinishDelivery, StillPending
  <2>4. ASSUME NEW s \in Sends, CrashSend(s) PROVE TypeOK'
    BY <2>4 DEF CrashSend
  <2>5. ASSUME NEW p \in Purposes, WrongCode(p) PROVE TypeOK'
    BY <2>5 DEF WrongCode, CanTry
  <2>6. ASSUME NEW p \in Purposes, Expire(p) PROVE TypeOK'
    BY <2>6 DEF Expire
  <2>7. ASSUME NEW p \in Purposes, CoolDown(p) PROVE TypeOK'
    BY <2>7 DEF CoolDown
  <2>8. CASE Register
    BY <2>8 DEF Register, RightCode, CanTry, Consume
  <2>9. CASE ResetPassword
    BY <2>9 DEF ResetPassword, RightCode, CanTry, Consume, HasAccount, NewPassword
  <2>10. CASE Recover
    BY <2>10 DEF Recover, HasAccount, NewPassword
  <2>11. CASE ChangePassword
    BY <2>11 DEF ChangePassword, HasAccount, NewPassword
  <2>12. ASSUME NEW l \in Logins, LoginVerify(l) PROVE TypeOK'
    BY <2>12 DEF LoginVerify
  <2>13. ASSUME NEW l \in Logins, LoginIssue(l) PROVE TypeOK'
    <3>1. login[l] \in Passwords
      BY <2>13 DEF LoginIssue
    <3>2. live' \in SUBSET Passwords
      BY <2>13, <3>1 DEF LoginIssue
    <3>3. login' \in [Logins -> 0..MaxPasswords]
      BY <2>13 DEF LoginIssue
    <3> QED
      BY <2>13, <3>2, <3>3 DEF LoginIssue
  <2>14. CASE UNCHANGED vars
    BY <2>14
  <2> QED
    BY <2>1, <2>2, <2>3, <2>4, <2>5, <2>6, <2>7, <2>8, <2>9,
       <2>10, <2>11, <2>12, <2>13, <2>14 DEF Next
<1> QED
  BY <1>1, <1>2, PTL DEF Spec

\* A session that is not revoked was issued for the present password, for any
\* number of logins that overlap with resets, recoveries and changes.
THEOREM SessionsFollowPassword == Spec => []SessionsAreCurrent
<1>1. Init => SessionsAreCurrent
  BY SendsAssumption, BoundsAssumption DEF Init, SessionsAreCurrent
<1>2. TypeOK /\ SessionsAreCurrent /\ [Next]_vars => SessionsAreCurrent'
  <2> SUFFICES ASSUME TypeOK, SessionsAreCurrent, [Next]_vars PROVE SessionsAreCurrent'
    OBVIOUS
  <2> USE SendsAssumption, BoundsAssumption DEF TypeOK, SessionsAreCurrent
  <2>1. ASSUME NEW s \in Sends, NEW p \in Purposes, ReserveSend(s, p) PROVE SessionsAreCurrent'
    BY <2>1 DEF ReserveSend, AttemptsKept
  <2>2. ASSUME NEW s \in Sends, NEW answer \in Answers, NEW arrives \in BOOLEAN, Deliver(s, answer, arrives) PROVE SessionsAreCurrent'
    BY <2>2 DEF Deliver
  <2>3. ASSUME NEW s \in Sends, FinishDelivery(s) PROVE SessionsAreCurrent'
    BY <2>3 DEF FinishDelivery, StillPending
  <2>4. ASSUME NEW s \in Sends, CrashSend(s) PROVE SessionsAreCurrent'
    BY <2>4 DEF CrashSend
  <2>5. ASSUME NEW p \in Purposes, WrongCode(p) PROVE SessionsAreCurrent'
    BY <2>5 DEF WrongCode, CanTry
  <2>6. ASSUME NEW p \in Purposes, Expire(p) PROVE SessionsAreCurrent'
    BY <2>6 DEF Expire
  <2>7. ASSUME NEW p \in Purposes, CoolDown(p) PROVE SessionsAreCurrent'
    BY <2>7 DEF CoolDown
  <2>8. CASE Register
    BY <2>8 DEF Register, RightCode, CanTry, Consume
  <2>9. CASE ResetPassword
    BY <2>9 DEF ResetPassword, RightCode, CanTry, Consume, HasAccount, NewPassword
  <2>10. CASE Recover
    BY <2>10 DEF Recover, HasAccount, NewPassword
  <2>11. CASE ChangePassword
    BY <2>11 DEF ChangePassword, HasAccount, NewPassword
  <2>12. ASSUME NEW l \in Logins, LoginVerify(l) PROVE SessionsAreCurrent'
    BY <2>12 DEF LoginVerify
  <2>13. ASSUME NEW l \in Logins, LoginIssue(l) PROVE SessionsAreCurrent'
    BY <2>13 DEF LoginIssue, SamePassword
  <2>14. CASE UNCHANGED vars
    BY <2>14
  <2> QED
    BY <2>1, <2>2, <2>3, <2>4, <2>5, <2>6, <2>7, <2>8, <2>9,
       <2>10, <2>11, <2>12, <2>13, <2>14 DEF Next
<1> QED
  BY <1>1, <1>2, TypeCorrect, PTL DEF Spec

-----------------------------------------------------------------------------
(* The steps that touch neither a challenge nor a mail                     *)

ApartStep ==
    \/ \E p \in Purposes : Expire(p) \/ CoolDown(p)
    \/ Recover \/ ChangePassword
    \/ \E l \in Logins : LoginVerify(l) \/ LoginIssue(l)
    \/ UNCHANGED vars

CodesKept ==
    /\ generation' = generation /\ status' = status /\ attempts' = attempts
    /\ phase' = phase /\ purpose' = purpose /\ mail' = mail
    /\ wrong' = wrong /\ uses' = uses

\* What happens to the account, and the time, leave the codes alone.
LEMMA ApartKeeps ==
    ASSUME ApartStep
    PROVE  CodesKept
<1>1. ASSUME NEW p \in Purposes, Expire(p) \/ CoolDown(p) PROVE CodesKept
  BY <1>1 DEF Expire, CoolDown, CodesKept
<1>2. ASSUME NEW l \in Logins, LoginVerify(l) \/ LoginIssue(l) PROVE CodesKept
  BY <1>2 DEF LoginVerify, LoginIssue, CodesKept
<1>3. CASE Recover \/ ChangePassword \/ UNCHANGED vars
  BY <1>3 DEF Recover, ChangePassword, CodesKept
<1> QED
  BY <1>1, <1>2, <1>3 DEF ApartStep

\* The history of guesses is what the row counts.
GuessesCounted ==
    \A p \in Purposes : wrong[p] <= attempts[p] /\ wrong[p] <= MaxAttempts

\* At most MaxAttempts wrong codes are examined while a challenge lives.
THEOREM GuessesAreBounded == Spec => []GuessesBounded
<1>1. Init => GuessesCounted
  BY SendsAssumption, BoundsAssumption DEF Init, GuessesCounted
<1>2. TypeOK /\ GuessesCounted /\ [Next]_vars => GuessesCounted'
  <2> SUFFICES ASSUME TypeOK, GuessesCounted, [Next]_vars PROVE GuessesCounted'
    OBVIOUS
  <2>0. CASE ApartStep
    BY <2>0, ApartKeeps DEF CodesKept, GuessesCounted
  <2> USE SendsAssumption, BoundsAssumption DEF TypeOK, GuessesCounted
  <2>1. ASSUME NEW s \in Sends, NEW p \in Purposes, ReserveSend(s, p) PROVE GuessesCounted'
    BY <2>1 DEF ReserveSend, AttemptsKept
  <2>2. ASSUME NEW s \in Sends, NEW answer \in Answers, NEW arrives \in BOOLEAN, Deliver(s, answer, arrives) PROVE GuessesCounted'
    BY <2>2 DEF Deliver
  <2>3. ASSUME NEW s \in Sends, FinishDelivery(s) PROVE GuessesCounted'
    BY <2>3 DEF FinishDelivery, StillPending
  <2>4. ASSUME NEW s \in Sends, CrashSend(s) PROVE GuessesCounted'
    BY <2>4 DEF CrashSend
  <2>5. ASSUME NEW p \in Purposes, WrongCode(p) PROVE GuessesCounted'
    BY <2>5 DEF WrongCode, CanTry
  <2>6. CASE Register
    BY <2>6 DEF Register, RightCode, CanTry, Consume
  <2>7. CASE ResetPassword
    BY <2>7 DEF ResetPassword, RightCode, CanTry, Consume, HasAccount, NewPassword
  <2> HIDE SendsAssumption, BoundsAssumption DEF TypeOK, GuessesCounted
  <2> QED
    BY <2>0, <2>1, <2>2, <2>3, <2>4, <2>5, <2>6, <2>7 DEF Next, ApartStep
<1>3. GuessesCounted => GuessesBounded
  BY DEF GuessesCounted, GuessesBounded
<1> QED
  BY <1>1, <1>2, <1>3, TypeCorrect, PTL DEF Spec

\* The code of a challenge belongs to a send of its form; once the challenge
\* waits no more, that send has ended and will not record another answer.
Delivered ==
    /\ \A p \in Purposes : generation[p] # NoSend =>
         phase[generation[p]] # "idle" /\ purpose[generation[p]] = p
    /\ \A p \in Purposes : generation[p] = NoSend => status[p] = "failed"
    /\ \A s \in Sends : phase[s] = "answered" => mail[s] \in Answers
    /\ \A p \in Purposes : generation[p] # NoSend /\ status[p] # "pending" =>
         phase[generation[p]] = "done"
    /\ StatusTellsDelivery

\* The status of a challenge tells the answer of the mail server for its code.
THEOREM StatusIsTold == Spec => []StatusTellsDelivery
<1>1. Init => Delivered
  BY SendsAssumption, BoundsAssumption DEF Init, Delivered, StatusTellsDelivery
<1>2. TypeOK /\ Delivered /\ [Next]_vars => Delivered'
  <2> SUFFICES ASSUME TypeOK, Delivered, [Next]_vars PROVE Delivered'
    OBVIOUS
  <2>0. CASE ApartStep
    BY <2>0, ApartKeeps DEF CodesKept, Delivered, StatusTellsDelivery
  <2> USE SendsAssumption, BoundsAssumption DEF TypeOK, Delivered, StatusTellsDelivery, Purposes, Statuses, Answers
  <2>1. ASSUME NEW s \in Sends, NEW p \in Purposes, ReserveSend(s, p) PROVE Delivered'
    BY <2>1 DEF ReserveSend, AttemptsKept
  <2>2. ASSUME NEW s \in Sends, NEW answer \in Answers, NEW arrives \in BOOLEAN, Deliver(s, answer, arrives) PROVE Delivered'
    BY <2>2 DEF Deliver
  <2>3. ASSUME NEW s \in Sends, FinishDelivery(s) PROVE Delivered'
    BY <2>3 DEF FinishDelivery, StillPending
  <2>4. ASSUME NEW s \in Sends, CrashSend(s) PROVE Delivered'
    BY <2>4 DEF CrashSend
  <2>5. ASSUME NEW p \in Purposes, WrongCode(p) PROVE Delivered'
    BY <2>5 DEF WrongCode, CanTry
  <2>6. CASE Register
    BY <2>6 DEF Register, RightCode, CanTry, Consume
  <2>7. CASE ResetPassword
    BY <2>7 DEF ResetPassword, RightCode, CanTry, Consume, HasAccount, NewPassword
  <2> HIDE SendsAssumption, BoundsAssumption DEF TypeOK, Delivered, StatusTellsDelivery, Purposes, Statuses, Answers
  <2> QED
    BY <2>0, <2>1, <2>2, <2>3, <2>4, <2>5, <2>6, <2>7 DEF Next, ApartStep
<1>3. Delivered => StatusTellsDelivery
  BY DEF Delivered
<1> QED
  BY <1>1, <1>2, <1>3, TypeCorrect, PTL DEF Spec

\* A code that was used is the code of no challenge, or of a consumed one.
Spent ==
    /\ \A p \in Purposes : generation[p] # NoSend =>
         phase[generation[p]] # "idle" /\ purpose[generation[p]] = p
    /\ \A s \in Sends : uses[s] # 0 => phase[s] # "idle"
    /\ \A p \in Purposes : generation[p] # NoSend /\ uses[generation[p]] # 0 =>
         status[p] = "consumed"
    /\ UsedOnce

\* The code of one mail opens the account at most once.
THEOREM CodesAreUsedOnce == Spec => []UsedOnce
<1>1. Init => Spent
  BY SendsAssumption, BoundsAssumption DEF Init, Spent, UsedOnce
<1>2. TypeOK /\ Spent /\ [Next]_vars => Spent'
  <2> SUFFICES ASSUME TypeOK, Spent, [Next]_vars PROVE Spent'
    OBVIOUS
  <2>0. CASE ApartStep
    BY <2>0, ApartKeeps DEF CodesKept, Spent, UsedOnce
  <2> USE SendsAssumption, BoundsAssumption DEF TypeOK, Spent, UsedOnce, Purposes
  <2>1. ASSUME NEW s \in Sends, NEW p \in Purposes, ReserveSend(s, p) PROVE Spent'
    BY <2>1 DEF ReserveSend, AttemptsKept
  <2>2. ASSUME NEW s \in Sends, NEW answer \in Answers, NEW arrives \in BOOLEAN, Deliver(s, answer, arrives) PROVE Spent'
    BY <2>2 DEF Deliver
  <2>3. ASSUME NEW s \in Sends, FinishDelivery(s) PROVE Spent'
    BY <2>3 DEF FinishDelivery, StillPending
  <2>4. ASSUME NEW s \in Sends, CrashSend(s) PROVE Spent'
    BY <2>4 DEF CrashSend
  <2>5. ASSUME NEW p \in Purposes, WrongCode(p) PROVE Spent'
    BY <2>5 DEF WrongCode, CanTry
  <2>6. CASE Register
    BY <2>6 DEF Register, RightCode, CanTry, Consume
  <2>7. CASE ResetPassword
    BY <2>7 DEF ResetPassword, RightCode, CanTry, Consume, HasAccount, NewPassword
  <2> HIDE SendsAssumption, BoundsAssumption DEF TypeOK, Spent, UsedOnce, Purposes
  <2> QED
    BY <2>0, <2>1, <2>2, <2>3, <2>4, <2>5, <2>6, <2>7 DEF Next, ApartStep
<1>3. Spent => UsedOnce
  BY DEF Spent
<1> QED
  BY <1>1, <1>2, <1>3, TypeCorrect, PTL DEF Spec

-----------------------------------------------------------------------------
(* The review schedule: its types.                                         *)

Marks  == Confirmed \cup {"unanswered", "ungraded", "provisional"}
Stages == {"absent", "generating", "failed", "active", "settled"}

\* A value with the columns of learner_concept_state.
IsState(s) ==
    s = [stage |-> s.stage, rule |-> s.rule, due |-> s.due, override |-> s.override,
         paused |-> s.paused, last |-> s.last]

ScheduleTypeOK ==
    /\ today \in Nat
    /\ head \in [Question -> [rev : Nat, mark : Marks]]
    /\ stage \in [Activity -> Stages]
    /\ history \in Seq(Activity)
    /\ day \in [Activity -> Nat]
    /\ pending \in [Activity -> Nat]
    /\ lost \subseteq Activity
    /\ receipt = [a \in Activity |-> receipt[a]]
    /\ state = [c \in Concept |-> state[c]]
    /\ \A c \in Concept : IsState(state[c])
    /\ reviews = [c \in Concept |-> reviews[c]]
    /\ moves \in Nat

\* The steps that leave the schedule of every concept alone.
Facts ==
    \/ \E a \in Activity : Open(a) \/ Complete(a) \/ ProjectFails(a) \/ Generated(a)
                           \/ GenerationFails(a)
    \/ \E q \in Question : \/ Submit(q)
                           \/ \E mark \in Confirmed : Answer(q, mark)
                           \/ \E mark \in Confirmed \cup {"provisional"} : Assess(q, mark)
    \/ NextDay

LEMMA FactsKeepTypes == ScheduleTypeOK /\ Facts => ScheduleTypeOK' /\ UNCHANGED <<state, reviews, moves>>
<1> SUFFICES ASSUME ScheduleTypeOK, Facts
             PROVE  ScheduleTypeOK' /\ UNCHANGED <<state, reviews, moves>>
  OBVIOUS
<1> USE ReviewAssumption DEF ScheduleTypeOK, Stages, Marks, Confirmed, facts, queue, IsState
<1>1. ASSUME NEW a \in Activity, Open(a) \/ Generated(a) \/ GenerationFails(a) PROVE ScheduleTypeOK' /\ UNCHANGED <<state, reviews, moves>>
  BY <1>1 DEF Open, Generated, GenerationFails
<1>2. ASSUME NEW a \in Activity, Complete(a) PROVE ScheduleTypeOK' /\ UNCHANGED <<state, reviews, moves>>
  BY <1>2 DEF Complete, Publish
<1>3. ASSUME NEW a \in Activity, ProjectFails(a) PROVE ScheduleTypeOK' /\ UNCHANGED <<state, reviews, moves>>
  BY <1>3 DEF ProjectFails
<1>4. ASSUME NEW q \in Question, Submit(q) PROVE ScheduleTypeOK' /\ UNCHANGED <<state, reviews, moves>>
  BY <1>4 DEF Submit, Ungraded
<1>5. ASSUME NEW q \in Question, NEW mark \in Confirmed, Answer(q, mark) PROVE ScheduleTypeOK' /\ UNCHANGED <<state, reviews, moves>>
  BY <1>5 DEF Answer, Publish
<1>6. ASSUME NEW q \in Question, NEW mark \in Confirmed \cup {"provisional"}, Assess(q, mark) PROVE ScheduleTypeOK' /\ UNCHANGED <<state, reviews, moves>>
  BY <1>6 DEF Assess, Publish
<1>7. CASE NextDay
  BY <1>7 DEF NextDay
<1> QED
  BY <1>1, <1>2, <1>3, <1>4, <1>5, <1>6, <1>7 DEF Facts

\* An activity that began stays begun, and one whose answers are confirmed stays so.
Started  == {a \in Activity : stage[a] # "absent"}
Finished == {a \in Activity : Ready(a)}

LEMMA ActivitiesGoOn ==
    ASSUME ScheduleTypeOK, [ScheduleNext]_scheduleVars
    PROVE  Started \subseteq Started' /\ Finished \subseteq Finished'
<1> USE ReviewAssumption DEF ScheduleTypeOK, Stages, facts, queue
<1>1. \/ stage' = stage
      \/ \E b \in Activity, to \in Stages \ {"absent"} :
            stage[b] # "settled" /\ stage' = [stage EXCEPT ![b] = to]
  BY DEF ScheduleNext, scheduleVars, Open, Complete, Project, ProjectFails, Claim, Generated,
         GenerationFails, Reconcile, Submit, Answer, Assess, Reschedule, Pause, Resume, Update, NextDay
<1>2. ASSUME NEW a \in Activity
      PROVE  /\ stage[a] # "absent" => stage'[a] # "absent"
             /\ stage[a] = "settled" => stage'[a] = "settled"
  BY <1>1
<1>3. ASSUME NEW q \in Question, head[q].mark \in Confirmed PROVE head'[q].mark \in Confirmed
  <2>1. CASE head' = head
    BY <1>3, <2>1
  <2>2. ASSUME NEW p \in Question, Submit(p) PROVE head'[q].mark \in Confirmed
    BY <1>3, <2>2 DEF Submit, Unanswered, Confirmed
  <2>3. ASSUME NEW p \in Question, NEW mark \in Confirmed, Answer(p, mark)
        PROVE  head'[q].mark \in Confirmed
    BY <1>3, <2>3 DEF Answer
  <2>4. ASSUME NEW p \in Question, NEW mark \in Confirmed \cup {"provisional"}, Assess(p, mark)
        PROVE  head'[q].mark \in Confirmed
    BY <1>3, <2>4 DEF Assess
  <2> QED
    BY <2>1, <2>2, <2>3, <2>4
       DEF ScheduleNext, scheduleVars, Open, Complete, Project, ProjectFails, Claim, Generated,
           GenerationFails, Reconcile, Reschedule, Pause, Resume, Update, NextDay
<1> QED
  BY <1>2, <1>3 DEF Started, Finished, Ready, Settled, QuestionsOf

-----------------------------------------------------------------------------
(* The occurrences of one concept: a list and the state it belongs to.     *)

IsList(s) == \E n \in Nat : s = [i \in 1..n |-> s[i]]

LEMMA ListLength ==
    ASSUME NEW s, NEW n \in Nat, s = [i \in 1..n |-> s[i]]
    PROVE  Len(s) = n /\ DOMAIN s = 1..n
<1> DEFINE S == {s[i] : i \in 1..n}
<1>1. DOMAIN s = 1..n /\ s \in [1..n -> S]
  OBVIOUS
<1>2. s \in Seq(S)
  BY <1>1, SeqDef, Zenon
<1> HIDE DEF S
<1>3. Len(s) \in Nat /\ DOMAIN s = 1..Len(s)
  BY <1>2, LenProperties
<1> QED
  BY <1>1, <1>3

LEMMA ListProperties ==
    ASSUME NEW s, IsList(s)
    PROVE  /\ Len(s) \in Nat /\ DOMAIN s = 1..Len(s) /\ s = [i \in 1..Len(s) |-> s[i]]
           /\ s # << >> => Len(s) > 0
<1>1. PICK n \in Nat : s = [i \in 1..n |-> s[i]]
  BY DEF IsList
<1>2. Len(s) = n /\ DOMAIN s = 1..n
  BY <1>1, ListLength
<1>3. s = << >> \/ n > 0
  BY <1>1, <1>2
<1> QED
  BY <1>1, <1>2, <1>3

LEMMA ListAppended ==
    ASSUME NEW s, IsList(s), NEW r
    PROVE  /\ IsList(Append(s, r)) /\ Len(Append(s, r)) = Len(s) + 1
           /\ \A i \in 1..Len(s) : Append(s, r)[i] = s[i]
           /\ Append(s, r)[Len(s) + 1] = r
<1> DEFINE S == {s[i] : i \in 1..Len(s)} \cup {r}
           t == Append(s, r)
<1>1. Len(s) \in Nat /\ s = [i \in 1..Len(s) |-> s[i]]
  BY ListProperties
<1>2. s \in [1..Len(s) -> S] /\ r \in S
  BY <1>1
<1> HIDE DEF S
<1>3. s \in Seq(S)
  <2>1. Len(s) \in Nat
    BY <1>1
  <2> QED
    BY <1>2, <2>1, SeqDef, Zenon
<1>4. /\ t \in Seq(S) /\ Len(t) = Len(s) + 1 /\ t[Len(s) + 1] = r
      /\ \A i \in 1..Len(s) : t[i] = s[i]
  BY <1>2, <1>3, AppendProperties
<1>5. Len(t) \in Nat /\ t = [i \in 1..Len(t) |-> t[i]]
  <2>1. Len(t) \in Nat /\ t \in [1..Len(t) -> S]
    BY <1>4, LenProperties
  <2> HIDE DEF t
  <2> QED
    BY <2>1
<1> QED
  BY <1>4, <1>5 DEF IsList

LEMMA ListKept ==
    ASSUME NEW s, IsList(s), NEW t, t = [i \in DOMAIN s |-> t[i]]
    PROVE  IsList(t) /\ Len(t) = Len(s)
<1>1. Len(s) \in Nat /\ DOMAIN s = 1..Len(s)
  BY ListProperties
<1>2. t = [i \in 1..Len(s) |-> t[i]]
  BY <1>1
<1> QED
  BY <1>1, <1>2, ListLength DEF IsList

\* A value with the columns of learner_review_occurrence.
Row(mode, current, rule, due, override, paused, origin, error) ==
    [status |-> mode, current |-> current, rule |-> rule, due |-> due, override |-> override,
     paused |-> paused, origin |-> origin, error |-> error]
IsRow(r) == r = Row(r.status, r.current, r.rule, r.due, r.override, r.paused, r.origin, r.error)

LEMMA RowFields ==
    ASSUME NEW mode, NEW current, NEW rule, NEW due, NEW override, NEW paused, NEW origin, NEW error,
           NEW r, r = Row(mode, current, rule, due, override, paused, origin, error)
    PROVE  /\ r.status = mode /\ r.current = current /\ r.rule = rule /\ r.due = due
           /\ r.override = override /\ r.paused = paused /\ r.origin = origin /\ r.error = error
           /\ IsRow(r)
BY DEF Row, IsRow

LEMMA RowMoved ==
    ASSUME NEW r, IsRow(r), NEW due, NEW override, NEW paused,
           NEW t, t = [r EXCEPT !.due = due, !.override = override, !.paused = paused]
    PROVE  t = Row(r.status, r.current, r.rule, due, override, paused, r.origin, r.error)
BY DEF IsRow, Row

LEMMA RowClaimed ==
    ASSUME NEW r, IsRow(r), NEW mode, NEW origin, NEW error,
           NEW t, t = [r EXCEPT !.status = mode, !.origin = origin, !.error = error]
    PROVE  t = Row(mode, r.current, r.rule, r.due, r.override, r.paused, origin, error)
BY DEF IsRow, Row

LEMMA RowFailed ==
    ASSUME NEW r, IsRow(r), NEW t, t = Failed(r)
    PROVE  t = Row("failed", r.current, r.rule, r.due, r.override, r.paused, r.origin, "job")
BY DEF IsRow, Row, Failed

LEMMA RowRefreshed ==
    ASSUME NEW r, IsRow(r), NEW rule, NEW due,
           NEW t, t = [r EXCEPT !.rule = rule, !.due = due]
    PROVE  t = Row(r.status, r.current, rule, due, r.override, r.paused, r.origin, r.error)
BY DEF IsRow, Row

LEMMA RowClosed ==
    ASSUME NEW r, IsRow(r), NEW t, t = [r EXCEPT !.status = "completed", !.current = FALSE]
    PROVE  /\ t.status = "completed" /\ t.current = FALSE /\ t.due = r.due
           /\ t.origin = r.origin /\ IsRow(t)
BY DEF IsRow, Row

LEMMA RowCancelled ==
    ASSUME NEW r, IsRow(r),
           NEW t, t = [r EXCEPT !.status = "cancelled", !.current = FALSE, !.rule = NoDay,
                                !.error = "assessment_pending"]
    PROVE  /\ t.status = "cancelled" /\ t.current = FALSE /\ t.error = "assessment_pending"
           /\ t.origin = r.origin /\ IsRow(t)
BY DEF IsRow, Row

\* An occurrence in order, for a concept of the activities about, when those of
\* started have begun and those of finished are confirmed.
RowOK(r, about, started, finished) ==
    /\ IsRow(r)
    /\ r.current \in BOOLEAN
    /\ IF r.current THEN r.status \in {"scheduled", "claimed", "failed"} /\ r.due # NoDay
       ELSE \/ r.status = "completed"
            \/ r.status = "cancelled" /\ r.error = "assessment_pending"
    /\ r.status = "scheduled" /\ r.override # NoDay => r.due = r.override
    /\ r.origin # None => r.origin \in about \cap started
    /\ r.status \in {"claimed", "completed"} => r.origin # None
    /\ r.status = "completed" => r.origin \in finished

\* The last occurrence tells the state of its concept while it is current; when no
\* occurrence is, the rules want none and no date is chosen.
Open_(s) == Len(s) > 0 /\ s[Len(s)].current

Agrees(s, st) ==
    IF Open_(s)
    THEN /\ s[Len(s)].paused = st.paused /\ s[Len(s)].override = st.override
         /\ s[Len(s)].status = "scheduled" => s[Len(s)].due = st.due
    ELSE st.override = NoDay /\ st.rule = NoDay

\* Only the last occurrence may be current, and no two are of one activity.
ListOK(s, about, started, finished) ==
    /\ IsList(s)
    /\ \A i \in 1..Len(s) : RowOK(s[i], about, started, finished)
    /\ \A i \in 1..Len(s) : i # Len(s) => ~s[i].current
    /\ \A i, j \in 1..Len(s) : i # j /\ s[i].origin # None => s[j].origin # s[i].origin

\* Nothing is lost when activities go on.
LEMMA ListGoesOn ==
    ASSUME NEW s, NEW about, NEW started, NEW finished, ListOK(s, about, started, finished),
           NEW started2, NEW finished2, started \subseteq started2, finished \subseteq finished2
    PROVE  ListOK(s, about, started2, finished2)
BY DEF ListOK, RowOK

\* The last occurrence changes: it keeps its activity, or gets one that has none.
LEMMA LastChanged ==
    ASSUME NEW s, NEW about, NEW started, NEW finished, ListOK(s, about, started, finished),
           NEW t, NEW r, Len(s) > 0, t = [s EXCEPT ![Len(s)] = r],
           RowOK(r, about, started, finished),
           \/ r.origin = s[Len(s)].origin
           \/ \A i \in 1..Len(s) : s[i].origin # r.origin
    PROVE  /\ ListOK(t, about, started, finished) /\ Len(t) = Len(s) /\ t[Len(s)] = r
           /\ \A i \in 1..Len(s) : i # Len(s) => t[i] = s[i]
<1>1. Len(s) \in Nat /\ DOMAIN s = 1..Len(s) /\ IsList(s)
  BY ListProperties DEF ListOK
<1>2. IsList(t) /\ Len(t) = Len(s)
  <2>1. t = [i \in DOMAIN s |-> t[i]]
    OBVIOUS
  <2> QED
    BY <1>1, <2>1, ListKept
<1>3. t[Len(s)] = r /\ \A i \in 1..Len(s) : i # Len(s) => t[i] = s[i]
  <2>1. Len(s) \in DOMAIN s
    BY <1>1
  <2>2. \A i \in DOMAIN s : t[i] = IF i = Len(s) THEN r ELSE s[i]
    BY Zenon
  <2> QED
    BY <1>1, <2>1, <2>2
<1>4. \A i \in 1..Len(s) : RowOK(t[i], about, started, finished)
  BY <1>3 DEF ListOK
<1>5. \A i \in 1..Len(s) : i # Len(s) => ~t[i].current
  BY <1>3 DEF ListOK
<1>6. \A i, j \in 1..Len(s) : i # j /\ t[i].origin # None => t[j].origin # t[i].origin
  BY <1>1, <1>3 DEF ListOK
<1> QED
  BY <1>2, <1>3, <1>4, <1>5, <1>6 DEF ListOK

\* A new occurrence follows the others when none of them is current.
LEMMA RowAppended ==
    ASSUME NEW s, NEW about, NEW started, NEW finished, ListOK(s, about, started, finished),
           ~Open_(s), NEW r, RowOK(r, about, started, finished), r.origin = None
    PROVE  /\ ListOK(Append(s, r), about, started, finished)
           /\ Len(Append(s, r)) = Len(s) + 1
           /\ \A i \in 1..Len(s) : Append(s, r)[i] = s[i]
           /\ Append(s, r)[Len(s) + 1] = r
<1> DEFINE t == Append(s, r)
<1>1. IsList(s) /\ Len(s) \in Nat
  BY ListProperties DEF ListOK
<1>2. /\ IsList(t) /\ Len(t) = Len(s) + 1 /\ t[Len(s) + 1] = r
      /\ \A i \in 1..Len(s) : t[i] = s[i]
  BY <1>1, ListAppended
<1> HIDE DEF t
<1>3. \A i \in 1..Len(t) : i \in 1..Len(s) \/ i = Len(s) + 1
  BY <1>1, <1>2
<1>4. \A i \in 1..Len(s) : ~s[i].current
  BY <1>1 DEF ListOK, Open_
<1>5. \A i \in 1..Len(t) : RowOK(t[i], about, started, finished)
  BY <1>2, <1>3 DEF ListOK
<1>6. \A i \in 1..Len(t) : i # Len(t) => ~t[i].current
  BY <1>2, <1>3, <1>4
<1>7. \A i, j \in 1..Len(t) : i # j /\ t[i].origin # None => t[j].origin # t[i].origin
  BY <1>2, <1>3 DEF ListOK
<1>8. ListOK(t, about, started, finished)
  BY <1>2, <1>5, <1>6, <1>7 DEF ListOK
<1> QED
  BY <1>2, <1>8 DEF t

-----------------------------------------------------------------------------
(* The requests of the learner and the sweep keep the occurrences in order. *)

About(c) == {a \in Activity : c \in ConceptsOf(a)}

ConceptOK(c) ==
    /\ ListOK(reviews[c], About(c), Started, Finished)
    /\ Agrees(reviews[c], state[c])

ScheduleInv == ScheduleTypeOK /\ \A c \in Concept : ConceptOK(c)

\* The current occurrence of a concept is its last one.
LEMMA CurrentIsLast ==
    ASSUME NEW c \in Concept, ListOK(reviews[c], About(c), Started, Finished)
    PROVE  /\ CurrentSeqs(c) \subseteq {Len(reviews[c])}
           /\ HasCurrent(c) <=> Open_(reviews[c])
           /\ HasCurrent(c) => /\ Seq_(c) = Len(reviews[c])
                               /\ Current(c) = reviews[c][Len(reviews[c])]
           /\ Len(reviews[c]) \in Nat /\ DOMAIN reviews[c] = 1..Len(reviews[c])
<1> DEFINE s == reviews[c]
<1>1. Len(s) \in Nat /\ DOMAIN s = 1..Len(s)
  BY ListProperties DEF ListOK
<1>2. \A i \in 1..Len(s) : s[i].current \in BOOLEAN /\ (i # Len(s) => ~s[i].current)
  BY DEF ListOK, RowOK
<1>3. CurrentSeqs(c) \subseteq {Len(s)}
  BY <1>1, <1>2 DEF CurrentSeqs
<1>4. HasCurrent(c) <=> Open_(s)
  BY <1>1, <1>3 DEF HasCurrent, CurrentSeqs, Open_
<1>5. HasCurrent(c) => Seq_(c) = Len(s)
  BY <1>3 DEF HasCurrent, Seq_
<1> QED
  BY <1>1, <1>3, <1>4, <1>5 DEF Current

\* A concept whose columns do not change keeps its order.
LEMMA ConceptGoesOn ==
    ASSUME NEW c \in Concept, ConceptOK(c), Started \subseteq Started', Finished \subseteq Finished',
           reviews'[c] = reviews[c], state'[c] = state[c]
    PROVE  ConceptOK(c)'
<1>1. ListOK(reviews[c], About(c), Started', Finished')
  BY ListGoesOn DEF ConceptOK
<1> QED
  BY <1>1 DEF ConceptOK, About

\* update_review writes a date and a pause to the occurrence and to the state.
LEMMA UpdateKeeps ==
    ASSUME ScheduleInv, [ScheduleNext]_scheduleVars, NEW c \in Concept, NEW due, NEW override, NEW paused,
           Update(c, due, override, paused), due # NoDay,
           override # NoDay /\ Current(c).status = "scheduled" => due = override,
           moves' \in Nat
    PROVE  ScheduleInv'
<1> DEFINE s == reviews[c]
           n == Len(s)
           old == s[n]
           new == Row(old.status, old.current, old.rule, due, override, paused, old.origin, old.error)
<1>1. ListOK(s, About(c), Started, Finished)
  BY DEF ScheduleInv, ConceptOK
<1>2. /\ Open_(s) /\ Seq_(c) = n /\ Current(c) = old /\ n \in Nat /\ DOMAIN s = 1..n
  BY <1>1, CurrentIsLast DEF Update
<1>3. n \in DOMAIN s /\ n > 0 /\ old.current
  BY <1>2 DEF Open_
<1>4. RowOK(old, About(c), Started, Finished)
  BY <1>1, <1>2, <1>3 DEF ListOK
<1>5. Started \subseteq Started' /\ Finished \subseteq Finished'
  BY ActivitiesGoOn DEF ScheduleInv
<1>6. /\ reviews'[c] = [s EXCEPT ![n] = new]
      /\ \A d \in Concept \ {c} : reviews'[d] = reviews[d]
      /\ reviews' = [d \in Concept |-> reviews'[d]]
  <2>1. reviews' = [reviews EXCEPT ![c] = [s EXCEPT ![n] =
                      [old EXCEPT !.due = due, !.override = override, !.paused = paused]]]
    <3>1. reviews' = [reviews EXCEPT ![c][Seq_(c)] =
             [Current(c) EXCEPT !.due = due, !.override = override, !.paused = paused]]
      BY DEF Update
    <3>2. Seq_(c) = n /\ Current(c) = old
      BY <1>2
    <3> HIDE DEF n, old
    <3> QED
      BY <3>1, <3>2 DEF ScheduleInv, ScheduleTypeOK
  <2>2. [old EXCEPT !.due = due, !.override = override, !.paused = paused] = new
    <3>1. IsRow(old)
      BY <1>4 DEF RowOK
    <3> HIDE DEF old
    <3> QED
      BY <3>1, RowMoved
  <2>3. reviews = [d \in Concept |-> reviews[d]]
    BY DEF ScheduleInv, ScheduleTypeOK
  <2> HIDE DEF new, old, n, s
  <2> QED
    BY <2>1, <2>2, <2>3
<1>7. /\ state'[c] = [state[c] EXCEPT !.due = due, !.override = override, !.paused = paused]
      /\ \A d \in Concept \ {c} : state'[d] = state[d]
      /\ state' = [d \in Concept |-> state'[d]]
  BY DEF Update, ScheduleInv, ScheduleTypeOK
<1>8. /\ IsState(state'[c]) /\ state'[c].due = due /\ state'[c].override = override
      /\ state'[c].paused = paused /\ state'[c].rule = state[c].rule
  BY <1>7 DEF ScheduleInv, ScheduleTypeOK, IsState
<1>9. ScheduleTypeOK'
  BY <1>6, <1>7, <1>8 DEF Update, facts, queue, ScheduleInv, ScheduleTypeOK
<1>10. RowOK(new, About(c), Started, Finished)
  <2>1. /\ new.status = old.status /\ new.current = old.current /\ new.due = due /\ new.override = override
        /\ new.origin = old.origin /\ new.error = old.error /\ IsRow(new)
    BY RowFields
  <2> HIDE DEF old, new
  <2> QED
    BY <1>2, <1>3, <1>4, <2>1 DEF RowOK
<1>11. /\ ListOK(reviews'[c], About(c), Started, Finished) /\ Len(reviews'[c]) = n
       /\ reviews'[c][n] = new
  <2>1. new.origin = old.origin
    BY RowFields
  <2> HIDE DEF new
  <2> QED
    BY <1>1, <1>3, <1>6, <1>10, <2>1, LastChanged
<1>12. ListOK(reviews'[c], About(c), Started', Finished')
  BY <1>5, <1>11, ListGoesOn
<1>13. Agrees(reviews'[c], state'[c])
  <2>1. new.paused = paused /\ new.override = override /\ new.due = due /\ new.current = old.current
        /\ new.status = old.status
    BY RowFields
  <2> HIDE DEF new
  <2> QED
    BY <1>3, <1>8, <1>11, <2>1 DEF Agrees, Open_
<1>14. \A d \in Concept : ConceptOK(d)'
  <2>1. ConceptOK(c)'
    BY <1>12, <1>13 DEF ConceptOK, About
  <2>2. \A d \in Concept \ {c} : ConceptOK(d)'
    BY <1>5, <1>6, <1>7, ConceptGoesOn DEF ScheduleInv
  <2> QED
    BY <2>1, <2>2
<1> QED
  BY <1>9, <1>14 DEF ScheduleInv

\* A batch is claimed for an activity that no occurrence was claimed for before.
LEMMA ClaimKeeps ==
    ASSUME ScheduleInv, [ScheduleNext]_scheduleVars, NEW a \in Activity, Claim(a)
    PROVE  ScheduleInv'
<1>1. ScheduleTypeOK'
  BY DEF Claim, queue, ScheduleInv, ScheduleTypeOK, Stages
<1>2. Started \subseteq Started' /\ Finished \subseteq Finished'
  BY ActivitiesGoOn DEF ScheduleInv
<1>3. a \notin Started /\ a \in Started' /\ a # None
  BY ReviewAssumption DEF Claim, Started, ScheduleInv, ScheduleTypeOK
<1>4. ASSUME NEW c \in Concept, c \in ConceptsOf(a) PROVE ConceptOK(c)'
  <2> DEFINE s == reviews[c]
             n == Len(s)
             old == s[n]
             new == reviews'[c][n]
  <2>1. ListOK(s, About(c), Started, Finished) /\ Agrees(s, state[c])
    BY DEF ScheduleInv, ConceptOK
  <2>2. Open_(s) /\ Seq_(c) = n /\ Current(c) = old /\ n \in Nat /\ DOMAIN s = 1..n
    BY <1>4, <2>1, CurrentIsLast DEF Claim, Claimable
  <2>3. n \in DOMAIN s /\ n > 0 /\ old.current
    BY <2>2 DEF Open_
  <2>4. RowOK(old, About(c), Started, Finished)
    BY <2>1, <2>2, <2>3 DEF ListOK
  <2>5. reviews'[c] = [s EXCEPT ![n] = [old EXCEPT !.status = "claimed", !.origin = a, !.error = "none"]]
    <3>1. reviews'[c] = [reviews[c] EXCEPT ![Seq_(c)] =
            [Current(c) EXCEPT !.status = "claimed", !.origin = a, !.error = "none"]]
      BY <1>4 DEF Claim
    <3> HIDE DEF n, old
    <3> QED
      BY <2>2, <3>1
  <2>6. new = [old EXCEPT !.status = "claimed", !.origin = a, !.error = "none"]
    BY <2>3, <2>5
  <2>7. /\ new.status = "claimed" /\ new.current = old.current /\ new.due = old.due /\ new.override = old.override
        /\ new.paused = old.paused /\ new.origin = a /\ IsRow(new)
    <3>1. IsRow(old)
      BY <2>4 DEF RowOK
    <3> HIDE DEF old, new
    <3>2. new = Row("claimed", old.current, old.rule, old.due, old.override, old.paused, a, "none")
      BY <2>6, <3>1, RowClaimed
    <3> QED
      BY <3>2, RowFields
  <2>8. reviews'[c] = [s EXCEPT ![n] = new]
    BY <2>5, <2>6
  <2>9. ListOK(s, About(c), Started', Finished')
    BY <1>2, <2>1, ListGoesOn
  <2>10. \A i \in 1..n : s[i].origin # a
    BY <1>3, <2>1 DEF ListOK, RowOK
  <2> HIDE DEF new, old
  <2>11. RowOK(new, About(c), Started', Finished')
    BY <1>3, <1>4, <2>3, <2>4, <2>7 DEF RowOK, About
  <2>12. ListOK(reviews'[c], About(c), Started', Finished') /\ Len(reviews'[c]) = n /\ reviews'[c][n] = new
    BY <2>3, <2>7, <2>8, <2>9, <2>10, <2>11, LastChanged
  <2>13. Agrees(reviews'[c], state[c])
    BY <2>1, <2>2, <2>3, <2>7, <2>12 DEF Agrees, Open_, old
  <2> QED
    BY <2>12, <2>13 DEF ConceptOK, About, Claim
<1>5. ASSUME NEW c \in Concept, c \notin ConceptsOf(a) PROVE ConceptOK(c)'
  BY <1>2, <1>5, ConceptGoesOn DEF Claim, ScheduleInv
<1> QED
  BY <1>1, <1>4, <1>5 DEF ScheduleInv

\* The sweep over a failed job finds its occurrence at the end of the list.
LEMMA ReconcileKeeps ==
    ASSUME ScheduleInv, [ScheduleNext]_scheduleVars, NEW a \in Activity, Reconcile(a)
    PROVE  ScheduleInv'
<1>1. ScheduleTypeOK'
  BY DEF Reconcile, facts, queue, ScheduleInv, ScheduleTypeOK
<1>2. Started' = Started /\ Finished' = Finished
  BY DEF Reconcile, facts, Started, Finished, Ready, Settled
<1>3. ASSUME NEW c \in Concept PROVE ConceptOK(c)'
  <2> DEFINE s == reviews[c]
             n == Len(s)
             old == s[n]
             new == Failed(old)
  <2>1. ListOK(s, About(c), Started, Finished) /\ Agrees(s, state[c])
    BY DEF ScheduleInv, ConceptOK
  <2>2. n \in Nat /\ DOMAIN s = 1..n /\ s = [i \in 1..n |-> s[i]]
    BY <2>1, ListProperties DEF ListOK
  <2>3. reviews'[c] = [i \in DOMAIN s |-> IF Unsettled(a, s[i]) THEN Failed(s[i]) ELSE s[i]]
    BY DEF Reconcile
  <2>4. \A i \in 1..n : Unsettled(a, s[i]) => i = n /\ s[i].current
    BY <2>1 DEF ListOK, RowOK, Unsettled
  <2>5. CASE ~\E i \in 1..n : Unsettled(a, s[i])
    <3>1. reviews'[c] = s
      BY <2>2, <2>3, <2>5
    <3> QED
      BY <1>2, <2>1, <3>1 DEF ConceptOK, About, Reconcile
  <2>6. CASE \E i \in 1..n : Unsettled(a, s[i])
    <3>1. n \in 1..n /\ Unsettled(a, old) /\ old.current
      BY <2>4, <2>6
    <3>2. reviews'[c] = [s EXCEPT ![n] = new]
      <4> HIDE DEF n, s
      <4> QED
        BY <2>2, <2>3, <2>4, <3>1
    <3>3. RowOK(old, About(c), Started, Finished)
      BY <2>1, <3>1 DEF ListOK
    <3>4. /\ new.status = "failed" /\ new.current = old.current /\ new.due = old.due /\ new.override = old.override
          /\ new.paused = old.paused /\ new.origin = old.origin /\ IsRow(new)
      <4>1. IsRow(old)
        BY <3>3 DEF RowOK
      <4> HIDE DEF old
      <4>2. new = Row("failed", old.current, old.rule, old.due, old.override, old.paused, old.origin, "job")
        BY <4>1, RowFailed
      <4> HIDE DEF new
      <4> QED
        BY <4>2, RowFields
    <3> HIDE DEF new, old
    <3>5. RowOK(new, About(c), Started, Finished)
      BY <3>1, <3>3, <3>4 DEF RowOK
    <3>6. ListOK(reviews'[c], About(c), Started, Finished) /\ Len(reviews'[c]) = n /\ reviews'[c][n] = new
      BY <2>1, <2>2, <3>1, <3>2, <3>4, <3>5, LastChanged DEF old
    <3>7. Agrees(reviews'[c], state[c])
      BY <2>1, <2>2, <3>1, <3>4, <3>6 DEF Agrees, Open_, old
    <3> QED
      BY <1>2, <3>6, <3>7 DEF ConceptOK, About, Reconcile
  <2> QED
    BY <2>5, <2>6
<1> QED
  BY <1>1, <1>3 DEF ScheduleInv

-----------------------------------------------------------------------------
(* A projection keeps the occurrences in order.                            *)

LEMMA StateStored ==
    ASSUME NEW c, NEW st, st = StoredState(c)
    PROVE  /\ IsState(st) /\ st.rule = Derive(c).due /\ st.override = OverrideLeft(c)
           /\ st.paused = state[c].paused
           /\ st.due = IF InProgress(c) THEN Current(c).due
                       ELSE IF OverrideLeft(c) # NoDay THEN OverrideLeft(c) ELSE Derive(c).due
BY DEF StoredState, IsState

\* The dates of s that a projection may not move are those of t, and what follows has
\* no chosen date.
DatesKept(s, t) ==
    /\ \A i \in 1..Len(s) : s[i].status # "scheduled" \/ s[i].override # NoDay => t[i].due = s[i].due
    /\ \A i \in (1..Len(t)) \ (1..Len(s)) : t[i].override = NoDay

\* What a projection leaves of the current occurrence that no activity consumed.
LEMMA RefreshKeeps ==
    ASSUME NEW c \in Concept, ListOK(reviews[c], About(c), Started, Finished), Agrees(reviews[c], state[c]),
           HasCurrent(c), ~Bound(c), NEW st, st = StoredState(c)
    PROVE  /\ ListOK(Synced(c, st), About(c), Started, Finished) /\ Agrees(Synced(c, st), st)
           /\ DatesKept(reviews[c], Synced(c, st))
<1> DEFINE s == reviews[c]
           n == Len(s)
           r == s[n]
           due == DueNow(r, st)
           new == Refreshed(c, st)
<1>1. Open_(s) /\ Seq_(c) = n /\ Current(c) = r /\ n \in Nat /\ DOMAIN s = 1..n
  BY CurrentIsLast
<1>2. n > 0 /\ r.current
  BY <1>1 DEF Open_
<1>3. RowOK(r, About(c), Started, Finished)
  BY <1>1, <1>2 DEF ListOK
<1>4. Synced(c, st) = [s EXCEPT ![n] = new]
  BY <1>1 DEF Synced
<1>5. /\ st.override = state[c].override /\ st.paused = state[c].paused
      /\ st.due = IF r.status = "claimed" THEN r.due
                  ELSE IF st.override # NoDay THEN st.override ELSE st.rule
  BY <1>1, StateStored DEF OverrideLeft, InProgress
<1>6. r.paused = state[c].paused /\ r.override = state[c].override
  BY <1>1 DEF Agrees
<1>7. due = IF r.status = "scheduled" /\ r.override = NoDay THEN st.rule ELSE r.due
  BY DEF DueNow
<1>8. new = IF due = NoDay
            THEN [r EXCEPT !.status = "cancelled", !.current = FALSE, !.rule = NoDay,
                           !.error = "assessment_pending"]
            ELSE [r EXCEPT !.rule = st.rule, !.due = due]
  BY <1>1 DEF Refreshed
<1>9. IsRow(r)
  BY <1>3 DEF RowOK
<1>10. CASE due = NoDay
  <2>1. r.override = NoDay /\ st.rule = NoDay
    BY <1>2, <1>3, <1>7, <1>10 DEF RowOK
  <2>2. /\ new.status = "cancelled" /\ new.current = FALSE /\ new.error = "assessment_pending"
        /\ new.origin = r.origin /\ IsRow(new)
    <3> HIDE DEF new, r, due
    <3>1. new = [r EXCEPT !.status = "cancelled", !.current = FALSE, !.rule = NoDay,
                          !.error = "assessment_pending"]
      BY <1>8, <1>10
    <3> QED
      BY <1>9, <3>1, RowCancelled
  <2> HIDE DEF new, r, due
  <2>3. RowOK(new, About(c), Started, Finished)
    BY <1>3, <2>2 DEF RowOK
  <2>4. /\ ListOK(Synced(c, st), About(c), Started, Finished)
        /\ Len(Synced(c, st)) = n /\ Synced(c, st)[n] = new
        /\ \A i \in 1..n : i # n => Synced(c, st)[i] = s[i]
    BY <1>2, <1>4, <2>2, <2>3, LastChanged DEF r
  <2>5. DatesKept(s, Synced(c, st))
    BY <1>7, <1>10, <2>4, <1>2, <1>3 DEF DatesKept, RowOK, r, due
  <2> QED
    BY <1>5, <1>6, <2>1, <2>2, <2>4, <2>5 DEF Agrees, Open_
<1>11. CASE due # NoDay
  <2>2. /\ new.status = r.status /\ new.current = r.current /\ new.due = due /\ new.override = r.override
        /\ new.paused = r.paused /\ new.error = r.error /\ new.origin = r.origin /\ IsRow(new)
    <3> HIDE DEF new, r, due
    <3>1. new = [r EXCEPT !.rule = st.rule, !.due = due]
      BY <1>8, <1>11
    <3>2. new = Row(r.status, r.current, st.rule, due, r.override, r.paused, r.origin, r.error)
      BY <1>9, <3>1, RowRefreshed
    <3> QED
      BY <3>2, RowFields
  <2> HIDE DEF new, r, due
  <2>3. RowOK(new, About(c), Started, Finished)
    BY <1>2, <1>3, <1>7, <1>11, <2>2 DEF RowOK
  <2>4. /\ ListOK(Synced(c, st), About(c), Started, Finished)
        /\ Len(Synced(c, st)) = n /\ Synced(c, st)[n] = new
        /\ \A i \in 1..n : i # n => Synced(c, st)[i] = s[i]
    BY <1>2, <1>4, <2>2, <2>3, LastChanged DEF r
  <2>5. new.status = "scheduled" => new.due = st.due
    BY <1>3, <1>5, <1>6, <1>7, <2>2 DEF RowOK
  <2>6. DatesKept(s, Synced(c, st))
    BY <1>7, <2>2, <2>4 DEF DatesKept, r
  <2> QED
    BY <1>2, <1>5, <1>6, <2>2, <2>4, <2>5, <2>6 DEF Agrees, Open_
<1> QED
  BY <1>10, <1>11

\* The occurrence that follows when none is current.
Followed(s, st) ==
    IF st.due = NoDay THEN s
    ELSE Append(s, Occurrence(st.rule, st.due, st.override, st.paused))

Extends(s, t) ==
    /\ \A i \in 1..Len(s) : t[i] = s[i]
    /\ \A i \in (1..Len(t)) \ (1..Len(s)) : t[i].override = NoDay

LEMMA NextKeeps ==
    ASSUME NEW s, NEW about, NEW started, NEW finished, ListOK(s, about, started, finished),
           ~Open_(s), NEW st, st.override = NoDay, st.due = st.rule
    PROVE  /\ ListOK(Followed(s, st), about, started, finished) /\ Agrees(Followed(s, st), st)
           /\ Extends(s, Followed(s, st))
<1> DEFINE t == Followed(s, st)
<1> USE DEF Followed, Extends
<1>1. CASE st.due = NoDay
  BY <1>1 DEF Agrees
<1>2. CASE st.due # NoDay
  <2> DEFINE r == Occurrence(st.rule, st.due, st.override, st.paused)
  <2>1. /\ r.status = "scheduled" /\ r.current = TRUE /\ r.due = st.due /\ r.override = st.override
        /\ r.paused = st.paused /\ r.origin = None /\ IsRow(r)
    BY DEF Occurrence, IsRow, Row
  <2> HIDE DEF r
  <2>2. RowOK(r, about, started, finished)
    BY <1>2, <2>1 DEF RowOK
  <2>3. /\ ListOK(t, about, started, finished) /\ Len(t) = Len(s) + 1 /\ t[Len(s) + 1] = r
        /\ \A i \in 1..Len(s) : t[i] = s[i]
    BY <1>2, <2>1, <2>2, RowAppended DEF r
  <2>4. Len(s) \in Nat
    BY ListProperties DEF ListOK
  <2>5. \A i \in (1..Len(t)) \ (1..Len(s)) : i = Len(s) + 1
    BY <2>3, <2>4
  <2> QED
    BY <2>1, <2>3, <2>4, <2>5 DEF Agrees, Open_
<1> QED
  BY <1>1, <1>2

\* An activity consumes the occurrence it was claimed for.
LEMMA ConsumeKeeps ==
    ASSUME NEW c \in Concept, ListOK(reviews[c], About(c), Started, Finished),
           Bound(c), NEW st, st = StoredState(c)
    PROVE  /\ ListOK(Synced(c, st), About(c), Started, Finished) /\ Agrees(Synced(c, st), st)
           /\ DatesKept(reviews[c], Synced(c, st))
<1> DEFINE s == reviews[c]
           n == Len(s)
           r == s[n]
           new == [r EXCEPT !.status = "completed", !.current = FALSE]
           closed == [s EXCEPT ![n] = new]
<1>1. Seq_(c) = n /\ Current(c) = r /\ n \in Nat /\ DOMAIN s = 1..n /\ HasCurrent(c) /\ Open_(s)
  BY CurrentIsLast DEF Bound
<1>2. n > 0 /\ r.status = "claimed" /\ Ready(r.origin)
  BY <1>1 DEF Open_, Bound, Consumes
<1>3. RowOK(r, About(c), Started, Finished)
  BY <1>1, <1>2 DEF ListOK
<1>4. Synced(c, st) = IF st.due = NoDay THEN closed
                      ELSE Append(closed, Occurrence(st.rule, st.due, st.override, st.paused))
  BY <1>1 DEF Synced
<1>5. st.override = NoDay /\ st.due = st.rule
  BY StateStored DEF OverrideLeft, InProgress
<1>6. /\ new.status = "completed" /\ new.current = FALSE /\ new.origin = r.origin /\ IsRow(new)
      /\ new.due = r.due
  <2>1. IsRow(r)
    BY <1>3 DEF RowOK
  <2> DEFINE t == new
  <2>2. t = [r EXCEPT !.status = "completed", !.current = FALSE]
    OBVIOUS
  <2> HIDE DEF r, t, new
  <2> QED
    BY <2>1, <2>2, RowClosed DEF t
<1> HIDE DEF new, r
<1>7. RowOK(new, About(c), Started, Finished)
  BY <1>2, <1>3, <1>6 DEF RowOK, Finished, About
<1>8. /\ ListOK(closed, About(c), Started, Finished) /\ Len(closed) = n /\ closed[n] = new
      /\ \A i \in 1..n : i # n => closed[i] = s[i]
  BY <1>2, <1>6, <1>7, LastChanged DEF r
<1> HIDE DEF closed
<1>9. ~Open_(closed)
  BY <1>6, <1>8 DEF Open_
<1>10. /\ ListOK(Followed(closed, st), About(c), Started, Finished) /\ Agrees(Followed(closed, st), st)
       /\ Extends(closed, Followed(closed, st))
  BY <1>5, <1>8, <1>9, NextKeeps
<1>11. Synced(c, st) = Followed(closed, st)
  BY <1>4 DEF Followed
<1> QED
  BY <1>6, <1>8, <1>10, <1>11 DEF DatesKept, Extends, r

LEMMA ResumeKeeps ==
    ASSUME NEW c \in Concept, ListOK(reviews[c], About(c), Started, Finished), Agrees(reviews[c], state[c]),
           ~HasCurrent(c), NEW st, st = StoredState(c)
    PROVE  /\ ListOK(Synced(c, st), About(c), Started, Finished) /\ Agrees(Synced(c, st), st)
           /\ DatesKept(reviews[c], Synced(c, st))
<1> DEFINE s == reviews[c]
<1>1. ~Open_(s) /\ ~Bound(c) /\ ~InProgress(c)
  BY CurrentIsLast DEF Bound, InProgress
<1>2. st.override = NoDay /\ st.due = st.rule
  BY <1>1, StateStored DEF OverrideLeft, Agrees
<1>3. ~AwaitsRetry(c, st)
  <2> SUFFICES ASSUME AwaitsRetry(c, st) PROVE FALSE
    OBVIOUS
  <2>1. Len(s) \in Nat /\ Len(s) > 0
    BY ListProperties DEF AwaitsRetry, ListOK
  <2>2. RowOK(s[Len(s)], About(c), Started, Finished) /\ ~s[Len(s)].current
    BY <1>1, <2>1 DEF ListOK, Open_
  <2> QED
    BY <2>2 DEF RowOK, AwaitsRetry, Last
<1>4. Synced(c, st) = IF st.due = NoDay THEN s
                      ELSE Append(s, Occurrence(st.rule, st.due, st.override, st.paused))
  BY <1>1, <1>3 DEF Synced
<1>5. /\ ListOK(Followed(s, st), About(c), Started, Finished) /\ Agrees(Followed(s, st), st)
      /\ Extends(s, Followed(s, st))
  BY <1>1, <1>2, NextKeeps
<1>6. Synced(c, st) = Followed(s, st)
  BY <1>4 DEF Followed
<1> QED
  BY <1>5, <1>6 DEF DatesKept, Extends

LEMMA ProjectKeeps ==
    ASSUME ScheduleInv, NEW a \in Activity, Project(a)
    PROVE  ScheduleInv'
<1>1. Started' = Started /\ Finished' = Finished
  BY DEF Project, facts, Started, Finished, Ready, Settled
<1>2. CASE UNCHANGED <<lost, receipt, state, reviews>>
  <2>1. ScheduleTypeOK'
    BY <1>2 DEF Project, facts, ScheduleInv, ScheduleTypeOK
  <2> QED
    BY <1>1, <1>2, <2>1, ConceptGoesOn DEF ScheduleInv
<1>3. CASE /\ receipt' = [receipt EXCEPT ![a] = Assessments(a)]
           /\ lost' = lost \ {a}
           /\ state' = [c \in Concept |-> IF c \in ConceptsOf(a) THEN StoredState(c) ELSE state[c]]
           /\ reviews' = [c \in Concept |-> IF c \in ConceptsOf(a) THEN Synced(c, state'[c]) ELSE reviews[c]]
  <2>1. ScheduleTypeOK'
    <3>1. \A c \in Concept : IsState(state'[c])
      BY <1>3, StateStored DEF ScheduleInv, ScheduleTypeOK
    <3>2. receipt' = [b \in Activity |-> receipt'[b]] /\ lost' \subseteq Activity
      BY <1>3 DEF ScheduleInv, ScheduleTypeOK
    <3>3. state' = [c \in Concept |-> state'[c]] /\ reviews' = [c \in Concept |-> reviews'[c]]
      BY <1>3, Zenon
    <3>4. pending' \in [Activity -> Nat]
      BY DEF Project, ScheduleInv, ScheduleTypeOK
    <3> QED
      BY <3>1, <3>2, <3>3, <3>4 DEF Project, facts, ScheduleInv, ScheduleTypeOK
  <2>2. ASSUME NEW c \in Concept, c \notin ConceptsOf(a) PROVE ConceptOK(c)'
    BY <1>1, <1>3, <2>2, ConceptGoesOn DEF ScheduleInv
  <2>3. ASSUME NEW c \in Concept, c \in ConceptsOf(a) PROVE ConceptOK(c)'
    <3>1. state'[c] = StoredState(c) /\ reviews'[c] = Synced(c, state'[c])
      BY <1>3, <2>3
    <3>2. ListOK(reviews[c], About(c), Started, Finished) /\ Agrees(reviews[c], state[c])
      BY DEF ScheduleInv, ConceptOK
    <3>3. Bound(c) => HasCurrent(c)
      BY DEF Bound
    <3>4. ListOK(reviews'[c], About(c), Started, Finished) /\ Agrees(reviews'[c], state'[c])
      BY <3>1, <3>2, <3>3, RefreshKeeps, ConsumeKeeps, ResumeKeeps
    <3> QED
      BY <1>1, <3>4 DEF ConceptOK, About
  <2> QED
    BY <2>1, <2>2, <2>3 DEF ScheduleInv
<1> QED
  BY <1>2, <1>3 DEF Project

-----------------------------------------------------------------------------
(* What holds of every concept, whatever the learner and the events do.    *)

LEMMA RequestsKeep ==
    ASSUME ScheduleInv, [ScheduleNext]_scheduleVars, NEW c \in Concept,
           (\E on \in 1..LastDay : Reschedule(c, on)) \/ Pause(c) \/ Resume(c)
    PROVE  ScheduleInv'
<1>0. moves' \in Nat
  <2>1. moves \in Nat
    BY DEF ScheduleInv, ScheduleTypeOK
  <2>2. CASE Resume(c)
    BY <2>1, <2>2 DEF Resume
  <2>3. CASE Pause(c)
    BY <2>1, <2>3 DEF Pause, Move
  <2>4. CASE \E on \in 1..LastDay : Reschedule(c, on)
    BY <2>1, <2>4 DEF Reschedule, Move
  <2> QED
    BY <2>2, <2>3, <2>4
<1>1. ListOK(reviews[c], About(c), Started, Finished)
  BY DEF ScheduleInv, ConceptOK
<1>2. HasCurrent(c)
  BY DEF Reschedule, Pause, Resume
<1>3. /\ Current(c).due # NoDay
      /\ Current(c).status = "scheduled" /\ Current(c).override # NoDay => Current(c).due = Current(c).override
  BY <1>1, <1>2, CurrentIsLast DEF Open_, ListOK, RowOK
<1>4. ASSUME NEW on \in 1..LastDay, Reschedule(c, on) PROVE ScheduleInv'
  <2>1. on # NoDay
    BY ReviewAssumption DEF NoDay
  <2> QED
    BY <1>0, <1>4, <2>1, UpdateKeeps DEF Reschedule
<1>5. CASE Pause(c)
  <2>1. Update(c, Current(c).due, Current(c).override, TRUE)
    BY <1>5 DEF Pause
  <2> QED
    BY <1>0, <1>3, <2>1, UpdateKeeps, Zenon
<1>6. CASE Resume(c)
  <2>1. Update(c, Current(c).due, Current(c).override, FALSE)
    BY <1>6 DEF Resume
  <2> QED
    BY <1>0, <1>3, <2>1, UpdateKeeps, Zenon
<1> QED
  BY <1>4, <1>5, <1>6

LEMMA ScheduleStarts == ScheduleInit => ScheduleInv
<1> SUFFICES ASSUME ScheduleInit PROVE ScheduleInv
  OBVIOUS
<1>1. ScheduleTypeOK
  <2>1. /\ head \in [Question -> [rev : Nat, mark : Marks]] /\ stage \in [Activity -> Stages]
        /\ day \in [Activity -> Nat] /\ pending \in [Activity -> Nat]
    BY DEF ScheduleInit, Stages, Marks, Unanswered, NoDay
  <2>2. /\ today \in Nat /\ history \in Seq(Activity) /\ lost \subseteq Activity /\ moves \in Nat
    BY DEF ScheduleInit
  <2>3. /\ receipt = [a \in Activity |-> receipt[a]] /\ state = [c \in Concept |-> state[c]]
        /\ reviews = [c \in Concept |-> reviews[c]]
    BY DEF ScheduleInit
  <2>4. \A c \in Concept : IsState(state[c])
    BY DEF ScheduleInit, IsState
  <2> QED
    BY <2>1, <2>2, <2>3, <2>4 DEF ScheduleTypeOK
<1>2. ASSUME NEW c \in Concept PROVE ConceptOK(c)
  <2>1. reviews[c] = << >> /\ state[c].override = NoDay /\ state[c].rule = NoDay
    BY <1>2 DEF ScheduleInit
  <2>2. IsList(<< >>)
    <3>1. << >> = [i \in 1..0 |-> << >>[i]]
      OBVIOUS
    <3> QED
      BY <3>1 DEF IsList
  <2> QED
    BY <2>1, <2>2 DEF ConceptOK, ListOK, Agrees, Open_
<1> QED
  BY <1>1, <1>2 DEF ScheduleInv

LEMMA ScheduleKept == ScheduleInv /\ [ScheduleNext]_scheduleVars => ScheduleInv'
<1> SUFFICES ASSUME ScheduleInv, [ScheduleNext]_scheduleVars PROVE ScheduleInv'
  OBVIOUS
<1>1. CASE UNCHANGED scheduleVars
  BY <1>1 DEF scheduleVars, ScheduleInv, ScheduleTypeOK, ConceptOK, About, Started, Finished, Ready, Settled
<1>2. CASE Facts
  <2>1. ScheduleTypeOK' /\ UNCHANGED <<state, reviews, moves>>
    BY <1>2, FactsKeepTypes DEF ScheduleInv
  <2>2. Started \subseteq Started' /\ Finished \subseteq Finished'
    BY ActivitiesGoOn DEF ScheduleInv
  <2> QED
    BY <2>1, <2>2, ConceptGoesOn DEF ScheduleInv
<1>3. ASSUME NEW c \in Concept, (\E on \in 1..LastDay : Reschedule(c, on)) \/ Pause(c) \/ Resume(c)
      PROVE  ScheduleInv'
  BY <1>3, RequestsKeep
<1>4. ASSUME NEW a \in Activity, Project(a) \/ Claim(a) \/ Reconcile(a) PROVE ScheduleInv'
  BY <1>4, ProjectKeeps, ClaimKeeps, ReconcileKeeps
<1> QED
  BY <1>1, <1>2, <1>3, <1>4 DEF ScheduleNext, Facts

\* Every column of the schedule keeps its type, whatever is answered, assessed,
\* projected, claimed or moved.
THEOREM ScheduleTypeCorrect == ScheduleSpec => []ScheduleTypeOK
<1>1. ScheduleInv => ScheduleTypeOK
  BY DEF ScheduleInv
<1> QED
  BY <1>1, ScheduleStarts, ScheduleKept, PTL DEF ScheduleSpec

\* A concept the rules want reviewed always has exactly one current occurrence, its
\* latest, and that occurrence and the state of the concept agree on the pause, the
\* chosen date and the due date (_sync_reviews, update_review, the sweep of failed jobs).
THEOREM TheScheduleIsOneSlot == ScheduleSpec => []OccurrenceTellsState
<1>1. ScheduleInv => OccurrenceTellsState
  <2> SUFFICES ASSUME ScheduleInv, NEW c \in Concept
               PROVE  /\ state[c].rule # NoDay => HasCurrent(c)
                      /\ CurrentSeqs(c) \subseteq {Len(reviews[c])}
                      /\ HasCurrent(c) =>
                           /\ Current(c).paused = state[c].paused
                           /\ Current(c).override = state[c].override
                           /\ Current(c).status = "scheduled" => Current(c).due = state[c].due
    BY DEF OccurrenceTellsState
  <2>1. ListOK(reviews[c], About(c), Started, Finished) /\ Agrees(reviews[c], state[c])
    BY DEF ScheduleInv, ConceptOK
  <2> QED
    BY <2>1, CurrentIsLast DEF Agrees
<1> QED
  BY <1>1, ScheduleStarts, ScheduleKept, PTL DEF ScheduleSpec

\* An activity consumes one occurrence of each of its concepts at most, and only
\* occurrences it was claimed for and once its answers are confirmed (_bound_review).
THEOREM ReviewsAreConsumedOnce == ScheduleSpec => []ConsumedOnce
<1>1. ScheduleInv => ConsumedOnce
  <2> SUFFICES ASSUME ScheduleInv, NEW c \in Concept, NEW i \in DOMAIN reviews[c],
                      reviews[c][i].status = "completed"
               PROVE  /\ Ready(reviews[c][i].origin) /\ c \in ConceptsOf(reviews[c][i].origin)
                      /\ \A j \in DOMAIN reviews[c] \ {i} :
                           reviews[c][j].origin = reviews[c][i].origin => reviews[c][j].status # "completed"
    BY DEF ConsumedOnce
  <2>1. ListOK(reviews[c], About(c), Started, Finished)
    BY DEF ScheduleInv, ConceptOK
  <2>2. DOMAIN reviews[c] = 1..Len(reviews[c])
    BY <2>1, CurrentIsLast
  <2>3. RowOK(reviews[c][i], About(c), Started, Finished)
    BY <2>1, <2>2 DEF ListOK
  <2>4. reviews[c][i].origin # None
    BY <2>3 DEF RowOK
  <2>5. \A j \in DOMAIN reviews[c] \ {i} : reviews[c][j].origin # reviews[c][i].origin
    BY <2>1, <2>2, <2>4 DEF ListOK
  <2> QED
    BY <2>3, <2>4, <2>5 DEF RowOK, Finished, About
<1> QED
  BY <1>1, ScheduleStarts, ScheduleKept, PTL DEF ScheduleSpec

\* A claim and the sweep touch no date.
LEMMA ClaimLeavesDates ==
    ASSUME ScheduleInv, NEW a \in Activity, Claim(a), NEW c \in Concept
    PROVE  DatesKept(reviews[c], reviews'[c])
<1>1. ListOK(reviews[c], About(c), Started, Finished)
  BY DEF ScheduleInv, ConceptOK
<1>2. Len(reviews[c]) \in Nat /\ DOMAIN reviews[c] = 1..Len(reviews[c]) /\ IsList(reviews[c])
  BY <1>1, CurrentIsLast DEF ListOK
<1>3. CASE c \notin ConceptsOf(a)
  BY <1>3 DEF Claim, DatesKept
<1>4. CASE c \in ConceptsOf(a)
  <2> DEFINE s == reviews[c]
             new == [Current(c) EXCEPT !.status = "claimed", !.origin = a, !.error = "none"]
             t == [s EXCEPT ![Seq_(c)] = new]
  <2>1. reviews'[c] = t
    BY <1>4 DEF Claim
  <2>2. Seq_(c) = Len(s) /\ Current(c) = s[Len(s)] /\ Len(s) \in DOMAIN s
    <3>1. HasCurrent(c)
      BY <1>4 DEF Claim, Claimable
    <3> QED
      BY <1>1, <1>2, <3>1, CurrentIsLast DEF Open_
  <2>3. IsRow(Current(c))
    BY <1>1, <1>2, <2>2 DEF ListOK, RowOK
  <2>4. new.due = Current(c).due
    <3> DEFINE r == Current(c)
    <3>1. new = [r EXCEPT !.status = "claimed", !.origin = a, !.error = "none"]
      OBVIOUS
    <3> HIDE DEF new, r
    <3> QED
      BY <2>3, <3>1 DEF IsRow, Row, r
  <2> HIDE DEF new
  <2>5. t = [i \in DOMAIN s |-> t[i]]
    OBVIOUS
  <2>6. Len(t) = Len(s)
    BY <1>2, <2>5, ListKept
  <2>7. \A i \in 1..Len(s) : t[i].due = s[i].due
    BY <1>2, <2>2, <2>4
  <2> HIDE DEF t
  <2> QED
    BY <2>1, <2>6, <2>7 DEF DatesKept
<1> QED
  BY <1>3, <1>4

LEMMA SweepLeavesDates ==
    ASSUME ScheduleInv, NEW a \in Activity, Reconcile(a), NEW c \in Concept
    PROVE  DatesKept(reviews[c], reviews'[c])
<1> DEFINE s == reviews[c]
           t == [i \in DOMAIN s |-> IF Unsettled(a, s[i]) THEN Failed(s[i]) ELSE s[i]]
<1>1. ListOK(s, About(c), Started, Finished)
  BY DEF ScheduleInv, ConceptOK
<1>2. Len(s) \in Nat /\ DOMAIN s = 1..Len(s) /\ IsList(s)
  BY <1>1, CurrentIsLast DEF ListOK
<1>3. reviews'[c] = t
  BY DEF Reconcile
<1>4. ASSUME NEW i \in 1..Len(s) PROVE t[i].due = s[i].due
  <2>1. IsRow(s[i])
    BY <1>1 DEF ListOK, RowOK
  <2>2. Failed(s[i]).due = s[i].due
    BY <2>1, RowFailed, RowFields
  <2> QED
    BY <1>2, <2>2
<1>5. t = [i \in DOMAIN s |-> t[i]]
  OBVIOUS
<1>6. Len(t) = Len(s)
  BY <1>2, <1>5, ListKept
<1> HIDE DEF t
<1> QED
  BY <1>3, <1>4, <1>6 DEF DatesKept

\* Resuming writes the date the occurrence has.
LEMMA ResumeLeavesDates ==
    ASSUME ScheduleInv, NEW d \in Concept, Resume(d), NEW c \in Concept
    PROVE  DatesKept(reviews[c], reviews'[c])
<1> DEFINE s == reviews[c]
           new == [Current(d) EXCEPT !.due = Current(d).due, !.override = Current(d).override, !.paused = FALSE]
           t == [s EXCEPT ![Seq_(c)] = new]
<1>1. ListOK(s, About(c), Started, Finished)
  BY DEF ScheduleInv, ConceptOK
<1>2. Len(s) \in Nat /\ DOMAIN s = 1..Len(s) /\ IsList(s)
  BY <1>1, CurrentIsLast DEF ListOK
<1>3. reviews' = [reviews EXCEPT ![d][Seq_(d)] = new] /\ HasCurrent(d)
  BY DEF Resume, Update
<1>4. CASE d # c
  <2>1. reviews'[c] = s
    BY <1>3, <1>4 DEF ScheduleInv, ScheduleTypeOK
  <2> QED
    BY <2>1 DEF DatesKept
<1>5. CASE d = c
  <2>1. Seq_(c) = Len(s) /\ Current(c) = s[Len(s)] /\ Len(s) \in DOMAIN s
    BY <1>1, <1>2, <1>3, <1>5, CurrentIsLast DEF Open_
  <2>2. IsRow(Current(c))
    BY <1>1, <1>2, <2>1 DEF ListOK, RowOK
  <2>3. new.due = Current(c).due
    <3> DEFINE r == Current(c)
    <3>1. new = [r EXCEPT !.due = r.due, !.override = r.override, !.paused = FALSE]
      BY <1>5
    <3> HIDE DEF new, r
    <3> QED
      BY <2>2, <3>1 DEF IsRow, Row, r
  <2> HIDE DEF new
  <2>4. reviews'[c] = t
    BY <1>3, <1>5 DEF ScheduleInv, ScheduleTypeOK
  <2>5. t = [i \in DOMAIN s |-> t[i]]
    OBVIOUS
  <2>6. Len(t) = Len(s)
    BY <1>2, <2>5, ListKept
  <2>7. \A i \in 1..Len(s) : t[i].due = s[i].due
    BY <1>2, <2>1, <2>3
  <2> HIDE DEF t
  <2> QED
    BY <2>4, <2>6, <2>7 DEF DatesKept
<1> QED
  BY <1>4, <1>5

LEMMA ProjectLeavesDates ==
    ASSUME ScheduleInv, NEW a \in Activity, Project(a), NEW c \in Concept
    PROVE  DatesKept(reviews[c], reviews'[c])
<1>1. CASE reviews'[c] = reviews[c]
  BY <1>1 DEF DatesKept
<1>2. CASE reviews'[c] = Synced(c, state'[c]) /\ state'[c] = StoredState(c)
  <2>1. ListOK(reviews[c], About(c), Started, Finished) /\ Agrees(reviews[c], state[c])
    BY DEF ScheduleInv, ConceptOK
  <2>2. Bound(c) => HasCurrent(c)
    BY DEF Bound
  <2> QED
    BY <1>2, <2>1, <2>2, RefreshKeeps, ConsumeKeeps, ResumeKeeps
<1> QED
  BY <1>1, <1>2 DEF Project

\* No step but a choice of the learner (update_review) moves the date of an occurrence
\* in progress or a date he chose, and a chosen date ends with its occurrence.
THEOREM DatesStayTheLearners == ScheduleSpec => DatesAreTheLearners
<1> DEFINE Kept == \A c \in Concept :
             /\ \A i \in DOMAIN reviews[c] :
                  /\ reviews[c][i].status # "scheduled" \/ reviews[c][i].override # NoDay
                  => reviews'[c][i].due = reviews[c][i].due
             /\ \A i \in DOMAIN reviews'[c] \ DOMAIN reviews[c] : reviews'[c][i].override = NoDay
<1>1. ScheduleInv /\ ScheduleInv' /\ [ScheduleNext]_scheduleVars => [moves' = moves => Kept]_scheduleVars
  <2> SUFFICES ASSUME ScheduleInv, ScheduleInv', ScheduleNext, moves' = moves, NEW c \in Concept
               PROVE  DatesKept(reviews[c], reviews'[c])
    <3>1. ASSUME NEW c \in Concept, ScheduleInv, ScheduleInv'
          PROVE  DOMAIN reviews[c] = 1..Len(reviews[c]) /\ DOMAIN reviews'[c] = 1..Len(reviews'[c])
      BY <3>1, ListProperties DEF ScheduleInv, ConceptOK, ListOK
    <3> QED
      BY <3>1 DEF DatesKept
  <2>1. CASE Facts
    BY <2>1, FactsKeepTypes DEF ScheduleInv, DatesKept
  <2>2. ASSUME NEW d \in Concept, NEW on \in 1..LastDay, Reschedule(d, on) PROVE FALSE
    BY <2>2 DEF Reschedule, Move, ScheduleInv, ScheduleTypeOK
  <2>3. ASSUME NEW d \in Concept, Pause(d) PROVE FALSE
    BY <2>3 DEF Pause, Move, ScheduleInv, ScheduleTypeOK
  <2>4. ASSUME NEW d \in Concept, Resume(d) PROVE DatesKept(reviews[c], reviews'[c])
    BY <2>4, ResumeLeavesDates
  <2>5. ASSUME NEW a \in Activity, Project(a) \/ Claim(a) \/ Reconcile(a)
        PROVE  DatesKept(reviews[c], reviews'[c])
    BY <2>5, ProjectLeavesDates, ClaimLeavesDates, SweepLeavesDates
  <2> QED
    BY <2>1, <2>2, <2>3, <2>4, <2>5 DEF ScheduleNext, Facts
<1> QED
  BY <1>1, ScheduleStarts, ScheduleKept, PTL DEF ScheduleSpec, DatesAreTheLearners

-----------------------------------------------------------------------------
(* The state of a concept follows its history.                             *)

\* No lesson, nothing learned.
LEMMA NothingLearned ==
    ASSUME NEW f, DOMAIN f = {}
    PROVE  AllLearned(f) = NewConcept
<1> DEFINE Folds(h) == h = [s \in SUBSET {} |-> IF s = {} THEN NewConcept
                                              ELSE Learned(h[s \ {Max(s)}], f[Max(s)])]
<1>1. \E h : Folds(h)
  <2> DEFINE g == [s \in SUBSET {} |-> NewConcept]
  <2>1. \A s \in SUBSET {} : s = {}
    OBVIOUS
  <2>2. g = [s \in SUBSET {} |-> IF s = {} THEN NewConcept ELSE Learned(g[s \ {Max(s)}], f[Max(s)])]
    <3> HIDE DEF NewConcept
    <3> QED
      BY <2>1, Zenon
  <2> QED
    BY <2>2
<1>2. Folds(CHOOSE h : Folds(h))
  BY <1>1, Zenon
<1>3. AllLearned(f) = (CHOOSE h : Folds(h))[{}]
  BY Zenon DEF AllLearned, MapThenFoldSet
<1>4. \A h : Folds(h) => h[{}] = NewConcept
  OBVIOUS
<1> QED
  BY <1>2, <1>3, <1>4, Zenon

UpToDate(c) ==
    /\ state[c].stage = Derive(c).stage
    /\ state[c].rule = Derive(c).due
    /\ state[c].last = Derive(c).last

\* An event of the activity is still to be projected, and will be.
Awaited(a) ==
    /\ Settled(a)
    /\ pending[a] > 0 \/ a \in lost
    /\ receipt[a] # Assessments(a)

EventOK(c) == UpToDate(c) \/ \E a \in About(c) : Awaited(a)

\* A receipt names assessments of a completed activity, none later than its heads.
ReceiptOK(a) ==
    /\ ~Settled(a) => receipt[a] = << >>
    /\ receipt[a] # << >> => \A q \in QuestionsOf(a) :
         receipt[a][q].rev \in Nat /\ receipt[a][q].rev <= head[q].rev

HistoryInv ==
    /\ ScheduleTypeOK
    /\ \A i \in DOMAIN history : Settled(history[i])
    /\ \A a \in Activity : ReceiptOK(a)
    /\ \A c \in Concept : EventOK(c)

\* The lessons of a concept are those of its completed activities.
LEMMA LessonsStay ==
    ASSUME NEW c \in Concept, Places(c)' = Places(c),
           \A i \in Places(c) : /\ history'[i] = history[i]
                                /\ day'[history[i]] = day[history[i]]
                                /\ Settled(history[i])' = Settled(history[i])
                                /\ \A q \in QuestionsOf(history[i]) : head'[q] = head[q]
    PROVE  Derive(c)' = Derive(c)
<1>1. ASSUME NEW i \in Places(c) PROVE Lesson(history[i], c)' = Lesson(history[i], c)
  <2> DEFINE a == history[i]
             asked == {q \in QuestionsOf(a) : ConceptOf[q] = c}
             marks == {head[q].mark : q \in asked}
  <2>1. history'[i] = a /\ day'[a] = day[a] /\ \A q \in QuestionsOf(a) : head'[q] = head[q]
    OBVIOUS
  <2>2. Ready(history[i])' = Ready(history[i])
    BY <2>1 DEF Ready, QuestionsOf
  <2>3. {head'[q].mark : q \in asked} = marks
    BY <2>1
  <2> QED
    BY <2>1, <2>2, <2>3 DEF Lesson, QuestionsOf
<1>2. Lessons(c)' = Lessons(c)
  BY <1>1 DEF Lessons
<1> QED
  BY <1>2 DEF Derive

SameState(c) ==
    state'[c].stage = state[c].stage /\ state'[c].rule = state[c].rule /\ state'[c].last = state[c].last

\* An activity a step does not disturb: what its completion and its answers tell is the
\* same, and an event of it that waits goes on waiting.
Undisturbed(a) ==
    /\ Settled(a)' = Settled(a)
    /\ day'[a] = day[a]
    /\ \A q \in QuestionsOf(a) : head'[q] = head[q]
    /\ receipt'[a] = receipt[a]
    /\ (pending[a] > 0 \/ a \in lost) /\ receipt[a] # Assessments(a) => pending'[a] > 0 \/ a \in lost'

LEMMA ReceiptStays ==
    ASSUME NEW a \in Activity, ReceiptOK(a), Undisturbed(a)
    PROVE  ReceiptOK(a)'
BY DEF ReceiptOK, Undisturbed, QuestionsOf

LEMMA AwaitedStays ==
    ASSUME NEW a \in Activity, Awaited(a), Undisturbed(a)
    PROVE  Awaited(a)'
<1>1. Assessments(a)' = Assessments(a)
  BY DEF Assessments, Undisturbed, QuestionsOf
<1> QED
  BY <1>1 DEF Awaited, Undisturbed

\* A concept none of whose completed activities is disturbed.
LEMMA EventStays ==
    ASSUME HistoryInv, NEW c \in Concept, SameState(c), Places(c)' = Places(c),
           \A i \in Places(c) : history'[i] = history[i],
           \A a \in About(c) : Settled(a) => Undisturbed(a)
    PROVE  EventOK(c)'
<1>1. \A i \in Places(c) : history[i] \in About(c) /\ Settled(history[i])
  <2>1. \A i \in DOMAIN history : history[i] \in Activity
    BY ElementOfSeq, LenProperties DEF HistoryInv, ScheduleTypeOK
  <2> QED
    BY <2>1 DEF Places, About, HistoryInv
<1>2. Derive(c)' = Derive(c)
  <2>1. ASSUME NEW i \in Places(c)
        PROVE  /\ history'[i] = history[i] /\ day'[history[i]] = day[history[i]]
               /\ Settled(history[i])' = Settled(history[i])
               /\ \A q \in QuestionsOf(history[i]) : head'[q] = head[q]
    <3>1. Undisturbed(history[i]) /\ history'[i] = history[i]
      BY <1>1
    <3> QED
      BY <3>1 DEF Undisturbed, Settled
  <2> QED
    BY <2>1, LessonsStay
<1>3. CASE UpToDate(c)
  BY <1>2, <1>3 DEF UpToDate, SameState, EventOK
<1>4. CASE \E a \in About(c) : Awaited(a)
  <2>1. PICK a \in About(c) : Awaited(a)
    BY <1>4
  <2>2. Undisturbed(a) /\ a \in Activity
    BY <2>1 DEF Awaited, About
  <2>3. Awaited(a)'
    BY <2>1, <2>2, AwaitedStays
  <2> QED
    BY <2>1, <2>3 DEF EventOK, About
<1> QED
  BY <1>3, <1>4 DEF HistoryInv, EventOK

\* A step that disturbs no completed activity and completes none.
LEMMA QuietKeeps ==
    ASSUME HistoryInv, ScheduleTypeOK', history' = history, receipt' = receipt,
           \A c \in Concept : SameState(c),
           \A a \in Activity : Settled(a) => Undisturbed(a),
           \A a \in Activity : ~Settled(a) => ~Settled(a)'
    PROVE  HistoryInv'
<1>1. \A i \in DOMAIN history' : Settled(history[i])'
  <2>1. \A i \in DOMAIN history : history[i] \in Activity
    BY ElementOfSeq, LenProperties DEF HistoryInv, ScheduleTypeOK
  <2> QED
    BY <2>1 DEF HistoryInv, Undisturbed, Settled
<1>2. ASSUME NEW a \in Activity PROVE ReceiptOK(a)'
  <2>1. CASE Settled(a)
    BY <2>1, ReceiptStays DEF HistoryInv
  <2>2. CASE ~Settled(a)
    BY <2>2 DEF HistoryInv, ReceiptOK
  <2> QED
    BY <2>1, <2>2
<1>3. ASSUME NEW c \in Concept PROVE EventOK(c)'
  <2>1. Places(c)' = Places(c) /\ \A i \in Places(c) : history'[i] = history[i]
    BY DEF Places, ConceptsOf, QuestionsOf
  <2> QED
    BY <2>1, EventStays DEF About
<1> QED
  BY <1>1, <1>2, <1>3 DEF HistoryInv

\* Completions, late assessments and projections are the steps that do disturb one.
Quiet ==
    \/ \E a \in Activity : \/ Open(a) \/ ProjectFails(a) \/ Claim(a) \/ Generated(a) \/ GenerationFails(a)
                           \/ Reconcile(a)
                           \/ Project(a) /\ (~Settled(a) \/ ~Unseen(a))
    \/ \E q \in Question : \/ Submit(q)
                           \/ \E mark \in Confirmed : Answer(q, mark)
                           \/ \E mark \in Confirmed \cup {"provisional"} :
                                Assess(q, mark) /\ ~Settled(ActivityOf[q])
    \/ \E c \in Concept : \/ \E on \in 1..LastDay : Reschedule(c, on)
                          \/ Pause(c) \/ Resume(c)
    \/ NextDay

LEMMA QuietStep ==
    ASSUME HistoryInv, ScheduleTypeOK', Quiet
    PROVE  HistoryInv'
<1> DEFINE Calm == /\ history' = history /\ receipt' = receipt
                   /\ \A c \in Concept : SameState(c)
                   /\ \A a \in Activity : Settled(a) => Undisturbed(a)
                   /\ \A a \in Activity : ~Settled(a) => ~Settled(a)'
<1>0. ScheduleTypeOK
  BY DEF HistoryInv
<1> USE ReviewAssumption DEF facts, queue
<1>1. ASSUME NEW a \in Activity, Open(a) \/ Generated(a) \/ GenerationFails(a) \/ Claim(a) PROVE Calm
  <2>1. /\ UNCHANGED <<today, head, history, day, pending, lost, receipt, state>>
        /\ stage[a] # "settled" /\ \E to \in Stages \ {"settled"} : stage' = [stage EXCEPT ![a] = to]
    BY <1>1 DEF Open, Generated, GenerationFails, Claim, Stages
  <2>2. \A b \in Activity : Settled(b)' = Settled(b)
    BY <1>0, <2>1 DEF Settled, ScheduleTypeOK
  <2> QED
    BY <2>1, <2>2 DEF SameState, Undisturbed
<1>2. ASSUME NEW a \in Activity, ProjectFails(a) PROVE Calm
  <2>1. \A b \in Activity : pending[b] > 0 \/ b \in lost => pending'[b] > 0 \/ b \in lost'
    BY <1>0, <1>2 DEF ProjectFails, ScheduleTypeOK
  <2> QED
    BY <1>2, <2>1 DEF ProjectFails, SameState, Undisturbed, Settled
<1>3. ASSUME NEW a \in Activity, Reconcile(a) PROVE Calm
  BY <1>3 DEF Reconcile, SameState, Undisturbed, Settled
<1>4. ASSUME NEW a \in Activity, Project(a), ~Settled(a) \/ ~Unseen(a) PROVE Calm
  <2>1. \A b \in Activity : b # a => pending'[b] = pending[b]
    BY <1>0, <1>4 DEF Project, ScheduleTypeOK
  <2> QED
    BY <1>4, <2>1 DEF Project, SameState, Undisturbed, Settled, Unseen
<1>5. ASSUME NEW q \in Question, Submit(q) PROVE Calm
  <2>1. \A b \in Activity : Settled(b) => \A p \in QuestionsOf(b) : head'[p] = head[p]
    BY <1>0, <1>5 DEF Submit, Settled, QuestionsOf, ScheduleTypeOK
  <2> QED
    BY <1>5, <2>1 DEF Submit, SameState, Undisturbed, Settled
<1>6. ASSUME NEW q \in Question,
             \/ \E mark \in Confirmed : Answer(q, mark)
             \/ \E mark \in Confirmed \cup {"provisional"} : Assess(q, mark) /\ ~Settled(ActivityOf[q])
      PROVE  Calm
  <2>1. /\ ~Settled(ActivityOf[q]) /\ \A p \in Question \ {q} : head'[p] = head[p]
        /\ UNCHANGED <<today, stage, history, day, lost, receipt, state>>
        /\ pending' = [pending EXCEPT ![ActivityOf[q]] = @ + 1]
    BY <1>0, <1>6 DEF Answer, Assess, Settled, Publish, ScheduleTypeOK
  <2>2. \A b \in Activity : Settled(b) => \A p \in QuestionsOf(b) : head'[p] = head[p]
    BY <2>1 DEF QuestionsOf
  <2>3. \A b \in Activity : Settled(b) => pending'[b] = pending[b]
    BY <1>0, <2>1 DEF ScheduleTypeOK
  <2> QED
    BY <2>1, <2>2, <2>3 DEF SameState, Undisturbed, Settled
<1>7. ASSUME NEW c \in Concept, (\E on \in 1..LastDay : Reschedule(c, on)) \/ Pause(c) \/ Resume(c)
      PROVE  Calm
  <2>1. PICK due, override, paused : Update(c, due, override, paused)
    BY <1>7, Zenon DEF Reschedule, Pause, Resume
  <2>2. \A d \in Concept : SameState(d)
    <3>1. state' = [state EXCEPT ![c].due = due, ![c].override = override, ![c].paused = paused]
      BY <2>1 DEF Update
    <3> QED
      BY <1>0, <3>1 DEF SameState, ScheduleTypeOK, IsState
  <2> QED
    BY <2>1, <2>2 DEF Update, Undisturbed, Settled
<1>8. ASSUME NextDay PROVE Calm
  <2>1. UNCHANGED <<head, stage, history, day, pending, lost, receipt, state>>
    BY <1>8 DEF NextDay
  <2> QED
    BY <2>1 DEF SameState, Undisturbed, Settled
<1> HIDE DEF Calm
<1>9. Calm
  <2>1. CASE \E a \in Activity : \/ Open(a) \/ ProjectFails(a) \/ Claim(a) \/ Generated(a)
                                 \/ GenerationFails(a) \/ Reconcile(a)
                                 \/ Project(a) /\ (~Settled(a) \/ ~Unseen(a))
    BY <1>1, <1>2, <1>3, <1>4, <2>1
  <2>2. CASE \E q \in Question :
               \/ Submit(q)
               \/ \E mark \in Confirmed : Answer(q, mark)
               \/ \E mark \in Confirmed \cup {"provisional"} :
                    Assess(q, mark) /\ ~Settled(ActivityOf[q])
    BY <1>5, <1>6, <2>2
  <2>3. CASE \E c \in Concept : \/ \E on \in 1..LastDay : Reschedule(c, on)
                                \/ Pause(c) \/ Resume(c)
    BY <1>7, <2>3
  <2> QED
    BY <1>8, <2>1, <2>2, <2>3, Zenon DEF Quiet
<1> USE DEF Calm
<1> QED
  BY <1>9, QuietKeeps

\* An activity completes: its event waits, and the history of its concepts grows.
LEMMA CompleteStep ==
    ASSUME HistoryInv, ScheduleTypeOK', NEW a \in Activity, Complete(a)
    PROVE  HistoryInv'
<1>1. /\ ~Settled(a) /\ Settled(a)' /\ \A b \in Activity \ {a} : Settled(b)' = Settled(b) /\ Undisturbed(b)
  BY DEF Complete, Publish, Undisturbed, Settled, HistoryInv, ScheduleTypeOK
<1>2. history \in Seq(Activity) /\ Len(history) \in Nat /\ DOMAIN history = 1..Len(history)
      /\ \A i \in DOMAIN history : history[i] \in Activity
  BY LenProperties, ElementOfSeq DEF HistoryInv, ScheduleTypeOK
<1>3. /\ DOMAIN history' = 1..(Len(history) + 1)
      /\ \A i \in DOMAIN history : history'[i] = history[i]
      /\ history'[Len(history) + 1] = a
  BY <1>2, AppendProperties, LenProperties DEF Complete
<1>4. \A i \in DOMAIN history : history[i] # a
  BY <1>1 DEF HistoryInv
<1>5. \A i \in DOMAIN history' : Settled(history[i])'
  BY <1>1, <1>2, <1>3, <1>4 DEF HistoryInv, Settled
<1>6. ASSUME NEW b \in Activity PROVE ReceiptOK(b)'
  <2>1. CASE b # a
    BY <1>1, <2>1, ReceiptStays DEF HistoryInv
  <2>2. CASE b = a
    BY <1>1, <2>2 DEF HistoryInv, ReceiptOK, Complete, Publish
  <2> QED
    BY <2>1, <2>2
<1>7. ASSUME NEW c \in Concept, a \notin About(c) PROVE EventOK(c)'
  <2>1. SameState(c)
    BY DEF Complete, SameState
  <2>2. Places(c)' = Places(c) /\ \A i \in Places(c) : history'[i] = history[i]
    BY <1>2, <1>3, <1>7 DEF Places, About
  <2>3. \A b \in About(c) : Undisturbed(b)
    BY <1>1, <1>7 DEF About
  <2> QED
    BY <2>1, <2>2, <2>3, EventStays
<1>8. ASSUME NEW c \in Concept, a \in About(c) PROVE EventOK(c)'
  <2>1. QuestionsOf(a) # {}
    BY <1>8 DEF About, ConceptsOf
  <2>2. Assessments(a)' # << >>
    BY <2>1 DEF Assessments
  <2>3. receipt'[a] = << >> /\ pending'[a] > 0
    BY <1>1 DEF HistoryInv, ScheduleTypeOK, ReceiptOK, Complete, Publish
  <2>4. Awaited(a)'
    BY <1>1, <2>2, <2>3 DEF Awaited
  <2> QED
    BY <1>8, <2>4 DEF EventOK, About
<1> QED
  BY <1>5, <1>6, <1>7, <1>8 DEF HistoryInv

\* A completed activity is assessed again: no receipt names the new assessment.
LEMMA AssessStep ==
    ASSUME HistoryInv, ScheduleTypeOK', NEW q \in Question, NEW mark, Assess(q, mark), Settled(ActivityOf[q])
    PROVE  HistoryInv'
<1> DEFINE a == ActivityOf[q]
<1>0. a \in Activity /\ ScheduleTypeOK /\ q \in QuestionsOf(a)
  BY ReviewAssumption DEF HistoryInv, QuestionsOf
<1>1. /\ UNCHANGED <<stage, history, day, receipt, state>>
      /\ pending'[a] > 0
      /\ \A b \in Activity \ {a} : pending'[b] = pending[b]
      /\ lost' = lost
  BY <1>0 DEF Assess, Publish, ScheduleTypeOK
<1>2. /\ \A p \in Question \ {q} : head'[p] = head[p]
      /\ head'[q].rev = head[q].rev + 1 /\ \A p \in Question : head[p].rev \in Nat
  BY <1>0 DEF Assess, ScheduleTypeOK
<1>3. \A b \in Activity \ {a} : Undisturbed(b)
  BY <1>1, <1>2 DEF Undisturbed, Settled, QuestionsOf
<1>4. \A i \in DOMAIN history' : Settled(history[i])'
  BY <1>1 DEF HistoryInv, Settled
<1>5. ASSUME NEW b \in Activity PROVE ReceiptOK(b)'
  <2>1. \A p \in QuestionsOf(b) : receipt[b] # << >> => receipt[b][p].rev \in Nat /\ receipt[b][p].rev <= head[p].rev
    BY DEF HistoryInv, ReceiptOK
  <2>2. CASE b # a
    BY <1>3, <2>2, ReceiptStays DEF HistoryInv
  <2>3. CASE b = a
    <3>1. Settled(b)'
      BY <1>1, <2>3 DEF Settled
    <3>2. \A p \in QuestionsOf(b) : p = q \/ head'[p] = head[p]
      BY <1>2 DEF QuestionsOf
    <3>3. ASSUME NEW p \in QuestionsOf(b), receipt'[b] # << >> PROVE receipt'[b][p].rev \in Nat /\ receipt'[b][p].rev <= head'[p].rev
      <4>1. receipt[b][p].rev \in Nat /\ receipt[b][p].rev <= head[p].rev
        BY <1>1, <2>1, <3>3
      <4>2. CASE p # q
        BY <1>1, <3>2, <4>1, <4>2
      <4>3. CASE p = q
        <5>1. receipt[a][q].rev \in Nat /\ receipt[a][q].rev <= head[q].rev
          BY <2>3, <4>1, <4>3
        <5> QED
          BY <1>1, <1>2, <2>3, <4>3, <5>1
      <4> QED
        BY <4>2, <4>3
    <3> QED
      BY <3>1, <3>3 DEF ReceiptOK
  <2> QED
    BY <2>2, <2>3
<1>6. ASSUME NEW c \in Concept, a \notin About(c) PROVE EventOK(c)'
  <2>1. SameState(c)
    BY <1>1 DEF SameState
  <2>2. Places(c)' = Places(c) /\ \A i \in Places(c) : history'[i] = history[i]
    BY <1>1 DEF Places
  <2>3. \A b \in About(c) : Undisturbed(b)
    BY <1>3, <1>6 DEF About
  <2> QED
    BY <2>1, <2>2, <2>3, EventStays
<1>7. ASSUME NEW c \in Concept, a \in About(c) PROVE EventOK(c)'
  <2>1. Assessments(a)'[q].rev = head[q].rev + 1 /\ Assessments(a)' # << >>
    BY <1>0, <1>2 DEF Assessments, QuestionsOf
  <2>2. receipt[a] # << >> => receipt[a][q].rev \in Nat /\ receipt[a][q].rev <= head[q].rev
    <3>1. ReceiptOK(a)
      BY <1>0 DEF HistoryInv
    <3> HIDE DEF a
    <3> QED
      BY <1>0, <3>1 DEF ReceiptOK
  <2>3. receipt'[a] # Assessments(a)'
    BY <1>1, <1>2, <2>1, <2>2
  <2>4. Awaited(a)'
    BY <1>1, <2>3 DEF Awaited, Settled
  <2> QED
    BY <1>7, <2>4 DEF EventOK, About
<1> QED
  BY <1>4, <1>5, <1>6, <1>7 DEF HistoryInv

\* A projection brings every concept of its activity up to date.
LEMMA ProjectStep ==
    ASSUME HistoryInv, ScheduleTypeOK', NEW a \in Activity, Project(a), Settled(a), Unseen(a)
    PROVE  HistoryInv'
<1>0. ScheduleTypeOK
  BY DEF HistoryInv
<1>1. /\ UNCHANGED <<head, stage, history, day>>
      /\ receipt' = [receipt EXCEPT ![a] = Assessments(a)]
      /\ lost' = lost \ {a}
      /\ pending' = [pending EXCEPT ![a] = @ - 1]
      /\ \A c \in Concept : state'[c] = IF c \in ConceptsOf(a) THEN StoredState(c) ELSE state[c]
  BY DEF Project, facts
<1>2. \A b \in Activity \ {a} : Undisturbed(b)
  BY <1>0, <1>1 DEF Undisturbed, Settled, ScheduleTypeOK
<1>3. \A i \in DOMAIN history' : Settled(history[i])'
  BY <1>1 DEF HistoryInv, Settled
<1>4. ASSUME NEW b \in Activity PROVE ReceiptOK(b)'
  <2>1. CASE b # a
    BY <1>2, <2>1, ReceiptStays DEF HistoryInv
  <2>2. CASE b = a
    <3>1. receipt'[a] = Assessments(a)
      BY <1>0, <1>1 DEF ScheduleTypeOK
    <3>2. \A q \in QuestionsOf(a) : Assessments(a)[q].rev \in Nat /\ Assessments(a)[q].rev <= head[q].rev
      BY <1>0 DEF Assessments, ScheduleTypeOK, QuestionsOf
    <3> QED
      BY <1>1, <2>2, <3>1, <3>2 DEF ReceiptOK, Settled
  <2> QED
    BY <2>1, <2>2
<1>5. ASSUME NEW c \in Concept, a \in About(c) PROVE EventOK(c)'
  <2>1. state'[c] = StoredState(c)
    BY <1>1, <1>5 DEF About
  <2>2. Derive(c)' = Derive(c)
    <3>1. Places(c)' = Places(c)
      BY <1>1 DEF Places
    <3>2. \A i \in Places(c) : Settled(history[i])' = Settled(history[i])
      BY <1>1 DEF Settled
    <3> QED
      BY <1>1, <3>1, <3>2, LessonsStay
  <2>3. /\ StoredState(c).stage = Derive(c).stage /\ StoredState(c).rule = Derive(c).due
        /\ StoredState(c).last = Derive(c).last
    BY DEF StoredState
  <2> QED
    BY <2>1, <2>2, <2>3 DEF EventOK, UpToDate
<1>6. ASSUME NEW c \in Concept, a \notin About(c) PROVE EventOK(c)'
  <2>1. SameState(c)
    BY <1>1, <1>6 DEF SameState, About
  <2>2. Places(c)' = Places(c) /\ \A i \in Places(c) : history'[i] = history[i]
    BY <1>1 DEF Places
  <2>3. \A b \in About(c) : Undisturbed(b)
    BY <1>2, <1>6 DEF About
  <2> QED
    BY <2>1, <2>2, <2>3, EventStays
<1> QED
  BY <1>3, <1>4, <1>5, <1>6 DEF HistoryInv

LEMMA HistoryStarts == ScheduleInit => HistoryInv
<1> SUFFICES ASSUME ScheduleInit PROVE HistoryInv
  OBVIOUS
<1>1. ScheduleTypeOK
  BY ScheduleStarts DEF ScheduleInv
<1>2. DOMAIN history = {}
  BY DEF ScheduleInit
<1>3. \A a \in Activity : ReceiptOK(a)
  BY DEF ScheduleInit, ReceiptOK
<1>4. ASSUME NEW c \in Concept PROVE UpToDate(c)
  <2>1. DOMAIN Lessons(c) = {}
    BY <1>2 DEF Lessons, Places
  <2>2. Derive(c) = NewConcept
    BY <2>1, NothingLearned DEF Derive
  <2> QED
    BY <1>4, <2>2 DEF ScheduleInit, UpToDate, NewConcept
<1> QED
  BY <1>1, <1>2, <1>3, <1>4 DEF HistoryInv, EventOK

LEMMA HistoryKept == HistoryInv /\ ScheduleTypeOK' /\ [ScheduleNext]_scheduleVars => HistoryInv'
<1> SUFFICES ASSUME HistoryInv, ScheduleTypeOK', [ScheduleNext]_scheduleVars PROVE HistoryInv'
  OBVIOUS
<1>1. CASE UNCHANGED scheduleVars
  <2>1. UNCHANGED <<head, stage, history, day, pending, lost, receipt, state>>
    BY <1>1 DEF scheduleVars
  <2> QED
    BY <2>1, QuietKeeps DEF SameState, Undisturbed, Settled
<1>2. CASE Quiet
  BY <1>2, QuietStep
<1>3. ASSUME NEW a \in Activity, Complete(a) PROVE HistoryInv'
  BY <1>3, CompleteStep
<1>4. ASSUME NEW a \in Activity, Project(a), Settled(a), Unseen(a) PROVE HistoryInv'
  BY <1>4, ProjectStep
<1>5. ASSUME NEW q \in Question, NEW mark, Assess(q, mark), Settled(ActivityOf[q]) PROVE HistoryInv'
  BY <1>5, AssessStep
<1>6. ScheduleNext => \/ Quiet
                      \/ \E a \in Activity : Complete(a) \/ (Project(a) /\ Settled(a) /\ Unseen(a))
                      \/ \E q \in Question, mark \in Confirmed \cup {"provisional"} :
                           Assess(q, mark) /\ Settled(ActivityOf[q])
  BY DEF ScheduleNext, Quiet
<1> QED
  BY <1>1, <1>2, <1>3, <1>4, <1>5, <1>6

\* When no event of its activities is left, the state of a concept is what the fold of
\* its whole history prescribes, whatever the order of events, corrections and
\* projections: while it is not, an event whose assessments no receipt names waits
\* (_project, _derive).
THEOREM TheStateFollowsTheHistory == ScheduleSpec => []ScheduleFollowsHistory
<1>1. HistoryInv => ScheduleFollowsHistory
  <2> SUFFICES ASSUME HistoryInv, NEW c \in Concept, Caught(c)
               PROVE  UpToDate(c)
    BY DEF ScheduleFollowsHistory, UpToDate
  <2>1. ASSUME NEW a \in About(c), Awaited(a) PROVE FALSE
    <3>1. a \in Activity /\ pending[a] \in Nat
      BY DEF About, HistoryInv, ScheduleTypeOK
    <3> QED
      BY <2>1, <3>1 DEF Caught, Awaited, About
  <2> QED
    BY <2>1 DEF HistoryInv, EventOK
<1> QED
  BY <1>1, HistoryStarts, HistoryKept, ScheduleTypeCorrect, PTL DEF ScheduleSpec

\* A learner's account and his schedule do not disturb each other: what is proved of
\* each holds of both together.
THEOREM LearnersKeepBoth == LearnerSpec => Spec /\ ScheduleSpec
<1>1. LearnerInit => Init /\ ScheduleInit
  BY DEF LearnerInit
<1>2. [LearnerNext]_<<concern, vars, scheduleVars>> => [Next]_vars /\ [ScheduleNext]_scheduleVars
  BY Zenon DEF LearnerNext
<1> QED
  BY <1>1, <1>2, PTL DEF LearnerSpec, Spec, ScheduleSpec

=============================================================================
