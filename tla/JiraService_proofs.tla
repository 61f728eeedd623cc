----------------------------- MODULE JiraService_proofs ----------------------------
(***************************************************************************)
(* Proofs about JiraService: for every set of statuses, any number of      *)
(* attempts, and pages of any size and number.                             *)
(*                                                                         *)
(* StepInv says of each stage of a step's call which errors are on their   *)
(* way and what Jira said last.  SearchInv follows the comment that was    *)
(* the step's newest when the search began: those added since have pushed  *)
(* it down by `newer`, and the search has not passed it.                   *)
(***************************************************************************)
EXTENDS JiraService, WellFoundedInduction, TLAPS

-----------------------------------------------------------------------------------
(* The inductive invariant. *)

Final == MappedStatuses

StepInv ==
    /\ stage # "done" => fate = "PENDING"
    /\ stage \in {"configured", "ready"} => posts < runs
    /\ stage \in {"ready", "answered"} => enabled
    /\ stage = "answered" => last = Success
    /\ last = Success /\ call # "TEST_CONNECTION" => applied > 0
    /\ stage \in {"idle", "configured", "ready"} => last.status \notin Final
    /\ stage = "raised" /\ error.retryable => last.status \notin Final
    /\ stage = "raised" /\ ~ error.retryable =>
          \/ call # "TEST_CONNECTION" /\ (simulate \/ ~ valid)
          \/ ~ enabled
          \/ last.status \in Final
          \/ last = Success /\ call # "TEST_CONNECTION"
    /\ stage = "raised" /\ call = "TEST_CONNECTION" =>
          IF enabled THEN last \in Failures /\ error = NormalizeJiraError(last) ELSE error = AppError(400)
    /\ FateIsJustified

SearchInv ==
    /\ pc = "idle" => page = 0 /\ startAt = 0 /\ newer = 0
    /\ pc # "done" => ~ result
    /\ pc = "search" => page < MaxPages /\ startAt = page * PageSize
    /\ own # {} \/ result => applied > 0
    /\ pc = "search" /\ depth # 0 /\ ~ upset => depth + newer \in own /\ startAt < depth + newer
    /\ pc = "done" /\ ~ result /\ depth # 0 /\ ~ upset => depth + newer > PageSize * MaxPages

ServiceInv == ServiceTypeOK /\ StepInv /\ SearchInv

-----------------------------------------------------------------------------------
(* The errors. *)

LEMMA FailureFacts ==
  ASSUME NEW f \in Failures
  PROVE  /\ f.ok = FALSE /\ f.applied \in BOOLEAN /\ f.code
         /\ f.status \in Nat /\ (f.status \in Broken => f.status >= 500)
  <1>1. f.ok = FALSE /\ f.applied \in BOOLEAN /\ f.code /\ f.status \in Rejected \cup Broken \cup {0}
    BY DEF Failures
  <1>2. \A n \in Rejected \cup Broken \cup {0} : n \in Nat /\ (n \in Broken => n >= 500)
    <2>1. ASSUME NEW n \in Broken PROVE n \in Nat /\ n >= 500
      <3>1. n \in 500 .. 599
        BY StatusesAssumption
      <3> QED BY <3>1
    <2>2. ASSUME NEW n \in Rejected PROVE n \in Nat
      <3>1. n \in 400 .. 499
        BY StatusesAssumption
      <3> QED BY <3>1
    <2>3. ASSUME NEW n \in Rejected \cup Broken \cup {0} PROVE n \in Nat
      <3>1. n \in Rejected \/ n \in Broken \/ n = 0
        OBVIOUS
      <3> QED BY <2>1, <2>2, <3>1
    <2>4. \A n \in Broken : n >= 500
      BY <2>1
    <2> QED BY <2>3, <2>4, Zenon
  <1> QED BY <1>1, <1>2

LEMMA NormalizeFacts ==
  ASSUME NEW f \in Failures
  PROVE  /\ NormalizeJiraError(f) \in {JiraTechnicalError} \cup {JiraBusinessError(s) : s \in 400 .. 499}
         /\ f.status \in Final => NormalizeJiraError(f) = JiraBusinessError(f.status)
         /\ f.status \notin Final => NormalizeJiraError(f) = JiraTechnicalError
  <1>1. CASE f.status \in Final
    <2>1. NormalizeJiraError(f) = JiraBusinessError(f.status) /\ f.status \in 400 .. 499
      BY <1>1 DEF NormalizeJiraError, Final, MappedStatuses
    <2> QED BY <1>1, <2>1
  <1>2. CASE f.status \notin Final
    <2>1. NormalizeJiraError(f) = JiraTechnicalError
      BY <1>2, FailureFacts DEF NormalizeJiraError, Final
    <2> QED BY <1>2, <2>1
  <1> QED BY <1>1, <1>2

LEMMA ErrorFacts ==
  /\ JiraTechnicalError.retryable /\ ~ JiraTechnicalError.operational
  /\ ~ PlainError.retryable /\ ~ PlainError.operational
  /\ \A s : /\ ~ AppError(s).retryable /\ AppError(s).operational /\ AppError(s).status = s
            /\ ~ JiraBusinessError(s).retryable /\ JiraBusinessError(s).operational
            /\ JiraBusinessError(s).status = s
  /\ NoError.status = 0 /\ Success.status = 200 /\ Success.ok /\ Success.applied
  /\ 0 \notin Final /\ 200 \notin Final /\ Final \subseteq 400 .. 499 /\ Final \cap {408, 429} = {}
  BY DEF JiraTechnicalError, PlainError, AppError, JiraBusinessError, NoError, Success, Final, MappedStatuses

-----------------------------------------------------------------------------------
(* A step's call. *)

LEMMA CheckConfigurationKeeps == ServiceInv /\ CheckConfiguration => TypeOK' /\ StepInv'
  <1> SUFFICES ASSUME ServiceInv, CheckConfiguration PROVE TypeOK' /\ StepInv'
    OBVIOUS
  <1> USE AttemptsAssumption DEF ServiceInv, ServiceTypeOK, CheckConfiguration, Raise, inputs
  <1>1. /\ stage = "idle" /\ fate = "PENDING" /\ runs < Attempts /\ runs' = runs + 1
        /\ UNCHANGED <<call, enabled, valid, simulate, last, fate, http, posts, applied>>
    OBVIOUS
  <1>2. \/ stage' = "configured" /\ error' = error
        \/ stage' = "raised" /\ error' = PlainError /\ call # "TEST_CONNECTION" /\ simulate
        \/ stage' = "raised" /\ error' = JiraBusinessError(400) /\ call # "TEST_CONNECTION" /\ ~ valid
    OBVIOUS
  <1>3. TypeOK'
    BY <1>1, <1>2 DEF TypeOK
  <1>4. FateIsJustified'
    BY <1>1, <1>2 DEF FateIsJustified
  <1>5. last.status \notin Final /\ posts < runs'
    BY <1>1 DEF StepInv, TypeOK
  <1>6. StepInv'
    BY <1>1, <1>2, <1>4, <1>5, ErrorFacts DEF StepInv
  <1> QED BY <1>3, <1>6

LEMMA AssertReadyKeeps == ServiceInv /\ AssertReady => TypeOK' /\ StepInv'
  <1> SUFFICES ASSUME ServiceInv, AssertReady PROVE TypeOK' /\ StepInv'
    OBVIOUS
  <1> USE DEF ServiceInv, ServiceTypeOK, AssertReady, Raise, inputs
  <1>1. /\ stage = "configured" /\ fate = "PENDING" /\ posts < runs /\ last.status \notin Final
        /\ UNCHANGED <<call, enabled, valid, simulate, last, fate, http, runs, posts, applied>>
    BY DEF StepInv
  <1>2. \/ enabled /\ stage' = "ready" /\ error' = error
        \/ ~ enabled /\ stage' = "raised" /\ call = "TEST_CONNECTION" /\ error' = AppError(400)
        \/ ~ enabled /\ stage' = "raised" /\ call # "TEST_CONNECTION" /\ error' = JiraBusinessError(400)
    OBVIOUS
  <1>3. TypeOK'
    BY <1>1, <1>2 DEF TypeOK
  <1>4. FateIsJustified'
    BY <1>1, <1>2 DEF FateIsJustified
  <1>5. StepInv'
    BY <1>1, <1>2, <1>4, ErrorFacts DEF StepInv
  <1> QED BY <1>3, <1>5

LEMMA CallJiraKeeps ==
  ASSUME ServiceInv, NEW reply \in Answers, CallJira(reply)
  PROVE  TypeOK' /\ StepInv' /\ applied <= applied' /\ (reply.applied /\ call = "JIRA_COMMENT" => applied' > 0)
  <1> USE DEF ServiceInv, ServiceTypeOK, CallJira, Raise, inputs
  <1>1. /\ stage = "ready" /\ fate = "PENDING" /\ posts < runs /\ enabled /\ last' = reply
        /\ posts' = posts + 1 /\ UNCHANGED <<call, enabled, valid, simulate, fate, http, runs>>
    BY DEF StepInv
  <1>2. \/ reply = Success /\ reply.ok /\ stage' = "answered" /\ error' = error
        \/ reply \in Failures /\ stage' = "raised" /\ error' = NormalizeJiraError(reply)
    <2>1. CASE reply = Success
      BY <2>1, ErrorFacts
    <2>2. CASE reply \in Failures
      BY <2>2, FailureFacts
    <2> QED BY <2>1, <2>2 DEF Answers
  <1>3. applied' \in 0 .. posts' /\ applied <= applied' /\ (reply.applied /\ call = "JIRA_COMMENT" => applied' > 0)
    BY <1>1 DEF TypeOK
  <1>4. error' \in {NoError, PlainError, JiraTechnicalError}
                   \cup {AppError(s) : s \in 400 .. 599} \cup {JiraBusinessError(s) : s \in 400 .. 499}
    BY <1>2, NormalizeFacts DEF TypeOK
  <1>5. TypeOK'
    BY <1>1, <1>2, <1>3, <1>4 DEF TypeOK
  <1>6. FateIsJustified'
    BY <1>1, <1>2 DEF FateIsJustified
  <1>7. last' = Success /\ call' # "TEST_CONNECTION" => applied' > 0
    <2>1. last' = Success /\ call' # "TEST_CONNECTION" => applied' = applied + 1
      BY <1>1, ErrorFacts
    <2> QED BY <1>1, <2>1 DEF TypeOK
  <1>8. StepInv'
    <2>1. CASE reply = Success /\ stage' = "answered"
      BY <1>1, <1>6, <1>7, <2>1 DEF StepInv
    <2>2. CASE reply \in Failures /\ stage' = "raised" /\ error' = NormalizeJiraError(reply)
      <3>1. error'.retryable => reply.status \notin Final
        BY <2>2, NormalizeFacts, ErrorFacts
      <3>2. ~ error'.retryable => reply.status \in Final
        BY <2>2, NormalizeFacts, ErrorFacts
      <3>3. NormalizeJiraError(last)' = NormalizeJiraError(reply)
        BY <1>1 DEF NormalizeJiraError
      <3> QED BY <1>1, <1>6, <1>7, <2>2, <3>1, <3>2, <3>3 DEF StepInv
    <2> QED BY <1>2, <2>1, <2>2
  <1> QED BY <1>3, <1>5, <1>8

LEMMA SucceedKeeps == ServiceInv /\ Succeed => TypeOK' /\ StepInv'
  <1> SUFFICES ASSUME ServiceInv, Succeed PROVE TypeOK' /\ StepInv'
    OBVIOUS
  <1> USE DEF ServiceInv, ServiceTypeOK, Succeed, inputs
  <1>1. /\ stage = "answered" /\ fate = "PENDING" /\ last = Success /\ enabled /\ stage' = "done"
        /\ UNCHANGED <<call, enabled, valid, simulate, error, last, runs, posts, applied>>
        /\ \/ call = "TEST_CONNECTION" /\ http' = 200 /\ fate' = fate
           \/ call # "TEST_CONNECTION" /\ http' = http /\ fate' = "COMPLETED"
    BY DEF StepInv
  <1>2. TypeOK'
    BY <1>1 DEF TypeOK
  <1>3. FateIsJustified'
    <2>1. last.ok /\ last.status = 200 /\ 200 \notin Broken
      BY <1>1, ErrorFacts, StatusesAssumption
    <2>2. fate' # "FAILED"
      BY <1>1
    <2>3. call = "TEST_CONNECTION" => http' = 200
      BY <1>1
    <2> QED BY <1>1, <2>1, <2>2, <2>3 DEF FateIsJustified
  <1> QED BY <1>1, <1>2, <1>3 DEF StepInv

LEMMA RecordingFailsKeeps == ServiceInv /\ RecordingFails => TypeOK' /\ StepInv'
  <1> SUFFICES ASSUME ServiceInv, RecordingFails PROVE TypeOK' /\ StepInv'
    OBVIOUS
  <1> USE DEF ServiceInv, ServiceTypeOK, RecordingFails, Raise, inputs
  <1>1. /\ stage = "answered" /\ fate = "PENDING" /\ last = Success /\ call # "TEST_CONNECTION"
        /\ stage' = "raised" /\ error' = PlainError
        /\ UNCHANGED <<call, enabled, valid, simulate, last, fate, http, runs, posts, applied>>
    BY DEF StepInv
  <1>2. TypeOK'
    BY <1>1 DEF TypeOK
  <1>3. FateIsJustified'
    BY <1>1 DEF FateIsJustified
  <1> QED BY <1>1, <1>2, <1>3, ErrorFacts DEF StepInv

LEMMA LeftRunningKeeps == ServiceInv /\ LeftRunning => TypeOK' /\ StepInv'
  <1> SUFFICES ASSUME ServiceInv, LeftRunning PROVE TypeOK' /\ StepInv'
    OBVIOUS
  <1> USE DEF ServiceInv, ServiceTypeOK, LeftRunning, inputs
  <1>1. /\ call # "TEST_CONNECTION" /\ stage' = "done" /\ fate' = "RUNNING" /\ error' = NoError
        /\ UNCHANGED <<call, enabled, valid, simulate, last, http, runs, posts, applied>>
    OBVIOUS
  <1>2. TypeOK'
    BY <1>1 DEF TypeOK
  <1>3. FateIsJustified'
    BY <1>1 DEF FateIsJustified
  <1> QED BY <1>1, <1>2, <1>3 DEF StepInv

LEMMA CatchKeeps == ServiceInv /\ CatchInProcessor => TypeOK' /\ StepInv'
  <1> SUFFICES ASSUME ServiceInv, CatchInProcessor PROVE TypeOK' /\ StepInv'
    OBVIOUS
  <1> USE DEF ServiceInv, ServiceTypeOK, CatchInProcessor, inputs
  <1>1. /\ stage = "raised" /\ fate = "PENDING" /\ call # "TEST_CONNECTION" /\ error' = NoError
        /\ UNCHANGED <<call, enabled, valid, simulate, last, http, runs, posts, applied>>
        /\ \/ error.retryable /\ stage' = "idle" /\ fate' = "PENDING" /\ last.status \notin Final
           \/ ~ error.retryable /\ stage' = "done" /\ fate' = "FAILED"
    BY DEF StepInv
  <1>2. TypeOK'
    BY <1>1 DEF TypeOK
  <1>3. FateIsJustified'
    <2>1. ~ error.retryable =>
             simulate \/ ~ valid \/ ~ enabled \/ last.status \in Final \/ (last = Success /\ applied > 0)
      BY <1>1 DEF StepInv
    <2> QED BY <1>1, <2>1 DEF FateIsJustified, Final, MappedStatuses
  <1> QED BY <1>1, <1>2, <1>3 DEF StepInv

LEMMA AnswerErrorKeeps == ServiceInv /\ AnswerError => TypeOK' /\ StepInv'
  <1> SUFFICES ASSUME ServiceInv, AnswerError PROVE TypeOK' /\ StepInv'
    OBVIOUS
  <1> USE DEF ServiceInv, ServiceTypeOK, AnswerError, inputs
  <1>1. /\ stage = "raised" /\ fate = "PENDING" /\ call = "TEST_CONNECTION" /\ error' = NoError
        /\ stage' = "done" /\ http' = IF error.operational THEN error.status ELSE 500
        /\ UNCHANGED <<call, enabled, valid, simulate, last, fate, runs, posts, applied>>
    BY DEF StepInv
  <1>2. CASE ~ enabled
    <2>1. http' = 400
      BY <1>1, <1>2, ErrorFacts DEF StepInv
    <2>2. FateIsJustified'
      BY <1>1, <1>2, <2>1 DEF FateIsJustified
    <2> QED BY <1>1, <2>1, <2>2 DEF TypeOK, StepInv
  <1>3. CASE enabled
    <2>1. last \in Failures /\ error = NormalizeJiraError(last)
      BY <1>1, <1>3 DEF StepInv
    <2>2. last.status \in Final => http' = last.status
      BY <1>1, <2>1, NormalizeFacts, ErrorFacts
    <2>3. last.status \notin Final => http' = 500
      BY <1>1, <2>1, NormalizeFacts, ErrorFacts
    <2>4. ~ last.ok /\ http' \in 400 .. 599
      <3>1. ~ last.ok
        BY <2>1, FailureFacts
      <3>2. last.status \in Final => http' \in 400 .. 599
        BY <2>2 DEF Final, MappedStatuses
      <3> QED BY <2>3, <3>1, <3>2
    <2>5. last.status \in {0, 408, 429} \cup Broken => last.status \notin Final
      <3>1. last.status \in Broken => last.status >= 500
        BY <2>1, FailureFacts
      <3>2. \A n \in Final : n \in Nat /\ n < 500 /\ n \notin {0, 408, 429}
        BY DEF Final, MappedStatuses
      <3> QED BY <3>1, <3>2
    <2>6. FateIsJustified'
      BY <1>1, <1>3, <2>2, <2>3, <2>4, <2>5 DEF FateIsJustified, Final, MappedStatuses
    <2> QED BY <1>1, <2>4, <2>6 DEF TypeOK, StepInv
  <1> QED BY <1>2, <1>3

-----------------------------------------------------------------------------------
(* The search. *)

LEMMA NewestFacts ==
  ASSUME NEW positions, positions \subseteq Nat, positions # {}
  PROVE  Lookup!Newest(positions) \in positions
  <1>1. \E i \in positions : \A j \in positions : ~ (<<j, i>> \in OpToRel(<, Nat))
    BY WFMin, NatLessThanWellFounded, Zenon
  <1>2. \E i \in positions : \A j \in positions : i <= j
    <2>1. PICK i \in positions : \A j \in positions : ~ (<<j, i>> \in OpToRel(<, Nat))
      BY <1>1
    <2>2. ASSUME NEW j \in positions PROVE i <= j
      <3>1. i \in Nat /\ j \in Nat
        OBVIOUS
      <3>2. ~ (j < i)
        BY <2>1, <3>1, Zenon DEF OpToRel
      <3> QED BY <3>1, <3>2
    <2> QED BY <2>2
  <1> QED BY <1>2 DEF Lookup!Newest

\* A comment joins the issue: the one that is looked for is one place further down.
LEMMA AddKeeps ==
  ASSUME Lookup!TypeOK, SearchInv, NEW mine \in BOOLEAN, Lookup!AddComment(mine), moves' \in Nat,
         applied \in Nat, applied' \in Nat, applied <= applied', mine => applied' > 0
  PROVE  Lookup!TypeOK' /\ SearchInv'
  <1> USE PagesAssumption
  <1>1. /\ total' = total + 1 /\ newer' = IF pc = "search" THEN newer + 1 ELSE newer
        /\ own' = {i \in 1 .. total' : i - 1 \in own} \cup (IF mine THEN {1} ELSE {})
        /\ UNCHANGED <<pc, page, startAt, result, depth, upset>>
    BY DEF Lookup!AddComment, Lookup!search
  <1>2. /\ total \in Nat /\ own \subseteq 1 .. total /\ newer \in Nat /\ depth \in Nat /\ startAt \in Nat
        /\ page \in 0 .. MaxPages
    BY DEF Lookup!TypeOK
  <1>3. own' \subseteq 1 .. total' /\ total' \in Nat
    BY <1>1, <1>2
  <1>4. Lookup!TypeOK'
    BY <1>1, <1>2, <1>3 DEF Lookup!TypeOK
  <1>5. own' # {} => own # {} \/ mine
    BY <1>1
  <1>6. ASSUME depth + newer \in own
        PROVE  depth + newer + 1 \in own'
    BY <1>1, <1>2, <1>6
  <1>7. pc' = "search" /\ depth' # 0 /\ ~ upset' => depth' + newer' \in own' /\ startAt' < depth' + newer'
    BY <1>1, <1>2, <1>6 DEF SearchInv
  <1>8. own' # {} \/ result' => applied' > 0
    BY <1>1, <1>5 DEF SearchInv
  <1> QED BY <1>1, <1>4, <1>7, <1>8 DEF SearchInv

LEMMA DeleteKeeps ==
  ASSUME Lookup!TypeOK, SearchInv, NEW k \in 1 .. total, Lookup!DeleteComment(k), moves' \in Nat,
         UNCHANGED applied
  PROVE  Lookup!TypeOK' /\ SearchInv'
  <1>1. /\ total' = total - 1 /\ upset' = (upset \/ pc = "search")
        /\ own' = {i \in 1 .. total - 1 : IF i < k THEN i \in own ELSE i + 1 \in own}
        /\ UNCHANGED <<pc, page, startAt, result, depth, newer>>
    BY DEF Lookup!DeleteComment, Lookup!search
  <1>2. total' \in Nat /\ own' \subseteq 1 .. total'
    BY <1>1 DEF Lookup!TypeOK
  <1>3. Lookup!TypeOK'
    BY <1>1, <1>2 DEF Lookup!TypeOK
  <1>4. own' # {} => own # {}
    BY <1>1
  <1> QED BY <1>1, <1>3, <1>4 DEF SearchInv

LEMMA BeginKeeps ==
  ASSUME Lookup!TypeOK, SearchInv, enabled \in BOOLEAN, Lookup!Begin(enabled), UNCHANGED <<applied>>
  PROVE  Lookup!TypeOK' /\ SearchInv'
  <1> USE PagesAssumption
  <1>1. /\ pc = "idle" /\ pc' = (IF enabled THEN "search" ELSE "done") /\ upset' = ~ enabled
        /\ depth' = Lookup!Newest(own) /\ UNCHANGED <<total, own, page, startAt, result, newer, moves>>
        /\ page = 0 /\ startAt = 0 /\ newer = 0
    BY DEF Lookup!Begin, Lookup!issue, SearchInv
  <1>2. own \subseteq Nat /\ (own # {} => depth' \in own) /\ (own = {} => depth' = 0)
    <2>1. own \subseteq Nat
      BY DEF Lookup!TypeOK
    <2> QED BY <1>1, <2>1, NewestFacts DEF Lookup!Newest
  <1>3. depth' \in Nat
    <2>1. CASE own = {}
      BY <1>2, <2>1
    <2>2. CASE own # {}
      BY <1>2, <2>2
    <2> QED BY <2>1, <2>2
  <1>4. Lookup!TypeOK'
    BY <1>1, <1>3 DEF Lookup!TypeOK
  <1>5. page * PageSize = 0
    BY <1>1
  <1>6. depth' # 0 => depth' + newer' \in own' /\ startAt' < depth' + newer'
    BY <1>1, <1>2, <1>3
  <1>7. startAt' = page' * PageSize /\ page' < MaxPages /\ ~ result'
    BY <1>1, <1>5 DEF SearchInv
  <1>8. SearchInv'
    <2>1. CASE enabled
      BY <1>1, <1>6, <1>7, <2>1 DEF SearchInv
    <2>2. CASE ~ enabled
      BY <1>1, <1>7, <2>2 DEF SearchInv
    <2> QED BY <2>1, <2>2
  <1> QED BY <1>4, <1>8

\* A page that is read is behind the search, and the comment it looks for is not on it.
LEMMA FetchKeeps ==
  ASSUME Lookup!TypeOK, SearchInv, Lookup!FetchPage, UNCHANGED applied
  PROVE  Lookup!TypeOK' /\ SearchInv'
  <1> USE PagesAssumption
  <1> DEFINE size == Lookup!PageLength(startAt)
             sought == depth + newer
  <1>1. /\ pc = "search" /\ page' = page + 1 /\ UNCHANGED <<total, own, depth, newer, upset, moves>>
        /\ total \in Nat /\ startAt \in Nat /\ page \in Nat /\ page < MaxPages
        /\ startAt = page * PageSize /\ PageSize \in Nat /\ PageSize > 0 /\ own \subseteq 1 .. total
    BY DEF Lookup!FetchPage, Lookup!issue, Lookup!since, Lookup!TypeOK, SearchInv
  <1>2. CASE Lookup!PageAt(startAt) \cap own # {}
    <2>1. pc' = "done" /\ result' = TRUE /\ UNCHANGED startAt
      BY <1>2 DEF Lookup!FetchPage
    <2>2. own # {}
      BY <1>2
    <2> QED BY <1>1, <2>1, <2>2 DEF SearchInv, Lookup!TypeOK
  <1>3. CASE Lookup!PageAt(startAt) \cap own = {}
    <2>1. /\ startAt' = startAt + size /\ UNCHANGED result
          /\ pc' = IF size < PageSize \/ startAt' >= total \/ page' = MaxPages THEN "done" ELSE "search"
      BY <1>3 DEF Lookup!FetchPage
    <2>2. size \in 0 .. PageSize /\ (total > startAt + PageSize => size = PageSize)
      BY <1>1 DEF Lookup!PageLength
    <2> HIDE DEF size
    <2>3. Lookup!TypeOK'
      BY <1>1, <2>1, <2>2 DEF Lookup!TypeOK
    <2>4. (page + 1) * PageSize = page * PageSize + PageSize
      BY <1>1
    <2>5. ASSUME depth # 0, ~ upset
          PROVE  sought \in own /\ startAt + PageSize < sought /\ sought <= total
      <3>1. sought \in own /\ startAt < sought /\ sought \in 1 .. total
        BY <1>1, <2>5 DEF SearchInv
      <3>2. sought \notin Lookup!PageAt(startAt)
        BY <1>3, <3>1
      <3> QED BY <1>1, <3>1, <3>2 DEF Lookup!PageAt
    <2>6. ASSUME depth # 0, ~ upset
          PROVE  /\ startAt' < sought /\ (pc' = "done" => sought > PageSize * MaxPages)
      <3>1. startAt' = startAt + PageSize /\ startAt' < sought /\ sought \in Nat
        <4>1. sought \in own /\ startAt + PageSize < sought /\ sought <= total
          BY <2>5, <2>6
        <4> HIDE DEF sought
        <4>2. sought \in Nat
          <5>1. sought \in 1 .. total
            BY <1>1, <4>1
          <5> QED BY <1>1, <5>1
        <4> QED BY <1>1, <2>1, <2>2, <4>1, <4>2
      <3>2. pc' = "done" => page' = MaxPages
        BY <1>1, <2>1, <2>2, <2>5, <2>6, <3>1
      <3>3. page' = MaxPages => startAt' = MaxPages * PageSize
        BY <1>1, <2>4, <3>1
      <3>4. MaxPages * PageSize = PageSize * MaxPages
        OBVIOUS
      <3> QED BY <3>1, <3>2, <3>3, <3>4
    <2>7. pc' = "search" => startAt' = page' * PageSize /\ page' < MaxPages
      BY <1>1, <2>1, <2>2, <2>4
    <2> HIDE DEF sought
    <2>8. pc' \in {"search", "done"} /\ ~ result' /\ UNCHANGED sought
      BY <1>1, <2>1 DEF SearchInv, sought
    <2>9. /\ pc' = "search" /\ depth' # 0 /\ ~ upset' => depth' + newer' \in own' /\ startAt' < depth' + newer'
          /\ pc' = "done" /\ ~ result' /\ depth' # 0 /\ ~ upset' => depth' + newer' > PageSize * MaxPages
      BY <1>1, <2>5, <2>6, <2>8 DEF sought
    <2> QED BY <1>1, <2>3, <2>7, <2>8, <2>9 DEF SearchInv
  <1> QED BY <1>2, <1>3

LEMMA FetchFailsKeeps ==
  ASSUME Lookup!TypeOK, SearchInv, Lookup!FetchFails, UNCHANGED applied
  PROVE  Lookup!TypeOK' /\ SearchInv'
  BY DEF Lookup!TypeOK, SearchInv, Lookup!FetchFails, Lookup!issue

-----------------------------------------------------------------------------------
(* The theorems. *)

LEMMA ServiceStart == ServiceInit => ServiceInv
  <1> SUFFICES ASSUME ServiceInit PROVE ServiceInv
    OBVIOUS
  <1>1. TypeOK
    BY AttemptsAssumption DEF ServiceInit, Init, TypeOK
  <1>2. StepInv
    BY ErrorFacts DEF ServiceInit, Init, StepInv, FateIsJustified
  <1>3. Lookup!TypeOK
    <2>1. total \in Nat
      BY CommentsAssumption DEF ServiceInit, Lookup!Init
    <2>2. 0 \in 0 .. MaxPages
      BY PagesAssumption
    <2>3. /\ own = {} /\ pc = "idle" /\ page = 0 /\ startAt = 0 /\ result = FALSE
          /\ depth = 0 /\ newer = 0 /\ upset = FALSE /\ moves = 0
      BY DEF ServiceInit, Lookup!Init
    <2>4. own \subseteq 1 .. total
      BY <2>3
    <2> QED BY <2>1, <2>2, <2>3, <2>4 DEF Lookup!TypeOK
  <1>4. SearchInv
    BY DEF ServiceInit, Lookup!Init, SearchInv
  <1> QED BY <1>1, <1>2, <1>3, <1>4 DEF ServiceInv, ServiceTypeOK

LEMMA ServiceStep == ServiceInv /\ [ServiceNext]_service => ServiceInv'
  <1> SUFFICES ASSUME ServiceInv, [ServiceNext]_service PROVE ServiceInv'
    OBVIOUS
  <1> USE DEF ServiceInv, ServiceTypeOK
  <1>1. applied \in Nat /\ enabled \in BOOLEAN /\ moves \in Nat
    BY DEF TypeOK, Lookup!TypeOK
  <1>2. ASSUME NEW reply \in Answers, StepCalls(reply)
        PROVE  ServiceInv'
    <2>1. TypeOK' /\ StepInv' /\ applied <= applied' /\ (reply.applied /\ call = "JIRA_COMMENT" => applied' > 0)
      BY <1>2, CallJiraKeeps DEF StepCalls
    <2>2. applied' \in Nat
      BY <2>1 DEF TypeOK
    <2>3. CASE reply.applied /\ call = "JIRA_COMMENT"
      <3>1. Lookup!AddComment(TRUE) /\ moves' \in Nat
        BY <1>1, <1>2, <2>3 DEF StepCalls
      <3> QED BY <1>1, <2>1, <2>2, <2>3, <3>1, AddKeeps
    <2>4. CASE ~ (reply.applied /\ call = "JIRA_COMMENT")
      <3>1. UNCHANGED lookup
        BY <1>2, <2>4 DEF StepCalls
      <3>2. Lookup!TypeOK'
        BY <3>1 DEF lookup, Lookup!TypeOK
      <3>3. SearchInv'
        BY <1>1, <2>1, <2>2, <3>1 DEF lookup, SearchInv
      <3> QED BY <2>1, <3>2, <3>3
    <2> QED BY <2>3, <2>4
  <1>3. CASE StepRuns
    <2>1. TypeOK' /\ StepInv'
      BY <1>3, CheckConfigurationKeeps, AssertReadyKeeps, SucceedKeeps, RecordingFailsKeeps,
         CatchKeeps, LeftRunningKeeps, AnswerErrorKeeps DEF StepRuns
    <2>2. UNCHANGED <<lookup, applied>>
      BY <1>3 DEF StepRuns, CheckConfiguration, AssertReady, Succeed, RecordingFails,
                       CatchInProcessor, LeftRunning, AnswerError
    <2>3. Lookup!TypeOK' /\ SearchInv'
      BY <2>2 DEF lookup, Lookup!TypeOK, SearchInv
    <2> QED BY <2>1, <2>3
  <1>4. UNCHANGED vars => TypeOK' /\ StepInv' /\ UNCHANGED <<applied>>
    BY DEF vars, inputs, TypeOK, StepInv, FateIsJustified, NormalizeJiraError, AppError
  <1>5. CASE SearchBegins
    BY <1>1, <1>4, <1>5, BeginKeeps DEF SearchBegins
  <1>6. CASE SearchReads
    BY <1>4, <1>6, FetchKeeps, FetchFailsKeeps DEF SearchReads
  <1>7. CASE OthersComment
    <2>1. moves' \in Nat /\ UNCHANGED vars
      BY <1>1, <1>7 DEF OthersComment
    <2>2. CASE Lookup!AddComment(FALSE)
      <3>1. applied' = applied /\ TypeOK' /\ StepInv'
        BY <1>4, <2>1
      <3>2. applied' \in Nat /\ applied <= applied' /\ (FALSE => applied' > 0)
        BY <1>1, <3>1
      <3>3. Lookup!TypeOK' /\ SearchInv'
        BY <1>1, <2>1, <2>2, <3>2, AddKeeps
      <3> QED BY <3>1, <3>3
    <2>3. CASE \E k \in 1 .. total : Lookup!DeleteComment(k)
      BY <1>4, <2>1, <2>3, DeleteKeeps
    <2> QED BY <1>7, <2>2, <2>3 DEF OthersComment
  <1>8. CASE UNCHANGED service
    BY <1>4, <1>8 DEF service, lookup, Lookup!TypeOK, SearchInv
  <1> QED BY <1>2, <1>3, <1>5, <1>6, <1>7, <1>8 DEF ServiceNext

THEOREM ServiceInvariance == ServiceSpec => []ServiceInv
  <1> QED BY ServiceStart, ServiceStep, PTL DEF ServiceSpec

\* Each variable has its type: no more requests are sent than attempts begun, none is
\* applied that was not sent, and no more pages are read than the search may read.
THEOREM ServiceTypes == ServiceSpec => []ServiceTypeOK
  <1>1. ServiceInv => ServiceTypeOK
    BY DEF ServiceInv
  <1> QED BY <1>1, ServiceInvariance, PTL

\* A step is failed for good by its configuration, a disabled integration, a final
\* rejection, or the lost record of a request that Jira applied, and the connection test
\* blames this side exactly when the fault is here and final (normalizeJiraError, the
\* processor's catch, testConnection, errorMiddleware).
THEOREM JustFates == ServiceSpec => []FateIsJustified
  <1>1. ServiceInv => FateIsJustified
    BY DEF ServiceInv, StepInv
  <1> QED BY <1>1, ServiceInvariance, PTL

\* The recovery completes a step only if Jira applied one of its requests, and misses an
\* applied comment only for the reasons listed, however many comments join the issue
\* while it searches (findCommentByExecutionStepMarker).
THEOREM ExplainedSearches == ServiceSpec => []SearchIsExplained
  <1>1. ServiceInv => SearchIsExplained
    BY DEF ServiceInv, SearchInv, SearchIsExplained
  <1> QED BY <1>1, ServiceInvariance, PTL

\* A request Jira rejected with one of the mapped statuses is never sent again, though
\* its error carries a code (normalizeJiraError).
THEOREM FinalRejections == ServiceSpec => MappedRejectionIsFinal
  <1> DEFINE Fresh == posts' > posts => last = NoError \/ last.status \notin {400, 401, 403, 404}
  <1>1. ASSUME ServiceInv, [ServiceNext]_service PROVE [Fresh]_vars
    <2> SUFFICES ASSUME posts' > posts PROVE last.status \notin {400, 401, 403, 404}
      OBVIOUS
    <2>1. posts \in Nat
      BY <1>1 DEF ServiceInv, ServiceTypeOK, TypeOK
    <2>2. posts' # posts
      BY <2>1
    <2>3. \E reply \in Answers : CallJira(reply)
      BY <1>1, <2>2 DEF ServiceNext, StepCalls, StepRuns, CheckConfiguration, AssertReady, Succeed,
                       RecordingFails, CatchInProcessor, LeftRunning, AnswerError, SearchBegins, SearchReads, OthersComment, service, vars
    <2>4. stage = "ready"
      BY <2>3 DEF CallJira
    <2> QED BY <1>1, <2>4 DEF ServiceInv, StepInv, Final, MappedStatuses
  <1> QED BY <1>1, ServiceInvariance, PTL DEF ServiceSpec, MappedRejectionIsFinal

===================================================================================
