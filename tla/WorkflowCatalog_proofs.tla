--------------------------- MODULE WorkflowCatalog_proofs --------------------------
(***************************************************************************)
(* Proofs about WorkflowCatalog: for any number of workflows, requests and *)
(* step orders.  The inductive invariant says what a request that is under *)
(* way knows (Local): the workflow it found is still there, the steps it   *)
(* holds are those its workflow had at one instant, and the row of a copy  *)
(* is nobody else's.  What the others do only makes the tables grow        *)
(* (Grows), which nothing of that minds (OthersStay).                      *)
(***************************************************************************)
EXTENDS WorkflowCatalog, RequestInput_proofs

-----------------------------------------------------------------------------------
(* The inductive invariant. *)

States == {"absent", "active", "inactive"}
Places == {"new", "arrived", "checked", "begun", "writing", "done"}
Asks   == [kind : Kinds, target : Workflows, step : Step, verdict : Verdicts]
Rows   == [copy : Workflows \cup {NoId}, rest : SUBSET Step, held : SUBSET Step]
Row    == [request : Requests, workflow : Workflows, steps : SUBSET Step]

Open(r) == pc[r] \notin {"new", "done"}

Ordered(rows) == \A s, t \in rows : s.order = t.order => s = t

ActiveOf(rows) == {s \in rows : s.active}

\* The tables: whatever steps a workflow has had were in order, and an execution is of
\* a request that has ended.
TablesInv ==
    /\ \A w \in Workflows : steps[w] \in past[w] /\ \A rows \in past[w] : Ordered(rows)
    /\ \A e \in executions :
          /\ e.steps # {} /\ pc[e.request] = "done" /\ "active" \in seen[e.request]
          /\ \E rows \in past[e.workflow] : e.steps = ActiveOf(rows)

\* A request under way.
Local(r) ==
    /\ pc[r] = "checked" => req[r].kind \in {"addStep", "execute"}
    /\ pc[r] = "begun" => req[r].kind = "duplicate"
    /\ pc[r] = "writing" => req[r].kind \in {"execute", "duplicate"}
    /\ pc[r] \in {"checked", "begun", "writing"} => workflows[Target(r)] # "absent"
    /\ Open(r) => workflows[Target(r)] \in seen[r]
    /\ req[r].kind = "execute" /\ pc[r] \in {"checked", "writing"} => "active" \in seen[r]
    /\ req[r].kind = "execute" /\ pc[r] = "writing" =>
          tx[r].held # {} /\ \E rows \in past[Target(r)] : tx[r].held = ActiveOf(rows)
    /\ pc[r] \in {"new", "arrived", "begun"} => tx[r].held = {}
    /\ req[r].kind = "duplicate" /\ pc[r] = "writing" => tx[r].rest \cup tx[r].held \in past[Target(r)]
    /\ req[r].kind = "addStep" /\ Open(r) => req[r].step.runs
    /\ Misfit(r) # "width"

\* The row of a copy that is being made.
CopyInv(r) ==
    /\ tx[r].copy # NoId <=> pc[r] \in {"begun", "writing"} /\ req[r].kind = "duplicate"
    /\ tx[r].copy # NoId => workflows[tx[r].copy] = "absent"

\* What it was told.
AnswerInv(r) ==
    /\ pc[r] # "done" => answer[r] = "none"
    /\ answer[r] = "201" /\ req[r].kind = "addStep" => req[r].step \in steps[Target(r)] /\ req[r].step.runs
    /\ answer[r] = "201" /\ req[r].kind = "execute" => \E e \in executions : e.request = r
    /\ answer[r] = "409" =>
          \/ req[r].kind = "addStep" /\ Taken(Target(r), req[r].step.order)
          \/ req[r].kind = "execute" /\ "inactive" \in seen[r]
          \/ req[r].kind = "execute" /\ \E rows \in past[Target(r)] : \A s \in rows : ~ s.active
    /\ answer[r] = "404" => "absent" \in seen[r]
    /\ answer[r] = "500" => r \in excused

RequestInv(r) == Local(r) /\ CopyInv(r) /\ AnswerInv(r)

CatalogInv ==
    /\ TypeOK
    /\ TablesInv
    /\ \A r \in Requests : RequestInv(r)
    /\ \A q, r \in Requests : tx[q].copy = tx[r].copy /\ tx[q].copy # NoId => q = r

-----------------------------------------------------------------------------------
(* What a step does to the others. *)

MovesAlone(r) ==
    /\ pc' \in [Requests -> Places] /\ req' \in [Requests -> Asks]
    /\ tx' \in [Requests -> Rows] /\ answer' \in [Requests -> Answers]
    /\ excused \subseteq excused' /\ excused' \subseteq excused \cup {r}
    /\ \A q \in Requests : q # r =>
          pc'[q] = pc[q] /\ req'[q] = req[q] /\ tx'[q] = tx[q] /\ answer'[q] = answer[q]

Grows(r) ==
    /\ workflows' \in [Workflows -> States] /\ steps' \in [Workflows -> SUBSET Step]
    /\ executions' \subseteq Row /\ executions \subseteq executions'
    /\ past' \in [Workflows -> SUBSET SUBSET Step] /\ seen' \in [Requests -> SUBSET States]
    /\ \A w \in Workflows :
          /\ workflows[w] # "absent" => workflows'[w] # "absent"
          /\ steps[w] \subseteq steps'[w] /\ past[w] \subseteq past'[w]
    /\ \A q \in Requests : q # r =>
          /\ seen[q] \subseteq seen'[q]
          /\ Open(q) => workflows'[Target(q)] \in seen'[q]
          /\ tx[q].copy # NoId => workflows'[tx[q].copy] = "absent"

\* The row of the copy r is making, if any, is its own.
CopyApart(r) == \A q \in Requests : q # r => tx'[r].copy = NoId \/ tx'[r].copy # tx'[q].copy

LEMMA Typed ==
  ASSUME TypeOK
  PROVE  /\ workflows \in [Workflows -> States] /\ steps \in [Workflows -> SUBSET Step]
         /\ executions \subseteq Row
         /\ pc \in [Requests -> Places] /\ req \in [Requests -> Asks]
         /\ tx \in [Requests -> Rows] /\ answer \in [Requests -> Answers]
         /\ past \in [Workflows -> SUBSET SUBSET Step] /\ seen \in [Requests -> SUBSET States]
         /\ excused \subseteq Requests
  BY DEF TypeOK, States, Places, Asks, Rows, Row

LEMMA NothingTyped == Nothing \in Asks /\ Nothing.verdict = Plain /\ Nothing.kind = "create" /\ NoRows \in Rows
  <1>1. \E s \in Given : s.active
    <2>1. PICK order \in Orders : TRUE
      BY CatalogAssumption
    <2> DEFINE s == [order |-> order, active |-> TRUE, by |-> NoId, runs |-> TRUE]
    <2>2. s \in Step /\ s.by = NoId /\ s.runs /\ s.active
      BY DEF Step
    <2> HIDE DEF s
    <2> QED BY <2>2 DEF Given
  <1>2. (CHOOSE s \in Given : s.active) \in Step
    BY <1>1 DEF Given
  <1>3. Plain \in Verdicts
    BY DEF Plain, Verdicts, Misfits
  <1>4. Nothing \in Asks /\ Nothing.verdict = Plain /\ Nothing.kind = "create"
    BY <1>2, <1>3, CatalogAssumption DEF Nothing, Asks, Kinds
  <1>5. NoRows \in Rows
    BY DEF NoRows, Rows
  <1> QED BY <1>4, <1>5

LEMMA BodiesTyped == \A kind \in Kinds : \A v \in Bodies(kind) : v \in Verdicts /\ v.misfit # "width" /\ v.runs
  BY WorkflowFits, UpdateFits, StepFits, ExecutionFits, DuplicateFits DEF Kinds, Bodies

\* A request that others leave alone keeps what it knows, and was told the truth still.
LEMMA OthersStay ==
  ASSUME CatalogInv, NEW r \in Requests, MovesAlone(r), Grows(r), NEW q \in Requests, q # r
  PROVE  RequestInv(q)'
  <1>0. /\ req[q].target \in Workflows /\ pc'[q] = pc[q] /\ req'[q] = req[q] /\ tx'[q] = tx[q]
        /\ answer'[q] = answer[q] /\ seen[q] \subseteq seen'[q] /\ (q \in excused => q \in excused')
        /\ RequestInv(q)
    BY Typed DEF CatalogInv, MovesAlone, Grows, Asks
  <1>1. /\ Target(q)' = Target(q) /\ Misfit(q)' = Misfit(q) /\ Open(q)' = Open(q)
        /\ past[Target(q)] \subseteq past'[Target(q)] /\ steps[Target(q)] \subseteq steps'[Target(q)]
        /\ workflows[Target(q)] # "absent" => workflows'[Target(q)] # "absent"
    BY <1>0 DEF Target, Misfit, Open, Grows
  <1>2. Local(q)'
    BY <1>0, <1>1 DEF RequestInv, Local, Grows
  <1>3. CopyInv(q)'
    BY <1>0 DEF RequestInv, CopyInv, Grows
  <1>4. AnswerInv(q)'
    BY <1>0, <1>1 DEF RequestInv, AnswerInv, Grows, Taken
  <1> QED BY <1>2, <1>3, <1>4 DEF RequestInv

\* So a step keeps the invariant if the tables and the request that takes it do.
LEMMA StepKeeps ==
  ASSUME CatalogInv, NEW r \in Requests, MovesAlone(r), Grows(r), TablesInv', RequestInv(r)', CopyApart(r),
         \A w \in Workflows : steps'[w] # {} => workflows'[w] # "absent",
         \A e \in executions' : workflows'[e.workflow] # "absent"
  PROVE  CatalogInv'
  <1>1. TypeOK'
    BY DEF TypeOK, CatalogInv, MovesAlone, Grows, States, Places, Asks, Rows, Row
  <1>2. \A q \in Requests : RequestInv(q)'
    BY OthersStay
  <1>3. \A p, q \in Requests : tx'[p].copy = tx'[q].copy /\ tx'[p].copy # NoId => p = q
    BY DEF CopyApart, CatalogInv, MovesAlone
  <1> QED BY <1>1, <1>2, <1>3 DEF CatalogInv

\* A step that writes no row.
Reads(r) ==
    /\ UNCHANGED <<tables, past>>
    /\ seen' \in [Requests -> SUBSET States]
    /\ \A q \in Requests : q # r => seen'[q] = seen[q]

LEMMA ReadKeeps ==
  ASSUME CatalogInv, NEW r \in Requests, pc[r] # "done", MovesAlone(r), Reads(r), RequestInv(r)', CopyApart(r)
  PROVE  CatalogInv'
  <1>1. Grows(r)
    BY Typed DEF CatalogInv, Reads, Grows, tables, RequestInv, Local, CopyInv
  <1>2. ASSUME NEW e \in executions
        PROVE  /\ e.steps # {} /\ pc'[e.request] = "done" /\ "active" \in seen'[e.request]
               /\ \E rows \in past[e.workflow] : e.steps = ActiveOf(rows)
    <2>1. e.request \in Requests /\ e.request # r
      BY Typed DEF CatalogInv, TablesInv, Row
    <2> QED BY <2>1 DEF CatalogInv, TablesInv, MovesAlone, Reads
  <1>3. TablesInv'
    BY <1>2 DEF CatalogInv, TablesInv, Reads, tables, ActiveOf, Ordered
  <1>4. /\ \A w \in Workflows : steps'[w] # {} => workflows'[w] # "absent"
        /\ \A e \in executions' : workflows'[e.workflow] # "absent"
    BY DEF CatalogInv, TypeOK, Reads, tables
  <1> QED BY <1>1, <1>3, <1>4, StepKeeps

-----------------------------------------------------------------------------------
(* The end of a request. *)

\* What the code says of what was asked for.
Earned(r, code) ==
    /\ code = "201" /\ req[r].kind = "addStep" => req[r].step \in steps'[Target(r)] /\ req[r].step.runs
    /\ code = "201" /\ req[r].kind = "execute" => \E e \in executions' : e.request = r
    /\ code = "409" =>
          \/ req[r].kind = "addStep" /\ \E s \in steps'[Target(r)] : s.order = req[r].step.order
          \/ req[r].kind = "execute" /\ "inactive" \in seen'[r]
          \/ req[r].kind = "execute" /\ \E rows \in past'[Target(r)] : \A s \in rows : ~ s.active
    /\ code = "404" => "absent" \in seen'[r]
    /\ code = "500" => r \in excused'

LEMMA Ends ==
  ASSUME CatalogInv, NEW r \in Requests, NEW code \in Answers \ {"none"}, Answer(r, code), Earned(r, code),
         excused \subseteq excused', excused' \subseteq excused \cup {r}
  PROVE  MovesAlone(r) /\ CopyApart(r) /\ RequestInv(r)' /\ pc'[r] = "done"
  <1> USE NothingTyped, Typed DEF CatalogInv
  <1>1. /\ pc' = [pc EXCEPT ![r] = "done"] /\ answer' = [answer EXCEPT ![r] = code]
        /\ tx' = [tx EXCEPT ![r] = NoRows]
        /\ req' = IF code \in {"400", "500", "lost"} THEN [req EXCEPT ![r] = Nothing] ELSE req
    BY DEF Answer
  <1>2. pc'[r] = "done" /\ answer'[r] = code /\ tx'[r] = NoRows /\ NoRows.copy = NoId
    BY <1>1 DEF NoRows
  <1>3. MovesAlone(r)
    <2>1. pc' \in [Requests -> Places] /\ answer' \in [Requests -> Answers]
      BY <1>1 DEF Places
    <2>2. req' \in [Requests -> Asks] /\ tx' \in [Requests -> Rows]
      BY <1>1
    <2> QED BY <1>1, <2>1, <2>2 DEF MovesAlone
  <1>4. CopyApart(r) /\ CopyInv(r)'
    BY <1>2 DEF CopyApart, CopyInv
  <1>5. Local(r)'
    <2>1. Plain.misfit = "none"
      BY DEF Plain
    <2>2. Misfit(r)' # "width"
      BY <1>1, <2>1 DEF RequestInv, Local, Misfit
    <2> QED BY <1>2, <2>2 DEF Local, Open
  <1>6. AnswerInv(r)'
    <2>1. CASE code \in {"400", "500", "lost"}
      BY <1>2, <2>1 DEF AnswerInv, Earned
    <2>2. CASE code \notin {"400", "500", "lost"}
      <3>1. req' = req /\ Target(r)' = Target(r)
        BY <1>1, <2>2 DEF Target
      <3> QED BY <1>2, <2>2, <3>1 DEF AnswerInv, Earned, Taken
    <2> QED BY <2>1, <2>2
  <1> QED BY <1>2, <1>3, <1>4, <1>5, <1>6 DEF RequestInv

\* An answer to what wrote nothing.
LEMMA ReadEnds ==
  ASSUME CatalogInv, NEW r \in Requests, pc[r] # "done", NEW code \in Answers \ {"none"}, Answer(r, code),
         Earned(r, code), excused \subseteq excused', excused' \subseteq excused \cup {r}, Reads(r)
  PROVE  CatalogInv'
  BY Ends, ReadKeeps

\* A write is answered, by the code or by nobody.
LEMMA WrittenEnds ==
  ASSUME CatalogInv, NEW r \in Requests, NEW code \in {"200", "201"}, Written(r, code), Earned(r, code)
  PROVE  MovesAlone(r) /\ CopyApart(r) /\ RequestInv(r)' /\ pc'[r] = "done"
  <1>1. CASE Answer(r, code) /\ UNCHANGED excused
    BY <1>1, Ends DEF Answers
  <1>2. ASSUME NEW other \in {"500", "lost"}, Answer(r, other), excused' = excused \cup {r}
        PROVE  MovesAlone(r) /\ CopyApart(r) /\ RequestInv(r)' /\ pc'[r] = "done"
    <2>1. Earned(r, other)
      BY <1>2 DEF Earned
    <2> QED BY <1>2, <2>1, Ends DEF Answers
  <1> QED BY <1>1, <1>2 DEF Written

-----------------------------------------------------------------------------------
(* The steps that write no row. *)

LEMMA ArriveKeeps ==
  ASSUME CatalogInv, NEW r \in Requests, NEW kind \in Kinds, NEW v \in Bodies(kind),
         \/ ArriveRefused(r, kind, v)
         \/ \E w \in Workflows, s \in Asked(r, kind) : Arrive(r, kind, w, s, v)
  PROVE  CatalogInv'
  <1> USE Typed DEF CatalogInv
  <1>1. CASE ArriveRefused(r, kind, v)
    <2>1. pc[r] = "new" /\ Answer(r, "400") /\ UNCHANGED <<tables, history>>
      BY <1>1 DEF ArriveRefused
    <2> QED BY <2>1, ReadEnds DEF Earned, Answers, Reads, history
  <1>2. ASSUME NEW w \in Workflows, NEW s \in Asked(r, kind), Arrive(r, kind, w, s, v)
        PROVE  CatalogInv'
    <2> DEFINE given == IF kind = "addStep" THEN [s EXCEPT !.runs = v.runs] ELSE s
               ask == [kind |-> kind, target |-> w, verdict |-> v, step |-> given]
    <2>1. /\ pc[r] = "new" /\ pc' = [pc EXCEPT ![r] = "arrived"] /\ req' = [req EXCEPT ![r] = ask]
          /\ seen' = [seen EXCEPT ![r] = {workflows[w]}] /\ UNCHANGED <<tables, tx, answer, past, excused>>
      BY <1>2, Zenon DEF Arrive
    <2>2. v \in Verdicts /\ v.misfit # "width" /\ v.runs
      BY BodiesTyped
    <2>3. s \in Step
      BY DEF Asked, Asks
    <2>4. given \in Step /\ (kind = "addStep" => given.runs)
      BY <2>2, <2>3 DEF Step
    <2>5. ask.kind = kind /\ ask.target = w /\ ask.verdict = v /\ ask.step = given /\ ask \in Asks
      BY <2>2, <2>4 DEF Asks
    <2> HIDE DEF ask, given
    <2>6. MovesAlone(r) /\ CopyApart(r)
      BY <2>1, <2>5 DEF MovesAlone, CopyApart, Places, RequestInv, CopyInv
    <2>7. Reads(r)
      BY <2>1 DEF Reads, States
    <2>8. /\ pc'[r] = "arrived" /\ req'[r] = ask /\ seen'[r] = {workflows[w]} /\ tx'[r] = tx[r]
          /\ answer'[r] = "none" /\ workflows' = workflows
      BY <2>1 DEF tables, RequestInv, AnswerInv
    <2>9. Local(r)'
      BY <2>1, <2>2, <2>4, <2>5, <2>8 DEF RequestInv, Local, Open, Target, Misfit
    <2>10. CopyInv(r)' /\ AnswerInv(r)'
      BY <2>1, <2>8 DEF CopyInv, AnswerInv, RequestInv
    <2> QED BY <2>1, <2>6, <2>7, <2>9, <2>10, ReadKeeps DEF RequestInv
  <1> QED BY <1>1, <1>2

\* A read after which the request goes on.
LEMMA GotoKeeps ==
  ASSUME CatalogInv, NEW r \in Requests, NEW place \in Places \ {"new", "done"}, Open(r), Goto(r, place),
         UNCHANGED <<tables, answer, history>>, tx' \in [Requests -> Rows],
         \A q \in Requests : q # r => tx'[q] = tx[q],
         CopyApart(r), Local(r)', CopyInv(r)'
  PROVE  CatalogInv'
  <1> USE Typed DEF CatalogInv
  <1>1. pc' = [pc EXCEPT ![r] = place] /\ UNCHANGED <<req, answer, history>>
    BY DEF Goto
  <1>2. MovesAlone(r)
    BY <1>1 DEF MovesAlone, history
  <1>3. Reads(r)
    BY <1>1 DEF Reads, history
  <1>4. AnswerInv(r)'
    BY <1>1 DEF AnswerInv, RequestInv, Open
  <1> QED BY <1>2, <1>3, <1>4, ReadKeeps DEF RequestInv, Open

LEMMA ReadersKeep ==
  ASSUME CatalogInv, NEW r \in Requests,
         \/ FindMissing(r) \/ CheckStepOrder(r) \/ CheckActive(r) \/ ReadActiveSteps(r)
         \/ BeginCopy(r) \/ ReadSourceSteps(r) \/ DatabaseRefuses(r) \/ RequestBreaks(r)
  PROVE  CatalogInv'
  <1> USE Typed DEF CatalogInv
  <1>0. /\ RequestInv(r) /\ req[r] \in Asks /\ Target(r) \in Workflows
        /\ (Open(r) => workflows[Target(r)] \in seen[r]) /\ steps[Target(r)] \in past[Target(r)]
    BY DEF RequestInv, Local, Asks, Target, TablesInv
  <1> DEFINE Ended == \E code \in Answers \ {"none"} :
                         /\ Answer(r, code) /\ Earned(r, code) /\ excused \subseteq excused'
                         /\ excused' \subseteq excused \cup {r} /\ Reads(r) /\ pc[r] # "done"
  <1>E. Ended => CatalogInv'
    BY ReadEnds
  <1>R. UNCHANGED <<tables, past, seen>> => Reads(r)
    BY DEF Reads
  <1> HIDE DEF Ended
  <1>G. ASSUME Goto(r, "checked"), UNCHANGED <<tables, tx, answer, history>>, pc[r] = "arrived",
               workflows[Target(r)] # "absent", req[r].kind \in {"addStep", "execute"},
               req[r].kind = "execute" => workflows[Target(r)] = "active"
        PROVE  CatalogInv'
    <2>1. pc'[r] = "checked" /\ req' = req /\ tx' = tx /\ workflows' = workflows /\ seen' = seen
      BY <1>G DEF Goto, tables, history
    <2>2. Local(r)'
      BY <1>0, <1>G, <2>1 DEF RequestInv, Local, Open, Target, Misfit
    <2>3. CopyInv(r)' /\ CopyApart(r)
      BY <1>0, <1>G, <2>1 DEF RequestInv, CopyInv, CopyApart
    <2> QED BY <1>G, <2>1, <2>2, <2>3, GotoKeeps DEF Open, Places
  <1>1. CASE FindMissing(r)
    <2>1. Ended
      BY <1>0, <1>1, <1>R DEF Ended, FindMissing, Earned, history, Answers, Open
    <2> QED BY <2>1, <1>E
  <1>2. CASE CheckStepOrder(r)
    <2>1. CASE Answer(r, "409")
      <3>1. Ended
        <4>1. /\ UNCHANGED <<tables, history>> /\ pc[r] = "arrived" /\ req[r].kind = "addStep"
              /\ pc'[r] = "done"
          BY <1>2, <2>1 DEF CheckStepOrder, Handles, Answer
        <4>2. Taken(Target(r), req[r].step.order)
          BY <1>2, <2>1, <4>1 DEF CheckStepOrder, Goto
        <4> QED BY <2>1, <4>1, <4>2, <1>R DEF Ended, Earned, history, tables, Answers, Taken
      <3> QED BY <3>1, <1>E
    <2>2. CASE ~ Answer(r, "409")
      BY <1>2, <2>2, <1>G DEF CheckStepOrder, Handles
    <2> QED BY <2>1, <2>2
  <1>3. CASE CheckActive(r)
    <2>1. /\ UNCHANGED <<tables, history>> /\ pc[r] = "arrived" /\ req[r].kind = "execute"
          /\ workflows[Target(r)] # "absent"
      BY <1>3 DEF CheckActive, Handles
    <2>2. CASE workflows[Target(r)] = "inactive"
      <3>1. Ended
        BY <1>0, <1>3, <1>R, <2>1, <2>2 DEF Ended, CheckActive, Earned, history, Answers, Open
      <3> QED BY <3>1, <1>E
    <2>3. CASE workflows[Target(r)] # "inactive"
      <3>1. workflows[Target(r)] = "active"
        BY <1>0, <2>1, <2>3 DEF States
      <3> QED BY <1>3, <1>G, <2>1, <2>3, <3>1 DEF CheckActive
    <2> QED BY <2>2, <2>3
  <1>4. CASE ReadActiveSteps(r)
    <2> DEFINE found == {s \in steps[Target(r)] : s.active}
    <2>1. /\ UNCHANGED <<tables, history>> /\ pc[r] = "checked" /\ req[r].kind = "execute"
          /\ IF found = {} THEN Answer(r, "409")
             ELSE /\ Goto(r, "writing") /\ tx' = [tx EXCEPT ![r].held = found] /\ UNCHANGED answer
      BY <1>4 DEF ReadActiveSteps, Handles
    <2>2. CASE found = {}
      <3>1. Ended
        BY <1>0, <1>R, <2>1, <2>2 DEF Ended, Earned, history, Answers
      <3> QED BY <3>1, <1>E
    <2>3. CASE found # {}
      <3>1. found \subseteq Step /\ found = ActiveOf(steps[Target(r)])
        BY <1>0 DEF ActiveOf
      <3> HIDE DEF found
      <3> DEFINE row == [tx[r] EXCEPT !.held = found]
      <3>5. row \in Rows /\ row.held = found /\ row.copy = tx[r].copy
        BY <3>1 DEF Rows
      <3>6. tx' = [tx EXCEPT ![r] = row]
        BY <2>1, <2>3
      <3> HIDE DEF row
      <3>2. /\ pc'[r] = "writing" /\ req' = req /\ workflows' = workflows /\ seen' = seen /\ past' = past
            /\ tx' \in [Requests -> Rows] /\ tx'[r].held = found /\ tx'[r].copy = tx[r].copy
            /\ \A q \in Requests : q # r => tx'[q] = tx[q]
        BY <2>1, <2>3, <3>5, <3>6 DEF Goto, tables, history
      <3>3. Local(r)'
        BY <1>0, <2>1, <2>3, <3>1, <3>2 DEF RequestInv, Local, Open, Target, Misfit
      <3>4. CopyInv(r)' /\ CopyApart(r)
        BY <1>0, <2>1, <3>2 DEF RequestInv, CopyInv, CopyApart
      <3> QED BY <2>1, <2>3, <3>2, <3>3, <3>4, GotoKeeps DEF Open, Places
    <2> QED BY <2>2, <2>3
  <1>5. CASE BeginCopy(r)
    <2>1. /\ UNCHANGED <<tables, history>> /\ pc[r] = "arrived" /\ req[r].kind = "duplicate"
          /\ workflows[Target(r)] # "absent"
      BY <1>5 DEF BeginCopy, Handles
    <2>2. CASE Answer(r, "400")
      <3>1. Ended
        BY <1>R, <2>1, <2>2 DEF Ended, Earned, history, Answers
      <3> QED BY <3>1, <1>E
    <2>3. ASSUME NEW w \in Workflows, Fresh(w), tx' = [tx EXCEPT ![r].copy = w], Goto(r, "begun"),
                 UNCHANGED answer
          PROVE  CatalogInv'
      <3>1. /\ pc'[r] = "begun" /\ req' = req /\ workflows' = workflows /\ seen' = seen /\ past' = past
            /\ tx' \in [Requests -> Rows] /\ tx'[r].held = tx[r].held /\ tx'[r].copy = w
            /\ \A q \in Requests : q # r => tx'[q] = tx[q]
        <4> DEFINE row == [tx[r] EXCEPT !.copy = w]
        <4>0. tx[r] \in Rows
          BY <1>0
        <4>1. row \in Rows /\ row.held = tx[r].held /\ row.copy = w
          BY <4>0 DEF Rows
        <4>2. tx' = [tx EXCEPT ![r] = row]
          BY <2>3
        <4> HIDE DEF row
        <4>3. tx \in [Requests -> Rows] /\ pc \in [Requests -> Places]
          BY <1>0
        <4> QED BY <2>1, <2>3, <4>1, <4>2, <4>3 DEF Goto, tables, history
      <3>2. w # NoId /\ workflows[w] = "absent" /\ \A q \in Requests : tx[q].copy # w
        BY <2>3, CatalogAssumption DEF Fresh
      <3>3. tx'[r].held = {}
        BY <1>0, <2>1, <3>1 DEF RequestInv, Local
      <3>4. Local(r)'
        BY <1>0, <2>1, <3>1, <3>3 DEF RequestInv, Local, Open, Target, Misfit
      <3>5. CopyInv(r)' /\ CopyApart(r)
        BY <2>1, <3>1, <3>2 DEF CopyInv, CopyApart
      <3> QED BY <2>1, <2>3, <3>1, <3>4, <3>5, GotoKeeps DEF Open, Places
    <2> QED BY <1>5, <2>2, <2>3 DEF BeginCopy
  <1>6. CASE ReadSourceSteps(r)
    <2>1. /\ UNCHANGED <<tables, answer, history>> /\ pc[r] = "begun" /\ req[r].kind = "duplicate"
          /\ tx' = [tx EXCEPT ![r].rest = steps[Target(r)]] /\ Goto(r, "writing")
      BY <1>6 DEF ReadSourceSteps, Handles
    <2>2. /\ pc'[r] = "writing" /\ req' = req /\ workflows' = workflows /\ seen' = seen /\ past' = past
          /\ tx' \in [Requests -> Rows] /\ tx'[r].held = tx[r].held /\ tx'[r].copy = tx[r].copy
          /\ tx'[r].rest = steps[Target(r)] /\ \A q \in Requests : q # r => tx'[q] = tx[q]
      BY <1>0, <2>1 DEF Goto, tables, history, Rows
    <2>3. tx[r].held = {}
      BY <1>0, <2>1 DEF RequestInv, Local
    <2>4. tx'[r].rest \cup tx'[r].held = steps[Target(r)]
      BY <2>2, <2>3
    <2>5. Local(r)'
      BY <1>0, <2>1, <2>2, <2>4 DEF RequestInv, Local, Open, Target, Misfit
    <2>6. CopyInv(r)' /\ CopyApart(r)
      BY <1>0, <2>1, <2>2 DEF RequestInv, CopyInv, CopyApart
    <2> QED BY <2>1, <2>2, <2>5, <2>6, GotoKeeps DEF Open, Places
  <1>7. CASE DatabaseRefuses(r)
    <2>1. Misfit(r) # "width" /\ pc[r] # "done" /\ Answer(r, "500") /\ UNCHANGED <<tables, past, seen>>
      BY <1>0, <1>7 DEF DatabaseRefuses, Handles, RequestInv, Local
    <2>2. excused' = excused \cup {r}
      BY <1>7, <2>1 DEF DatabaseRefuses
    <2>3. Ended
      BY <1>R, <2>1, <2>2 DEF Ended, Earned, Answers
    <2> QED BY <2>3, <1>E
  <1>8. CASE RequestBreaks(r)
    <2>1. PICK code \in {"500", "lost"} : Answer(r, code)
      BY <1>8 DEF RequestBreaks
    <2>2. Earned(r, code)
      BY <1>8 DEF RequestBreaks, Earned
    <2>3. Ended
      BY <1>8, <1>R, <2>1, <2>2 DEF Ended, RequestBreaks, Answers
    <2> QED BY <2>3, <1>E
  <1> QED BY <1>1, <1>2, <1>3, <1>4, <1>5, <1>6, <1>7, <1>8

LEMMA CopyStepKeeps ==
  ASSUME CatalogInv, NEW r \in Requests, CopyStep(r)
  PROVE  CatalogInv'
  <1> USE Typed DEF CatalogInv
  <1>1. PICK s \in tx[r].rest : tx' = [tx EXCEPT ![r].rest = @ \ {s}, ![r].held = @ \cup {s}]
    BY DEF CopyStep
  <1>2. /\ UNCHANGED <<tables, pc, req, answer, history>> /\ pc[r] = "writing" /\ req[r].kind = "duplicate"
    BY DEF CopyStep, Handles
  <1>3. tx[r].rest \subseteq Step /\ tx[r].held \subseteq Step
    BY DEF Rows
  <1>4. /\ tx' \in [Requests -> Rows] /\ tx'[r].copy = tx[r].copy
        /\ tx'[r].rest = tx[r].rest \ {s} /\ tx'[r].held = tx[r].held \cup {s}
        /\ \A q \in Requests : q # r => tx'[q] = tx[q]
    <2> DEFINE less == [tx[r] EXCEPT !.rest = @ \ {s}]
               row  == [less EXCEPT !.held = @ \cup {s}]
    <2>1. less \in Rows /\ less.copy = tx[r].copy /\ less.rest = tx[r].rest \ {s} /\ less.held = tx[r].held
      BY <1>3 DEF Rows
    <2>2. tx' = [tx EXCEPT ![r] = row]
      BY <1>1
    <2> HIDE DEF less
    <2>3. /\ row \in Rows /\ row.copy = tx[r].copy /\ row.rest = tx[r].rest \ {s}
          /\ row.held = tx[r].held \cup {s}
      BY <1>3, <2>1 DEF Rows
    <2> HIDE DEF row
    <2> QED BY <2>2, <2>3
  <1>5. tx'[r].rest \cup tx'[r].held = tx[r].rest \cup tx[r].held
    BY <1>4
  <1>6. Local(r)'
    BY <1>2, <1>5 DEF RequestInv, Local, Open, Target, Misfit, tables, history
  <1>7. CopyInv(r)' /\ CopyApart(r) /\ AnswerInv(r)'
    BY <1>2, <1>4 DEF RequestInv, CopyInv, CopyApart, AnswerInv, tables, history
  <1>8. MovesAlone(r)
    BY <1>2, <1>4 DEF MovesAlone, history
  <1>9. Reads(r)
    BY <1>2 DEF Reads, history
  <1> QED BY <1>2, <1>6, <1>7, <1>8, <1>9, ReadKeeps DEF RequestInv

-----------------------------------------------------------------------------------
(* The steps that write rows. *)

LEMMA SetWorkflowFacts ==
  ASSUME CatalogInv, NEW w \in Workflows, NEW status \in {"active", "inactive"}, SetWorkflow(w, status)
  PROVE  /\ workflows' \in [Workflows -> States] /\ seen' \in [Requests -> SUBSET States]
         /\ workflows'[w] = status /\ \A v \in Workflows : v # w => workflows'[v] = workflows[v]
         /\ \A v \in Workflows : workflows[v] # "absent" => workflows'[v] # "absent"
         /\ \A q \in Requests : seen[q] \subseteq seen'[q] /\ (Open(q) => workflows'[Target(q)] \in seen'[q])
  <1> USE Typed DEF CatalogInv
  <1>1. /\ workflows' = [workflows EXCEPT ![w] = status]
        /\ seen' = [r \in Requests |-> IF Open(r) /\ Target(r) = w THEN seen[r] \cup {status} ELSE seen[r]]
    BY DEF SetWorkflow, Open
  <1>2. workflows' \in [Workflows -> States] /\ seen' \in [Requests -> SUBSET States]
    BY <1>1 DEF States
  <1>3. ASSUME NEW q \in Requests
        PROVE  seen[q] \subseteq seen'[q] /\ (Open(q) => workflows'[Target(q)] \in seen'[q])
    <2>1. Target(q) \in Workflows /\ (Open(q) => workflows[Target(q)] \in seen[q])
      BY DEF RequestInv, Local, Target, Asks
    <2> QED BY <1>1, <2>1
  <1> QED BY <1>1, <1>2, <1>3

LEMMA SetStepsFacts ==
  ASSUME CatalogInv, NEW w \in Workflows, NEW rows \in SUBSET Step, Ordered(rows), steps[w] \subseteq rows,
         SetSteps(w, rows)
  PROVE  /\ steps' \in [Workflows -> SUBSET Step] /\ past' \in [Workflows -> SUBSET SUBSET Step]
         /\ steps'[w] = rows /\ \A v \in Workflows : v # w => steps'[v] = steps[v]
         /\ \A v \in Workflows : steps[v] \subseteq steps'[v] /\ past[v] \subseteq past'[v]
         /\ \A v \in Workflows : steps'[v] \in past'[v] /\ \A old \in past'[v] : Ordered(old)
  <1> USE Typed DEF CatalogInv, TablesInv
  <1>1. steps' = [steps EXCEPT ![w] = rows] /\ past' = [past EXCEPT ![w] = past[w] \cup {rows}]
    BY DEF SetSteps
  <1> HIDE DEF Ordered
  <1> QED BY <1>1

LEMMA ExecutionsStay ==
  ASSUME CatalogInv, NEW r \in Requests, pc[r] # "done", MovesAlone(r), Grows(r), NEW e \in executions
  PROVE  /\ e.steps # {} /\ pc'[e.request] = "done" /\ "active" \in seen'[e.request]
         /\ \E rows \in past'[e.workflow] : e.steps = ActiveOf(rows)
         /\ workflows'[e.workflow] # "absent"
  <1>1. e.request \in Requests /\ e.workflow \in Workflows /\ e.request # r
    BY Typed DEF CatalogInv, TablesInv, Row
  <1> QED BY <1>1 DEF CatalogInv, TypeOK, TablesInv, MovesAlone, Grows

LEMMA ChangeWorkflowKeeps ==
  ASSUME CatalogInv, NEW r \in Requests, CreateWorkflow(r) \/ UpdateWorkflow(r)
  PROVE  CatalogInv'
  <1> USE Typed DEF CatalogInv
  <1>1. PICK w \in Workflows, status \in {"active", "inactive"} :
           /\ SetWorkflow(w, status)
           /\ workflows[w] # "absent" \/ \A q \in Requests : tx[q].copy # w
    <2>1. CASE CreateWorkflow(r)
      BY <2>1 DEF CreateWorkflow, Fresh
    <2>2. CASE UpdateWorkflow(r)
      <3>1. Target(r) \in Workflows
        BY DEF Target, Asks
      <3> QED BY <2>2, <3>1 DEF UpdateWorkflow
    <2> QED BY <2>1, <2>2
  <1>2. /\ pc[r] = "arrived" /\ req[r].kind \in {"create", "toggle"}
        /\ UNCHANGED <<steps, executions, past>>
        /\ \E code \in {"200", "201"} : Written(r, code)
    BY DEF CreateWorkflow, UpdateWorkflow, Handles
  <1>3. MovesAlone(r) /\ CopyApart(r) /\ RequestInv(r)'
    <2>1. PICK code \in {"200", "201"} : Written(r, code)
      BY <1>2
    <2>2. Earned(r, code)
      BY <1>2 DEF Earned
    <2> QED BY <2>1, <2>2, WrittenEnds
  <1>4. ASSUME NEW q \in Requests, tx[q].copy # NoId
        PROVE  workflows'[tx[q].copy] = "absent"
    <2>1. tx[q].copy \in Workflows /\ workflows[tx[q].copy] = "absent"
      BY <1>4 DEF RequestInv, CopyInv, Rows
    <2> QED BY <1>1, <2>1, SetWorkflowFacts
  <1>5. Grows(r)
    BY <1>1, <1>2, <1>4, SetWorkflowFacts DEF Grows
  <1>6. TablesInv'
    BY <1>2, <1>3, <1>5, ExecutionsStay DEF TablesInv, Ordered, ActiveOf
  <1>7. /\ \A v \in Workflows : steps'[v] # {} => workflows'[v] # "absent"
        /\ \A e \in executions' : workflows'[e.workflow] # "absent"
    BY <1>2, <1>3, <1>5, ExecutionsStay DEF TypeOK, Grows
  <1> QED BY <1>3, <1>5, <1>6, <1>7, StepKeeps

\* The constraint on the order of the steps, or the check before it.
LEMMA InsertStepKeeps ==
  ASSUME CatalogInv, NEW r \in Requests, InsertStep(r)
  PROVE  CatalogInv'
  <1> USE Typed DEF CatalogInv
  <1>1. /\ pc[r] = "checked" /\ req[r].kind = "addStep" /\ UNCHANGED <<workflows, executions, seen>>
        /\ req[r].step \in Step /\ req[r].step.runs /\ Target(r) \in Workflows
        /\ workflows[Target(r)] # "absent" /\ steps[Target(r)] \subseteq Step
    <2>1. pc[r] = "checked" /\ req[r].kind = "addStep" /\ UNCHANGED <<workflows, executions, seen>>
      BY DEF InsertStep, Handles
    <2>2. req[r].step.runs /\ workflows[Target(r)] # "absent"
      BY <2>1 DEF RequestInv, Local, Open
    <2>3. req[r].step \in Step /\ Target(r) \in Workflows
      BY DEF Asks, Target
    <2> QED BY <2>1, <2>2, <2>3
  <1>2. CASE Taken(Target(r), req[r].step.order)
    <2>1. Answer(r, "409") /\ UNCHANGED <<steps, past, excused>>
      BY <1>2 DEF InsertStep
    <2>2. Earned(r, "409")
      BY <1>1, <1>2, <2>1 DEF Earned, Taken
    <2>3. Reads(r)
      BY <1>1, <2>1 DEF Reads, tables
    <2> QED BY <1>1, <2>1, <2>2, <2>3, ReadEnds DEF Answers
  <1>3. CASE ~ Taken(Target(r), req[r].step.order)
    <2> DEFINE rows == steps[Target(r)] \cup {req[r].step}
    <2>1. SetSteps(Target(r), rows) /\ Written(r, "201")
      BY <1>3 DEF InsertStep
    <2>2. Ordered(steps[Target(r)])
      BY <1>1 DEF TablesInv
    <2>3. /\ rows \in SUBSET Step /\ Ordered(rows) /\ steps[Target(r)] \subseteq rows /\ req[r].step \in rows
          /\ rows # {}
      BY <1>1, <1>3, <2>2 DEF Ordered, Taken
    <2> HIDE DEF rows
    <2>4. /\ steps' \in [Workflows -> SUBSET Step] /\ past' \in [Workflows -> SUBSET SUBSET Step]
          /\ steps'[Target(r)] = rows /\ \A v \in Workflows : v # Target(r) => steps'[v] = steps[v]
          /\ \A v \in Workflows : steps[v] \subseteq steps'[v] /\ past[v] \subseteq past'[v]
          /\ \A v \in Workflows : steps'[v] \in past'[v] /\ \A old \in past'[v] : Ordered(old)
      BY <1>1, <2>1, <2>3, SetStepsFacts
    <2>5. MovesAlone(r) /\ CopyApart(r) /\ RequestInv(r)'
      <3>1. Earned(r, "201")
        BY <1>1, <2>3, <2>4 DEF Earned
      <3> QED BY <2>1, <3>1, WrittenEnds
    <2>6. Grows(r)
      BY <1>1, <2>4 DEF Grows, RequestInv, Local, CopyInv
    <2>7. TablesInv'
      BY <1>1, <2>4, <2>5, <2>6, ExecutionsStay DEF TablesInv, Ordered, ActiveOf
    <2>8. /\ \A v \in Workflows : steps'[v] # {} => workflows'[v] # "absent"
          /\ \A e \in executions' : workflows'[e.workflow] # "absent"
      BY <1>1, <2>4, <2>5, <2>6, ExecutionsStay DEF TypeOK
    <2> QED BY <2>5, <2>6, <2>7, <2>8, StepKeeps
  <1> QED BY <1>2, <1>3

LEMMA CommitExecutionKeeps ==
  ASSUME CatalogInv, NEW r \in Requests, CommitExecution(r)
  PROVE  CatalogInv'
  <1> USE Typed DEF CatalogInv
  <1> DEFINE row == NewExecution(r)
  <1>1. /\ pc[r] = "writing" /\ req[r].kind = "execute" /\ executions' = executions \cup {row}
        /\ Written(r, "201") /\ UNCHANGED <<workflows, steps, past, seen>>
        /\ Target(r) \in Workflows /\ workflows[Target(r)] # "absent" /\ "active" \in seen[r]
        /\ tx[r].held # {} /\ tx[r].held \subseteq Step
        /\ \E rows \in past[Target(r)] : tx[r].held = ActiveOf(rows)
    BY DEF CommitExecution, Handles, RequestInv, Local, Asks, Rows, Target
  <1>2. row \in Row /\ row.request = r /\ row.workflow = Target(r) /\ row.steps = tx[r].held
    BY <1>1 DEF NewExecution, Row
  <1> HIDE DEF row
  <1>3. MovesAlone(r) /\ CopyApart(r) /\ RequestInv(r)' /\ pc'[r] = "done"
    <2>1. Earned(r, "201")
      BY <1>1, <1>2 DEF Earned
    <2> QED BY <1>1, <2>1, WrittenEnds
  <1>4. Grows(r)
    BY <1>1, <1>2 DEF Grows, RequestInv, Local, CopyInv
  <1>5. ASSUME NEW e \in executions'
        PROVE  /\ e.steps # {} /\ pc'[e.request] = "done" /\ "active" \in seen'[e.request]
               /\ \E rows \in past'[e.workflow] : e.steps = ActiveOf(rows)
               /\ workflows'[e.workflow] # "absent"
    <2>1. CASE e \in executions
      BY <1>1, <1>3, <1>4, <2>1, ExecutionsStay
    <2>2. CASE e = row
      BY <1>1, <1>2, <1>3, <2>2
    <2> QED BY <1>1, <2>1, <2>2
  <1>6. TablesInv'
    BY <1>1, <1>5 DEF TablesInv, Ordered, ActiveOf
  <1>7. \A v \in Workflows : steps'[v] # {} => workflows'[v] # "absent"
    BY <1>1 DEF TypeOK
  <1> QED BY <1>3, <1>4, <1>5, <1>6, <1>7, StepKeeps

\* What a copy has when it appears.
LEMMA CopyFacts ==
  ASSUME CatalogInv, NEW r \in Requests, CommitCopy(r)
  PROVE  /\ pc[r] = "writing" /\ req[r].kind = "duplicate" /\ Written(r, "201") /\ UNCHANGED executions
         /\ tx[r].copy \in Workflows /\ workflows[tx[r].copy] = "absent" /\ steps[tx[r].copy] = {}
         /\ tx[r].held \in past[Target(r)] /\ tx[r].held \in SUBSET Step /\ Ordered(tx[r].held)
         /\ SetWorkflow(tx[r].copy, "inactive") /\ SetSteps(tx[r].copy, tx[r].held)
  <1> USE Typed DEF CatalogInv
  <1>1. /\ pc[r] = "writing" /\ req[r].kind = "duplicate" /\ tx[r].rest = {} /\ Target(r) \in Workflows
        /\ SetWorkflow(tx[r].copy, "inactive") /\ SetSteps(tx[r].copy, tx[r].held) /\ Written(r, "201")
        /\ UNCHANGED executions
    BY DEF CommitCopy, Handles, Asks, Target
  <1>2. tx[r].copy # NoId /\ tx[r].copy \in Workflows /\ workflows[tx[r].copy] = "absent"
    BY <1>1 DEF RequestInv, CopyInv, Rows
  <1>3. steps[tx[r].copy] = {}
    BY <1>2 DEF TypeOK
  <1>4. tx[r].held \in past[Target(r)] /\ tx[r].held \in SUBSET Step
    <2>1. tx[r].rest \cup tx[r].held = tx[r].held
      BY <1>1
    <2> QED BY <1>1, <2>1 DEF RequestInv, Local, Rows
  <1>5. Ordered(tx[r].held)
    BY <1>1, <1>4 DEF TablesInv
  <1> QED BY <1>1, <1>2, <1>3, <1>4, <1>5

LEMMA CommitCopyKeeps ==
  ASSUME CatalogInv, NEW r \in Requests, CommitCopy(r)
  PROVE  CatalogInv'
  <1> USE Typed, CopyFacts DEF CatalogInv
  <1> DEFINE copy == tx[r].copy
  <1>1. /\ steps' \in [Workflows -> SUBSET Step] /\ past' \in [Workflows -> SUBSET SUBSET Step]
        /\ steps'[copy] = tx[r].held /\ \A v \in Workflows : v # copy => steps'[v] = steps[v]
        /\ \A v \in Workflows : steps[v] \subseteq steps'[v] /\ past[v] \subseteq past'[v]
        /\ \A v \in Workflows : steps'[v] \in past'[v] /\ \A old \in past'[v] : Ordered(old)
    <2>1. {} \subseteq tx[r].held
      OBVIOUS
    <2> QED BY <2>1, SetStepsFacts
  <1>2. /\ workflows' \in [Workflows -> States] /\ seen' \in [Requests -> SUBSET States]
        /\ workflows'[copy] = "inactive" /\ \A v \in Workflows : v # copy => workflows'[v] = workflows[v]
        /\ \A v \in Workflows : workflows[v] # "absent" => workflows'[v] # "absent"
        /\ \A q \in Requests : seen[q] \subseteq seen'[q] /\ (Open(q) => workflows'[Target(q)] \in seen'[q])
    BY SetWorkflowFacts
  <1>3. MovesAlone(r) /\ CopyApart(r) /\ RequestInv(r)'
    <2>1. Earned(r, "201")
      BY DEF Earned
    <2> QED BY <2>1, WrittenEnds
  <1>4. ASSUME NEW q \in Requests, q # r, tx[q].copy # NoId
        PROVE  workflows'[tx[q].copy] = "absent"
    <2>1. tx[q].copy \in Workflows /\ workflows[tx[q].copy] = "absent" /\ tx[q].copy # copy
      BY <1>4 DEF RequestInv, CopyInv, Rows
    <2> QED BY <1>2, <2>1
  <1>5. Grows(r)
    BY <1>1, <1>2, <1>4 DEF Grows
  <1>6. TablesInv'
    BY <1>1, <1>3, <1>5, ExecutionsStay DEF TablesInv, Ordered, ActiveOf
  <1>7. /\ \A v \in Workflows : steps'[v] # {} => workflows'[v] # "absent"
        /\ \A e \in executions' : workflows'[e.workflow] # "absent"
    <2>1. ASSUME NEW v \in Workflows, steps'[v] # {} PROVE workflows'[v] # "absent"
      <3>1. CASE v = copy
        BY <1>2, <3>1
      <3>2. CASE v # copy
        <4>1. steps[v] # {}
          BY <1>1, <2>1, <3>2
        <4>2. workflows[v] # "absent"
          BY <4>1 DEF TypeOK
        <4> QED BY <1>2, <4>2
      <3> QED BY <3>1, <3>2
    <2>2. \A e \in executions' : workflows'[e.workflow] # "absent"
      BY <1>3, <1>5, ExecutionsStay
    <2> QED BY <2>1, <2>2
  <1> QED BY <1>3, <1>5, <1>6, <1>7, StepKeeps

-----------------------------------------------------------------------------------
(* The theorems. *)

LEMMA CatalogStart == Init => CatalogInv
  <1> SUFFICES ASSUME Init PROVE CatalogInv
    OBVIOUS
  <1> USE NothingTyped, CatalogAssumption DEF Init
  <1>1. TypeOK
    <2>1. workflows \in [Workflows -> {"absent", "active", "inactive"}] /\ workflows[First] # "absent"
      OBVIOUS
    <2>2. PICK rows \in SUBSET Given : steps = [w \in Workflows |-> IF w = First THEN rows ELSE {}]
      OBVIOUS
    <2>3. steps \in [Workflows -> SUBSET Step] /\ \A w \in Workflows : steps[w] # {} => w = First
      BY <2>2 DEF Given
    <2>4. past \in [Workflows -> SUBSET SUBSET Step]
      BY <2>3
    <2>5. /\ pc \in [Requests -> {"new", "arrived", "checked", "begun", "writing", "done"}]
          /\ seen \in [Requests -> SUBSET {"absent", "active", "inactive"}]
          /\ answer \in [Requests -> Answers] /\ executions = {} /\ excused = {}
      BY DEF Answers
    <2>6. req \in [Requests -> Asks] /\ tx \in [Requests -> Rows]
      OBVIOUS
    <2> QED BY <2>1, <2>3, <2>4, <2>5, <2>6 DEF TypeOK, Asks, Rows
  <1>2. TablesInv
    <2>1. PICK rows \in SUBSET Given : /\ \A s, t \in rows : s.order = t.order => s = t
                                       /\ steps = [w \in Workflows |-> IF w = First THEN rows ELSE {}]
      OBVIOUS
    <2>2. \A w \in Workflows : Ordered(steps[w])
      BY <2>1 DEF Ordered
    <2> HIDE DEF Ordered
    <2>3. \A w \in Workflows : past[w] = {steps[w]}
      OBVIOUS
    <2>4. executions = {}
      OBVIOUS
    <2> HIDE DEF Init
    <2> QED BY <2>2, <2>3, <2>4 DEF TablesInv
  <1>3. ASSUME NEW r \in Requests
        PROVE  RequestInv(r) /\ tx[r].copy = NoId
    <2>1. pc[r] = "new" /\ tx[r] = NoRows /\ req[r] = Nothing /\ answer[r] = "none"
      OBVIOUS
    <2>2. NoRows.copy = NoId /\ NoRows.held = {} /\ Plain.misfit = "none"
      BY DEF NoRows, Plain
    <2> QED BY <2>1, <2>2 DEF RequestInv, Local, CopyInv, AnswerInv, Open, Misfit
  <1> QED BY <1>1, <1>2, <1>3 DEF CatalogInv

LEMMA CatalogStep == CatalogInv /\ [Next]_vars => CatalogInv'
  <1> SUFFICES ASSUME CatalogInv, [Next]_vars PROVE CatalogInv'
    OBVIOUS
  <1>1. ASSUME NEW r \in Requests, NEW kind \in Kinds, NEW v \in Bodies(kind),
               \/ ArriveRefused(r, kind, v)
               \/ \E w \in Workflows, s \in Asked(r, kind) : Arrive(r, kind, w, s, v)
        PROVE  CatalogInv'
    BY <1>1, ArriveKeeps
  <1>2. CASE UNCHANGED vars
    <2> USE <1>2 DEF vars, tables, request, history, CatalogInv
    <2>1. TypeOK' /\ TablesInv'
      BY DEF TypeOK, TablesInv, Ordered, ActiveOf
    <2>2. ASSUME NEW r \in Requests PROVE RequestInv(r)'
      <3>1. Target(r)' = Target(r) /\ Misfit(r)' = Misfit(r) /\ Open(r)' = Open(r)
        BY DEF Target, Misfit, Open
      <3>2. Local(r)'
        BY <3>1 DEF RequestInv, Local
      <3>3. CopyInv(r)' /\ AnswerInv(r)'
        BY <3>1 DEF RequestInv, CopyInv, AnswerInv, Taken
      <3> QED BY <3>2, <3>3 DEF RequestInv
    <2> QED BY <2>1, <2>2
  <1>3. ASSUME NEW r \in Requests,
               \/ FindMissing(r) \/ CheckStepOrder(r) \/ CheckActive(r) \/ ReadActiveSteps(r)
               \/ BeginCopy(r) \/ ReadSourceSteps(r) \/ DatabaseRefuses(r) \/ RequestBreaks(r)
        PROVE  CatalogInv'
    BY <1>3, ReadersKeep
  <1>4. ASSUME NEW r \in Requests,
               \/ CreateWorkflow(r) \/ UpdateWorkflow(r) \/ InsertStep(r)
               \/ CommitExecution(r) \/ CopyStep(r) \/ CommitCopy(r)
        PROVE  CatalogInv'
    BY <1>4, ChangeWorkflowKeeps, InsertStepKeeps, CommitExecutionKeeps, CopyStepKeeps, CommitCopyKeeps
  <1> QED BY <1>1, <1>2, <1>3, <1>4 DEF Next

THEOREM CatalogInvariance == Spec => []CatalogInv
  <1> QED BY CatalogStart, CatalogStep, PTL DEF Spec

\* Each variable has its type and the foreign keys hold, however many requests are
\* under way at a time and wherever they break (workflows.service.js).
THEOREM CatalogTypes == Spec => []TypeOK
  <1>1. CatalogInv => TypeOK
    BY DEF CatalogInv
  <1> QED BY <1>1, CatalogInvariance, PTL

\* Whoever races to add a step or copies a workflow, no workflow has two steps of the
\* same order (createWorkflowStep, duplicate).
THEOREM UniqueOrders == Spec => []StepOrderIsUnique
  <1>1. CatalogInv => StepOrderIsUnique
    BY DEF CatalogInv, TablesInv, Ordered, StepOrderIsUnique
  <1> QED BY <1>1, CatalogInvariance, PTL

\* An execution is whole from the moment it can be seen, of the active steps its
\* workflow had at one instant (createWorkflowExecution).
THEOREM Snapshots == Spec => []ExecutionIsASnapshot
  <1>1. CatalogInv => ExecutionIsASnapshot
    BY DEF CatalogInv, TablesInv, ActiveOf, ExecutionIsASnapshot
  <1> QED BY <1>1, CatalogInvariance, PTL

\* A copy appears at once and inactive, with the steps its source had at one instant
\* (duplicate).
THEOREM CopySnapshots == Spec => CopyIsASnapshot
  <1> DEFINE Appears ==
        \A w \in Workflows :
            workflows[w] = "absent" /\ steps'[w] # {} =>
                \E r \in Requests :
                    /\ req[r].kind = "duplicate" /\ tx[r].copy = w
                    /\ workflows'[w] = "inactive"
                    /\ steps'[w] \in past[Target(r)]
  <1>1. ASSUME CatalogInv, [Next]_vars PROVE [Appears]_vars
    <2> SUFFICES ASSUME NEW w \in Workflows, workflows[w] = "absent", steps'[w] # {}
                 PROVE  \E r \in Requests :
                           /\ req[r].kind = "duplicate" /\ tx[r].copy = w
                           /\ workflows'[w] = "inactive" /\ steps'[w] \in past[Target(r)]
      OBVIOUS
    <2>1. steps[w] = {}
      BY <1>1 DEF CatalogInv, TypeOK
    <2>2. ASSUME NEW r \in Requests, InsertStep(r) PROVE FALSE
      <3>1. Target(r) \in Workflows /\ workflows[Target(r)] # "absent"
        BY <1>1, <2>2, Typed DEF CatalogInv, InsertStep, Handles, RequestInv, Local, Target, Asks
      <3>2. steps'[w] = steps[w]
        BY <1>1, <2>2, <3>1, Typed DEF CatalogInv, InsertStep, SetSteps
      <3> QED BY <2>1, <3>2
    <2>3. ASSUME NEW r \in Requests, CommitCopy(r)
          PROVE  /\ req[r].kind = "duplicate" /\ tx[r].copy = w
                 /\ workflows'[w] = "inactive" /\ steps'[w] \in past[Target(r)]
      <3>1. /\ tx[r].copy \in Workflows /\ req[r].kind = "duplicate" /\ tx[r].held \in past[Target(r)]
            /\ steps' = [steps EXCEPT ![tx[r].copy] = tx[r].held]
            /\ workflows' = [workflows EXCEPT ![tx[r].copy] = "inactive"]
        BY <1>1, <2>3, CopyFacts DEF SetSteps, SetWorkflow
      <3>2. tx[r].copy = w
        BY <1>1, <2>1, <3>1, Typed DEF CatalogInv
      <3> QED BY <1>1, <3>1, <3>2, Typed DEF CatalogInv
    <2>4. ASSUME NEW r \in Requests, NEW kind \in Kinds, NEW v \in Bodies(kind),
                 \/ ArriveRefused(r, kind, v)
                 \/ \E u \in Workflows, s \in Asked(r, kind) : Arrive(r, kind, u, s, v)
          PROVE  UNCHANGED steps
      BY <2>4 DEF ArriveRefused, Arrive, tables
    <2>5. ASSUME NEW r \in Requests,
                 \/ CreateWorkflow(r) \/ FindMissing(r) \/ UpdateWorkflow(r) \/ CheckStepOrder(r)
                 \/ CheckActive(r) \/ ReadActiveSteps(r) \/ CommitExecution(r)
                 \/ BeginCopy(r) \/ ReadSourceSteps(r) \/ CopyStep(r) \/ DatabaseRefuses(r) \/ RequestBreaks(r)
          PROVE  UNCHANGED steps
      BY <2>5 DEF CreateWorkflow, FindMissing, UpdateWorkflow, CheckStepOrder, CheckActive, ReadActiveSteps,
                  CommitExecution, BeginCopy, ReadSourceSteps, CopyStep, DatabaseRefuses, RequestBreaks, tables
    <2>6. CASE UNCHANGED vars
      BY <2>1, <2>6 DEF vars, tables
    <2> QED BY <1>1, <2>1, <2>2, <2>3, <2>4, <2>5, <2>6 DEF Next
  <1> QED BY <1>1, CatalogInvariance, PTL DEF Spec, CopyIsASnapshot

\* Whatever the requests do to each other, a caller is told what is so, and a 500 is a
\* failing database or an input no validator looks at: every text they let through fits
\* its column, and every step they let through is taken by the handler of its action
\* (createWorkflowStep, createWorkflowExecution, duplicateWorkflow, the validators).
THEOREM TrueAnswers == Spec => []AnswerIsTrue
  <1>1. CatalogInv => AnswerIsTrue
    BY Typed DEF CatalogInv, RequestInv, AnswerInv, AnswerIsTrue, Asks, Kinds
  <1> QED BY <1>1, CatalogInvariance, PTL

===================================================================================
