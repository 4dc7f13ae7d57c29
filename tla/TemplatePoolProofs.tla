------------------------- MODULE TemplatePoolProofs -------------------------
(***************************************************************************)
(* Theorems about TemplatePool for every number of requests, every         *)
(* template and every pool size.                                           *)
(***************************************************************************)
EXTENDS TemplatePool, FiniteSetTheorems, TLAPS

Steps == Waiting \cup Reading \cup Done

\* Only GetSurveyTemplate nests its queries.
OthersPlain == \A p \in Others : pc[p] \in {"query", "busy"} \cup Done

PoolInv == TypeOK /\ NoLeak /\ OthersPlain

LEMMA SlotShape ==
    /\ \A slot \in Slots : /\ slot = <<slot[1], slot[2]>>
                           /\ slot[1] \in Requests
                           /\ slot[2] \in 1..3
                           /\ slot[1] \in Others => slot[2] = 1
    /\ \A r \in Readers : <<r, 1>> \in Slots /\ <<r, 2>> \in Slots /\ <<r, 3>> \in Slots
    /\ \A p \in Others : <<p, 1>> \in Slots
BY PoolAssumption DEF Slots, Requests

LEMMA StepDepths ==
    /\ \A s \in {"idle", "ok", "failed", "template", "sections", "query"} : Depth(s) = 0
    /\ \A s \in {"section", "questions", "busy"} : Depth(s) = 1
    /\ \A s \in {"question", "options"} : Depth(s) = 2
    /\ Depth("option") = 3
BY DEF Depth

(***************************************************************************)
(* A step of request p keeps the invariant if p has, after it, exactly the *)
(* connections of the query it is at, and the others keep theirs.          *)
(***************************************************************************)
LEMMA StepPooled ==
    ASSUME PoolInv,
           NEW p \in Requests, NEW step \in Steps,
           Goto(p, step),
           p \in Others => step \in {"query", "busy"} \cup Done,
           open' \in SUBSET Slots,
           \A slot \in Slots : slot \in open' <=>
               IF slot[1] = p THEN slot[2] <= Depth(step) ELSE slot \in open,
           at' \in [Requests -> [section : 0..NSections, question : 0..NQuestions]],
           answer' \in [Requests -> SUBSET Parts],
           intact' \in [Requests -> BOOLEAN]
    PROVE  PoolInv'
<1>1. pc' \in [Requests -> Steps] /\ pc'[p] = step /\ \A q \in Requests : q # p => pc'[q] = pc[q]
  BY DEF PoolInv, TypeOK, Goto, Steps
<1>2. TypeOK'
  BY <1>1 DEF TypeOK, Steps
<1>3. NoLeak'
  <2>1. ASSUME NEW slot \in Slots
        PROVE  slot \in open' <=> slot[2] <= Depth(pc'[slot[1]])
    <3>1. slot[1] \in Requests
      BY SlotShape
    <3>2. CASE slot[1] = p
      BY <3>2, <1>1
    <3>3. CASE slot[1] # p
      <4>1. slot \in open <=> slot[2] <= Depth(pc[slot[1]])
        BY DEF PoolInv, NoLeak
      <4>2. QED
        BY <3>1, <3>3, <4>1, <1>1
    <3>4. QED
      BY <3>2, <3>3
  <2>2. QED
    BY <2>1 DEF NoLeak
<1>4. OthersPlain'
  BY <1>1, PoolAssumption DEF PoolInv, OthersPlain, Requests
<1>5. QED
  BY <1>2, <1>3, <1>4 DEF PoolInv

LEMMA PoolInit == Init => PoolInv
<1>. SUFFICES ASSUME Init PROVE PoolInv
  OBVIOUS
<1>1. TypeOK
  BY PoolAssumption DEF Init, TypeOK, Done
<1>2. NoLeak
  <2>1. \A slot \in Slots : ~(slot[2] <= Depth(pc[slot[1]]))
    BY SlotShape, StepDepths DEF Init
  <2>2. QED
    BY <2>1 DEF NoLeak, Init
<1>3. OthersPlain
  BY DEF Init, OthersPlain, Requests, Done
<1>4. QED
  BY <1>1, <1>2, <1>3 DEF PoolInv

\* The parts a reader collects are parts of the template.
LEMMA PartsTyped ==
    ASSUME TypeOK, NEW r \in Requests
    PROVE  /\ SectionPart(at[r].section) \in Parts
           /\ QuestionPart(at[r].section, at[r].question) \in Parts
           /\ OptionsPart(at[r].section, at[r].question) \in Parts
           /\ \A parts \in SUBSET Parts : Collect(r, parts) => answer' \in [Requests -> SUBSET Parts]
<1>1. at[r].section \in 0..NSections /\ at[r].question \in 0..NQuestions /\ 0 \in 0..NQuestions
  BY PoolAssumption DEF TypeOK
<1>2. /\ SectionPart(at[r].section) \in Parts
      /\ QuestionPart(at[r].section, at[r].question) \in Parts
      /\ OptionsPart(at[r].section, at[r].question) \in Parts
  BY <1>1 DEF SectionPart, QuestionPart, OptionsPart, Parts
<1>3. ASSUME NEW parts \in SUBSET Parts, Collect(r, parts)
      PROVE  answer' \in [Requests -> SUBSET Parts]
  BY <1>3 DEF Collect, TypeOK
<1>4. QED
  BY <1>2, <1>3

(***************************************************************************)
(* The three kinds of steps: those that leave the connections alone, those *)
(* that open the next one, and those that close the last one.              *)
(***************************************************************************)
Moves(p, step) ==
    /\ Goto(p, step)
    /\ p \in Others => step \in {"query", "busy"} \cup Done
    /\ at' \in [Requests -> [section : 0..NSections, question : 0..NQuestions]]
    /\ answer' \in [Requests -> SUBSET Parts]
    /\ intact' \in [Requests -> BOOLEAN]

LEMMA DepthsNat == \A s \in Steps : Depth(s) \in 0..3
BY StepDepths DEF Steps, Waiting, Reading, Done

LEMMA KeepsConnections ==
    ASSUME PoolInv, NEW p \in Requests, NEW step \in Steps, Moves(p, step),
           open' = open, Depth(step) = Depth(pc[p])
    PROVE  PoolInv'
<1>1. \A slot \in Slots : slot \in open' <=>
            IF slot[1] = p THEN slot[2] <= Depth(step) ELSE slot \in open
  BY DEF PoolInv, NoLeak
<1>2. open' \in SUBSET Slots
  BY DEF PoolInv, TypeOK
<1>3. QED
  BY <1>1, <1>2, StepPooled DEF Moves

LEMMA OpensConnection ==
    ASSUME PoolInv, NEW p \in Requests, NEW step \in Steps, Moves(p, step),
           NEW d \in 1..3, <<p, d>> \in Slots, open' = open \cup {<<p, d>>},
           Depth(pc[p]) = d - 1, Depth(step) = d
    PROVE  PoolInv'
<1>1. ASSUME NEW slot \in Slots
      PROVE  slot \in open' <=>
                IF slot[1] = p THEN slot[2] <= Depth(step) ELSE slot \in open
  <2>1. slot = <<slot[1], slot[2]>> /\ slot[2] \in 1..3
    BY SlotShape
  <2>2. slot \in open <=> slot[2] <= Depth(pc[slot[1]])
    BY DEF PoolInv, NoLeak
  <2>3. slot = <<p, d>> <=> slot[1] = p /\ slot[2] = d
    BY <2>1
  <2>4. QED
    BY <2>1, <2>2, <2>3
<1>2. open' \in SUBSET Slots
  BY DEF PoolInv, TypeOK
<1>3. QED
  BY <1>1, <1>2, StepPooled DEF Moves

LEMMA ClosesConnection ==
    ASSUME PoolInv, NEW p \in Requests, NEW step \in Steps, Moves(p, step),
           NEW d \in 1..3, open' = open \ {<<p, d>>},
           Depth(pc[p]) = d, Depth(step) = d - 1
    PROVE  PoolInv'
<1>1. ASSUME NEW slot \in Slots
      PROVE  slot \in open' <=>
                IF slot[1] = p THEN slot[2] <= Depth(step) ELSE slot \in open
  <2>1. slot = <<slot[1], slot[2]>> /\ slot[2] \in 1..3
    BY SlotShape
  <2>2. slot \in open <=> slot[2] <= Depth(pc[slot[1]])
    BY DEF PoolInv, NoLeak
  <2>3. slot = <<p, d>> <=> slot[1] = p /\ slot[2] = d
    BY <2>1
  <2>4. QED
    BY <2>1, <2>2, <2>3
<1>2. open' \in SUBSET Slots
  BY DEF PoolInv, TypeOK
<1>3. QED
  BY <1>1, <1>2, StepPooled DEF Moves

(***************************************************************************)
(* Every step keeps the invariant.                                         *)
(***************************************************************************)
LEMMA ReaderStep ==
    ASSUME PoolInv, NEW r \in Readers,
           \/ Begin(r) \/ ReadTemplate(r) \/ OpenSections(r) \/ OpenQuestions(r)
           \/ OpenOptions(r) \/ NextSection(r) \/ EndSections(r) \/ NextQuestion(r)
           \/ EndQuestions(r) \/ ReadOptions(r) \/ Break(r)
    PROVE  PoolInv'
<1>. USE DEF Steps, Waiting, Reading, Done, Goto, Fails
<1>1. r \in Requests /\ r \notin Others
  BY PoolAssumption DEF Requests
<1>2. \A d \in 1..3 : <<r, d>> \in Slots
  BY DEF Slots
<1>3. /\ TypeOK
      /\ at \in [Requests -> [section : 0..NSections, question : 0..NQuestions]]
      /\ answer \in [Requests -> SUBSET Parts]
      /\ intact \in [Requests -> BOOLEAN]
      /\ at[r].section \in 0..NSections /\ at[r].question \in 0..NQuestions
  BY <1>1 DEF PoolInv, TypeOK
<1>4. Fails(r) => intact' \in [Requests -> BOOLEAN]
  BY <1>3
<1>5. \A options \in {{}, {OptionsPart(at[r].section, at[r].question)}} :
         AppendQuestion(r, options) =>
            /\ pc' = [pc EXCEPT ![r] = "question"]
            /\ at' = at
            /\ answer' \in [Requests -> SUBSET Parts]
  BY <1>1, <1>3, PartsTyped DEF AppendQuestion
<1>6. Collect(r, {SectionPart(at[r].section)}) => answer' \in [Requests -> SUBSET Parts]
  BY <1>1, <1>3, PartsTyped
<1>7. CASE Begin(r)
  <2>1. Moves(r, "template")
    BY <1>1, <1>3, <1>7 DEF Begin, Moves
  <2>2. QED
    BY <1>1, <1>7, <2>1, KeepsConnections, StepDepths DEF Begin
<1>8. CASE ReadTemplate(r)
  <2>1. Moves(r, "sections")
    BY <1>1, <1>3, <1>8 DEF ReadTemplate, Moves
  <2>2. QED
    BY <1>1, <1>8, <2>1, KeepsConnections, StepDepths DEF ReadTemplate
<1>9. CASE OpenSections(r)
  <2>1. Moves(r, "section")
    BY <1>1, <1>3, <1>9, PoolAssumption DEF OpenSections, Moves
  <2>2. QED
    BY <1>1, <1>2, <1>9, <2>1, OpensConnection, StepDepths DEF OpenSections
<1>10. CASE OpenQuestions(r)
  <2>1. Moves(r, "question")
    BY <1>1, <1>3, <1>10 DEF OpenQuestions, Moves
  <2>2. QED
    BY <1>1, <1>2, <1>10, <2>1, OpensConnection, StepDepths DEF OpenQuestions
<1>11. CASE OpenOptions(r)
  <2>1. Moves(r, "option")
    BY <1>1, <1>3, <1>11 DEF OpenOptions, Moves
  <2>2. QED
    BY <1>1, <1>2, <1>11, <2>1, OpensConnection, StepDepths DEF OpenOptions
<1>12. CASE NextSection(r)
  <2>1. at[r].section + 1 \in 0..NSections /\ 0 \in 0..NQuestions
    BY <1>3, <1>12, PoolAssumption DEF NextSection
  <2>2. Moves(r, "questions")
    BY <1>1, <1>3, <1>12, <2>1 DEF NextSection, Moves
  <2>3. QED
    BY <1>1, <1>12, <2>2, KeepsConnections, StepDepths DEF NextSection
<1>13. CASE EndSections(r) \/ SectionsBreak(r)
  <2>1. Moves(r, "ok")
    BY <1>1, <1>3, <1>4, <1>13 DEF EndSections, SectionsBreak, CloseSections, Moves
  <2>2. pc[r] = "section" /\ open' = open \ {<<r, 1>>}
    BY <1>13 DEF EndSections, SectionsBreak, CloseSections
  <2>3. QED
    BY <1>1, <2>1, <2>2, ClosesConnection, StepDepths
<1>14. CASE NextQuestion(r)
  <2>1. at[r].question + 1 \in 0..NQuestions
    BY <1>3, <1>14, PoolAssumption DEF NextQuestion
  <2>2. Moves(r, "options")
    BY <1>1, <1>3, <1>14, <2>1 DEF NextQuestion, Moves
  <2>3. QED
    BY <1>1, <1>14, <2>2, KeepsConnections, StepDepths DEF NextQuestion
<1>15. CASE EndQuestions(r) \/ QuestionsBreak(r)
  <2>1. Moves(r, "section")
    BY <1>1, <1>3, <1>4, <1>6, <1>15 DEF EndQuestions, QuestionsBreak, CloseQuestions, Moves
  <2>2. pc[r] = "question" /\ open' = open \ {<<r, 2>>}
    BY <1>15 DEF EndQuestions, QuestionsBreak, CloseQuestions
  <2>3. QED
    BY <1>1, <2>1, <2>2, ClosesConnection, StepDepths
<1>16. CASE ReadOptions(r) \/ OptionsBreak(r)
  <2>1. Moves(r, "question")
    BY <1>1, <1>3, <1>4, <1>5, <1>16 DEF ReadOptions, OptionsBreak, Moves
  <2>2. pc[r] = "option" /\ open' = open \ {<<r, 3>>}
    BY <1>16 DEF ReadOptions, OptionsBreak
  <2>3. QED
    BY <1>1, <2>1, <2>2, ClosesConnection, StepDepths
<1>17. CASE TemplateFails(r)
  <2>1. Moves(r, "failed")
    BY <1>1, <1>3, <1>4, <1>17 DEF TemplateFails, Moves
  <2>2. QED
    BY <1>1, <1>17, <2>1, KeepsConnections, StepDepths DEF TemplateFails
<1>18. CASE QuestionsFail(r)
  <2>1. Moves(r, "section")
    BY <1>1, <1>3, <1>4, <1>6, <1>18 DEF QuestionsFail, Moves
  <2>2. QED
    BY <1>1, <1>18, <2>1, KeepsConnections, StepDepths DEF QuestionsFail
<1>19. CASE OptionsFail(r)
  <2>1. Moves(r, "question")
    BY <1>1, <1>3, <1>4, <1>5, <1>19 DEF OptionsFail, Moves
  <2>2. QED
    BY <1>1, <1>19, <2>1, KeepsConnections, StepDepths DEF OptionsFail
<1>20. CASE SectionUnreadable(r)
  <2>1. Moves(r, "failed")
    BY <1>1, <1>3, <1>4, <1>20 DEF SectionUnreadable, Moves
  <2>2. QED
    BY <1>1, <1>20, <2>1, ClosesConnection, StepDepths DEF SectionUnreadable
<1>21. CASE QuestionUnreadable(r)
  <2>1. at[r].question + 1 \in 0..NQuestions
    BY <1>3, <1>21, PoolAssumption DEF QuestionUnreadable
  <2>2. Moves(r, "question")
    BY <1>1, <1>3, <1>4, <1>21, <2>1 DEF QuestionUnreadable, Moves
  <2>3. QED
    BY <1>1, <1>21, <2>2, KeepsConnections, StepDepths DEF QuestionUnreadable
<1>22. QED
  BY <1>7, <1>8, <1>9, <1>10, <1>11, <1>12, <1>13, <1>14, <1>15, <1>16, <1>17, <1>18, <1>19,
     <1>20, <1>21 DEF Break

LEMMA OtherStep ==
    ASSUME PoolInv, NEW p \in Others, BeginOther(p) \/ Query(p) \/ Release(p)
    PROVE  PoolInv'
<1>. USE DEF Steps, Waiting, Reading, Done, Goto
<1>1. p \in Requests /\ <<p, 1>> \in Slots
  BY DEF Requests, Slots
<1>2. CASE BeginOther(p)
  <2>1. Moves(p, "query")
    BY <1>2, PoolAssumption DEF BeginOther, PoolInv, TypeOK, Moves
  <2>2. QED
    BY <1>1, <1>2, <2>1, KeepsConnections, StepDepths DEF BeginOther
<1>3. CASE Query(p)
  <2>1. Moves(p, "busy")
    BY <1>3, PoolAssumption DEF Query, PoolInv, TypeOK, Moves
  <2>2. /\ open' = open \cup {<<p, 1>>}
        /\ Depth(pc[p]) = 1 - 1 /\ Depth("busy") = 1
    BY <1>3, StepDepths DEF Query
  <2>3. "busy" \in Steps /\ 1 \in 1..3
    OBVIOUS
  <2>4. QED
    BY <1>1, <2>1, <2>2, <2>3, OpensConnection
<1>4. CASE Release(p)
  <2>1. Moves(p, "ok")
    BY <1>4, PoolAssumption DEF Release, PoolInv, TypeOK, Moves
  <2>2. QED
    BY <1>1, <1>4, <2>1, ClosesConnection, StepDepths DEF Release
<1>5. QED
  BY <1>2, <1>3, <1>4

LEMMA ReturnStep ==
    ASSUME PoolInv, NEW p \in Requests, Return(p)
    PROVE  PoolInv'
<1>1. Moves(p, "idle")
  BY DEF Return, PoolInv, TypeOK, Moves, Goto, Done
<1>2. QED
  BY <1>1, KeepsConnections, StepDepths DEF Return, Steps, Done

LEMMA ExpireStep ==
    ASSUME PoolInv, NEW p \in Requests, Expire(p)
    PROVE  PoolInv'
<1>1. PICK step \in {"ok", "failed"} : Goto(p, step)
  BY DEF Expire, Expired
<1>2. answer' \in [Requests -> SUBSET Parts]
  <2>1. Unfinished(p) \in SUBSET Parts
    BY PartsTyped DEF Unfinished, PoolInv
  <2>2. Collect(p, Unfinished(p))
    BY DEF Expire
  <2>3. QED
    BY <2>1, <2>2, PartsTyped DEF PoolInv
<1>3. /\ at' \in [Requests -> [section : 0..NSections, question : 0..NQuestions]]
      /\ intact' \in [Requests -> BOOLEAN]
  BY DEF Expire, PoolInv, TypeOK
<1>4. open' \in SUBSET Slots
  BY DEF Expire, ClosedRows, PoolInv, TypeOK
<1>5. ASSUME NEW slot \in Slots
      PROVE  slot \in open' <=>
                IF slot[1] = p THEN slot[2] <= Depth(step) ELSE slot \in open
  <2>1. ~(slot[2] <= Depth(step))
    BY SlotShape, StepDepths
  <2>2. slot \in open' <=> slot \in open /\ slot[1] # p
    BY DEF Expire, ClosedRows
  <2>3. QED
    BY <2>1, <2>2
<1>6. QED
  BY <1>1, <1>2, <1>3, <1>4, <1>5, StepPooled DEF Steps, Done

LEMMA PoolStep == PoolInv /\ [Next]_vars => PoolInv'
<1>. SUFFICES ASSUME PoolInv, [Next]_vars PROVE PoolInv'
  OBVIOUS
<1>1. ASSUME NEW p \in Requests, Arrive(p) \/ Acquire(p) \/ Proceed(p) \/ Expire(p)
      PROVE  PoolInv'
  BY <1>1, ReaderStep, OtherStep, ReturnStep, ExpireStep DEF Arrive, Acquire, Proceed
<1>2. ASSUME NEW r \in Readers, Break(r)
      PROVE  PoolInv'
  BY <1>2, ReaderStep
<1>3. CASE UNCHANGED vars
  BY <1>3 DEF vars, PoolInv, TypeOK, NoLeak, OthersPlain, Depth
<1>4. QED
  BY <1>1, <1>2, <1>3 DEF Next

LEMMA PoolInvariant == Spec => []PoolInv
<1>1. QED
  BY PoolInit, PoolStep, PTL DEF Spec

\* Type correctness of the pool, the requests and their answers.
THEOREM PoolTypeCorrect == Spec => []TypeOK
<1>1. PoolInv => TypeOK
  BY DEF PoolInv
<1>2. QED
  BY <1>1, PoolInvariant, PTL

\* GetSurveyTemplate gives back every connection on every path, for every
\* template, however many requests run and fail (data/survey.go:66-149).
THEOREM NothingLeaks == Spec => []NoLeak
<1>1. PoolInv => NoLeak
  BY DEF PoolInv
<1>2. QED
  BY <1>1, PoolInvariant, PTL

(***************************************************************************)
(* Whatever the size of the pool and of the template: while there are more *)
(* than two connections for every reader that runs, the pool is never      *)
(* exhausted by requests that all wait for another connection, because a   *)
(* reader that waits holds at most two and everybody else none.            *)
(***************************************************************************)
THEOREM PoolNeverStuck == Spec => []NeverAllWaiting
<1>. DEFINE Active == {r \in Readers : Busy(r)}
<1>1. PoolInv => NeverAllWaiting
  <2>. SUFFICES ASSUME PoolInv, MaxOpenConns > 2 * Cardinality(Active),
                       \A p \in Requests : pc[p] \notin Reading
                PROVE  Available
    BY DEF NeverAllWaiting
  <2>1. ASSUME NEW slot \in open
        PROVE  slot \in Active \X (1..2)
    <3>1. slot \in Slots /\ slot[2] <= Depth(pc[slot[1]])
      BY DEF PoolInv, NoLeak
    <3>2. /\ slot = <<slot[1], slot[2]>> /\ slot[1] \in Requests /\ slot[2] \in 1..3
          /\ slot[1] \in Others => slot[2] = 1
      BY <3>1, SlotShape
    <3>3. pc[slot[1]] \in Steps /\ pc[slot[1]] \notin Reading
      BY <3>2 DEF PoolInv, TypeOK, Steps
    <3>4. Depth(pc[slot[1]]) <= 2
      BY <3>3, StepDepths DEF Steps, Waiting, Reading, Done
    <3>5. slot[1] \notin Others
      <4>1. SUFFICES ASSUME slot[1] \in Others PROVE FALSE
        OBVIOUS
      <4>2. pc[slot[1]] \in {"query", "idle", "ok", "failed"}
        BY <4>1, <3>3 DEF PoolInv, OthersPlain, Reading, Done
      <4>3. Depth(pc[slot[1]]) = 0
        BY <4>2, StepDepths
      <4>4. QED
        BY <4>3, <3>1, <3>2
    <3>6. slot[2] \in 1..2
      BY <3>1, <3>2, <3>3, <3>4, DepthsNat
    <3>7. pc[slot[1]] \notin Done
      <4>1. \A s \in Done : Depth(s) = 0
        BY StepDepths DEF Done
      <4>2. QED
        BY <4>1, <3>1, <3>2
    <3>8. QED
      BY <3>2, <3>5, <3>6, <3>7 DEF Requests, Busy
  <2>2. /\ IsFiniteSet(1..2) /\ Cardinality(1..2) = 2
    <3>1. 1..2 = {1} \cup {2} /\ 2 \notin {1}
      OBVIOUS
    <3>2. IsFiniteSet({1}) /\ Cardinality({1}) = 1
      BY FS_Singleton
    <3>3. QED
      BY <3>1, <3>2, FS_AddElement
  <2>a. IsFiniteSet(Active)
    BY PoolAssumption, FS_Subset, Active \subseteq Readers
  <2>3. /\ IsFiniteSet(Active \X (1..2))
        /\ Cardinality(Active \X (1..2)) = Cardinality(Active) * 2
    BY <2>2, <2>a, FS_Product
  <2>4. Cardinality(open) <= Cardinality(Active \X (1..2)) /\ IsFiniteSet(open)
    BY <2>1, <2>3, FS_Subset
  <2>5. Cardinality(open) \in Nat /\ Cardinality(Active) \in Nat
    BY <2>4, <2>a, FS_CardinalityType
  <2>6. QED
    BY <2>3, <2>4, <2>5, PoolAssumption DEF Available
<1>2. QED
  BY <1>1, PoolInvariant, PTL

-----------------------------------------------------------------------------
(* What a reader has collected.                                            *)

\* The first n sections with all that belongs to them, and the first n
\* questions of section s with their options.
ThroughSection(n) ==
    {SectionPart(s) : s \in 1..n}
        \cup {QuestionPart(s, q) : s \in 1..n, q \in 1..NQuestions}
        \cup {OptionsPart(s, q) : s \in 1..n, q \in 1..NQuestions}

ThroughQuestion(s, n) ==
    {QuestionPart(s, q) : q \in 1..n} \cup {OptionsPart(s, q) : q \in 1..n}

\* A reader without a failure has all that its loops have passed.
Collected(step, where) ==
    CASE step = "section" -> ThroughSection(where.section)
      [] step \in {"questions", "question"} ->
            ThroughSection(where.section - 1) \cup ThroughQuestion(where.section, where.question)
      [] step \in {"options", "option"} ->
            ThroughSection(where.section - 1) \cup ThroughQuestion(where.section, where.question - 1)
      [] step = "ok" -> WholeTemplate
      [] OTHER -> {}

Placed(step, where) ==
    /\ step \in {"questions", "question", "options", "option"} => where.section >= 1
    /\ step = "questions" => where.question = 0
    /\ step \in {"options", "option"} => where.question >= 1

PartsInv ==
    \A r \in Readers : intact[r] => /\ answer[r] = Collected(pc[r], at[r])
                                   /\ Placed(pc[r], at[r])

\* The ends of the loops.
LEMMA NothingYet ==
    /\ ThroughSection(0) = {}
    /\ \A s \in Nat : ThroughQuestion(s, 0) = {}
    /\ ThroughSection(NSections) = WholeTemplate
BY DEF ThroughSection, ThroughQuestion, WholeTemplate

\* The question the inner loop has just appended.
LEMMA OneMoreQuestion ==
    ASSUME NEW s \in Nat, NEW n \in Nat \ {0}
    PROVE  ThroughQuestion(s, n)
              = ThroughQuestion(s, n - 1) \cup ({QuestionPart(s, n)} \cup {OptionsPart(s, n)})
<1>1. 1..n = (1..(n - 1)) \cup {n}
  OBVIOUS
<1>2. QED
  BY <1>1 DEF ThroughQuestion

\* The section the outer loop has just appended.
LEMMA OneMoreSection ==
    ASSUME NEW n \in Nat \ {0}
    PROVE  ThroughSection(n)
              = (ThroughSection(n - 1) \cup ThroughQuestion(n, NQuestions)) \cup {SectionPart(n)}
<1>1. 1..n = (1..(n - 1)) \cup {n}
  OBVIOUS
<1>2. QED
  BY <1>1 DEF ThroughSection, ThroughQuestion

\* A step of reader r, after which it has what it should or has failed.
LEMMA StepCollected ==
    ASSUME PoolInv, PartsInv, NEW r \in Readers, NEW step \in Steps,
           Goto(r, step),
           \A q \in Readers \ {r} : at'[q] = at[q] /\ answer'[q] = answer[q] /\ intact'[q] = intact[q],
           intact'[r] => answer'[r] = Collected(step, at'[r]) /\ Placed(step, at'[r])
    PROVE  PartsInv'
<1>1. pc'[r] = step /\ \A q \in Readers \ {r} : pc'[q] = pc[q]
  BY DEF PoolInv, TypeOK, Goto, Requests
<1>2. ASSUME NEW q \in Readers, intact'[q]
      PROVE  answer'[q] = Collected(pc'[q], at'[q]) /\ Placed(pc'[q], at'[q])
  <2>1. CASE q = r
    BY <1>1, <1>2, <2>1
  <2>2. CASE q # r
    <3>1. pc'[q] = pc[q] /\ at'[q] = at[q] /\ answer'[q] = answer[q] /\ intact[q]
      BY <1>1, <1>2, <2>2
    <3>2. QED
      BY <3>1 DEF PartsInv
  <2>3. QED
    BY <2>1, <2>2
<1>3. QED
  BY <1>2 DEF PartsInv, Collected, Placed

LEMMA ReaderCollects ==
    ASSUME PoolInv, PartsInv, NEW r \in Readers,
           \/ Begin(r) \/ ReadTemplate(r) \/ OpenSections(r) \/ OpenQuestions(r)
           \/ OpenOptions(r) \/ NextSection(r) \/ EndSections(r) \/ NextQuestion(r)
           \/ EndQuestions(r) \/ ReadOptions(r)
    PROVE  PartsInv'
<1>1. /\ r \in Requests
      /\ at[r].section \in 0..NSections /\ at[r].question \in 0..NQuestions
      /\ at[r] = [section |-> at[r].section, question |-> at[r].question]
  BY DEF PoolInv, TypeOK, Requests
<1>2. intact' = intact
  BY DEF Begin, ReadTemplate, OpenSections, OpenQuestions, OpenOptions, NextSection, EndSections,
         NextQuestion, EndQuestions, ReadOptions, CloseSections, CloseQuestions
<1>3. intact[r] => answer[r] = Collected(pc[r], at[r]) /\ Placed(pc[r], at[r])
  BY DEF PartsInv
<1>4. NSections \in Nat /\ NQuestions \in Nat
  BY PoolAssumption
<1>5. \A q \in Readers \ {r} : at'[q] = at[q] /\ answer'[q] = answer[q]
  BY DEF Begin, ReadTemplate, OpenSections, OpenQuestions, OpenOptions, NextSection, EndSections,
         NextQuestion, EndQuestions, ReadOptions, CloseSections, CloseQuestions, AppendQuestion,
         Collect, PoolInv, TypeOK, Requests
\* A step of r that leads to a place with what should be collected there.
<1>6. ASSUME NEW step \in Steps, Goto(r, step),
             intact[r] => answer'[r] = Collected(step, at'[r]) /\ Placed(step, at'[r])
      PROVE  PartsInv'
  BY <1>2, <1>5, <1>6, StepCollected
<1>7. CASE Begin(r) \/ ReadTemplate(r)
  BY <1>3, <1>6, <1>7 DEF Begin, ReadTemplate, Collected, Placed, Steps, Waiting
<1>8. CASE OpenSections(r)
  <2>1. at'[r] = [section |-> 0, question |-> 0] /\ answer'[r] = answer[r]
    BY <1>1, <1>8 DEF OpenSections, PoolInv, TypeOK
  <2>2. intact[r] => answer[r] = {}
    BY <1>3, <1>8 DEF OpenSections, Collected
  <2>3. ThroughSection(at'[r].section) = {}
    BY <2>1, NothingYet
  <2>4. intact[r] => answer'[r] = Collected("section", at'[r]) /\ Placed("section", at'[r])
    BY <2>1, <2>2, <2>3 DEF Collected, Placed
  <2>5. QED
    BY <1>6, <1>8, <2>4 DEF OpenSections, Steps, Reading
<1>9. CASE OpenQuestions(r) \/ OpenOptions(r)
  BY <1>3, <1>6, <1>9 DEF OpenQuestions, OpenOptions, Collected, Placed, Steps, Reading
<1>10. CASE NextSection(r)
  <2>1. at'[r] = [section |-> at[r].section + 1, question |-> 0] /\ answer'[r] = answer[r]
    BY <1>1, <1>10 DEF NextSection, PoolInv, TypeOK
  <2>2. ThroughQuestion(at[r].section + 1, 0) = {}
    BY <1>1, NothingYet
  <2>3. intact[r] => answer[r] = ThroughSection(at[r].section)
    BY <1>3, <1>10 DEF NextSection, Collected
  <2>4. (at[r].section + 1) - 1 = at[r].section /\ at[r].section + 1 >= 1
    BY <1>1
  <2>5. intact[r] => answer'[r] = Collected("questions", at'[r]) /\ Placed("questions", at'[r])
    BY <2>1, <2>2, <2>3, <2>4 DEF Collected, Placed
  <2>6. QED
    BY <1>6, <1>10, <2>5 DEF NextSection, Steps, Waiting
<1>11. CASE EndSections(r)
  <2>1. at'[r] = at[r] /\ answer'[r] = answer[r] /\ at[r].section = NSections
    BY <1>11 DEF EndSections, CloseSections
  <2>2. intact[r] => answer[r] = WholeTemplate
    BY <1>3, <1>11, <2>1, NothingYet DEF EndSections, Collected
  <2>3. QED
    BY <1>6, <1>11, <2>1, <2>2
       DEF EndSections, CloseSections, Collected, Placed, Steps, Done
<1>12. CASE NextQuestion(r)
  <2>1. at'[r] = [section |-> at[r].section, question |-> at[r].question + 1] /\ answer'[r] = answer[r]
    BY <1>1, <1>12 DEF NextQuestion, PoolInv, TypeOK
  <2>2. (at[r].question + 1) - 1 = at[r].question /\ at[r].question + 1 >= 1
    BY <1>1
  <2>3. intact[r] => answer'[r] = Collected("options", at'[r]) /\ Placed("options", at'[r])
    BY <1>3, <1>12, <2>1, <2>2 DEF NextQuestion, Collected, Placed
  <2>4. QED
    BY <1>6, <1>12, <2>3 DEF NextQuestion, Steps, Waiting
<1>13. CASE EndQuestions(r)
  <2>1. /\ at'[r] = at[r] /\ answer'[r] = answer[r] \cup {SectionPart(at[r].section)}
        /\ at[r].question = NQuestions /\ pc[r] = "question"
    BY <1>1, <1>13 DEF EndQuestions, CloseQuestions, Collect, PoolInv, TypeOK
  <2>2. intact[r] => at[r].section \in Nat \ {0}
    BY <1>1, <1>3, <1>4, <2>1 DEF Placed
  <2>3. intact[r] => answer'[r] = ThroughSection(at[r].section)
    BY <1>3, <2>1, <2>2, OneMoreSection DEF Collected
  <2>4. QED
    BY <1>6, <1>13, <2>1, <2>3
       DEF EndQuestions, CloseQuestions, Collected, Placed, Steps, Reading
<1>14. CASE ReadOptions(r)
  <2>1. /\ at'[r] = at[r] /\ pc[r] = "option"
        /\ answer'[r] = answer[r] \cup ({QuestionPart(at[r].section, at[r].question)}
                                        \cup {OptionsPart(at[r].section, at[r].question)})
    BY <1>1, <1>14 DEF ReadOptions, AppendQuestion, Collect, PoolInv, TypeOK
  <2>2. intact[r] => at[r].section \in Nat \ {0} /\ at[r].question \in Nat \ {0}
    BY <1>1, <1>3, <1>4, <2>1 DEF Placed
  <2>3. intact[r] => answer'[r] = ThroughSection(at[r].section - 1)
                                    \cup ThroughQuestion(at[r].section, at[r].question)
    BY <1>3, <2>1, <2>2, OneMoreQuestion DEF Collected
  <2>4. QED
    BY <1>3, <1>6, <1>14, <2>1, <2>3
       DEF ReadOptions, AppendQuestion, Collected, Placed, Steps, Reading
<1>15. QED
  BY <1>7, <1>8, <1>9, <1>10, <1>11, <1>12, <1>13, <1>14

\* A statement that fails is remembered until the request has returned.
LEMMA FailureRemembered ==
    ASSUME PoolInv, PartsInv, NEW p \in Requests,
           NEW step \in Steps, Goto(p, step),
           intact' = [intact EXCEPT ![p] = FALSE],
           at' = at \/ \E place : at' = [at EXCEPT ![p] = place],
           answer' = answer \/ \E parts : Collect(p, parts)
    PROVE  PartsInv'
<1>1. \A q \in Readers \ {p} : /\ at'[q] = at[q] /\ answer'[q] = answer[q]
                               /\ intact'[q] = intact[q] /\ pc'[q] = pc[q]
  BY DEF Collect, Goto, PoolInv, TypeOK, Requests
<1>2. intact'[p] = FALSE
  BY DEF PoolInv, TypeOK
<1>3. QED
  BY <1>1, <1>2 DEF PartsInv, Collected, Placed

LEMMA PartsStep == PoolInv /\ PartsInv /\ [Next]_vars => PartsInv'
<1> SUFFICES ASSUME PoolInv, PartsInv, [Next]_vars PROVE PartsInv'
  OBVIOUS
<1> USE DEF Steps, Waiting, Reading, Done
<1>1. CASE UNCHANGED vars
  BY <1>1 DEF vars, PartsInv, Collected, Placed
<1>2. ASSUME NEW r \in Readers, Break(r)
      PROVE  PartsInv'
  <2>1. r \in Requests
    BY DEF Requests
  <2>2. \E step \in Steps : Goto(r, step)
    BY <1>2 DEF Break, TemplateFails, SectionsBreak, SectionUnreadable, QuestionsFail,
                QuestionsBreak, QuestionUnreadable, OptionsFail, OptionsBreak, CloseSections,
                CloseQuestions, AppendQuestion
  <2>3. intact' = [intact EXCEPT ![r] = FALSE]
    BY <1>2 DEF Break, TemplateFails, SectionsBreak, SectionUnreadable, QuestionsFail,
                QuestionsBreak, QuestionUnreadable, OptionsFail, OptionsBreak, Fails
  <2>4. at' = at \/ \E place : at' = [at EXCEPT ![r] = place]
    BY <1>2 DEF Break, TemplateFails, SectionsBreak, SectionUnreadable, QuestionsFail,
                QuestionsBreak, QuestionUnreadable, OptionsFail, OptionsBreak, CloseSections,
                CloseQuestions, AppendQuestion
  <2>5. answer' = answer \/ \E parts : Collect(r, parts)
    BY <1>2 DEF Break, TemplateFails, SectionsBreak, SectionUnreadable, QuestionsFail,
                QuestionsBreak, QuestionUnreadable, OptionsFail, OptionsBreak, CloseSections,
                CloseQuestions, AppendQuestion
  <2>6. QED
    BY <2>1, <2>2, <2>3, <2>4, <2>5, FailureRemembered
<1>3. ASSUME NEW p \in Requests, Expire(p)
      PROVE  PartsInv'
  <2>1. PICK step \in {"ok", "failed"} : Goto(p, step)
    BY <1>3 DEF Expire, Expired
  <2>2. QED
    BY <1>3, <2>1, FailureRemembered DEF Expire
<1>4. ASSUME NEW p \in Requests, Return(p)
      PROVE  PartsInv'
  <2>1. answer'[p] = {} /\ pc'[p] = "idle"
    BY <1>4 DEF Return, Goto, PoolInv, TypeOK
  <2>2. \A q \in Readers \ {p} : /\ at'[q] = at[q] /\ answer'[q] = answer[q]
                                 /\ intact'[q] = intact[q] /\ pc'[q] = pc[q]
    BY <1>4 DEF Return, Goto, PoolInv, TypeOK, Requests
  <2>3. QED
    BY <2>1, <2>2 DEF PartsInv, Collected, Placed
<1>5. ASSUME NEW p \in Others, BeginOther(p) \/ Query(p) \/ Release(p)
      PROVE  PartsInv'
  <2>1. \A q \in Readers : pc'[q] = pc[q]
    BY <1>5, PoolAssumption DEF BeginOther, Query, Release, Goto, PoolInv, TypeOK, Requests
  <2>2. UNCHANGED <<at, answer, intact>>
    BY <1>5 DEF BeginOther, Query, Release
  <2>3. QED
    BY <2>1, <2>2 DEF PartsInv, Collected, Placed
<1>6. QED
  BY <1>1, <1>2, <1>3, <1>4, <1>5, ReaderCollects DEF Next, Arrive, Acquire, Proceed

LEMMA PartsInit == Init => PartsInv
BY DEF Init, PartsInv, Collected, Placed, Requests

(***************************************************************************)
(* Whatever the template, the pool and the load: a template is answered    *)
(* without one of its parts only if a statement or a Scan of this very     *)
(* request failed or its context expired (data/survey.go:107).             *)
(***************************************************************************)
THEOREM ContentionLosesNothing == Spec => []PartsLostOnlyByFailure
<1>1. PartsInv => PartsLostOnlyByFailure
  BY DEF PartsInv, PartsLostOnlyByFailure, Collected
<1>2. QED
  BY <1>1, PoolInvariant, PartsInit, PartsStep, PTL DEF Spec

=============================================================================
