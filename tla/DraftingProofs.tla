---------------------------- MODULE DraftingProofs ----------------------------
(***************************************************************************)
(* Proofs about Drafting, for any generators, sessions, edits and bounds.  *)
(*                                                                         *)
(* A generator at work is paid for by the step that RUNS or by a takeover  *)
(* (OneGeneratorUnlessTakenOver).  While the inquiry is NEW, a generation  *)
(* that has begun is someone's turn: of a generator at work, of one that is*)
(* about to set the status, or of whoever made the active draft final,     *)
(* unless a late generator has found its draft replaced and set no status  *)
(* (Turns).  A session that is about to approve holds the text of its draft*)
(* for as long as updated_at is what it loaded (Says).                     *)
(***************************************************************************)
EXTENDS Drafting, FiniteSetTheorems, TLAPS

GenPlace == {"idle", "asked", "running", "inserted", "read", "complete",
             "status", "blocked", "failing", "attention"}
StaffPlace == {"closed", "open", "edit", "edited", "marked", "approve", "reset",
               "cleared"}
Flow == {"NEW", "NEEDS_ATTENTION", "REVIEW_PENDING", "READY_TO_POST", "POSTED"}
Inquiries == [workflow: Flow, approved: BOOLEAN, posted: BOOLEAN]
Job(n) == [pc: GenPlace, draft: 0..n, activated: BOOLEAN]
Page(n) == [pc: StaffPlace, draft: 0..n, fresh: BOOLEAN, text: Text \cup {None}]

\* The place of the drafts, the inquiry, the jobs and the pages among each other.
Final == active # 0 /\ drafts[active].final # None

Places ==
  /\ drafts = <<>> => inquiry.workflow \in {"NEW", "NEEDS_ATTENTION"}
  /\ inquiry.workflow = "POSTED" => inquiry.posted
  /\ \A g \in Gen : gen[g].pc \in {"inserted", "read", "complete", "status"} => drafts # <<>>
Loaded == \A s \in Staff : staff[s].pc # "closed" => staff[s].draft \in DOMAIN drafts
Says == \A s \in Staff :
          /\ staff[s].pc = "edit" => staff[s].text \in Edit
          /\ staff[s].pc = "approve" =>
               /\ staff[s].text \in Text
               /\ staff[s].fresh => staff[s].text = TextOf(drafts[staff[s].draft])
Turns ==
  inquiry.workflow = "NEW" =>
    /\ \A d \in DOMAIN drafts : drafts[d].review # "APPROVED"
    /\ \A g \in Gen :
         gen[g].pc \in {"inserted", "read", "complete", "status"} /\ ~gen[g].activated =>
           Final \/ replaced
    /\ crashes = 0 /\ ~replaced /\ step # "PENDING" =>
         \/ step = "RUNNING" /\ Working # {}
         \/ \E g \in Gen : \/ gen[g].pc = "attention"
                           \/ gen[g].pc = "status" /\ gen[g].activated
         \/ Final

Inv == IInv /\ Places /\ Loaded /\ Says /\ Turns
-----------------------------------------------------------------------------
(* What a step does to one component of the state.                         *)

LEMMA Types ==
  TypeOK <=> /\ step \in Status /\ aged \in BOOLEAN
             /\ inquiry \in Inquiries
             /\ drafts \in Seq(Row) /\ Len(drafts) <= MaxDrafts
             /\ active \in 0..Len(drafts)
             /\ gen \in [Gen -> Job(Len(drafts))]
             /\ staff \in [Staff -> Page(Len(drafts))]
             /\ replaced \in BOOLEAN
             /\ opens \in Nat /\ takeovers \in Nat /\ crashes \in Nat
  BY DEF TypeOK, Inquiries, Flow, Job, GenPlace, Page, StaffPlace

LEMMA NextTypes ==
  TypeOK' <=> /\ step' \in Status /\ aged' \in BOOLEAN
              /\ inquiry' \in Inquiries
              /\ drafts' \in Seq(Row) /\ Len(drafts') <= MaxDrafts
              /\ active' \in 0..Len(drafts')
              /\ gen' \in [Gen -> Job(Len(drafts'))]
              /\ staff' \in [Staff -> Page(Len(drafts'))]
              /\ replaced' \in BOOLEAN
              /\ opens' \in Nat /\ takeovers' \in Nat /\ crashes' \in Nat
  BY DEF TypeOK, Inquiries, Flow, Job, GenPlace, Page, StaffPlace

LEMMA GenMoves ==
  ASSUME TypeOK, NEW g \in Gen, NEW pc \in GenPlace, GenGoes(g, pc)
  PROVE  /\ gen' \in [Gen -> Job(Len(drafts))]
         /\ \A h \in Gen \ {g} : gen'[h] = gen[h]
         /\ gen'[g].pc = pc /\ gen'[g].activated = gen[g].activated
  BY Types DEF GenGoes, Job

LEMMA JobMoves ==
  ASSUME TypeOK, NEW g \in Gen, NEW job, gen' = [gen EXCEPT ![g] = job]
  PROVE  /\ \A n \in Nat : job \in Job(n) /\ Len(drafts) <= n => gen' \in [Gen -> Job(n)]
         /\ \A h \in Gen \ {g} : gen'[h] = gen[h]
         /\ gen'[g] = job
  <1>1. Len(drafts) \in Nat /\ gen \in [Gen -> Job(Len(drafts))]
    BY Types
  <1>2. ASSUME NEW n \in Nat, Len(drafts) <= n, NEW h \in Gen
        PROVE  gen[h] \in Job(n)
    BY <1>1, <1>2 DEF Job
  <1> QED
    BY <1>1, <1>2

LEMMA NoJobIsJob ==
  ASSUME NEW n \in Nat PROVE NoJob \in Job(n)
  BY DEF NoJob, Job, GenPlace

LEMMA NoJobMoves ==
  ASSUME TypeOK, NEW g \in Gen, gen' = [gen EXCEPT ![g] = NoJob]
  PROVE  gen'[g].pc = "idle" /\ \A h \in Gen \ {g} : gen'[h] = gen[h]
  <1>1. gen \in [Gen -> Job(Len(drafts))]
    BY Types
  <1>2. gen'[g] = NoJob /\ \A h \in Gen \ {g} : gen'[h] = gen[h]
    BY <1>1
  <1> QED
    BY <1>2 DEF NoJob

LEMMA InquiryMoves ==
  ASSUME TypeOK, NEW status \in Flow, Workflow(status)
  PROVE  /\ inquiry' \in Inquiries /\ inquiry'.workflow = status
         /\ inquiry'.posted = inquiry.posted
  BY Types DEF Workflow, Inquiries

\* An UPDATE of a draft, and what it leaves of the pages.
LEMMA UpdateMoves ==
  ASSUME TypeOK, NEW d \in DOMAIN drafts, NEW row \in Row, Update(d, row)
  PROVE  /\ drafts' \in Seq(Row) /\ Len(drafts') = Len(drafts)
         /\ DOMAIN drafts' = DOMAIN drafts /\ drafts' # <<>> /\ drafts # <<>>
         /\ drafts'[d] = row /\ \A c \in DOMAIN drafts \ {d} : drafts'[c] = drafts[c]
  BY Types DEF Update

LEMMA TouchedPages ==
  ASSUME TypeOK, NEW d
  PROVE  /\ Touched(d) \in [Staff -> Page(Len(drafts))]
         /\ \A s \in Staff : /\ Touched(d)[s].pc = staff[s].pc
                             /\ Touched(d)[s].draft = staff[s].draft
                             /\ Touched(d)[s].text = staff[s].text
                             /\ Touched(d)[s].fresh => staff[s].fresh /\ staff[s].draft # d
  <1>1. \A s \in Staff : staff[s] \in Page(Len(drafts))
    BY Types
  <1>2. ASSUME NEW s \in Staff, staff[s].draft = d
        PROVE  /\ Touched(d)[s] = [staff[s] EXCEPT !.fresh = FALSE]
               /\ Touched(d)[s] \in Page(Len(drafts))
               /\ Touched(d)[s].pc = staff[s].pc
               /\ Touched(d)[s].draft = staff[s].draft
               /\ Touched(d)[s].text = staff[s].text
               /\ Touched(d)[s].fresh = FALSE
    BY <1>1, <1>2 DEF Touched, Page
  <1>3. ASSUME NEW s \in Staff, staff[s].draft # d
        PROVE  Touched(d)[s] = staff[s]
    BY <1>3 DEF Touched
  <1> QED
    BY <1>1, <1>2, <1>3 DEF Touched
-----------------------------------------------------------------------------
(* The generators.                                                         *)

AtWork(pc) == IF pc \in {"running", "inserted", "read", "complete", "blocked",
                         "failing"}
              THEN 1 ELSE 0

\* A change of one generator's place, in the number of those at work.
LEMMA WorkingMoves ==
  ASSUME NEW g \in Gen, \A h \in Gen \ {g} : gen'[h] = gen[h]
  PROVE  /\ Cardinality(Working) \in Nat /\ Cardinality(Working)' \in Nat
         /\ Cardinality(Working)'
              = Cardinality(Working) + AtWork(gen'[g].pc) - AtWork(gen[g].pc)
  <1>1. IsFiniteSet(Working) /\ IsFiniteSet(Working')
    <2>1. Working \in SUBSET Gen /\ Working' \in SUBSET Gen /\ IsFiniteSet(Gen)
      BY DraftingAssumption DEF Working
    <2> QED
      BY <2>1, FS_Subset
  <1>2. Cardinality(Working) \in Nat /\ Cardinality(Working') \in Nat
    BY <1>1, FS_CardinalityType
  <1>3. /\ g \in Working <=> AtWork(gen[g].pc) = 1
        /\ g \in Working' <=> AtWork(gen'[g].pc) = 1
        /\ AtWork(gen[g].pc) \in {0, 1} /\ AtWork(gen'[g].pc) \in {0, 1}
    BY DEF Working, AtWork
  <1>4. Working \cup {g} = Working' \cup {g}
    BY DEF Working
  <1>5. CASE g \in Working
    <2>1. Cardinality(Working \cup {g}) = Cardinality(Working)
      BY <1>5, <1>1, FS_AddElement, Zenon
    <2>2. CASE g \in Working'
      <3>1. Working' = Working
        BY <1>4, <1>5, <2>2
      <3> QED
        BY <1>2, <1>3, <1>5, <2>2, <3>1
    <2>3. CASE g \notin Working'
      <3>1. Cardinality(Working' \cup {g}) = Cardinality(Working') + 1
        BY <2>3, <1>1, FS_AddElement, Zenon
      <3> QED
        BY <1>2, <1>3, <1>4, <1>5, <2>1, <2>3, <3>1
    <2> QED
      BY <2>2, <2>3
  <1>6. CASE g \notin Working
    <2>1. Cardinality(Working \cup {g}) = Cardinality(Working) + 1
      BY <1>6, <1>1, FS_AddElement, Zenon
    <2>2. CASE g \notin Working'
      <3>1. Working' = Working
        BY <1>4, <1>6, <2>2
      <3> QED
        BY <1>2, <1>3, <1>6, <2>2, <3>1
    <2>3. CASE g \in Working'
      <3>1. Cardinality(Working' \cup {g}) = Cardinality(Working')
        BY <2>3, <1>1, FS_AddElement, Zenon
      <3> QED
        BY <1>2, <1>3, <1>4, <1>6, <2>1, <2>3, <3>1
    <2> QED
      BY <2>2, <2>3
  <1> QED
    BY <1>5, <1>6

\* What an inserted draft is, and which draft is the active one after it.
LEMMA InsertMoves ==
  ASSUME TypeOK, NEW g \in Gen, Insert(g), ~inquiry.posted
  PROVE  /\ drafts' \in Seq(Row) /\ Len(drafts') = Len(drafts) + 1
         /\ Len(drafts') <= MaxDrafts /\ drafts' # <<>>
         /\ \A d \in DOMAIN drafts : drafts'[d] = drafts[d]
         /\ drafts'[Len(drafts) + 1].final = None
         /\ drafts'[Len(drafts) + 1].review = "PENDING"
         /\ active' = IF Protected(active) THEN active ELSE Len(drafts) + 1
         /\ gen' \in [Gen -> Job(Len(drafts'))]
         /\ \A h \in Gen \ {g} : gen'[h] = gen[h]
         /\ gen'[g].pc = "inserted"
         /\ ~gen'[g].activated <=> Protected(active)
  <1> DEFINE row == [edited |-> None, final |-> None, review |-> "PENDING",
                     posted |-> FALSE]
             job(b) == [pc |-> "inserted", draft |-> Len(drafts) + 1, activated |-> b]
  <1>1. /\ drafts \in Seq(Row) /\ Len(drafts) \in Nat /\ row \in Row
    BY Types DEF Row
  <1>2. drafts' = Append(drafts, row) /\ Len(drafts) < MaxDrafts
    BY DEF Insert
  <1>3. /\ drafts' \in Seq(Row) /\ Len(drafts') = Len(drafts) + 1
        /\ Len(drafts') <= MaxDrafts /\ drafts' # <<>>
        /\ \A d \in DOMAIN drafts : drafts'[d] = drafts[d]
        /\ drafts'[Len(drafts) + 1] = row
    BY <1>1, <1>2, DraftingAssumption
  <1>4. PICK b \in BOOLEAN : b = ~Protected(active)
    BY Zenon
  <1>5. gen' = [gen EXCEPT ![g] = job(b)]
    BY <1>4, Zenon DEF Insert
  <1>6. job(b) \in Job(Len(drafts) + 1)
    BY <1>1 DEF Job, GenPlace
  <1>7. /\ gen' \in [Gen -> Job(Len(drafts) + 1)]
        /\ \A h \in Gen \ {g} : gen'[h] = gen[h]
        /\ gen'[g] = job(b)
    <2> HIDE DEF job
    <2>1. Len(drafts) <= Len(drafts) + 1 /\ Len(drafts) + 1 \in Nat
      BY <1>1
    <2> QED
      BY <1>5, <1>6, <2>1, JobMoves, Zenon
  <1>8. gen'[g].activated <=> b
    <2>1. job(b).activated = b
      OBVIOUS
    <2> HIDE DEF job
    <2> QED
      BY <1>7, <2>1, Zenon
  <1>9. ~gen'[g].activated <=> Protected(active)
    BY <1>4, <1>8, Zenon
  <1> QED
    BY <1>3, <1>7, <1>9 DEF Insert

\* Two fields of one job.
LEMMA FieldsMove ==
  ASSUME TypeOK, NEW g \in Gen, NEW job \in Job(Len(drafts)), gen' = [gen EXCEPT ![g] = job]
  PROVE  /\ gen' \in [Gen -> Job(Len(drafts))]
         /\ \A h \in Gen \ {g} : gen'[h] = gen[h]
         /\ gen'[g] = job
  <1>1. Len(drafts) \in Nat /\ Len(drafts) <= Len(drafts)
    BY Types
  <1> QED
    BY <1>1, JobMoves, Zenon

LEMMA ReadBackMoves ==
  ASSUME TypeOK, NEW g \in Gen, ReadBack(g)
  PROVE  /\ gen' \in [Gen -> Job(Len(drafts))]
         /\ \A h \in Gen \ {g} : gen'[h] = gen[h]
         /\ gen'[g].pc = "read"
         /\ replaced' \in BOOLEAN /\ (replaced => replaced')
         /\ replaced' \/ (gen[g].activated => gen'[g].activated)
  <1>1. gen \in [Gen -> Job(Len(drafts))] /\ gen[g] \in Job(Len(drafts))
    BY Types
  <1>2. PICK b \in BOOLEAN : b = (active = gen[g].draft)
    BY Zenon
  <1> DEFINE job == [gen[g] EXCEPT !.pc = "read", !.activated = b]
  <1>3. gen' = [gen EXCEPT ![g].pc = "read", ![g].activated = b]
    BY <1>2 DEF ReadBack
  <1>4. gen' = [gen EXCEPT ![g] = job]
    BY <1>1, <1>3
  <1>5. job \in Job(Len(drafts)) /\ job.pc = "read" /\ job.activated = b
    BY <1>1 DEF Job, GenPlace
  <1> HIDE DEF job
  <1>6. /\ gen' \in [Gen -> Job(Len(drafts))]
        /\ \A h \in Gen \ {g} : gen'[h] = gen[h]
        /\ gen'[g] = job
    BY <1>4, <1>5, FieldsMove
  <1>7. replaced' = (replaced \/ (gen[g].activated /\ active # gen[g].draft))
    BY DEF ReadBack
  <1>8. replaced' \in BOOLEAN /\ (replaced => replaced')
    BY <1>7, Zenon
  <1>9. replaced' \/ (gen[g].activated => b)
    BY <1>2, <1>7, Zenon
  <1> QED
    BY <1>5, <1>6, <1>8, <1>9, Zenon

LEMMA ReadActiveMoves ==
  ASSUME TypeOK, NEW g \in Gen, ReadActive(g)
  PROVE  \E pc \in {"failing", "complete"} :
           /\ gen' \in [Gen -> Job(Len(drafts))]
           /\ \A h \in Gen \ {g} : gen'[h] = gen[h]
           /\ gen'[g].pc = pc /\ gen'[g].activated = gen[g].activated
  <1>1. gen \in [Gen -> Job(Len(drafts))] /\ gen[g] \in Job(Len(drafts)) /\ Len(drafts) \in Nat
    BY Types
  <1>2. PICK pc \in {"failing", "complete"} :
          gen' = [gen EXCEPT ![g].draft = 0, ![g].pc = pc]
    BY DEF ReadActive
  <1> DEFINE mid == [gen[g] EXCEPT !.draft = 0]
             job == [mid EXCEPT !.pc = pc]
  <1>3. gen' = [gen EXCEPT ![g] = job]
    BY <1>1, <1>2
  <1>5. mid \in Job(Len(drafts)) /\ mid.activated = gen[g].activated
    BY <1>1 DEF Job
  <1> HIDE DEF mid
  <1>4. job \in Job(Len(drafts)) /\ job.pc = pc /\ job.activated = gen[g].activated
    BY <1>1, <1>5 DEF Job, GenPlace
  <1> HIDE DEF job
  <1> QED
    BY <1>3, <1>4, FieldsMove

LEMMA GenKeepsIInv ==
  ASSUME IInv, NEW g \in Gen, GenStep(g) \/ Crash(g)
  PROVE  IInv'
  <1>0. /\ TypeOK /\ OneGeneratorUnlessTakenOver /\ gen[g] \in Job(Len(drafts))
        /\ gen \in [Gen -> Job(Len(drafts))] /\ Len(drafts) \in Nat
        /\ takeovers \in Nat /\ inquiry \in Inquiries
    BY Types DEF IInv
  <1>1. ASSUME \A h \in Gen \ {g} : gen'[h] = gen[h],
               takeovers' \in Nat,
               takeovers' + (IF step' = "RUNNING" THEN 1 ELSE 0) + AtWork(gen[g].pc)
                 >= takeovers + (IF step = "RUNNING" THEN 1 ELSE 0) + AtWork(gen'[g].pc)
        PROVE  OneGeneratorUnlessTakenOver'
    <2>1. /\ Cardinality(Working) \in Nat /\ Cardinality(Working)' \in Nat
          /\ Cardinality(Working)'
               = Cardinality(Working) + AtWork(gen'[g].pc) - AtWork(gen[g].pc)
      BY <1>1, WorkingMoves
    <2>2. AtWork(gen[g].pc) \in {0, 1} /\ AtWork(gen'[g].pc) \in {0, 1}
      BY DEF AtWork
    <2> QED
      BY <1>0, <1>1, <2>1, <2>2 DEF OneGeneratorUnlessTakenOver
  <1>2. ASSUME gen' \in [Gen -> Job(Len(drafts))], step' \in Status, aged' \in BOOLEAN,
               inquiry' \in Inquiries, takeovers' \in Nat, crashes' \in Nat,
               UNCHANGED <<drafts, active, staff, replaced, opens>>
        PROVE  TypeOK'
    BY <1>0, <1>2, Types, NextTypes
  <1>3. CASE Ask(g) \/ Refused(g)
    <2>1. PICK pc \in {"asked", "idle"} : GenGoes(g, pc) /\ gen[g].pc \in {"idle", "asked"}
      BY <1>3 DEF Ask, Refused
    <2>2. pc \in GenPlace
      BY DEF GenPlace
    <2>3. gen' \in [Gen -> Job(Len(drafts))] /\ gen'[g].pc = pc
          /\ \A h \in Gen \ {g} : gen'[h] = gen[h]
      BY <1>0, <2>1, <2>2, GenMoves
    <2> QED
      BY <1>0, <1>1, <1>2, <1>3, <2>1, <2>3, Types DEF Ask, Refused, AtWork, IInv
  <1>4. CASE Start(g) \/ TakeOver(g)
    <2>1. /\ GenGoes(g, "running") /\ gen[g].pc \in {"asked", "idle"} /\ step' = "RUNNING"
          /\ aged' = FALSE /\ UNCHANGED <<inquiry, drafts, active, staff, replaced,
                                          opens, crashes>>
          /\ \/ step # "RUNNING" /\ takeovers' = takeovers
             \/ takeovers' = takeovers + 1
      BY <1>4 DEF Start, TakeOver, Claim, MayStart
    <2>2. "running" \in GenPlace
      BY DEF GenPlace
    <2>3. gen' \in [Gen -> Job(Len(drafts))] /\ gen'[g].pc = "running"
          /\ \A h \in Gen \ {g} : gen'[h] = gen[h]
      BY <1>0, <2>1, <2>2, GenMoves
    <2>4. TypeOK'
      <3>1. aged' \in BOOLEAN /\ step' \in Status
        BY <2>1, Zenon DEF Status
      <3> QED
        BY <1>0, <1>2, <2>1, <2>3, <3>1, Types
    <2>5. OneGeneratorUnlessTakenOver'
      BY <1>0, <1>1, <2>1, <2>3 DEF AtWork
    <2> QED
      BY <2>4, <2>5 DEF IInv
  <1>5. CASE Insert(g) /\ ~inquiry.posted
    <2>1. gen[g].pc = "running" /\ UNCHANGED <<step, replaced, takeovers>>
      BY <1>5 DEF Insert
    <2>2. gen'[g].pc = "inserted" /\ \A h \in Gen \ {g} : gen'[h] = gen[h]
      BY <1>0, <1>5, InsertMoves
    <2>3. OneGeneratorUnlessTakenOver'
      BY <1>0, <1>1, <2>1, <2>2 DEF AtWork
    <2>4. staff \in [Staff -> Page(Len(drafts'))]
      <3>1. Len(drafts') = Len(drafts) + 1 /\ staff \in [Staff -> Page(Len(drafts))]
        BY <1>0, <1>5, InsertMoves, Types
      <3>2. \A s \in Staff : staff[s] \in Page(Len(drafts) + 1)
        BY <1>0, <3>1 DEF Page
      <3> QED
        BY <3>1, <3>2
    <2>5. active' \in 0..Len(drafts')
      BY <1>0, <1>5, InsertMoves, Types
    <2>6. /\ step' \in Status /\ aged' \in BOOLEAN /\ inquiry' \in Inquiries
          /\ staff' = staff /\ opens' \in Nat /\ takeovers' \in Nat /\ crashes' \in Nat
      BY <1>0, <1>5, Types DEF Insert
    <2>8. replaced' \in BOOLEAN
      BY <1>0, <1>5, Types, Zenon DEF Insert
    <2>7. TypeOK'
      BY <1>0, <1>5, <2>4, <2>5, <2>6, <2>8, InsertMoves, NextTypes
    <2> QED
      BY <2>3, <2>7 DEF IInv
  <1>6. CASE (Insert(g) /\ inquiry.posted) \/ Stop(g)
    <2>1. PICK pc \in {"blocked", "failing"} :
            GenGoes(g, pc) /\ gen[g].pc = "running"
            /\ UNCHANGED <<step, aged, inquiry, drafts, active, staff, replaced,
                           opens, takeovers, crashes>>
      BY <1>6 DEF Insert, Stop
    <2>2. pc \in GenPlace
      BY DEF GenPlace
    <2>3. gen' \in [Gen -> Job(Len(drafts))] /\ gen'[g].pc = pc
          /\ \A h \in Gen \ {g} : gen'[h] = gen[h]
      BY <1>0, <2>1, <2>2, GenMoves
    <2> QED
      BY <1>0, <1>1, <1>2, <2>1, <2>3, Types DEF AtWork, IInv
  <1>7. CASE ReadBack(g)
    <2>1. /\ gen' \in [Gen -> Job(Len(drafts))] /\ gen'[g].pc = "read"
          /\ \A h \in Gen \ {g} : gen'[h] = gen[h]
          /\ replaced' \in BOOLEAN
      BY <1>0, <1>7, ReadBackMoves
    <2>2. TypeOK'
      BY <1>0, <1>7, <2>1, Types, NextTypes DEF ReadBack
    <2> QED
      BY <1>0, <1>1, <1>7, <2>1, <2>2 DEF ReadBack, AtWork, IInv
  <1>11. CASE ReadActive(g)
    <2>1. PICK pc \in {"failing", "complete"} :
            /\ gen' \in [Gen -> Job(Len(drafts))] /\ gen'[g].pc = pc
            /\ \A h \in Gen \ {g} : gen'[h] = gen[h]
      BY <1>0, <1>11, ReadActiveMoves
    <2> QED
      BY <1>0, <1>1, <1>2, <1>11, <2>1, Types DEF ReadActive, AtWork, IInv
  <1>8. CASE CompleteStep(g)
    <2>1. PICK pc \in {"status", "failing"} : 
            /\ GenGoes(g, pc) /\ gen[g].pc = "complete" 
            /\ \/ step = "RUNNING" /\ step' = "COMPLETED" /\ pc = "status"
               \/ step' = step /\ pc = "failing"
            /\ UNCHANGED <<aged, inquiry, drafts, active, staff, replaced, opens,
                           takeovers, crashes>>
      BY <1>8 DEF CompleteStep
    <2>2. pc \in GenPlace
      BY DEF GenPlace
    <2>3. gen' \in [Gen -> Job(Len(drafts))] /\ gen'[g].pc = pc
          /\ \A h \in Gen \ {g} : gen'[h] = gen[h]
      BY <1>0, <2>1, <2>2, GenMoves
    <2>4. TypeOK'
      BY <1>0, <1>2, <2>1, <2>3, Types DEF Status
    <2>5. OneGeneratorUnlessTakenOver'
      BY <1>0, <1>1, <2>1, <2>3 DEF AtWork
    <2> QED
      BY <2>4, <2>5 DEF IInv
  <1>9. CASE SetStatus(g) \/ SetAttention(g) \/ Crash(g)
    <2>1. /\ gen' = [gen EXCEPT ![g] = NoJob]
          /\ UNCHANGED <<step, aged, drafts, active, staff, replaced, opens, takeovers>>
      BY <1>9 DEF SetStatus, SetAttention, Crash
    <2>2. inquiry' \in Inquiries /\ crashes' \in Nat
      BY <1>0, <1>9, InquiryMoves, Types DEF SetStatus, SetAttention, Crash, Flow
    <2>3. /\ gen' \in [Gen -> Job(Len(drafts))] /\ gen'[g].pc = "idle"
          /\ \A h \in Gen \ {g} : gen'[h] = gen[h]
      BY <1>0, <2>1, NoJobIsJob, JobMoves DEF NoJob
    <2>4. AtWork(gen'[g].pc) = 0 /\ AtWork(gen[g].pc) \in {0, 1}
      BY <2>3 DEF AtWork
    <2> QED
      BY <1>0, <1>1, <1>2, <2>1, <2>2, <2>3, <2>4, Types DEF IInv
  <1>10. CASE EndStep(g)
    <2>1. CASE GenGoes(g, "attention") /\ step' \in {"FAILED", "SKIPPED"} 
      <3>1. "attention" \in GenPlace
        BY DEF GenPlace
      <3>2. gen' \in [Gen -> Job(Len(drafts))] /\ gen'[g].pc = "attention"
            /\ \A h \in Gen \ {g} : gen'[h] = gen[h]
        BY <1>0, <2>1, <3>1, GenMoves
      <3>3. TypeOK'
        BY <1>0, <1>2, <1>10, <2>1, <3>2, Types DEF EndStep, Status
      <3>4. AtWork(gen[g].pc) = 1 /\ takeovers' = takeovers
        BY <1>10 DEF EndStep, AtWork
      <3>5. OneGeneratorUnlessTakenOver'
        BY <1>0, <1>1, <2>1, <3>2, <3>4 DEF AtWork
      <3> QED
        BY <3>3, <3>5 DEF IInv
    <2>2. CASE gen' = [gen EXCEPT ![g] = NoJob] /\ UNCHANGED step
      <3>1. /\ gen' \in [Gen -> Job(Len(drafts))] /\ gen'[g].pc = "idle"
            /\ \A h \in Gen \ {g} : gen'[h] = gen[h]
        BY <1>0, <2>2, NoJobIsJob, JobMoves DEF NoJob
      <3>2. AtWork(gen'[g].pc) = 0 /\ AtWork(gen[g].pc) \in {0, 1}
        BY <3>1 DEF AtWork
      <3> QED
        BY <1>0, <1>1, <1>2, <1>10, <2>2, <3>1, <3>2, Types DEF EndStep, IInv
    <2> QED
      BY <1>10, <2>1, <2>2 DEF EndStep
  <1> QED
    BY <1>3, <1>4, <1>5, <1>6, <1>7, <1>8, <1>9, <1>10, <1>11 DEF GenStep
-----------------------------------------------------------------------------
(* The staff, and the pipeline after its draft.                            *)

\* What an action of theirs does to what the invariants speak of.
Acts ==
  /\ UNCHANGED <<step, aged, active, gen, replaced, takeovers,
                 crashes>> /\ opens' \in Nat
  /\ drafts' \in Seq(Row) /\ Len(drafts') = Len(drafts)
  /\ inquiry' \in Inquiries
  /\ staff' \in [Staff -> Page(Len(drafts))]
  /\ drafts # <<>>
  /\ inquiry'.workflow = "POSTED" => inquiry'.posted
  /\ inquiry'.workflow = "NEW" =>
       /\ inquiry.workflow = "NEW"
       /\ \A d \in DOMAIN drafts :
            /\ drafts'[d].review = "APPROVED" => drafts[d].review = "APPROVED"
            /\ drafts[d].final # None => drafts'[d].final # None
  /\ Loaded' /\ Says'

\* What a write leaves of the pages of draft d that are about to approve it.
Rewritten(d) ==
  /\ staff' \in [Staff -> Page(Len(drafts))]
  /\ \A t \in Staff :
       /\ staff'[t].pc # "closed" => staff[t].pc # "closed" /\ staff'[t].draft = staff[t].draft
       /\ staff'[t].pc = "edit" => staff[t].pc = "edit" /\ staff'[t].text = staff[t].text
       /\ staff'[t].pc = "approve" =>
            /\ staff[t].pc = "approve" /\ staff'[t].text = staff[t].text
            /\ staff'[t].fresh => staff[t].fresh /\ staff[t].draft # d

LEMMA RowTypes ==
  ASSUME TypeOK, NEW d \in DOMAIN drafts
  PROVE  /\ drafts[d] \in Row /\ TextOf(drafts[d]) \in Text
         /\ d \in 1..Len(drafts) /\ Len(drafts) \in Nat /\ drafts # <<>>
  <1>1. drafts[d] \in Row /\ d \in 1..Len(drafts) /\ Len(drafts) \in Nat /\ drafts # <<>>
    BY Types
  <1>2. TextOf(drafts[d]) \in Text
    BY <1>1 DEF Row, TextOf, Text
  <1> QED
    BY <1>1, <1>2

LEMMA UpdateActs ==
  ASSUME Inv, NEW d \in DOMAIN drafts, NEW row \in Row, Update(d, row), Rewritten(d),
         UNCHANGED <<step, aged, active, gen, replaced, opens, takeovers, crashes>>,
         inquiry' \in Inquiries, inquiry'.workflow = "POSTED" => inquiry'.posted,
         inquiry'.workflow = "NEW" =>
           /\ inquiry.workflow = "NEW"
           /\ row.review = "APPROVED" => drafts[d].review = "APPROVED"
           /\ drafts[d].final # None => row.final # None
  PROVE  Acts
  <1>0. TypeOK /\ opens \in Nat
    BY Types DEF Inv, IInv
  <1>1. /\ drafts' \in Seq(Row) /\ Len(drafts') = Len(drafts)
        /\ DOMAIN drafts' = DOMAIN drafts /\ drafts # <<>>
        /\ drafts'[d] = row /\ \A c \in DOMAIN drafts \ {d} : drafts'[c] = drafts[c]
    BY <1>0, UpdateMoves
  <1>2. Loaded'
    BY <1>1 DEF Inv, Loaded, Rewritten
  <1>3. Says'
    BY <1>1 DEF Inv, Loaded, Says, Rewritten
  <1>4. inquiry'.workflow = "NEW" =>
          /\ inquiry.workflow = "NEW"
          /\ \A c \in DOMAIN drafts :
               /\ drafts'[c].review = "APPROVED" => drafts[c].review = "APPROVED"
               /\ drafts[c].final # None => drafts'[c].final # None
    BY <1>1
  <1> QED
    BY <1>0, <1>1, <1>2, <1>3, <1>4 DEF Acts, Rewritten

\* A step that writes to no draft.
LEMMA PageActs ==
  ASSUME Inv, UNCHANGED <<step, aged, drafts, active, gen, replaced, takeovers,
                          crashes>>,
         opens' \in Nat, drafts # <<>>,
         inquiry' \in Inquiries, inquiry'.workflow = "POSTED" => inquiry'.posted,
         inquiry'.workflow = "NEW" => inquiry.workflow = "NEW",
         staff' \in [Staff -> Page(Len(drafts))],
         \A t \in Staff : staff'[t].pc # "closed" => staff'[t].draft \in DOMAIN drafts,
         \A t \in Staff : staff'[t].pc = "edit" =>
           \/ staff[t].pc = "edit" /\ staff'[t].text = staff[t].text
           \/ staff'[t].text \in Edit,
         \A t \in Staff : staff'[t].pc = "approve" =>
           \/ /\ staff[t].pc = "approve" /\ staff'[t].text = staff[t].text
              /\ staff'[t].draft = staff[t].draft
              /\ staff'[t].fresh => staff[t].fresh
           \/ staff'[t].text = TextOf(drafts[staff'[t].draft])
  PROVE  Acts
  <1>0. TypeOK /\ drafts \in Seq(Row)
    BY Types DEF Inv, IInv
  <1>1. Loaded'
    BY DEF Loaded
  <1>2. Says'
    BY <1>0, RowTypes DEF Inv, Says
  <1> QED
    BY <1>0, <1>1, <1>2 DEF Acts

\* The page of one session, when the others stay.
LEMMA PageMoves ==
  ASSUME TypeOK, NEW s \in Staff
  PROVE  /\ Close(s) => /\ staff' \in [Staff -> Page(Len(drafts))]
                        /\ staff'[s].pc = "closed"
                        /\ \A t \in Staff \ {s} : staff'[t] = staff[t]
         /\ \A pc \in StaffPlace :
              StaffGoes(s, pc) => /\ staff' \in [Staff -> Page(Len(drafts))]
                                  /\ staff'[s].pc = pc /\ staff'[s].draft = staff[s].draft
                                  /\ \A t \in Staff \ {s} : staff'[t] = staff[t]
  <1>1. /\ staff \in [Staff -> Page(Len(drafts))] /\ Len(drafts) \in Nat
        /\ staff[s] \in Page(Len(drafts))
    BY Types
  <1>2. NoPage \in Page(Len(drafts)) /\ NoPage.pc = "closed"
    BY <1>1 DEF NoPage, Page, StaffPlace
  <1>3. Close(s) => /\ staff' \in [Staff -> Page(Len(drafts))]
                    /\ staff'[s].pc = "closed"
                    /\ \A t \in Staff \ {s} : staff'[t] = staff[t]
    BY <1>1, <1>2 DEF Close
  <1>4. ASSUME NEW pc \in StaffPlace, StaffGoes(s, pc)
        PROVE  /\ staff' \in [Staff -> Page(Len(drafts))]
               /\ staff'[s].pc = pc /\ staff'[s].draft = staff[s].draft
               /\ \A t \in Staff \ {s} : staff'[t] = staff[t]
    BY <1>1, <1>4 DEF StaffGoes, Page
  <1> QED
    BY <1>3, <1>4

Takes(s, pc, text) == staff' = [staff EXCEPT ![s].pc = pc, ![s].text = text]

LEMMA TextMoves ==
  ASSUME TypeOK, NEW s \in Staff, NEW pc \in StaffPlace, NEW text \in Text \cup {None},
         Takes(s, pc, text)
  PROVE  /\ staff' \in [Staff -> Page(Len(drafts))]
         /\ staff'[s].pc = pc /\ staff'[s].draft = staff[s].draft
         /\ staff'[s].text = text
         /\ \A t \in Staff \ {s} : staff'[t] = staff[t]
  <1> DEFINE mid == [staff EXCEPT ![s].pc = pc]
  <1>1. /\ mid \in [Staff -> Page(Len(drafts))]
        /\ mid[s].pc = pc /\ mid[s].draft = staff[s].draft
        /\ \A t \in Staff \ {s} : mid[t] = staff[t]
    BY Types DEF Page
  <1>2. staff' = [mid EXCEPT ![s].text = text]
    BY DEF Takes
  <1> HIDE DEF mid
  <1> QED
    BY <1>1, <1>2 DEF Page

\* The pages after a write by session s to the draft it loaded.
LEMMA WriteMoves ==
  ASSUME TypeOK, NEW s \in Staff, NEW d, NEW pc \in StaffPlace, pc \notin {"edit", "approve"},
         staff[s].pc # "closed",
         \/ d = staff[s].draft /\ Writes(s, pc)
         \/ staff' = [Touched(d) EXCEPT ![s] = NoPage]
  PROVE  Rewritten(d)
  <1> DEFINE T == Touched(d)
  <1>1. /\ T \in [Staff -> Page(Len(drafts))]
        /\ \A t \in Staff : /\ T[t].pc = staff[t].pc
                            /\ T[t].draft = staff[t].draft
                            /\ T[t].text = staff[t].text
                            /\ T[t].fresh => staff[t].fresh /\ staff[t].draft # d
    BY TouchedPages
  <1>2. NoPage \in Page(Len(drafts)) /\ NoPage.pc = "closed"
    BY Types DEF NoPage, Page, StaffPlace
  <1> HIDE DEF T
  <1>4. CASE staff' = [T EXCEPT ![s].pc = pc]
    <2>1. /\ staff' \in [Staff -> Page(Len(drafts))] /\ staff'[s].pc = pc
          /\ staff'[s].draft = T[s].draft
          /\ \A t \in Staff \ {s} : staff'[t] = T[t]
      BY <1>1, <1>4 DEF Page
    <2> QED
      BY <1>1, <2>1 DEF Rewritten
  <1>5. CASE staff' = [T EXCEPT ![s] = NoPage]
    <2>1. /\ staff' \in [Staff -> Page(Len(drafts))] /\ staff'[s].pc = "closed"
          /\ \A t \in Staff \ {s} : staff'[t] = T[t]
      BY <1>1, <1>2, <1>5
    <2> QED
      BY <1>1, <2>1 DEF Rewritten
  <1> QED
    BY <1>4, <1>5 DEF Writes, T
LEMMA EditActs ==
  ASSUME Inv, NEW s \in Staff,
         \/ SaveEdit(s) \/ MarkReview(s) \/ ClearEdit(s)
         \/ CommitApprove(s) \/ CancelApproval(s)
  PROVE  Acts
  <1> DEFINE d == staff[s].draft
  <1>0. /\ TypeOK /\ inquiry \in Inquiries /\ opens \in Nat
        /\ staff \in [Staff -> Page(Len(drafts))]
        /\ staff[s] \in Page(Len(drafts)) /\ staff[s].pc # "closed"
        /\ d \in DOMAIN drafts /\ drafts[d] \in Row /\ drafts # <<>>
        /\ inquiry.workflow = "POSTED" => inquiry.posted
    <2>1. TypeOK /\ staff[s].pc # "closed"
      BY DEF Inv, IInv, SaveEdit, MarkReview, ClearEdit, CommitApprove, CancelApproval
    <2> QED
      BY <2>1, Types, RowTypes DEF Inv, Loaded, Places
  <1>1. CASE Close(s) /\ UNCHANGED <<step, aged, inquiry, drafts, active, gen,
                                     replaced, opens, takeovers, crashes>>
    <2>1. /\ staff' \in [Staff -> Page(Len(drafts))] /\ staff'[s].pc = "closed"
          /\ \A t \in Staff \ {s} : staff'[t] = staff[t]
      BY <1>0, <1>1, PageMoves DEF StaffPlace
    <2> QED
      BY <1>0, <1>1, <2>1, PageActs DEF Inv, Loaded
  <1>2. ASSUME NEW row \in Row, Update(d, row), NEW pc \in StaffPlace, pc \notin {"edit", "approve"},
               Writes(s, pc) \/ staff' = [Touched(d) EXCEPT ![s] = NoPage],
               UNCHANGED <<step, aged, active, gen, replaced, opens, takeovers,
                           crashes>>,
               inquiry' \in Inquiries, inquiry'.workflow = "POSTED" => inquiry'.posted,
               inquiry'.workflow = "NEW" =>
                 /\ inquiry.workflow = "NEW"
                 /\ row.review = "APPROVED" => drafts[d].review = "APPROVED"
                 /\ drafts[d].final # None => row.final # None
        PROVE  Acts
    <2>1. Rewritten(d)
      BY <1>0, <1>2, WriteMoves
    <2> QED
      BY <1>0, <1>2, <2>1, UpdateActs
  <1>3. CASE SaveEdit(s) /\ staff[s].fresh /\ ~drafts[d].posted
    <2>1. /\ Update(d, [drafts[d] EXCEPT !.edited = staff[s].text]) /\ Writes(s, "edited")
          /\ UNCHANGED <<step, aged, inquiry, active, gen, replaced, opens,
                         takeovers, crashes>>
          /\ staff[s].text \in Edit
      BY <1>3 DEF SaveEdit, Inv, Says
    <2>2. [drafts[d] EXCEPT !.edited = staff[s].text] \in Row
      BY <1>0, <2>1 DEF Row
    <2>3. /\ [drafts[d] EXCEPT !.edited = staff[s].text].review = drafts[d].review
          /\ [drafts[d] EXCEPT !.edited = staff[s].text].final = drafts[d].final
      BY <1>0 DEF Row
    <2> QED
      BY <1>0, <1>2, <2>1, <2>2, <2>3 DEF StaffPlace
  <1>4. CASE MarkReview(s) /\ ~drafts[d].posted
    <2>1. PICK mark \in {"IN_REVIEW", "PENDING"} :
            Update(d, [drafts[d] EXCEPT !.review = mark])
      BY <1>4 DEF MarkReview
    <2>2. /\ Writes(s, "marked") \/ staff' = [Touched(d) EXCEPT ![s] = NoPage]
          /\ UNCHANGED <<step, aged, inquiry, active, gen, replaced, opens,
                         takeovers, crashes>>
      BY <1>4 DEF MarkReview
    <2>3. /\ [drafts[d] EXCEPT !.review = mark] \in Row
          /\ [drafts[d] EXCEPT !.review = mark].review # "APPROVED"
          /\ [drafts[d] EXCEPT !.review = mark].final = drafts[d].final
      BY <1>0 DEF Row
    <2> QED
      BY <1>0, <1>2, <2>1, <2>2, <2>3 DEF StaffPlace
  <1>5. CASE ClearEdit(s) /\ ~drafts[d].posted
    <2>1. /\ Update(d, [drafts[d] EXCEPT !.edited = None]) /\ Writes(s, "cleared")
          /\ UNCHANGED <<step, aged, inquiry, active, gen, replaced, opens,
                         takeovers, crashes>>
      BY <1>5 DEF ClearEdit
    <2>2. /\ [drafts[d] EXCEPT !.edited = None] \in Row
          /\ [drafts[d] EXCEPT !.edited = None].review = drafts[d].review
          /\ [drafts[d] EXCEPT !.edited = None].final = drafts[d].final
      BY <1>0 DEF Row
    <2> QED
      BY <1>0, <1>2, <2>1, <2>2 DEF StaffPlace
  <1>6. CASE CommitApprove(s) /\ Editable /\ staff[s].fresh
    <2> DEFINE row == [drafts[d] EXCEPT !.final = staff[s].text, !.review = "APPROVED"]
    <2>1. /\ Update(d, row) /\ staff' = [Touched(d) EXCEPT ![s] = NoPage]
          /\ inquiry' = [inquiry EXCEPT !.approved = TRUE, !.workflow = "READY_TO_POST"]
          /\ UNCHANGED <<step, aged, active, gen, replaced, opens, takeovers, crashes>>
          /\ staff[s].text \in Text
      BY <1>6 DEF CommitApprove, Approved, Inv, Says
    <2>2. row \in Row
      BY <1>0, <2>1 DEF Row
    <2>3. inquiry' \in Inquiries /\ inquiry'.workflow = "READY_TO_POST"
      BY <1>0, <2>1 DEF Inquiries, Flow
    <2> HIDE DEF row
    <2> QED
      BY <1>0, <1>2, <2>1, <2>2, <2>3 DEF StaffPlace
  <1>7. CASE CancelApproval(s)
    <2> DEFINE row == [drafts[d] EXCEPT !.final = None, !.review = "IN_REVIEW"]
    <2>1. /\ Update(d, row) /\ staff' = [Touched(d) EXCEPT ![s] = NoPage]
          /\ inquiry' = [inquiry EXCEPT !.approved = FALSE, !.workflow = "REVIEW_PENDING"]
          /\ UNCHANGED <<step, aged, active, gen, replaced, opens, takeovers, crashes>>
      BY <1>7 DEF CancelApproval
    <2>2. row \in Row
      BY <1>0 DEF Row
    <2>3. inquiry' \in Inquiries /\ inquiry'.workflow = "REVIEW_PENDING"
      BY <1>0, <2>1 DEF Inquiries, Flow
    <2> HIDE DEF row
    <2> QED
      BY <1>0, <1>2, <2>1, <2>2, <2>3 DEF StaffPlace
  <1> QED
    BY <1>1, <1>3, <1>4, <1>5, <1>6, <1>7
       DEF SaveEdit, MarkReview, ClearEdit, CommitApprove

LEMMA StaffActs ==
  ASSUME Inv, NEW s \in Staff, StaffStep(s)
  PROVE  Acts
  <1>0. /\ TypeOK /\ inquiry \in Inquiries /\ opens \in Nat
        /\ staff \in [Staff -> Page(Len(drafts))] /\ Len(drafts) \in Nat
        /\ staff[s] \in Page(Len(drafts))
        /\ inquiry.workflow = "POSTED" => inquiry.posted
        /\ drafts \in Seq(Row) /\ active \in 0..Len(drafts)
    BY Types DEF Inv, IInv, Places
  <1>1. staff[s].pc # "closed" =>
          /\ staff[s].draft \in DOMAIN drafts /\ drafts # <<>>
          /\ TextOf(drafts[staff[s].draft]) \in Text
    BY <1>0, RowTypes DEF Inv, Loaded
  <1>2. CASE Open(s)
    <2> DEFINE page == [pc |-> "open", draft |-> active, fresh |-> TRUE, text |-> None]
    <2>1. /\ staff' = [staff EXCEPT ![s] = page] /\ active # 0 /\ opens' = opens + 1
          /\ UNCHANGED <<step, aged, inquiry, drafts, active, gen, replaced,
                         takeovers, crashes>>
      BY <1>2 DEF Open
    <2>2. page \in Page(Len(drafts)) /\ page.pc = "open" /\ page.draft = active
      BY <1>0 DEF Page, StaffPlace
    <2> HIDE DEF page
    <2>3. /\ staff' \in [Staff -> Page(Len(drafts))] /\ staff'[s].pc = "open"
          /\ staff'[s].draft = active /\ \A t \in Staff \ {s} : staff'[t] = staff[t]
      BY <1>0, <2>1, <2>2
    <2>4. active \in DOMAIN drafts /\ drafts # <<>> /\ opens' \in Nat
      BY <1>0, <2>1
    <2> QED
      BY <1>0, <2>1, <2>3, <2>4, PageActs DEF Inv, Loaded
  <1>3. CASE Leave(s) \/ ReviewPending(s)
    <2>1. /\ staff' \in [Staff -> Page(Len(drafts))] /\ staff'[s].pc = "closed"
          /\ \A t \in Staff \ {s} : staff'[t] = staff[t]
      BY <1>0, <1>3, PageMoves DEF StaffPlace, Leave, ReviewPending
    <2>2. /\ inquiry' \in Inquiries
          /\ inquiry'.workflow = "POSTED" => inquiry'.posted
          /\ inquiry'.workflow = "NEW" => inquiry.workflow = "NEW"
      BY <1>0, <1>3, InquiryMoves DEF Leave, ReviewPending, Flow
    <2>3. /\ UNCHANGED <<step, aged, drafts, active, gen, replaced, takeovers, crashes>>
          /\ opens' \in Nat /\ drafts # <<>>
      BY <1>0, <1>1, <1>3 DEF Leave, ReviewPending
    <2> QED
      BY <2>1, <2>2, <2>3, PageActs DEF Inv, Loaded
  <1>4. ASSUME NEW t \in Edit, BeginEdit(s, t)
        PROVE  Acts
    <2>1. /\ Takes(s, "edit", t)
          /\ staff[s].pc # "closed"
          /\ UNCHANGED <<step, aged, inquiry, drafts, active, gen, replaced, opens,
                         takeovers, crashes>>
      BY <1>4 DEF BeginEdit, Takes
    <2>2. /\ staff' \in [Staff -> Page(Len(drafts))] /\ staff'[s].pc = "edit"
          /\ staff'[s].draft = staff[s].draft /\ staff'[s].text = t
          /\ \A u \in Staff \ {s} : staff'[u] = staff[u]
      <3>1. "edit" \in StaffPlace /\ t \in Text \cup {None}
        BY DEF StaffPlace, Text
      <3> QED
        BY <1>0, <2>1, <3>1, TextMoves
    <2> QED
      BY <1>0, <1>1, <2>1, <2>2, PageActs DEF Inv, Loaded
  <1>5. CASE BeginReset(s)
    <2>1. /\ StaffGoes(s, "reset") /\ staff[s].pc # "closed"
          /\ UNCHANGED <<step, aged, inquiry, drafts, active, gen, replaced, opens,
                         takeovers, crashes>>
      BY <1>5 DEF BeginReset
    <2>2. /\ staff' \in [Staff -> Page(Len(drafts))] /\ staff'[s].pc = "reset"
          /\ staff'[s].draft = staff[s].draft
          /\ \A u \in Staff \ {s} : staff'[u] = staff[u]
      BY <1>0, <2>1, PageMoves DEF StaffPlace
    <2> QED
      BY <1>0, <1>1, <2>1, <2>2, PageActs DEF Inv, Loaded
  <1>6. CASE BeginApprove(s)
    <2> DEFINE text == TextOf(drafts[staff[s].draft])
    <2>1. /\ Takes(s, "approve", text)
          /\ staff[s].pc # "closed"
          /\ UNCHANGED <<step, aged, inquiry, drafts, active, gen, replaced, opens,
                         takeovers, crashes>>
      BY <1>6 DEF BeginApprove, Takes
    <2>2. text \in Text \cup {None}
      BY <1>1, <2>1
    <2> HIDE DEF text
    <2>3. /\ staff' \in [Staff -> Page(Len(drafts))] /\ staff'[s].pc = "approve"
          /\ staff'[s].draft = staff[s].draft /\ staff'[s].text = text
          /\ \A u \in Staff \ {s} : staff'[u] = staff[u]
      <3>1. "approve" \in StaffPlace
        BY DEF StaffPlace
      <3> QED
        BY <1>0, <2>1, <2>2, <3>1, TextMoves
    <2>4. staff'[s].text = TextOf(drafts[staff'[s].draft])
      BY <2>3 DEF text
    <2> QED
      BY <1>0, <1>1, <2>1, <2>3, <2>4, PageActs DEF Inv, Loaded
  <1> QED
    BY <1>2, <1>3, <1>4, <1>5, <1>6, EditActs DEF StaffStep

LEMMA PipelineActs ==
  ASSUME Inv, (\E d \in DOMAIN drafts : FinalizeAuto(d)) \/ HoldForReview \/ Post
  PROVE  Acts
  <1>0. /\ TypeOK /\ inquiry \in Inquiries /\ opens \in Nat
        /\ staff \in [Staff -> Page(Len(drafts))]
        /\ inquiry.workflow = "POSTED" => inquiry.posted
        /\ drafts \in Seq(Row) /\ active \in 0..Len(drafts)
    BY Types DEF Inv, IInv, Places
  <1>1. ASSUME NEW d \in DOMAIN drafts, FinalizeAuto(d)
        PROVE  Acts
    <2> DEFINE row == [drafts[d] EXCEPT !.final = "PROGRAM", !.review = "AUTO_FINALIZED"]
    <2>1. /\ Update(d, row) /\ staff' = Touched(d)
          /\ UNCHANGED <<step, aged, inquiry, active, gen, replaced, opens,
                         takeovers, crashes>>
      BY <1>1 DEF FinalizeAuto
    <2>2. /\ row \in Row /\ row.review = "AUTO_FINALIZED" /\ row.final = "PROGRAM"
      BY <1>0, RowTypes DEF Row, Text
    <2> HIDE DEF row
    <2>3. Rewritten(d)
      BY <1>0, <2>1, TouchedPages DEF Rewritten
    <2> QED
      BY <1>0, <2>1, <2>2, <2>3, UpdateActs, DraftingAssumption
  <1>2. CASE HoldForReview
    <2>1. inquiry' \in Inquiries /\ inquiry'.workflow = "NEEDS_ATTENTION"
      BY <1>0, <1>2, InquiryMoves DEF HoldForReview, Flow
    <2> QED
      BY <1>0, <1>2, <2>1, PageActs DEF HoldForReview, Inv, Loaded
  <1>3. CASE Post
    <2> DEFINE row == [drafts[active] EXCEPT !.posted = TRUE]
    <2>1. /\ inquiry' = [inquiry EXCEPT !.posted = TRUE, !.workflow = "POSTED"]
          /\ Update(active, row) /\ staff' = Touched(active) /\ active # 0
          /\ UNCHANGED <<step, aged, active, gen, replaced, opens, takeovers, crashes>>
      BY <1>3 DEF Post
    <2>2. /\ inquiry' \in Inquiries /\ inquiry'.workflow = "POSTED"
          /\ inquiry'.posted = TRUE
      BY <1>0, <2>1 DEF Inquiries, Flow
    <2>3. active \in DOMAIN drafts
      BY <1>0, <2>1
    <2>4. row \in Row
      BY <1>0, <2>3, RowTypes DEF Row
    <2> HIDE DEF row
    <2>5. Rewritten(active)
      BY <1>0, <2>1, TouchedPages DEF Rewritten
    <2> QED
      BY <1>0, <2>1, <2>2, <2>3, <2>4, <2>5, UpdateActs
  <1> QED
    BY <1>1, <1>2, <1>3
-----------------------------------------------------------------------------
(* The inductive invariant.                                                *)

LEMMA ActsKeep ==
  ASSUME Inv, Acts
  PROVE  Inv'
  <1>0. /\ TypeOK /\ OneGeneratorUnlessTakenOver /\ drafts \in Seq(Row)
        /\ active \in 0..Len(drafts)
    BY Types DEF Inv, IInv
  <1>1. TypeOK'
    BY <1>0, Types, NextTypes DEF Acts
  <1>2. OneGeneratorUnlessTakenOver'
    BY <1>0 DEF Acts, OneGeneratorUnlessTakenOver, Working
  <1>3. drafts' \in Seq(Row) /\ Len(drafts') = Len(drafts) /\ drafts' # <<>>
        /\ DOMAIN drafts' = DOMAIN drafts
    BY <1>0 DEF Acts
  <1>4. Places'
    BY <1>3 DEF Acts, Places
  <1>5. Turns'
    <2> SUFFICES ASSUME inquiry'.workflow = "NEW" PROVE Turns'
      BY DEF Turns
    <2>1. /\ inquiry.workflow = "NEW"
          /\ \A d \in DOMAIN drafts :
               /\ drafts'[d].review = "APPROVED" => drafts[d].review = "APPROVED"
               /\ drafts[d].final # None => drafts'[d].final # None
          /\ UNCHANGED <<step, active, gen, replaced, crashes>>
      BY DEF Acts
    <2>2. Final => Final'
      BY <1>0, <2>1 DEF Final
    <2>3. Working' = Working
      BY <2>1 DEF Working
    <2> QED
      BY <1>3, <2>1, <2>2, <2>3 DEF Inv, Turns
  <1> QED
    BY <1>1, <1>2, <1>4, <1>5 DEF Inv, IInv, Acts

\* A draft that is inserted loads nothing, and is the active one or leaves a
\* protected one active.
LEMMA InsertKeeps ==
  ASSUME Inv, NEW g \in Gen, Insert(g), ~inquiry.posted
  PROVE  Places' /\ Loaded' /\ Says' /\ Turns'
  <1>0. /\ TypeOK /\ drafts \in Seq(Row) /\ Len(drafts) \in Nat
        /\ active \in 0..Len(drafts) /\ inquiry \in Inquiries
    BY Types DEF Inv, IInv
  <1>1. /\ drafts' \in Seq(Row) /\ Len(drafts') = Len(drafts) + 1
        /\ drafts' # <<>>
        /\ \A d \in DOMAIN drafts : drafts'[d] = drafts[d]
        /\ drafts'[Len(drafts) + 1].review = "PENDING"
        /\ active' = IF Protected(active) THEN active ELSE Len(drafts) + 1
        /\ \A h \in Gen \ {g} : gen'[h] = gen[h]
        /\ gen'[g].pc = "inserted"
        /\ ~gen'[g].activated <=> Protected(active)
    BY <1>0, InsertMoves
  <1>2. UNCHANGED <<step, inquiry, staff, replaced, crashes>> /\ gen[g].pc = "running"
    BY DEF Insert
  <1>3. DOMAIN drafts = 1..Len(drafts) /\ DOMAIN drafts' = 1..(Len(drafts) + 1)
    BY <1>0, <1>1
  <1>4. Loaded'
    BY <1>0, <1>1, <1>2, <1>3 DEF Inv, Loaded
  <1>5. Says'
    BY <1>0, <1>1, <1>2, <1>3 DEF Inv, Loaded, Says
  <1>6. Places'
    <2>1. inquiry.workflow # "POSTED"
      BY DEF Inv, Places
    <2> QED
      BY <1>1, <1>2, <2>1 DEF Places
  <1>7. Turns'
    <2> SUFFICES ASSUME inquiry.workflow = "NEW" PROVE Turns'
      BY <1>2 DEF Turns
    <2>1. \A d \in DOMAIN drafts' : drafts'[d].review # "APPROVED"
      BY <1>0, <1>1, <1>3 DEF Inv, Turns
    <2>2. Protected(active) => Final /\ Final'
      BY <1>0, <1>1, <1>3 DEF Inv, Turns, Protected, Final
    <2>3. Final => Protected(active)
      BY DEF Final, Protected
    <2>4. \A h \in Gen : gen'[h].pc \in {"inserted", "read", "complete", "status"}
                           /\ ~gen'[h].activated => Final' \/ replaced'
      BY <1>1, <1>2, <2>2, <2>3 DEF Inv, Turns
    <2>5. g \in Working'
      BY <1>1 DEF Working
    <2>6. crashes' = 0 /\ ~replaced' /\ step' # "PENDING" =>
            \/ step' = "RUNNING" /\ Working' # {}
            \/ \E h \in Gen : \/ gen'[h].pc = "attention"
                              \/ gen'[h].pc = "status" /\ gen'[h].activated
            \/ Final'
      <3>1. CASE Final
        BY <2>2, <2>3, <3>1
      <3>2. ASSUME NEW h \in Gen, \/ gen[h].pc = "attention"
                                  \/ gen[h].pc = "status" /\ gen[h].activated
            PROVE  \/ gen'[h].pc = "attention"
                   \/ gen'[h].pc = "status" /\ gen'[h].activated
        BY <1>1, <1>2, <3>2
      <3> QED
        BY <1>2, <2>5, <3>1, <3>2 DEF Inv, Turns
    <2> QED
      BY <1>2, <2>1, <2>4, <2>6 DEF Turns
  <1> QED
    BY <1>4, <1>5, <1>6, <1>7

\* The other steps of a generator write nothing the staff could have loaded.
LEMMA GenTurns ==
  ASSUME Inv, NEW g \in Gen, UNCHANGED <<drafts, active, staff>>,
         \A h \in Gen \ {g} : gen'[h] = gen[h],
         inquiry' = inquiry \/ inquiry'.workflow = "NEEDS_ATTENTION"
           \/ (inquiry'.workflow = "REVIEW_PENDING" /\ drafts # <<>>),
         replaced => replaced',
         gen'[g].pc \in {"read", "complete", "status"} =>
           /\ gen[g].pc \in {"inserted", "read", "complete"}
           /\ replaced' \/ (gen[g].activated => gen'[g].activated),
         gen'[g].pc # "inserted",
         inquiry'.workflow = "NEW" /\ crashes' = 0 /\ ~replaced' /\ step' # "PENDING" =>
           /\ crashes = 0
           /\ \/ step' = "RUNNING" /\ step = "RUNNING" /\ (Working # {} => Working' # {})
              \/ step' # "RUNNING" /\ step # "RUNNING" /\ step # "PENDING"
              \/ g \in Working' /\ step' = "RUNNING"
              \/ gen'[g].pc = "attention"
              \/ gen'[g].pc = "status"
           /\ gen[g].pc # "attention" /\ (gen[g].pc = "status" => ~gen[g].activated)
  PROVE  Places' /\ Loaded' /\ Says' /\ Turns'
  <1>1. Loaded' /\ Says'
    BY DEF Inv, Loaded, Says
  <1>2. Places'
    BY DEF Inv, Places
  <1>3. Turns'
    <2> SUFFICES ASSUME inquiry'.workflow = "NEW" PROVE Turns'
      BY DEF Turns
    <2>1. inquiry' = inquiry /\ Final' = Final
      BY DEF Final
    <2>2. \A h \in Gen : gen'[h].pc \in {"inserted", "read", "complete", "status"}
                           /\ ~gen'[h].activated => Final \/ replaced'
      BY <2>1 DEF Inv, Turns
    <2>3. ASSUME crashes' = 0, ~replaced', step' # "PENDING"
          PROVE  \/ step' = "RUNNING" /\ Working' # {}
                 \/ \E h \in Gen : \/ gen'[h].pc = "attention"
                                   \/ gen'[h].pc = "status" /\ gen'[h].activated
                 \/ Final
      <3>1. CASE \/ g \in Working' /\ step' = "RUNNING"
                 \/ gen'[g].pc \in {"attention", "status"}
        BY <2>2, <2>3, <3>1
      <3>2. CASE \/ step' = "RUNNING" /\ step = "RUNNING" /\ (Working # {} => Working' # {})
                 \/ step' # "RUNNING" /\ step # "RUNNING" /\ step # "PENDING"
        <4>1. /\ crashes = 0 /\ ~replaced /\ step # "PENDING"
              /\ gen[g].pc # "attention" /\ (gen[g].pc = "status" => ~gen[g].activated)
          BY <2>1, <2>3, <3>2
        <4>2. \/ step = "RUNNING" /\ Working # {}
              \/ \E h \in Gen : \/ gen[h].pc = "attention"
                                \/ gen[h].pc = "status" /\ gen[h].activated
              \/ Final
          BY <2>1, <4>1 DEF Inv, Turns
        <4>3. ASSUME NEW h \in Gen, \/ gen[h].pc = "attention"
                                    \/ gen[h].pc = "status" /\ gen[h].activated
              PROVE  gen'[h] = gen[h]
          BY <4>1, <4>3
        <4> QED
          BY <3>2, <4>2, <4>3
      <3> QED
        BY <2>1, <2>3, <3>1, <3>2
    <2> QED
      BY <2>1, <2>2, <2>3 DEF Inv, Turns
  <1> QED
    BY <1>1, <1>2, <1>3
LEMMA GenKeeps ==
  ASSUME Inv, NEW g \in Gen, GenStep(g) \/ Crash(g)
  PROVE  Inv'
  <1>0. /\ IInv' /\ TypeOK /\ gen[g] \in Job(Len(drafts)) /\ inquiry \in Inquiries
        /\ crashes \in Nat /\ drafts \in Seq(Row)
    BY GenKeepsIInv, Types DEF Inv, IInv
  <1>1. CASE Ask(g) \/ Refused(g)
    <2>1. PICK pc \in {"asked", "idle"} : GenGoes(g, pc) /\ gen[g].pc \in {"idle", "asked"}
      BY <1>1 DEF Ask, Refused
    <2>2. pc \in GenPlace /\ UNCHANGED <<step, inquiry, drafts, active, staff,
                                         replaced, crashes>>
      BY <1>1 DEF GenPlace, Ask, Refused
    <2>3. gen'[g].pc = pc /\ \A h \in Gen \ {g} : gen'[h] = gen[h]
      BY <1>0, <2>1, <2>2, GenMoves
    <2>4. Working' = Working
      BY <2>1, <2>3 DEF Working
    <2> QED
      BY <1>0, <2>1, <2>2, <2>3, <2>4, GenTurns DEF Inv
  <1>2. CASE Start(g) \/ TakeOver(g)
    <2>1. /\ GenGoes(g, "running") /\ gen[g].pc \in {"asked", "idle"} /\ step' = "RUNNING"
          /\ UNCHANGED <<inquiry, drafts, active, staff, replaced, crashes>>
      BY <1>2 DEF Start, TakeOver, Claim, MayStart
    <2>2. gen'[g].pc = "running" /\ \A h \in Gen \ {g} : gen'[h] = gen[h]
      BY <1>0, <2>1, GenMoves DEF GenPlace
    <2>3. g \in Working'
      BY <2>2 DEF Working
    <2> QED
      BY <1>0, <2>1, <2>2, <2>3, GenTurns DEF Inv
  <1>3. CASE Insert(g) /\ ~inquiry.posted
    BY <1>0, <1>3, InsertKeeps DEF Inv
  <1>4. CASE (Insert(g) /\ inquiry.posted) \/ Stop(g)
    <2>1. PICK pc \in {"blocked", "failing"} :
            GenGoes(g, pc) /\ gen[g].pc = "running"
            /\ UNCHANGED <<step, inquiry, drafts, active, staff, replaced, crashes>>
      BY <1>4 DEF Insert, Stop
    <2>2. pc \in GenPlace
      BY DEF GenPlace
    <2>3. gen'[g].pc = pc /\ \A h \in Gen \ {g} : gen'[h] = gen[h]
      BY <1>0, <2>1, <2>2, GenMoves
    <2>4. Working' = Working
      BY <2>1, <2>3 DEF Working
    <2> QED
      BY <1>0, <2>1, <2>3, <2>4, GenTurns DEF Inv
  <1>5. CASE ReadBack(g)
    <2>1. /\ \A h \in Gen \ {g} : gen'[h] = gen[h]
          /\ gen'[g].pc = "read" /\ (replaced => replaced')
          /\ replaced' \/ (gen[g].activated => gen'[g].activated)
      BY <1>0, <1>5, ReadBackMoves
    <2>2. gen[g].pc = "inserted" /\ UNCHANGED <<step, inquiry, drafts, active, staff, crashes>>
      BY <1>5 DEF ReadBack
    <2>3. Working' = Working
      BY <2>1, <2>2 DEF Working
    <2> QED
      BY <1>0, <2>1, <2>2, <2>3, GenTurns DEF Inv
  <1>11. CASE ReadActive(g)
    <2>1. PICK pc \in {"failing", "complete"} :
            /\ \A h \in Gen \ {g} : gen'[h] = gen[h]
            /\ gen'[g].pc = pc /\ gen'[g].activated = gen[g].activated
      BY <1>0, <1>11, ReadActiveMoves
    <2>2. /\ gen[g].pc = "read"
          /\ UNCHANGED <<step, inquiry, drafts, active, staff, replaced, crashes>>
      BY <1>11 DEF ReadActive
    <2>3. Working' = Working
      BY <2>1, <2>2 DEF Working
    <2> QED
      BY <1>0, <2>1, <2>2, <2>3, GenTurns DEF Inv
  <1>6. CASE CompleteStep(g)
    <2>1. PICK pc \in {"status", "failing"} :
            /\ GenGoes(g, pc) /\ gen[g].pc = "complete"
            /\ pc = "status" \/ (step' = step /\ step # "RUNNING")
            /\ UNCHANGED <<inquiry, drafts, active, staff, replaced, crashes>>
      BY <1>6 DEF CompleteStep
    <2>2. pc \in GenPlace
      BY DEF GenPlace
    <2>3. /\ gen'[g].pc = pc /\ gen'[g].activated = gen[g].activated
          /\ \A h \in Gen \ {g} : gen'[h] = gen[h]
      BY <1>0, <2>1, <2>2, GenMoves
    <2> QED
      BY <1>0, <2>1, <2>3, GenTurns DEF Inv
  <1>7. CASE SetStatus(g)
    <2>1. /\ gen' = [gen EXCEPT ![g] = NoJob] /\ gen[g].pc = "status"
          /\ IF gen[g].activated THEN Workflow("REVIEW_PENDING") ELSE UNCHANGED inquiry
          /\ UNCHANGED <<step, drafts, active, staff, replaced, crashes>>
      BY <1>7 DEF SetStatus
    <2>2. gen'[g].pc = "idle" /\ \A h \in Gen \ {g} : gen'[h] = gen[h]
      BY <1>0, <2>1, NoJobMoves
    <2>3. Working' = Working
      BY <2>1, <2>2 DEF Working
    <2>4. CASE gen[g].activated
      <3>1. inquiry'.workflow = "REVIEW_PENDING" /\ drafts # <<>>
        BY <1>0, <2>1, <2>4, InquiryMoves DEF Flow, Inv, Places
      <3> QED
        BY <1>0, <2>1, <2>2, <3>1, GenTurns DEF Inv
    <2>5. CASE ~gen[g].activated
      BY <1>0, <2>1, <2>2, <2>3, <2>5, GenTurns DEF Inv
    <2> QED
      BY <2>4, <2>5
  <1>8. CASE EndStep(g)
    <2>1. CASE GenGoes(g, "attention")
      <3>1. "attention" \in GenPlace
        BY DEF GenPlace
      <3>2. gen'[g].pc = "attention" /\ \A h \in Gen \ {g} : gen'[h] = gen[h]
        BY <1>0, <2>1, <3>1, GenMoves
      <3>3. UNCHANGED <<inquiry, drafts, active, staff, replaced, crashes>>
            /\ gen[g].pc \in {"blocked", "failing"}
        BY <1>8 DEF EndStep
      <3> QED
        BY <1>0, <3>2, <3>3, GenTurns DEF Inv
    <2>2. CASE gen' = [gen EXCEPT ![g] = NoJob] /\ UNCHANGED step /\ step # "RUNNING"
      <3>1. gen'[g].pc = "idle" /\ \A h \in Gen \ {g} : gen'[h] = gen[h]
        BY <1>0, <2>2, NoJobMoves
      <3>2. UNCHANGED <<inquiry, drafts, active, staff, replaced, crashes>>
            /\ gen[g].pc \in {"blocked", "failing"}
        BY <1>8 DEF EndStep
      <3> QED
        BY <1>0, <2>2, <3>1, <3>2, GenTurns DEF Inv
    <2> QED
      BY <1>8, <2>1, <2>2 DEF EndStep
  <1>9. CASE SetAttention(g)
    <2>1. /\ gen' = [gen EXCEPT ![g] = NoJob] /\ Workflow("NEEDS_ATTENTION")
          /\ UNCHANGED <<step, drafts, active, staff, replaced, crashes>>
      BY <1>9 DEF SetAttention
    <2>2. gen'[g].pc = "idle" /\ \A h \in Gen \ {g} : gen'[h] = gen[h]
      BY <1>0, <2>1, NoJobMoves
    <2>3. inquiry'.workflow = "NEEDS_ATTENTION"
      BY <1>0, <2>1, InquiryMoves DEF Flow
    <2> QED
      BY <1>0, <2>1, <2>2, <2>3, GenTurns DEF Inv
  <1>10. CASE Crash(g)
    <2>1. /\ gen' = [gen EXCEPT ![g] = NoJob] /\ crashes' = crashes + 1
          /\ UNCHANGED <<step, inquiry, drafts, active, staff, replaced>>
      BY <1>10 DEF Crash
    <2>2. gen'[g].pc = "idle" /\ \A h \in Gen \ {g} : gen'[h] = gen[h]
      BY <1>0, <2>1, NoJobMoves
    <2>3. crashes' # 0
      BY <1>0, <2>1
    <2> QED
      BY <1>0, <2>1, <2>2, <2>3, GenTurns DEF Inv
  <1> QED
    BY <1>1, <1>2, <1>3, <1>4, <1>5, <1>6, <1>7, <1>8, <1>9, <1>10, <1>11 DEF GenStep

LEMMA StepKeeps == Inv /\ [Next]_vars => Inv'
  <1> SUFFICES ASSUME Inv, [Next]_vars PROVE Inv'
    OBVIOUS
  <1>1. ASSUME step' = step, aged' \in BOOLEAN,
               UNCHANGED <<inquiry, drafts, active, gen, staff, replaced, opens,
                           takeovers, crashes>>
        PROVE  Inv'
    <2>1. TypeOK'
      BY <1>1, Types, NextTypes DEF Inv, IInv
    <2> QED
      BY <1>1, <2>1 DEF Inv, IInv, OneGeneratorUnlessTakenOver, Working, Places, Loaded,
                        Says, Turns, Final
  <1>2. CASE Age \/ UNCHANGED vars
    <2>1. aged' \in BOOLEAN
      BY <1>2, Types, Zenon DEF Age, vars, Inv, IInv
    <2> QED
      BY <1>1, <1>2, <2>1 DEF Age, vars
  <1>3. CASE Next
    BY <1>2, <1>3, GenKeeps, StaffActs, PipelineActs, ActsKeep DEF Next
  <1> QED
    BY <1>2, <1>3

LEMMA InitInv == Init => Inv
  <1> SUFFICES ASSUME Init PROVE Inv
    OBVIOUS
  <1>1. inquiry \in Inquiries /\ inquiry.workflow = "NEW"
    BY DEF Init, Inquiries, Flow
  <1>2. /\ drafts = <<>> /\ drafts \in Seq(Row) /\ Len(drafts) = 0 /\ active = 0
        /\ DOMAIN drafts = {}
    BY DEF Init
  <1>3. gen \in [Gen -> Job(0)] /\ \A g \in Gen : gen[g].pc = "idle"
    BY NoJobIsJob DEF Init, NoJob
  <1>4. /\ staff \in [Staff -> Page(0)] /\ \A s \in Staff : staff[s].pc = "closed"
    BY DEF Init, NoPage, Page, StaffPlace
  <1>5. aged \in BOOLEAN /\ replaced \in BOOLEAN
    BY Zenon DEF Init
  <1>6. TypeOK
    BY <1>1, <1>2, <1>3, <1>4, <1>5, Types, DraftingAssumption DEF Init, Status
  <1>7. Working = {} /\ Cardinality(Working) = 0
    BY <1>3, FS_EmptySet DEF Working
  <1>8. OneGeneratorUnlessTakenOver
    BY <1>7 DEF Init, OneGeneratorUnlessTakenOver
  <1> QED
    BY <1>1, <1>2, <1>3, <1>4, <1>6, <1>8
       DEF Inv, IInv, Places, Loaded, Says, Turns, Final, Init

\* Two generators work on one inquiry only where the step of one of them had
\* outlived its lease (AnswerService._start_generation_step).
THEOREM OneGenerator == Spec => []IInv
  <1>1. Inv => IInv
    BY DEF Inv
  <1> QED
    BY <1>1, InitInv, StepKeeps, PTL DEF Spec

THEOREM Inductive == Spec => []Inv
  BY InitInv, StepKeeps, PTL DEF Spec

\* A generation that has ended is in front of the staff, whatever they, other
\* generators and the pipeline do meanwhile (InquiryRepository.list), until a late
\* generator has found its draft replaced by that of the one that took its step over.
THEOREM GenerationsSeen == Spec => []Seen
  <1>1. Inv => Seen
    <2> SUFFICES ASSUME Inv, \A g \in Gen : gen[g].pc \in {"idle", "asked"},
                        crashes = 0, ~replaced, step # "PENDING",
                        ~inquiry.posted,
                        active # 0 => drafts[active].final = None
                 PROVE  IF drafts = <<>>
                        THEN inquiry.workflow = "NEEDS_ATTENTION"
                        ELSE inquiry.workflow \in {"REVIEW_PENDING", "NEEDS_ATTENTION",
                                                   "READY_TO_POST"}
      BY DEF Seen
    <2>1. Working = {} /\ ~Final
      BY DEF Working, Final
    <2>2. inquiry.workflow # "NEW"
      BY <2>1 DEF Inv, Turns
    <2>3. inquiry.workflow # "POSTED" /\ inquiry.workflow \in Flow
      BY Types DEF Inv, IInv, Places, Inquiries
    <2> QED
      BY <2>2, <2>3 DEF Inv, Places, Flow
  <1> QED
    BY <1>1, Inductive, PTL
-----------------------------------------------------------------------------
(* What an approval makes final.                                           *)

FinalAsSaid ==
  \A d \in DOMAIN drafts :
    drafts'[d].review = "APPROVED" /\ drafts[d].review # "APPROVED" =>
      drafts'[d].final = TextOf(drafts[d])

LEMMA UpdateSays ==
  ASSUME TypeOK, NEW d \in DOMAIN drafts, NEW row \in Row, Update(d, row),
         row.review = "APPROVED" /\ drafts[d].review # "APPROVED" =>
           row.final = TextOf(drafts[d])
  PROVE  FinalAsSaid
  BY UpdateMoves DEF FinalAsSaid

LEMMA StaffSays ==
  ASSUME Inv, NEW s \in Staff, StaffStep(s)
  PROVE  FinalAsSaid
  <1> DEFINE d == staff[s].draft
  <1>1. CASE UNCHANGED drafts
    BY <1>1 DEF FinalAsSaid
  <1>2. ASSUME SaveEdit(s) \/ MarkReview(s) \/ ClearEdit(s) \/ CommitApprove(s)
                 \/ CancelApproval(s), drafts' # drafts
        PROVE  FinalAsSaid
    <2>1. /\ TypeOK /\ d \in DOMAIN drafts /\ drafts[d] \in Row
      BY <1>2, RowTypes
         DEF Inv, IInv, Loaded, SaveEdit, MarkReview, ClearEdit, CommitApprove, CancelApproval
    <2>2. CASE SaveEdit(s)
      <3>1. Update(d, [drafts[d] EXCEPT !.edited = staff[s].text]) /\ staff[s].text \in Edit
        BY <1>2, <2>2 DEF SaveEdit, Inv, Says
      <3>2. /\ [drafts[d] EXCEPT !.edited = staff[s].text] \in Row
            /\ [drafts[d] EXCEPT !.edited = staff[s].text].review = drafts[d].review
        BY <2>1, <3>1 DEF Row
      <3> QED
        BY <2>1, <3>1, <3>2, UpdateSays
    <2>3. CASE MarkReview(s)
      <3>1. PICK mark \in {"IN_REVIEW", "PENDING"} :
              Update(d, [drafts[d] EXCEPT !.review = mark])
        BY <1>2, <2>3 DEF MarkReview
      <3>2. /\ [drafts[d] EXCEPT !.review = mark] \in Row
            /\ [drafts[d] EXCEPT !.review = mark].review # "APPROVED"
        BY <2>1 DEF Row
      <3> QED
        BY <2>1, <3>1, <3>2, UpdateSays
    <2>4. CASE ClearEdit(s)
      <3>1. Update(d, [drafts[d] EXCEPT !.edited = None])
        BY <1>2, <2>4 DEF ClearEdit
      <3>2. /\ [drafts[d] EXCEPT !.edited = None] \in Row
            /\ [drafts[d] EXCEPT !.edited = None].review = drafts[d].review
        BY <2>1 DEF Row
      <3> QED
        BY <2>1, <3>1, <3>2, UpdateSays
    <2>5. CASE CommitApprove(s)
      <3> DEFINE row == [drafts[d] EXCEPT !.final = staff[s].text, !.review = "APPROVED"]
      <3>1. /\ Update(d, row) /\ staff[s].text \in Text
            /\ staff[s].text = TextOf(drafts[d])
        BY <1>2, <2>5 DEF CommitApprove, Approved, Inv, Says
      <3>2. row \in Row /\ row.final = staff[s].text
        BY <2>1, <3>1 DEF Row
      <3> HIDE DEF row
      <3> QED
        BY <2>1, <3>1, <3>2, UpdateSays
    <2>6. CASE CancelApproval(s)
      <3> DEFINE row == [drafts[d] EXCEPT !.final = None, !.review = "IN_REVIEW"]
      <3>1. Update(d, row)
        BY <2>6 DEF CancelApproval
      <3>2. row \in Row /\ row.review = "IN_REVIEW"
        BY <2>1 DEF Row
      <3> HIDE DEF row
      <3> QED
        BY <2>1, <3>1, <3>2, UpdateSays
    <2> QED
      BY <1>2, <2>2, <2>3, <2>4, <2>5, <2>6
  <1> QED
    BY <1>1, <1>2 DEF StaffStep, Open, Leave, BeginEdit, ReviewPending, BeginReset,
                      BeginApprove

LEMMA StepSays ==
  ASSUME Inv, [Next]_vars
  PROVE  FinalAsSaid
  <1>0. TypeOK
    BY DEF Inv, IInv
  <1>1. CASE UNCHANGED drafts
    BY <1>1 DEF FinalAsSaid
  <1>2. ASSUME NEW g \in Gen, GenStep(g) \/ Crash(g), drafts' # drafts
        PROVE  FinalAsSaid
    <2>1. Insert(g) /\ ~inquiry.posted
      BY <1>2 DEF GenStep, Ask, Start, TakeOver, Claim, Refused, Insert, Stop, ReadBack,
                  ReadActive, CompleteStep, SetStatus, EndStep, SetAttention, Crash
    <2> QED
      BY <1>0, <2>1, InsertMoves DEF FinalAsSaid
  <1>3. ASSUME NEW d \in DOMAIN drafts, FinalizeAuto(d)
        PROVE  FinalAsSaid
    <2> DEFINE row == [drafts[d] EXCEPT !.final = "PROGRAM", !.review = "AUTO_FINALIZED"]
    <2>1. Update(d, row)
      BY <1>3 DEF FinalizeAuto
    <2>2. row \in Row /\ row.review = "AUTO_FINALIZED"
      BY <1>0, RowTypes DEF Row, Text
    <2> HIDE DEF row
    <2> QED
      BY <1>0, <2>1, <2>2, UpdateSays
  <1>4. CASE Post
    <2> DEFINE row == [drafts[active] EXCEPT !.posted = TRUE]
    <2>1. Update(active, row) /\ active \in DOMAIN drafts
      BY <1>0, <1>4, Types DEF Post
    <2>2. row \in Row /\ row.review = drafts[active].review
      BY <1>0, <2>1, RowTypes DEF Row
    <2> HIDE DEF row
    <2> QED
      BY <1>0, <2>1, <2>2, UpdateSays
  <1> QED
    BY <1>1, <1>2, <1>3, <1>4, StaffSays DEF Next, vars, Age, HoldForReview

\* What becomes the final answer by an approval is what the draft says when it is
\* approved, for any number of sessions that save, reset and approve
\* (ApprovalRepository.approve).
THEOREM ApprovesAsSaid == Spec => ApprovesCurrentText
  <1>1. Inv /\ [Next]_vars
          => [\A d \in DOMAIN drafts :
                drafts'[d].review = "APPROVED" /\ drafts[d].review # "APPROVED" =>
                  drafts'[d].final = TextOf(drafts[d])]_vars
    BY StepSays DEF FinalAsSaid
  <1> QED
    BY <1>1, Inductive, PTL DEF Spec, ApprovesCurrentText
=============================================================================
