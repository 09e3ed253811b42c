---------------------------- MODULE Recipes_proofs ----------------------------
(***************************************************************************)
(* Proofs about Recipes, for any number of handlers and versions.          *)
(***************************************************************************)
EXTENDS Recipes, SequenceTheorems, TLAPS

\* What a step may do to the versions: they grow, and so does their history.
Grown ==
  /\ version' \in Seq(Status)
  /\ been' \in Seq(SUBSET Status) /\ Len(been') = Len(version')
  /\ Numbers \subseteq Numbers'
  /\ \A v \in Numbers : been[v] \subseteq been'[v]
  /\ \A v \in Numbers' : version'[v] \in been'[v]
  /\ \A v \in Numbers : version'[v] = "draft" => version[v] = "draft"
  /\ \A v \in Numbers' : {"approved", "rejected"} \cap been'[v] # {} =>
       "submitted_for_review" \in been'[v]

\* The versions and their history before a step.
Sound ==
  /\ version \in Seq(Status)
  /\ been \in Seq(SUBSET Status) /\ Len(been) = Len(version)
  /\ \A v \in Numbers : version[v] \in been[v]
  /\ \A v \in Numbers : {"approved", "rejected"} \cap been[v] # {} =>
       "submitted_for_review" \in been[v]

LEMMA IInvSound == IInv => Sound
BY DEF IInv, TypeOK, HandlersRely, UseWasReviewed, Sound

LEMMA SameGrows ==
  ASSUME Sound, UNCHANGED <<version, been>> PROVE Grown
BY DEF Sound, Grown, Numbers

LEMMA AppendGrows ==
  ASSUME Sound, version' = Append(version, "draft"), been' = Append(been, {"draft"})
  PROVE  Grown
<1> DEFINE n == Len(version)
<1>1. "draft" \in Status /\ {"draft"} \in SUBSET Status
  BY DEF Status
<1>2. /\ version' \in Seq(Status) /\ Len(version') = n + 1
      /\ \A i \in 1..n : version'[i] = version[i]
      /\ version'[n + 1] = "draft"
  BY <1>1, AppendProperties DEF Sound
<1>3. /\ been' \in Seq(SUBSET Status) /\ Len(been') = n + 1
      /\ \A i \in 1..n : been'[i] = been[i]
      /\ been'[n + 1] = {"draft"}
  BY <1>1, AppendProperties DEF Sound
<1>4. n \in Nat /\ Numbers = 1..n /\ Numbers' = 1..(n + 1)
  BY <1>2, LenProperties DEF Sound, Numbers
<1>5. \A v \in Numbers' : v \in Numbers \/ v = n + 1
  BY <1>4
<1> QED BY <1>2, <1>3, <1>4, <1>5 DEF Sound, Grown

LEMMA SetGrows ==
  ASSUME Sound, NEW v \in Numbers, NEW status \in Status \ {"draft"},
         SetStatus(v, status),
         status \in {"approved", "rejected"} => "submitted_for_review" \in been[v]
  PROVE  Grown /\ Numbers' = Numbers
         /\ status \in been'[v] /\ version'[v] = status
         /\ \A w \in Numbers \ {v} : version'[w] = version[w]
<1> DEFINE n == Len(version)
<1>1. n \in Nat /\ Numbers = 1..n /\ v \in 1..n /\ Len(been) = n
  BY LenProperties DEF Sound, Numbers
<1>2. been[v] \in SUBSET Status
  BY <1>1, ElementOfSeq DEF Sound
<1>3. /\ version' \in Seq(Status) /\ Len(version') = n
      /\ \A w \in 1..n : version'[w] = IF w = v THEN status ELSE version[w]
  BY <1>1, ExceptSeq DEF Sound, SetStatus
<1>4. been[v] \cup {status} \in SUBSET Status
  BY <1>2
<1>5. been' = [been EXCEPT ![v] = been[v] \cup {status}]
  BY DEF SetStatus
<1>6. /\ been' \in Seq(SUBSET Status) /\ Len(been') = n
      /\ \A w \in 1..n :
           been'[w] = IF w = v THEN been[v] \cup {status} ELSE been[w]
  BY <1>1, <1>4, <1>5, ExceptSeq DEF Sound
<1>7. Numbers' = 1..n
  BY <1>3 DEF Numbers
<1>8. \A w \in Numbers : been[w] \subseteq been'[w]
  BY <1>1, <1>6
<1>9. \A w \in Numbers' : version'[w] \in been'[w]
  BY <1>1, <1>3, <1>6, <1>7 DEF Sound
<1>10. \A w \in Numbers : version'[w] = "draft" => version[w] = "draft"
  BY <1>1, <1>3
<1>11. \A w \in Numbers' : {"approved", "rejected"} \cap been'[w] # {} =>
         "submitted_for_review" \in been'[w]
  BY <1>1, <1>6, <1>7 DEF Sound
<1> QED BY <1>1, <1>3, <1>6, <1>7, <1>8, <1>9, <1>10, <1>11 DEF Grown

\* A handler moves to a place where it knows what it relies on; the others rely
\* on what only grows.
LEMMA HandlersStep ==
  ASSUME TypeOK, HandlersRely, Grown,
         NEW h \in Handlers, NEW place \in Places, NEW v \in Nat,
         Goto(h, place, v), Knows(place, v)'
  PROVE  /\ HandlersRely'
         /\ pc' \in [Handlers -> Places] /\ on' \in [Handlers -> Nat]
<1>1. pc' \in [Handlers -> Places] /\ on' \in [Handlers -> Nat]
  BY DEF TypeOK, Goto
<1>2. ASSUME NEW g \in Handlers PROVE Knows(pc[g], on[g])'
  <2>1. CASE g = h
    <3>1. pc'[g] = place /\ on'[g] = v
      BY <2>1 DEF TypeOK, Goto
    <3> QED BY <3>1 DEF Knows, Numbers
  <2>2. CASE g # h
    <3>1. pc'[g] = pc[g] /\ on'[g] = on[g]
      BY <2>2 DEF TypeOK, Goto
    <3>2. Knows(pc[g], on[g])
      BY DEF HandlersRely
    <3> QED BY <3>1, <3>2 DEF Knows, Grown
  <2> QED BY <2>1, <2>2
<1> QED BY <1>1, <1>2 DEF HandlersRely, Grown

LEMMA QuietHandlers ==
  ASSUME TypeOK, HandlersRely, Grown, UNCHANGED handlerVars
  PROVE  /\ HandlersRely'
         /\ pc' \in [Handlers -> Places] /\ on' \in [Handlers -> Nat]
<1>1. ASSUME NEW g \in Handlers PROVE Knows(pc[g], on[g])'
  <2>1. Knows(pc[g], on[g])
    BY DEF HandlersRely
  <2> QED BY <2>1 DEF Knows, Grown, handlerVars
<1> QED BY <1>1 DEF HandlersRely, Grown, TypeOK, handlerVars

\* What is used was approved once; and it stays so while nothing else is used.
Used(v) == v \in Numbers /\ "approved" \in been[v]

LEMMA UsedBefore ==
  IInv => \A v \in (materials \cup {current}) \ {0} : Used(v)
<1> SUFFICES ASSUME IInv, NEW v \in (materials \cup {current}) \ {0} PROVE Used(v)
  OBVIOUS
<1>1. v \in Numbers
  BY LenProperties DEF IInv, TypeOK, Numbers
<1> QED BY <1>1 DEF IInv, UseWasReviewed, Used

LEMMA UsedAfter ==
  ASSUME IInv, Grown,
         \A v \in (materials' \cup {current'}) \ {0} : Used(v),
         current' \in Nat, 0 \notin materials'
  PROVE  /\ UseWasReviewed'
         /\ current' \in 0..Len(version') /\ materials' \in SUBSET Numbers'
<1>1. \A v \in (materials' \cup {current'}) \ {0} :
        v \in Numbers' /\ "approved" \in been'[v]
  BY DEF Grown, Used
<1>2. Len(version') \in Nat
  BY LenProperties DEF Grown
<1>3. current' = 0 \/ current' \in Numbers'
  BY <1>1
<1> QED BY <1>1, <1>2, <1>3 DEF UseWasReviewed, Grown, Numbers

\* Approved versions are accounted for after a step that leaves the current
\* version alone, approves only with a handler to follow up, and takes no
\* handler away from an approved version but by a failure.
LEMMA QuietStep ==
  ASSUME IInv, Grown,
         HandlersRely' /\ pc' \in [Handlers -> Places] /\ on' \in [Handlers -> Nat],
         UNCHANGED <<current, materials>>, overlapped' \in BOOLEAN,
         cutShort' \in SUBSET Numbers, cutShort \subseteq cutShort',
         \A v \in Numbers' : version'[v] = "approved" =>
           \/ v \in Numbers /\ version[v] = "approved"
           \/ \E g \in Handlers : pc'[g] = "setCurrent" /\ on'[g] = v,
         \A g \in Handlers : pc[g] = "setCurrent" =>
           \/ pc'[g] = "setCurrent" /\ on'[g] = on[g]
           \/ on[g] \in cutShort'
  PROVE  IInv'
<1>1. current' \in Nat /\ 0 \notin materials'
  BY LenProperties DEF IInv, TypeOK, Numbers
<1>2. /\ UseWasReviewed'
      /\ current' \in 0..Len(version') /\ materials' \in SUBSET Numbers'
  BY <1>1, UsedBefore, UsedAfter
<1>3. ApprovedGoesLive'
  <2>1. ASSUME NEW v \in Numbers', version'[v] = "approved"
        PROVE  \/ current' # 0
               \/ v \in cutShort'
               \/ \E g \in Handlers : pc'[g] = "setCurrent" /\ on'[g] = v
    BY <2>1 DEF IInv, ApprovedGoesLive
  <2> QED BY <2>1 DEF ApprovedGoesLive
<1>4. TypeOK'
  BY <1>2 DEF Grown, TypeOK
<1> QED BY <1>2, <1>3, <1>4 DEF IInv

\* A handler starts, or goes on without writing a status.
LEMMA MoveStep ==
  ASSUME IInv, Grown, NEW h \in Handlers, NEW place \in Places, NEW v \in Nat,
         Goto(h, place, v), Knows(place, v)', pc[h] # "setCurrent",
         UNCHANGED <<current, materials, cutShort>>, overlapped' \in BOOLEAN,
         \A w \in Numbers' : version'[w] = "approved" =>
           \/ w \in Numbers /\ version[w] = "approved"
           \/ place = "setCurrent" /\ v = w
  PROVE  IInv'
<1>1. HandlersRely' /\ pc' \in [Handlers -> Places] /\ on' \in [Handlers -> Nat]
  BY HandlersStep DEF IInv
<1>2. \A g \in Handlers :
        IF g = h THEN pc'[g] = place /\ on'[g] = v
                 ELSE pc'[g] = pc[g] /\ on'[g] = on[g]
  BY DEF Goto, IInv, TypeOK
<1>3. \A w \in Numbers' : version'[w] = "approved" =>
        \/ w \in Numbers /\ version[w] = "approved"
        \/ \E g \in Handlers : pc'[g] = "setCurrent" /\ on'[g] = w
  BY <1>2
<1>4. cutShort' \in SUBSET Numbers /\ cutShort \subseteq cutShort'
  BY DEF IInv, TypeOK
<1> QED BY <1>1, <1>2, <1>3, <1>4, QuietStep

LEMMA IInvInit == Init => IInv
<1> SUFFICES ASSUME Init PROVE IInv
  OBVIOUS
<1>1. /\ version \in Seq(Status) /\ been \in Seq(SUBSET Status)
      /\ Len(version) = 0 /\ Len(been) = 0
  BY EmptySeq DEF Init
<1>2. Numbers = {}
  BY <1>1 DEF Numbers
<1>3. pc \in [Handlers -> {"number", "idle"}] /\ on = [h \in Handlers |-> 0]
  BY DEF Init
<1>4. TypeOK
  <2>1. pc \in [Handlers -> Places] /\ on \in [Handlers -> Nat]
    BY <1>3 DEF Places
  <2>2. current \in 0..Len(version)
    BY <1>1 DEF Init
  <2> QED BY <1>1, <2>1, <2>2 DEF Init, TypeOK
<1>5. HandlersRely
  BY <1>2, <1>3 DEF HandlersRely, Knows
<1> QED BY <1>2, <1>4, <1>5 DEF Init, IInv, UseWasReviewed, ApprovedGoesLive

\* The steps that leave the versions alone.
LEMMA ReadStep ==
  ASSUME IInv, NEW h \in Handlers,
         LoadRecipe(h) \/ Number(h) \/ LoadToSubmit(h) \/ LoadToApprove(h)
         \/ LoadToReject(h) \/ LoadForMaterial(h)
  PROVE  IInv' /\ Grown
<1>1. UNCHANGED <<version, been, current, materials, cutShort>>
  BY DEF LoadRecipe, Number, LoadToSubmit, LoadToApprove, LoadToReject,
         LoadForMaterial, historyVars
<1>2. Grown
  BY <1>1, IInvSound, SameGrows
<1>3. Numbers \subseteq Nat /\ Len(version) \in Nat /\ Numbers' = Numbers
  BY <1>1, LenProperties DEF IInv, TypeOK, Numbers
<1>4. overlapped' \in BOOLEAN /\ pc[h] # "setCurrent"
  BY DEF LoadRecipe, Number, LoadToSubmit, LoadToApprove, LoadToReject,
         LoadForMaterial, historyVars, Start, IInv, TypeOK
<1>5. \E place \in Places, v \in Nat : Goto(h, place, v) /\ Knows(place, v)'
  <2>1. CASE LoadRecipe(h)
    <3>1. Goto(h, "number", 0) /\ "number" \in Places /\ 0 \in Nat
      BY <2>1 DEF LoadRecipe, Start, Places
    <3> QED BY <3>1 DEF Knows
  <2>2. CASE Number(h)
    <3>1. Goto(h, "insert", Len(version) + 1) /\ "insert" \in Places
      BY <2>2 DEF Number, Places
    <3> QED BY <1>3, <3>1 DEF Knows
  <2>3. CASE LoadToSubmit(h)
    <3>1. /\ Goto(h, "submit", Len(version)) /\ "submit" \in Places
          /\ Len(version) \in Numbers
      BY <1>3, <2>3 DEF LoadToSubmit, Start, Places, Numbers
    <3> QED BY <1>3, <3>1 DEF Knows
  <2>4. CASE LoadToApprove(h) \/ LoadToReject(h)
    <3>1. PICK v \in Numbers :
            /\ version[v] = "submitted_for_review"
            /\ Goto(h, "approve", v) \/ Goto(h, "reject", v)
      BY <2>4 DEF LoadToApprove, LoadToReject, IsSubmitted, Start
    <3>2. "submitted_for_review" \in been[v]
      BY <3>1 DEF IInv, HandlersRely
    <3> QED BY <1>1, <1>3, <3>1, <3>2 DEF Knows, Places
  <2>5. CASE LoadForMaterial(h)
    <3>1. PICK v \in Numbers : version[v] = "approved" /\ Goto(h, "addMaterial", v)
      BY <2>5 DEF LoadForMaterial, Start
    <3>2. "approved" \in been[v]
      BY <3>1 DEF IInv, HandlersRely
    <3> QED BY <1>1, <1>3, <3>1, <3>2 DEF Knows, Places
  <2> QED BY <2>1, <2>2, <2>3, <2>4, <2>5
<1> QED BY <1>1, <1>2, <1>3, <1>4, <1>5, MoveStep

LEMMA InsertStep ==
  ASSUME IInv, NEW h \in Handlers, Insert(h) PROVE IInv' /\ Grown
<1>1. Goto(h, "idle", 0) /\ UNCHANGED <<current, materials, overlapped, cutShort>>
  BY DEF Insert, Done
<1>2. CASE on[h] = Len(version) + 1
  <2>1. version' = Append(version, "draft") /\ been' = Append(been, {"draft"})
    BY <1>2 DEF Insert
  <2>2. Grown
    BY <2>1, IInvSound, AppendGrows
  <2>3. \A w \in Numbers' : version'[w] = "approved" =>
          w \in Numbers /\ version[w] = "approved"
    <3>1. /\ Len(version') = Len(version) + 1 /\ Len(version) \in Nat
          /\ \A i \in 1..Len(version) : version'[i] = version[i]
          /\ version'[Len(version) + 1] = "draft"
      BY <2>1, AppendProperties, LenProperties DEF IInv, TypeOK, Status
    <3> QED BY <3>1 DEF Numbers
  <2> QED BY <1>1, <2>2, <2>3, MoveStep DEF Insert, Knows, Places, IInv, TypeOK
<1>3. CASE on[h] # Len(version) + 1
  <2>1. UNCHANGED <<version, been>>
    BY <1>3 DEF Insert
  <2>2. Grown
    BY <2>1, IInvSound, SameGrows
  <2> QED BY <1>1, <2>1, <2>2, MoveStep
          DEF Insert, Knows, Places, IInv, TypeOK, Numbers
<1> QED BY <1>2, <1>3

\* The steps that write a status.
LEMMA StatusStep ==
  ASSUME IInv, NEW h \in Handlers, Submit(h) \/ Approve(h) \/ Reject(h)
  PROVE  IInv' /\ Grown
<1> DEFINE v == on[h]
<1>1. v \in Numbers /\ v \in Nat /\ UNCHANGED <<current, materials, overlapped, cutShort>>
  BY DEF Submit, Approve, Reject, IInv, HandlersRely, Knows, TypeOK
<1>2. pc[h] \in {"approve", "reject"} => "submitted_for_review" \in been[v]
  BY DEF IInv, HandlersRely, Knows
<1>3. CASE Submit(h) \/ Reject(h)
  <2>1. PICK status \in {"submitted_for_review", "rejected"} :
          /\ SetStatus(v, status)
          /\ status = "rejected" => pc[h] = "reject"
    BY <1>3 DEF Submit, Reject
  <2>2. /\ Grown /\ Numbers' = Numbers /\ version'[v] = status
        /\ \A w \in Numbers \ {v} : version'[w] = version[w]
    BY <1>1, <1>2, <2>1, IInvSound, SetGrows DEF Status
  <2>3. Goto(h, "idle", 0) /\ pc[h] # "setCurrent"
    BY <1>3 DEF Submit, Reject, Done
  <2> QED BY <1>1, <2>1, <2>2, <2>3, MoveStep DEF Knows, Places, IInv, TypeOK
<1>4. CASE Approve(h)
  <2>1. /\ Grown /\ Numbers' = Numbers /\ "approved" \in been'[v]
        /\ \A w \in Numbers \ {v} : version'[w] = version[w]
    BY <1>1, <1>2, <1>4, IInvSound, SetGrows DEF Status, Approve
  <2>2. Goto(h, "setCurrent", v) /\ pc[h] # "setCurrent"
    BY <1>4 DEF Approve
  <2> QED BY <1>1, <2>1, <2>2, MoveStep DEF Knows, Places, IInv, TypeOK
<1> QED BY <1>3, <1>4

\* The step that makes a version current.
LEMMA CurrentStep ==
  ASSUME IInv, NEW h \in Handlers, SetCurrent(h) PROVE IInv' /\ Grown
<1>1. /\ UNCHANGED <<version, been, materials, overlapped, cutShort>>
      /\ current' = on[h] /\ Goto(h, "idle", 0)
  BY DEF SetCurrent, Done, historyVars
<1>2. Grown
  BY <1>1, IInvSound, SameGrows
<1>3. HandlersRely' /\ pc' \in [Handlers -> Places] /\ on' \in [Handlers -> Nat]
  BY <1>1, <1>2, HandlersStep DEF IInv, Knows, Places
<1>4. Used(current') /\ current' \in Nat /\ current' # 0
  BY <1>1, LenProperties
     DEF SetCurrent, Used, IInv, HandlersRely, Knows, TypeOK, Numbers
<1>5. 0 \notin materials'
  BY <1>1, LenProperties DEF IInv, TypeOK, Numbers
<1>6. /\ UseWasReviewed'
      /\ current' \in 0..Len(version') /\ materials' \in SUBSET Numbers'
  BY <1>1, <1>2, <1>4, <1>5, UsedBefore, UsedAfter
<1>7. ApprovedGoesLive'
  BY <1>4 DEF ApprovedGoesLive
<1>8. TypeOK'
  BY <1>1, <1>2, <1>3, <1>6 DEF TypeOK, Grown, IInv, Numbers
<1> QED BY <1>2, <1>3, <1>6, <1>7, <1>8 DEF IInv

\* The steps that change the material lists.
LEMMA MaterialStep ==
  ASSUME IInv, RemoveMaterial \/ \E h \in Handlers : AddMaterial(h)
  PROVE  IInv' /\ Grown
<1>1. UNCHANGED <<version, been, current, overlapped, cutShort>>
  BY DEF RemoveMaterial, AddMaterial, historyVars
<1>2. Grown
  BY <1>1, IInvSound, SameGrows
<1>3. /\ HandlersRely' /\ pc' \in [Handlers -> Places] /\ on' \in [Handlers -> Nat]
      /\ \A g \in Handlers : pc[g] = "setCurrent" =>
           pc'[g] = "setCurrent" /\ on'[g] = on[g]
  <2>1. CASE RemoveMaterial
    BY <1>2, <2>1, QuietHandlers DEF RemoveMaterial, IInv, handlerVars
  <2>2. CASE \E h \in Handlers : AddMaterial(h)
    <3>1. PICK h \in Handlers : Goto(h, "idle", 0) /\ pc[h] = "addMaterial"
      BY <2>2 DEF AddMaterial, Done
    <3>2. HandlersRely' /\ pc' \in [Handlers -> Places] /\ on' \in [Handlers -> Nat]
      BY <1>2, <3>1, HandlersStep DEF IInv, Knows, Places
    <3> QED BY <3>1, <3>2 DEF Goto, IInv, TypeOK
  <2> QED BY <2>1, <2>2
<1>4. \A v \in materials' : v \in materials \/ Used(v)
  BY DEF RemoveMaterial, AddMaterial, IInv, HandlersRely, Knows, Used
<1>5. /\ \A v \in (materials' \cup {current'}) \ {0} : Used(v)
      /\ current' \in Nat /\ 0 \notin materials'
  <2>1. 0 \notin Numbers /\ materials \subseteq Numbers /\ current \in Nat
    BY LenProperties DEF IInv, TypeOK, Numbers
  <2> QED BY <1>1, <1>4, <2>1, UsedBefore DEF Used
<1>6. /\ UseWasReviewed'
      /\ current' \in 0..Len(version') /\ materials' \in SUBSET Numbers'
  BY <1>2, <1>5, UsedAfter
<1>7. ApprovedGoesLive'
  BY <1>1, <1>3 DEF ApprovedGoesLive, IInv, Numbers
<1>8. TypeOK'
  BY <1>1, <1>2, <1>3, <1>6 DEF TypeOK, Grown, IInv, Numbers
<1> QED BY <1>2, <1>3, <1>6, <1>7, <1>8 DEF IInv

LEMMA FailStep == ASSUME IInv, NEW h \in Handlers, Fail(h) PROVE IInv' /\ Grown
<1>1. /\ UNCHANGED <<version, been, current, materials, overlapped>>
      /\ Goto(h, "idle", 0)
      /\ cutShort' = IF pc[h] = "setCurrent" THEN cutShort \cup {on[h]} ELSE cutShort
  BY DEF Fail, Done
<1>2. Grown
  BY <1>1, IInvSound, SameGrows
<1>3. HandlersRely' /\ pc' \in [Handlers -> Places] /\ on' \in [Handlers -> Nat]
  BY <1>1, <1>2, HandlersStep DEF IInv, Knows, Places
<1>4. cutShort' \in SUBSET Numbers /\ cutShort \subseteq cutShort'
  BY <1>1 DEF IInv, TypeOK, HandlersRely, Knows
<1>5. \A g \in Handlers : pc[g] = "setCurrent" =>
        \/ pc'[g] = "setCurrent" /\ on'[g] = on[g]
        \/ on[g] \in cutShort'
  BY <1>1 DEF Goto, IInv, TypeOK
<1>6. \A v \in Numbers' : version'[v] = "approved" =>
        v \in Numbers /\ version[v] = "approved"
  BY <1>1 DEF Numbers
<1> QED BY <1>1, <1>2, <1>3, <1>4, <1>5, <1>6, QuietStep DEF IInv, TypeOK

LEMMA IInvNext == IInv /\ [Next]_vars => IInv' /\ Grown
<1> SUFFICES ASSUME IInv, [Next]_vars PROVE IInv' /\ Grown
  OBVIOUS
<1>1. ASSUME NEW h \in Handlers, Handle(h) PROVE IInv' /\ Grown
  BY <1>1, ReadStep, InsertStep, StatusStep, CurrentStep, MaterialStep, FailStep
     DEF Handle
<1>2. CASE UNCHANGED vars
  <2>1. UNCHANGED <<version, been, current, materials, pc, on, overlapped, cutShort>>
    BY <1>2 DEF vars
  <2>2. Grown
    BY <2>1, IInvSound, SameGrows
  <2> QED BY <2>1, <2>2 DEF IInv, TypeOK, HandlersRely, Knows, UseWasReviewed,
                           ApprovedGoesLive, Numbers
<1> QED BY <1>1, <1>2, MaterialStep DEF Next

\* The inductive invariant: types, what handlers rely on, and the properties.
THEOREM Invariance == Spec => []IInv
<1>1. Init => IInv
  BY IInvInit
<1>2. IInv /\ [Next]_vars => IInv'
  BY IInvNext
<1> QED BY <1>1, <1>2, PTL DEF Spec

\* What is current or on a material list was approved once, an approved version
\* goes live (see ApprovalGoesLive), and what was decided had been submitted for
\* review, however requests overlap.
THEOREM UseIsReviewed == Spec => []ReviewHolds
<1>1. IInv => ReviewHolds
  BY DEF IInv, ReviewHolds
<1> QED BY <1>1, Invariance, PTL

\* A recipe with an approved version has a current one, unless a handler is on
\* its way or died between the two statements of an approval.
THEOREM ApprovalGoesLive == Spec => []ApprovedGoesLive
<1>1. IInv => ApprovedGoesLive
  BY DEF IInv
<1> QED BY <1>1, Invariance, PTL

\* Versions are neither lost nor become drafts again, whatever number two
\* handlers have read.
THEOREM NoVersionLost == Spec => VersionsAreKept
<1>1. IInv /\ [Next]_vars =>
        [/\ Numbers \subseteq Numbers'
         /\ \A v \in Numbers : version'[v] = "draft" => version[v] = "draft"]_vars
  BY IInvNext DEF Grown
<1> QED BY <1>1, Invariance, PTL DEF Spec, VersionsAreKept
-------------------------------------------------------------------------------
(***************************************************************************)
(* Requests that take turns.                                               *)
(***************************************************************************)

\* What the place of a request that takes its turn says of its version.
Finds(place, status) ==
  /\ place = "submit" => status = "draft"
  /\ place \in {"approve", "reject"} => status = "submitted_for_review"
  /\ place = "setCurrent" => status = "approved"

LEMMA TurnsInit == Init => TurnsInv
<1> SUFFICES ASSUME Init PROVE TurnsInv
  OBVIOUS
<1>1. PICK c \in Handlers :
        pc = [h \in Handlers |-> IF h = c THEN "number" ELSE "idle"]
  BY DEF Init
<1> QED BY <1>1 DEF TurnsInv

\* A step of the only handler at work, and of one that starts when none is.
LEMMA TurnStep ==
  ASSUME IInv, TurnsInv, NEW h \in Handlers, NEW place \in Places, NEW v \in Nat,
         Goto(h, place, v),
         \/ pc[h] # "idle" /\ overlapped' = overlapped
         \/ overlapped' = (overlapped \/ \E g \in Handlers : pc[g] # "idle"),
         ~overlapped' => Finds(place, version'[v])
  PROVE  TurnsInv'
<1> SUFFICES ASSUME ~overlapped' PROVE TurnsInv'
  BY DEF TurnsInv
<1>1. \A g \in Handlers : g # h => pc[g] = "idle"
  BY DEF TurnsInv
<1>2. /\ pc'[h] = place /\ on'[h] = v
      /\ \A g \in Handlers : g # h => pc'[g] = "idle"
  BY <1>1 DEF Goto, IInv, TypeOK
<1>3. \A g \in Handlers : Finds(pc'[g], version'[on'[g]])
  BY <1>2 DEF Finds
<1> QED BY <1>2, <1>3 DEF TurnsInv, Finds

\* The steps that leave the versions alone, and which of them is current.
LEMMA ReadTurn ==
  ASSUME IInv, TurnsInv, NEW h \in Handlers,
         LoadRecipe(h) \/ Number(h) \/ LoadToSubmit(h) \/ LoadToApprove(h)
         \/ LoadToReject(h) \/ LoadForMaterial(h)
  PROVE  TurnsInv' /\ (Listed => Listed')
<1>1. UNCHANGED <<version, current>>
  BY DEF LoadRecipe, Number, LoadToSubmit, LoadToApprove, LoadToReject,
         LoadForMaterial
<1>2. Numbers \subseteq Nat /\ Len(version) \in Nat
  BY LenProperties DEF IInv, TypeOK, Numbers
<1>3. \/ pc[h] # "idle" /\ overlapped' = overlapped
      \/ overlapped' = (overlapped \/ \E g \in Handlers : pc[g] # "idle")
  BY DEF LoadRecipe, Number, LoadToSubmit, LoadToApprove, LoadToReject,
         LoadForMaterial, historyVars, Start
<1>4. \E place \in Places, v \in Nat : Goto(h, place, v) /\ Finds(place, version'[v])
  <2>1. CASE LoadRecipe(h)
    <3>1. Goto(h, "number", 0) /\ "number" \in Places /\ 0 \in Nat
      BY <2>1 DEF LoadRecipe, Start, Places
    <3> QED BY <3>1 DEF Finds
  <2>2. CASE Number(h)
    <3>1. Goto(h, "insert", Len(version) + 1) /\ "insert" \in Places
      BY <2>2 DEF Number, Places
    <3> QED BY <1>2, <3>1 DEF Finds
  <2>3. CASE LoadToSubmit(h)
    <3>1. /\ Goto(h, "submit", Len(version)) /\ "submit" \in Places
          /\ version[Len(version)] = "draft"
      BY <2>3 DEF LoadToSubmit, Start, Places
    <3> QED BY <1>1, <1>2, <3>1 DEF Finds
  <2>4. CASE LoadToApprove(h) \/ LoadToReject(h)
    <3>1. PICK v \in Numbers :
            /\ version[v] = "submitted_for_review"
            /\ Goto(h, "approve", v) \/ Goto(h, "reject", v)
      BY <2>4 DEF LoadToApprove, LoadToReject, IsSubmitted, Start
    <3> QED BY <1>1, <1>2, <3>1 DEF Finds, Places
  <2>5. CASE LoadForMaterial(h)
    <3>1. PICK v \in Numbers : Goto(h, "addMaterial", v)
      BY <2>5 DEF LoadForMaterial, Start
    <3> QED BY <1>2, <3>1 DEF Finds, Places
  <2> QED BY <2>1, <2>2, <2>3, <2>4, <2>5
<1>5. TurnsInv'
  BY <1>3, <1>4, TurnStep
<1> QED BY <1>1, <1>5 DEF Listed

LEMMA InsertTurn ==
  ASSUME IInv, TurnsInv, NEW h \in Handlers, Insert(h)
  PROVE  TurnsInv' /\ (Listed => Listed')
<1>1. Goto(h, "idle", 0) /\ pc[h] # "idle" /\ UNCHANGED <<current, overlapped>>
  BY DEF Insert, Done
<1>2. TurnsInv'
  BY <1>1, TurnStep DEF Finds, Places
<1>3. \A v \in Numbers : version'[v] = version[v]
  <2>1. "draft" \in Status /\ version \in Seq(Status)
    BY DEF Status, IInv, TypeOK
  <2>2. \A v \in 1..Len(version) : Append(version, "draft")[v] = version[v]
    BY <2>1, AppendProperties
  <2> QED BY <2>2 DEF Insert, Numbers
<1>4. Listed => current \in Numbers
  BY LenProperties DEF Listed, IInv, TypeOK, Numbers
<1> QED BY <1>1, <1>2, <1>3, <1>4 DEF Listed

\* A status is written over the one that was found, which is not approved.
LEMMA StatusTurn ==
  ASSUME IInv, TurnsInv, NEW h \in Handlers, Submit(h) \/ Approve(h) \/ Reject(h)
  PROVE  TurnsInv' /\ (Listed /\ ~overlapped' => Listed')
<1> DEFINE v == on[h]
<1>1. /\ v \in Numbers /\ v \in Nat /\ pc[h] # "idle"
      /\ UNCHANGED <<current, overlapped>>
  BY DEF Submit, Approve, Reject, IInv, HandlersRely, Knows, TypeOK
<1>2. /\ \A w \in Numbers \ {v} : version'[w] = version[w]
      /\ Approve(h) => version'[v] = "approved"
  <2>1. PICK status \in Status :
          SetStatus(v, status) /\ (Approve(h) => status = "approved")
    BY DEF Submit, Approve, Reject, Status
  <2>2. \A w \in 1..Len(version) :
          version'[w] = IF w = v THEN status ELSE version[w]
    BY <1>1, <2>1, ExceptSeq DEF SetStatus, IInv, TypeOK, Numbers
  <2> QED BY <1>1, <2>1, <2>2 DEF Numbers
<1>3. ~overlapped => version[v] # "approved"
  BY DEF Submit, Approve, Reject, TurnsInv
<1>4. TurnsInv'
  <2>1. CASE Approve(h)
    BY <1>1, <1>2, <2>1, TurnStep DEF Approve, Finds, Places
  <2>2. CASE Submit(h) \/ Reject(h)
    <3>1. Goto(h, "idle", 0)
      BY <2>2 DEF Submit, Reject, Done
    <3> QED BY <1>1, <3>1, TurnStep DEF Finds, Places
  <2> QED BY <2>1, <2>2
<1>5. Listed => current \in Numbers
  BY LenProperties DEF Listed, IInv, TypeOK, Numbers
<1> QED BY <1>1, <1>2, <1>3, <1>4, <1>5 DEF Listed

LEMMA CurrentTurn ==
  ASSUME IInv, TurnsInv, NEW h \in Handlers, SetCurrent(h)
  PROVE  TurnsInv' /\ (Listed /\ ~overlapped' => Listed')
<1>1. /\ Goto(h, "idle", 0) /\ pc[h] = "setCurrent" /\ current' = on[h]
      /\ version' = version /\ overlapped' = overlapped
  BY DEF SetCurrent, Done, historyVars
<1>2. TurnsInv'
  BY <1>1, TurnStep DEF Finds, Places
<1>3. on[h] # 0
  BY <1>1, LenProperties DEF IInv, HandlersRely, Knows, TypeOK, Numbers
<1>4. ~overlapped => version[on[h]] = "approved"
  BY <1>1 DEF TurnsInv
<1> QED BY <1>1, <1>2, <1>3, <1>4 DEF Listed

LEMMA TurnsNext ==
  IInv /\ TurnsInv /\ [Next]_vars =>
    TurnsInv' /\ (Listed /\ ~overlapped' => Listed')
<1> SUFFICES ASSUME IInv, TurnsInv, [Next]_vars
             PROVE  TurnsInv' /\ (Listed /\ ~overlapped' => Listed')
  OBVIOUS
<1>1. ASSUME NEW h \in Handlers, AddMaterial(h) \/ Fail(h)
      PROVE  TurnsInv' /\ (Listed => Listed')
  <2>1. /\ Goto(h, "idle", 0) /\ pc[h] # "idle"
        /\ UNCHANGED <<version, current, overlapped>>
    BY <1>1 DEF AddMaterial, Fail, Done, historyVars
  <2> QED BY <2>1, TurnStep DEF Finds, Places, Listed
<1>2. ASSUME UNCHANGED <<version, current, pc, on, overlapped>>
      PROVE  TurnsInv' /\ (Listed => Listed')
  BY <1>2 DEF TurnsInv, Listed
<1>3. CASE RemoveMaterial
  BY <1>2, <1>3 DEF RemoveMaterial, handlerVars, historyVars
<1>4. ASSUME NEW h \in Handlers, Handle(h)
      PROVE  TurnsInv' /\ (Listed /\ ~overlapped' => Listed')
  BY <1>1, <1>4, ReadTurn, InsertTurn, StatusTurn, CurrentTurn DEF Handle
<1>5. CASE UNCHANGED vars
  BY <1>2, <1>5 DEF vars
<1> QED BY <1>3, <1>4, <1>5 DEF Next

\* What requests that take turns rely on holds in every reachable state.
THEOREM TurnsInvariance == Spec => []TurnsInv
<1>1. Init => IInv /\ TurnsInv
  BY IInvInit, TurnsInit
<1>2. IInv /\ TurnsInv /\ [Next]_vars => IInv' /\ TurnsInv'
  BY IInvNext, TurnsNext
<1> QED BY <1>1, <1>2, PTL DEF Spec

\* As long as requests have taken turns, a recipe that is listed as approved
\* stays listed, whatever is submitted, rejected or approved after it.
THEOREM ListedRecipeStays == Spec => StaysListed
<1>1. IInv /\ TurnsInv /\ [Next]_vars => [Listed /\ ~overlapped' => Listed']_vars
  BY TurnsNext
<1> QED BY <1>1, Invariance, TurnsInvariance, PTL DEF Spec, StaysListed
===============================================================================
