------------------------- MODULE AssetLoaderProofs -------------------------
(***************************************************************************)
(* Proofs about AssetLoader, for every set of programs made of its steps,  *)
(* every page size and every number of loads and faults.                   *)
(***************************************************************************)
EXTENDS AssetLoader, SequenceTheorems, TLAPS

\* A deletion is under way only in a step that searches, and what it found is of the
\* name the step is about.
SearchInv ==
  /\ searched => at > 0
  /\ found # {} => at > 0 /\ searched /\ Now.op = "replace" /\ found \subseteq Old

\* What is left of the objects to replace is known, unless their list was too long or a
\* deletion failed.
ReplaceInv ==
  Makes("replace") /\ searched /\ <<Now.kind, Now.name>> \notin spoilt => Old \subseteq found

Alone(kind, name) == \A o, p \in Named(kind, name) : o = p

\* OnePerName, name by name.
AloneInv ==
  \A kind, name : kind # "rule" /\ <<kind, name>> \notin spoilt => Alone(kind, name)

IndInv == TypeOK /\ SearchInv /\ ReplaceInv /\ AloneInv

LEMMA StepKinds ==
  ASSUME NEW x \in Steps
  PROVE  /\ x.kind \in Kinds /\ x.name \in Names
         /\ x.op = "replace" => x.kind \in Searched
         /\ x.op = "renew" => x.kind \in {"tool", "skill", "agent"}
         /\ x.op = "post" => x.kind \in {"data_view", "ml", "rule"}
         /\ x.op = "put" => x.kind \in {"alias", "object", "enabled"}
         /\ x.op = "refresh" => x.kind = "dashboard"
         /\ x.op = "attach" => <<x.to, x.name>> \in Pairs
<1>1. x.kind \in Kinds /\ x.op \in OpsOf(x.kind)
  BY LoaderAssumption
<1>2. x.name \in Names /\ (x.op = "attach" => <<x.to, x.name>> \in Pairs)
  BY DEF Names, Pairs
<1>. QED  BY <1>1, <1>2 DEF OpsOf, Kinds, Searched, OwnId

LEMMA NowIsStep ==
  ASSUME TypeOK, at > 0
  PROVE  program \in Programs /\ at \in 1 .. Len(program) /\ Len(program) \in Nat /\ Now \in Steps
<1>1. program \in Programs
  BY DEF TypeOK
<1>2. program \in Seq(StepsOf(program)) /\ Len(program) \in Nat /\ at \in 1 .. Len(program)
  BY <1>1, LoaderAssumption DEF TypeOK
<1>3. Now \in StepsOf(program)
  BY <1>2, ElementOfSeq DEF Now
<1>. QED  BY <1>1, <1>2, <1>3 DEF Steps

LEMMA ObjectType ==
  ASSUME TypeOK, at > 0, NEW link \in SUBSET Ids
  PROVE  Object(Now.kind, Now.name, link, loads, at) \in Objects
<1>1. Now.kind \in Kinds /\ Now.name \in Names
  BY NowIsStep, StepKinds
<1>2. <<loads, at>> \in Ids
  BY NowIsStep DEF TypeOK, Ids
<1>. QED  BY <1>1, <1>2 DEF Object, Objects

LEMMA InvInit == Init => IndInv
<1>. SUFFICES ASSUME Init PROVE IndInv
  OBVIOUS
<1>. USE LoaderAssumption DEF Init
<1>1. PICK there \in SUBSET Present : objects = {Object("agent", x, {}, 0, 0) : x \in there}
  OBVIOUS
<1>2. objects \subseteq Objects
  <2>1. <<0, 0>> \in Ids /\ "agent" \in Kinds
    BY DEF Ids, Kinds, OwnId
  <2>. QED  BY <1>1, <2>1 DEF Object, Objects
<1>3. TypeOK
  <2>1. at \in 0 .. Len(program)
    OBVIOUS
  <2>2. attached \in [Pairs -> Nat] /\ \A p \in Pairs : attached[p] = 0
    OBVIOUS
  <2>3. loads \in 0 .. MaxLoads /\ faults \in 0 .. MaxFaults
    OBVIOUS
  <2>4. searched \in BOOLEAN /\ listing \in BOOLEAN /\ ran \in BOOLEAN /\ clean \in BOOLEAN
    OBVIOUS
  <2>. QED  BY <1>2, <2>1, <2>2, <2>3, <2>4 DEF TypeOK
<1>4. AloneInv
  <2>1. \A o \in objects : \E x \in there : o = Object("agent", x, {}, 0, 0)
    BY <1>1
  <2>2. \A x : Object("agent", x, {}, 0, 0).name = x
    BY DEF Object
  <2>3. \A o, p \in objects : o.name = p.name => o = p
    BY <2>1, <2>2
  <2>. QED  BY <2>3 DEF AloneInv, Alone, Named
<1>. QED  BY <1>3, <1>4 DEF IndInv, SearchInv, ReplaceInv, Makes
-----------------------------------------------------------------------------
LEMMA AdvanceFacts ==
  ASSUME TypeOK, SearchInv, at > 0, found = {}, Advance
  PROVE  /\ at' \in 0 .. Len(program') /\ program' \in Programs \cup {<<>>}
         /\ searched' = FALSE /\ found' = {} /\ outcome' \in {"none", "done", "died"}
         /\ SearchInv' /\ ReplaceInv'
<1>1. program \in Programs /\ at \in 1 .. Len(program) /\ Len(program) \in Nat
  BY NowIsStep
<1>. QED  BY <1>1 DEF Advance, TypeOK, SearchInv, ReplaceInv, Makes

LEMMA DiesFacts ==
  ASSUME TypeOK, Dies
  PROVE  /\ at' \in 0 .. Len(program') /\ program' \in Programs \cup {<<>>}
         /\ searched' = FALSE /\ found' = {} /\ outcome' \in {"none", "done", "died"}
         /\ SearchInv' /\ ReplaceInv'
<1>1. Len(program) \in Nat
  BY LoaderAssumption, EmptySeq DEF TypeOK
<1>. QED  BY <1>1 DEF Dies, TypeOK, SearchInv, ReplaceInv, Makes

LEMMA LuckFacts ==
  ASSUME TypeOK, Works \/ Fails
  PROVE  faults' \in 0 .. MaxFaults /\ clean' \in BOOLEAN
<1>1. faults \in 0 .. MaxFaults /\ clean \in BOOLEAN /\ MaxFaults \in Nat
  BY LoaderAssumption DEF TypeOK
<1>2. CASE Works
  BY <1>1, <1>2 DEF Works
<1>3. CASE Fails
  <2>1. faults' \in 0 .. MaxFaults
    BY <1>1, <1>3 DEF Fails
  <2>2. clean' \in BOOLEAN
    BY <1>3 DEF Fails
  <2>. QED  BY <2>1, <2>2
<1>. QED  BY <1>2, <1>3

\* Steps that leave the objects and the deletions alone.
LEMMA AloneKept ==
  ASSUME AloneInv, objects' \subseteq objects, spoilt \subseteq spoilt'
  PROVE  AloneInv'
BY DEF AloneInv, Alone, Named

\* An object takes the place of those of its name.
LEMMA AloneReplaced ==
  ASSUME AloneInv, NEW o, objects' = (objects \ Named(o.kind, o.name)) \cup {o}, UNCHANGED spoilt
  PROVE  AloneInv'
BY DEF AloneInv, Alone, Named

\* An object is added where there is none of its name, or where that does not matter.
LEMMA AloneAdded ==
  ASSUME AloneInv, NEW o, objects' = objects \cup {o}, UNCHANGED spoilt,
         \/ Named(o.kind, o.name) = {}
         \/ o.kind = "rule"
         \/ <<o.kind, o.name>> \in spoilt
  PROVE  AloneInv'
BY DEF AloneInv, Alone, Named

\* An agent has something in its lists only if it is there.
Housed == \A p \in Pairs : Named("agent", p[1]) = {} => attached[p] = 0

LEMMA HousedKept ==
  ASSUME Housed, UNCHANGED attached, \A x : Named("agent", x) # {} => Named("agent", x)' # {}
  PROVE  Housed'
BY DEF Housed
-----------------------------------------------------------------------------
LEMMA TypeFrom ==
  ASSUME TypeOK, SearchInv', Housed', objects' \subseteq Objects, attached' \in [Pairs -> Nat],
         program' \in Programs \cup {<<>>}, at' \in 0 .. Len(program'), searched' \in BOOLEAN,
         listed' \subseteq Objects, listing' \in BOOLEAN, ran' \in BOOLEAN, clean' \in BOOLEAN,
         outcome' \in {"none", "done", "died"}, loads' \in 0 .. MaxLoads,
         faults' \in 0 .. MaxFaults, spoilt' \subseteq Kinds \X Names
  PROVE  TypeOK'
BY DEF TypeOK, SearchInv, Housed

LEMMA TypeHoused == TypeOK => Housed
BY DEF TypeOK, Housed

LEMMA StartStep == ASSUME IndInv, Start PROVE IndInv'
<1>. USE LoaderAssumption DEF IndInv
<1>1. at = 0 /\ searched = FALSE /\ found = {} /\ searched' = FALSE /\ found' = {}
  BY DEF Start, SearchInv, TypeOK
<1>2. program' \in Programs /\ at' = 1 /\ Len(program') \in Nat /\ Len(program') # 0
  BY DEF Start
<1>3. SearchInv' /\ ReplaceInv'
  BY <1>1 DEF SearchInv, ReplaceInv
<1>4. UNCHANGED <<objects, attached, faults, spoilt>>
  BY DEF Start, kibana
<1>5. Housed'
  BY <1>4, TypeHoused DEF Housed, Named
<1>6. loads' \in 0 .. MaxLoads
  BY DEF Start, TypeOK
<1>7. listed' \subseteq Objects /\ listing' \in BOOLEAN /\ ran' \in BOOLEAN /\ clean' \in BOOLEAN
      /\ outcome' \in {"none", "done", "died"}
  BY DEF Start
<1>8. at' \in 0 .. Len(program')
  BY <1>2
<1>9. TypeOK'
  <2>1. objects' \subseteq Objects /\ attached' \in [Pairs -> Nat] /\ faults' \in 0 .. MaxFaults
        /\ spoilt' \subseteq Kinds \X Names
    BY <1>4 DEF TypeOK
  <2>. QED  BY <1>1, <1>2, <1>3, <1>5, <1>6, <1>7, <1>8, <2>1, TypeFrom
<1>10. AloneInv'
  BY <1>4, AloneKept
<1>. QED  BY <1>3, <1>9, <1>10

LEMMA SearchStep == ASSUME IndInv, Search PROVE IndInv'
<1>. USE DEF IndInv
<1>1. at > 0 /\ Now.op = "replace" /\ searched = FALSE /\ found = {}
  BY DEF Search, Makes, Now, SearchInv, TypeOK
<1>2. PICK p \in PagesOf(Now.kind) :
        /\ found' = p \cap Old
        /\ spoilt' = spoilt \cup {<<o.kind, o.name>> : o \in Old \ p}
        /\ clean' = (clean /\ Old \subseteq p)
  BY DEF Search
<1>3. UNCHANGED <<objects, attached, program, at, listed, listing, ran, outcome, loads, faults>>
      /\ searched' = TRUE
  BY DEF Search, kibana, reading
<1>4. Now' = Now /\ Old' = Old
  BY <1>3 DEF Now, Old, Named
<1>5. \A o \in Old : o.kind = Now.kind /\ o.name = Now.name
  BY DEF Old, Named
<1>6. SearchInv'
  BY <1>1, <1>2, <1>3, <1>4 DEF SearchInv
<1>7. ReplaceInv'
  BY <1>2, <1>4, <1>5 DEF ReplaceInv
<1>8. Now.kind \in Kinds /\ Now.name \in Names
  BY <1>1, NowIsStep, StepKinds
<1>9. spoilt' \subseteq Kinds \X Names
  BY <1>2, <1>5, <1>8 DEF TypeOK
<1>10. Housed'
  BY <1>3, TypeHoused DEF Housed, Named
<1>11. TypeOK'
  <2>1. clean' \in BOOLEAN
    BY <1>2 DEF TypeOK
  <2>. QED  BY <1>3, <1>6, <1>9, <1>10, <2>1, TypeFrom DEF TypeOK
<1>12. AloneInv'
  BY <1>2, <1>3, AloneKept
<1>. QED  BY <1>6, <1>7, <1>11, <1>12

LEMMA DeleteStep == ASSUME IndInv, Delete PROVE IndInv'
<1>. USE DEF IndInv
<1>1. PICK o \in found :
        /\ found' = found \ {o}
        /\ \/ objects' = objects \ {o} /\ Works /\ UNCHANGED spoilt
           \/ Fails /\ spoilt' = spoilt \cup {<<o.kind, o.name>>} /\ UNCHANGED objects
        /\ UNCHANGED <<attached, program, at, searched, reading, outcome, loads>>
  BY DEF Delete
<1>2. at > 0 /\ searched /\ Now.op = "replace" /\ found \subseteq Old
  BY <1>1 DEF SearchInv
<1>3. Now' = Now /\ UNCHANGED <<listed, listing, ran>>
  BY <1>1 DEF Now, reading
<1>4. o.kind = Now.kind /\ o.name = Now.name
  BY <1>1, <1>2 DEF Old, Named
<1>5. /\ Now.kind \in Kinds /\ Now.name \in Names /\ Now.kind \in Searched
  BY <1>2, NowIsStep, StepKinds
<1>6. Old \ {o} \subseteq Old' /\ Old' \subseteq Old
  BY <1>1, <1>3 DEF Old, Named
<1>7. SearchInv'
  BY <1>1, <1>2, <1>3, <1>6 DEF SearchInv
<1>8. ReplaceInv'
  <2>. SUFFICES ASSUME <<Now.kind, Now.name>> \notin spoilt' PROVE Old' \subseteq found'
    BY <1>3 DEF ReplaceInv
  <2>1. objects' = objects \ {o} /\ <<Now.kind, Now.name>> \notin spoilt
    BY <1>1, <1>4
  <2>2. Old' = Old \ {o}
    BY <1>3, <2>1 DEF Old, Named
  <2>3. Old \subseteq found
    BY <1>2, <2>1 DEF ReplaceInv, Makes, Now
  <2>. QED  BY <1>1, <2>2, <2>3
<1>9. spoilt' \subseteq Kinds \X Names /\ objects' \subseteq objects /\ spoilt \subseteq spoilt'
  BY <1>1, <1>4, <1>5 DEF TypeOK
<1>10. Housed'
  <2>1. o.kind # "agent"
    BY <1>4, <1>5 DEF Searched
  <2>2. \A x : Named("agent", x)' = Named("agent", x)
    BY <1>1, <2>1 DEF Named
  <2>. QED  BY <1>1, <2>2, TypeHoused, HousedKept
<1>11. TypeOK'
  <2>1. faults' \in 0 .. MaxFaults /\ clean' \in BOOLEAN
    BY <1>1, LuckFacts
  <2>. QED  BY <1>1, <1>3, <1>7, <1>9, <1>10, <2>1, TypeFrom DEF TypeOK
<1>12. AloneInv'
  BY <1>9, AloneKept
<1>. QED  BY <1>7, <1>8, <1>11, <1>12

LEMMA RemoveStep == ASSUME IndInv, Remove PROVE IndInv'
<1>. USE DEF IndInv
<1>1. at > 0 /\ Now.op = "renew" /\ found = {} /\ searched' = TRUE
      /\ UNCHANGED <<program, at, found, listed, listing, ran, outcome, loads, spoilt>>
  BY DEF Remove, Makes, Now, SearchInv, reading
<1>2. \/ /\ objects' = objects \ Old
         /\ \E keep \in BOOLEAN : attached' = Forgotten(Now.kind, Now.name, keep)
         /\ Works
      \/ Fails /\ UNCHANGED <<objects, attached>>
  BY DEF Remove, kibana
<1>3. SearchInv' /\ ReplaceInv'
  BY <1>1 DEF SearchInv, ReplaceInv, Makes, Now
<1>4. objects' \subseteq objects
  BY <1>2
<1>5. attached' \in [Pairs -> Nat] /\ \A p \in Pairs : attached'[p] \in {0, attached[p]}
  BY <1>2 DEF Forgotten, TypeOK
<1>6. Housed'
  <2>. SUFFICES ASSUME NEW p \in Pairs, Named("agent", p[1])' = {} PROVE attached'[p] = 0
    BY DEF Housed
  <2>1. CASE Named("agent", p[1]) = {}
    BY <1>5, <2>1, TypeHoused DEF Housed
  <2>2. CASE Named("agent", p[1]) # {}
    <3>1. PICK o \in objects : o.kind = "agent" /\ o.name = p[1] /\ o \notin objects'
      BY <2>2 DEF Named
    <3>2. o \in Old
      BY <1>2, <3>1
    <3>3. Now.kind = "agent" /\ Now.name = p[1]
      BY <3>1, <3>2 DEF Old, Named
    <3>. QED  BY <1>2, <3>1, <3>3 DEF Forgotten
  <2>. QED  BY <2>1, <2>2
<1>7. TypeOK'
  <2>1. faults' \in 0 .. MaxFaults /\ clean' \in BOOLEAN
    BY <1>2, LuckFacts
  <2>. QED  BY <1>1, <1>3, <1>4, <1>5, <1>6, <2>1, TypeFrom DEF TypeOK
<1>8. AloneInv'
  BY <1>1, <1>4, AloneKept
<1>. QED  BY <1>3, <1>7, <1>8

LEMMA PostStep == ASSUME IndInv, Post PROVE IndInv'
<1>. USE DEF IndInv
<1>1. at > 0 /\ found = {} /\ (Now.op = "replace" => searched) /\ Now.op \in {"replace", "renew", "post"}
  BY DEF Post, Makes, Now, SearchInv
<1>2. Advance /\ UNCHANGED <<attached, listed, listing, ran, loads, spoilt>>
  BY DEF Post, reading
<1>3. /\ at' \in 0 .. Len(program') /\ program' \in Programs \cup {<<>>}
      /\ searched' = FALSE /\ found' = {} /\ outcome' \in {"none", "done", "died"}
      /\ SearchInv' /\ ReplaceInv'
  BY <1>1, <1>2, AdvanceFacts
<1>4. Now \in Steps
  BY <1>1, NowIsStep
<1>5. CASE UNCHANGED objects
  <2>1. Housed'
    BY <1>2, <1>5, TypeHoused DEF Housed, Named
  <2>2. faults' \in 0 .. MaxFaults /\ clean' \in BOOLEAN
    BY LuckFacts DEF Post
  <2>3. TypeOK'
    BY <1>2, <1>3, <1>5, <2>1, <2>2, TypeFrom DEF TypeOK
  <2>. QED  BY <1>2, <1>3, <1>5, <2>3, AloneKept
<1>6. CASE (Now.kind \notin OwnId \/ Old = {})
           /\ \E link \in Links : objects' = objects \cup {Object(Now.kind, Now.name, link, loads, at)}
  <2>1. PICK link \in Links : objects' = objects \cup {Object(Now.kind, Now.name, link, loads, at)}
    BY <1>6
  <2>2. link \in SUBSET Ids
    BY <2>1 DEF Links, TypeOK, Objects
  <2>. DEFINE o == Object(Now.kind, Now.name, link, loads, at)
  <2>3. o \in Objects /\ o.kind = Now.kind /\ o.name = Now.name
    BY <1>1, <2>2, ObjectType DEF Object
  <2>. HIDE DEF o
  <2>4. objects' = objects \cup {o}
    BY <2>1 DEF o
  <2>5. Housed'
    <3>1. \A x : Named("agent", x) # {} => Named("agent", x)' # {}
      BY <2>4 DEF Named
    <3>. QED  BY <1>2, <3>1, TypeHoused, HousedKept
  <2>6. faults' \in 0 .. MaxFaults /\ clean' \in BOOLEAN
    BY LuckFacts DEF Post
  <2>7. TypeOK'
    BY <1>2, <1>3, <2>3, <2>4, <2>5, <2>6, TypeFrom DEF TypeOK
  <2>8. \/ Named(o.kind, o.name) = {}
        \/ o.kind = "rule"
        \/ <<o.kind, o.name>> \in spoilt
    <3>1. CASE Now.op = "replace"
      BY <1>1, <2>3, <3>1 DEF ReplaceInv, Makes, Now, Old
    <3>2. CASE Now.op \in {"renew", "post"}
      <4>1. Now.kind \in OwnId \cup {"rule"}
        BY <1>4, <3>2, StepKinds DEF OwnId
      <4>. QED  BY <1>6, <2>3, <4>1 DEF Old
    <3>. QED  BY <1>1, <3>1, <3>2
  <2>9. AloneInv'
    BY <1>2, <2>4, <2>8, AloneAdded
  <2>. QED  BY <1>3, <2>7, <2>9
<1>. QED  BY <1>5, <1>6 DEF Post

\* An object that takes the place of those of its name, as Put and Refresh make it.
LEMMA Overwritten ==
  ASSUME IndInv, at > 0,
         objects' = (objects \ Old) \cup {Object(Now.kind, Now.name, {}, loads, at)},
         UNCHANGED <<attached, spoilt>>
  PROVE  objects' \subseteq Objects /\ Housed' /\ AloneInv'
<1>. USE DEF IndInv
<1>. DEFINE o == Object(Now.kind, Now.name, {}, loads, at)
<1>1. o \in Objects /\ o.kind = Now.kind /\ o.name = Now.name
  BY ObjectType DEF Object
<1>. HIDE DEF o
<1>2. objects' = (objects \ Old) \cup {o} /\ Old = Named(o.kind, o.name)
  BY <1>1 DEF o, Old
<1>3. objects' \subseteq Objects
  BY <1>1, <1>2 DEF TypeOK
<1>4. \A x : Named("agent", x) # {} => Named("agent", x)' # {}
  BY <1>2 DEF Named
<1>. QED  BY <1>2, <1>3, <1>4, TypeHoused, HousedKept, AloneReplaced

LEMMA PutStep == ASSUME IndInv, Put \/ Refresh PROVE IndInv'
<1>. USE DEF IndInv
<1>1. at > 0 /\ found = {} /\ UNCHANGED <<attached, listed, ran, loads, spoilt>>
  BY DEF Put, Refresh, Makes, Now, SearchInv, reading
<1>2. listing' \in BOOLEAN /\ (Works \/ Fails) /\ (Advance \/ Dies)
  BY DEF Put, Refresh, reading, TypeOK
<1>3. /\ at' \in 0 .. Len(program') /\ program' \in Programs \cup {<<>>}
      /\ searched' = FALSE /\ found' = {} /\ outcome' \in {"none", "done", "died"}
      /\ SearchInv' /\ ReplaceInv'
  BY <1>1, <1>2, AdvanceFacts, DiesFacts
<1>4. objects' = (objects \ Old) \cup {Object(Now.kind, Now.name, {}, loads, at)} \/ UNCHANGED objects
  BY DEF Put, Refresh
<1>5. objects' \subseteq Objects /\ Housed' /\ AloneInv'
  <2>1. CASE UNCHANGED objects
    BY <1>1, <2>1, TypeHoused, AloneKept DEF Housed, Named, TypeOK
  <2>2. CASE objects' = (objects \ Old) \cup {Object(Now.kind, Now.name, {}, loads, at)}
    BY <1>1, <2>2, Overwritten
  <2>. QED  BY <1>4, <2>1, <2>2
<1>6. TypeOK'
  <2>1. faults' \in 0 .. MaxFaults /\ clean' \in BOOLEAN
    BY <1>2, LuckFacts
  <2>. QED  BY <1>1, <1>2, <1>3, <1>5, <2>1, TypeFrom DEF TypeOK
<1>. QED  BY <1>3, <1>5, <1>6

\* A step that adds no object and goes on, or ends the job.
LEMMA ReadStep ==
  ASSUME IndInv, at > 0, Now.op # "replace", Advance \/ Dies, UNCHANGED <<objects, loads, spoilt>>,
         attached' \in [Pairs -> Nat], Housed', listed' \subseteq Objects, listing' \in BOOLEAN,
         ran' \in BOOLEAN, clean' \in BOOLEAN, faults' \in 0 .. MaxFaults
  PROVE  IndInv'
<1>. USE DEF IndInv
<1>1. found = {}
  BY DEF SearchInv
<1>2. /\ at' \in 0 .. Len(program') /\ program' \in Programs \cup {<<>>}
      /\ searched' = FALSE /\ found' = {} /\ outcome' \in {"none", "done", "died"}
      /\ SearchInv' /\ ReplaceInv'
  BY <1>1, AdvanceFacts, DiesFacts
<1>3. TypeOK'
  BY <1>2, TypeFrom DEF TypeOK
<1>. QED  BY <1>2, <1>3, AloneKept

LEMMA ListStep == ASSUME IndInv, List \/ Run PROVE IndInv'
<1>. USE DEF IndInv
<1>1. at > 0 /\ Now.op # "replace" /\ Advance /\ UNCHANGED <<objects, attached, loads, faults, spoilt>>
  BY DEF List, Run, Makes, Now, kibana
<1>2. Housed'
  BY <1>1, TypeHoused DEF Housed, Named
<1>3. PICK p \in PagesOf("workflow") :
        (listed' = p /\ UNCHANGED <<listing, ran>>)
          \/ (UNCHANGED <<listed, listing>> /\ ran' = \E o \in p : o.name = Now.name)
  BY DEF List, Run
<1>4. p \subseteq Objects
  BY DEF PagesOf, TypeOK
<1>5. listed' \subseteq Objects /\ listing' \in BOOLEAN /\ ran' \in BOOLEAN
  BY <1>3, <1>4 DEF TypeOK
<1>6. clean' \in BOOLEAN
  BY DEF List, Run, TypeOK
<1>7. attached' \in [Pairs -> Nat] /\ faults' \in 0 .. MaxFaults
  BY <1>1 DEF TypeOK
<1>. QED  BY <1>1, <1>2, <1>5, <1>6, <1>7, ReadStep

LEMMA AttachStep == ASSUME IndInv, Attach PROVE IndInv'
<1>. USE DEF IndInv
<1>1. at > 0 /\ Now.op = "attach" /\ UNCHANGED <<objects, listed, listing, ran, loads, spoilt>>
  BY DEF Attach, Makes, Now, reading
<1>2. (Works \/ Fails) /\ (Advance \/ Dies)
  BY DEF Attach
<1>3. <<Now.to, Now.name>> \in Pairs
  BY <1>1, NowIsStep, StepKinds
<1>4. attached' = attached
      \/ (There /\ attached' = [attached EXCEPT ![<<Now.to, Now.name>>] = @ + 1])
  BY DEF Attach
<1>5. attached' \in [Pairs -> Nat]
  <2>1. attached \in [Pairs -> Nat]
    BY DEF TypeOK
  <2>. HIDE DEF IndInv
  <2>. QED  BY <1>3, <1>4, <2>1
<1>6. Housed'
  <2>. SUFFICES ASSUME NEW p \in Pairs, Named("agent", p[1]) = {} PROVE attached'[p] = 0
    BY <1>1 DEF Housed, Named
  <2>1. attached[p] = 0
    BY TypeHoused DEF Housed
  <2>2. There => p # <<Now.to, Now.name>>
    BY DEF There
  <2>. QED  BY <1>3, <1>4, <2>1, <2>2 DEF TypeOK
<1>7. /\ faults' \in 0 .. MaxFaults /\ clean' \in BOOLEAN /\ listed' \subseteq Objects
      /\ listing' \in BOOLEAN /\ ran' \in BOOLEAN
  BY <1>1, <1>2, LuckFacts DEF TypeOK
<1>. QED  BY <1>1, <1>2, <1>5, <1>6, <1>7, ReadStep

LEMMA MergeStep == ASSUME IndInv, Merge PROVE IndInv'
<1>. USE DEF IndInv
<1>1. at > 0 /\ Now.op = "merge" /\ UNCHANGED <<objects, listed, listing, ran, loads, spoilt>>
  BY DEF Merge, Makes, Now, reading
<1>2. (Works \/ Fails) /\ (Advance \/ Dies)
  BY DEF Merge
<1>3. attached' \in [Pairs -> Nat] /\ \A p \in Pairs : attached[p] = 0 => attached'[p] = 0
  BY DEF Merge, United, TypeOK
<1>4. Housed'
  BY <1>1, <1>3, TypeHoused DEF Housed, Named
<1>5. /\ faults' \in 0 .. MaxFaults /\ clean' \in BOOLEAN /\ listed' \subseteq Objects
      /\ listing' \in BOOLEAN /\ ran' \in BOOLEAN
  BY <1>1, <1>2, LuckFacts DEF TypeOK
<1>. QED  BY <1>1, <1>2, <1>3, <1>4, <1>5, ReadStep

LEMMA CrashStep == ASSUME IndInv, Crash PROVE IndInv'
<1>. USE DEF IndInv
<1>1. UNCHANGED <<objects, attached, listed, listing, ran, loads, spoilt>> /\ Fails /\ Dies
  BY DEF Crash, kibana, reading
<1>2. /\ at' \in 0 .. Len(program') /\ program' \in Programs \cup {<<>>}
      /\ searched' = FALSE /\ found' = {} /\ outcome' \in {"none", "done", "died"}
      /\ SearchInv' /\ ReplaceInv'
  BY <1>1, DiesFacts
<1>3. Housed'
  BY <1>1, TypeHoused DEF Housed, Named
<1>4. TypeOK'
  <2>1. faults' \in 0 .. MaxFaults /\ clean' \in BOOLEAN
    BY <1>1, LuckFacts
  <2>. QED  BY <1>1, <1>2, <1>3, <2>1, TypeFrom DEF TypeOK
<1>. QED  BY <1>1, <1>2, <1>4, AloneKept

LEMMA RaiseStep == ASSUME IndInv, Raise PROVE IndInv'
<1>. USE DEF IndInv
<1>1. UNCHANGED <<objects, attached, listed, listing, ran, loads, spoilt>> /\ Works /\ Dies
  BY DEF Raise, kibana, reading
<1>2. /\ at' \in 0 .. Len(program') /\ program' \in Programs \cup {<<>>}
      /\ searched' = FALSE /\ found' = {} /\ outcome' \in {"none", "done", "died"}
      /\ SearchInv' /\ ReplaceInv'
  BY <1>1, DiesFacts
<1>3. Housed'
  BY <1>1, TypeHoused DEF Housed, Named
<1>4. TypeOK'
  <2>1. faults' \in 0 .. MaxFaults /\ clean' \in BOOLEAN
    BY <1>1, LuckFacts
  <2>. QED  BY <1>1, <1>2, <1>3, <2>1, TypeFrom DEF TypeOK
<1>. QED  BY <1>1, <1>2, <1>4, AloneKept

LEMMA InvStep == IndInv /\ [Next]_vars => IndInv'
<1>. SUFFICES ASSUME IndInv, [Next]_vars PROVE IndInv'
  OBVIOUS
<1>1. CASE Next
  BY <1>1, StartStep, SearchStep, DeleteStep, RemoveStep, PostStep, PutStep, ListStep, AttachStep,
     MergeStep, RaiseStep, CrashStep DEF Next
<1>2. CASE UNCHANGED vars
  BY <1>2 DEF IndInv, TypeOK, SearchInv, ReplaceInv, AloneInv, Alone, Named, Makes, Now, Old, vars,
     kibana, reading, history
<1>. QED  BY <1>1, <1>2

THEOREM Invariant == Spec => []IndInv
BY InvInit, InvStep, PTL DEF Spec

\* The types of Kibana's and the job's state; an agent that is not there has nothing in
\* its lists (app.py:135-656 and 913-931).
THEOREM TypeCorrect == Spec => []TypeOK
<1>1. IndInv => TypeOK
  BY DEF IndInv
<1>. QED  BY <1>1, Invariant, PTL

(***************************************************************************)
(* Whatever is loaded, however often, and whatever is refused or           *)
(* interrupted: a name is doubled only by a deletion that failed or did    *)
(* not find it, and rules are (app.py:135-159, 224-239, 516-531, 631-656). *)
(***************************************************************************)
THEOREM NamesStayUnique == Spec => []OnePerName
<1>1. IndInv => OnePerName
  BY DEF IndInv, AloneInv, Alone, Named, OnePerName
<1>. QED  BY <1>1, Invariant, PTL

-----------------------------------------------------------------------------
(* A load that goes well.  What CompleteLoad says of the whole program     *)
(* holds, step by step, of the part of it that is behind the job.          *)

Reached == IF at > 0 THEN at ELSE IF outcome = "done" THEN Len(program) + 1 ELSE 1

Behind == {i \in DOMAIN program : i < Reached}

Making == {"replace", "renew", "post", "put", "refresh"}

Concerns(j, kind, name) ==
  program[j].op # "attach" /\ program[j].kind = kind /\ program[j].name = name

\* Between the deletions and the POST nothing of the name is left but what was found.
RequestInv ==
  /\ at > 0 => outcome = "none"
  /\ searched => Now.op \in {"replace", "renew"}
  /\ clean /\ searched => Old \subseteq found

\* Where an object comes from.
OriginInv ==
  \A o \in objects :
    /\ o.id[1] <= loads
    /\ o.id[1] = loads => \/ o.kind = "agent"
                          \/ \E i \in DOMAIN program :
                               program[i].kind = o.kind /\ program[i].name = o.name
    /\ o.kind = "tool" => \E x \in Steps : LoadsTool(x, o.name)

Made(i) ==
  LET is == Named(program[i].kind, program[i].name)
  IN  IF program[i].op = "post" THEN is # {} ELSE {o.id : o \in is} = {<<loads, i>>}

\* The last version of an object is the one that is there.
MadeInv ==
  \A i \in Behind :
    /\ program[i].op \in Making
    /\ \A j \in DOMAIN program :
         i < j /\ j <= Reached => ~Concerns(j, program[i].kind, program[i].name)
    => Made(i)

Single(kind, name, op) ==
  /\ Named(kind, name) # {}
  /\ op # "post" => \A o, p \in Named(kind, name) : o.id = p.id

\* What a step behind has made is there, once, whenever it is not being replaced.
KeptInv ==
  \A i \in Behind :
    program[i].op \in Making =>
      \/ searched /\ Now.kind = program[i].kind /\ Now.name = program[i].name
      \/ Single(program[i].kind, program[i].name, program[i].op)

RanInv ==
  \A j \in Behind :
    /\ program[j].op = "run"
    /\ \A k \in Behind : k > j => program[k].op # "run"
    /\ \E i \in Behind : i < j /\ program[i].kind = "workflow" /\ program[i].name = program[j].name
    => ran

\* An item stays in the lists it was added to, and is there once after the update.
AttachedInv ==
  \A i \in Behind : \A q \in Pairs :
    /\ Attaches(program[i], q[1], q[2])
    /\ \A k \in DOMAIN program : i < k /\ k <= Reached => ~Forgets(program[k], q[1], q[2])
    => /\ attached[q] >= 1
       /\ \A j \in Behind :
            /\ i < j /\ program[j].op = "merge" /\ program[j].to = q[1]
            /\ \A k \in Behind : j < k => ~Attaches(program[k], q[1], q[2])
            => attached[q] = 1

WorkflowsBefore(l, name) ==
  \A i \in DOMAIN program : program[i].kind = "workflow" /\ program[i].name = name => i < l

\* The list of workflows is up to date, when they were all loaded before it was read.
ListedInv ==
  \A l \in Behind : \A n \in Names :
    program[l].op = "list" /\ WorkflowsBefore(l, n)
      => {o \in listed : o.name = n} = Named("workflow", n)

Linked(name) ==
  \A o \in Named("tool", name) :
    Named("workflow", name) = {} \/ \E w \in Named("workflow", name) : o.link = {w.id}

LinkedInv ==
  \A l, j \in Behind :
    /\ l < j /\ program[l].op = "list" /\ LoadsTool(program[j], program[j].name)
    /\ WorkflowsBefore(l, program[j].name)
    => Linked(program[j].name)

CleanInv == MadeInv /\ KeptInv /\ RanInv /\ AttachedInv /\ ListedInv /\ LinkedInv

LoadInv == RequestInv /\ OriginInv /\ (clean => CleanInv)
-----------------------------------------------------------------------------
LEMMA ProgramFacts ==
  ASSUME TypeOK
  PROVE  /\ Len(program) \in Nat /\ DOMAIN program = 1 .. Len(program)
         /\ \A i \in DOMAIN program : program \in Programs /\ program[i] \in StepsOf(program)
                                      /\ program[i] \in Steps
<1>1. CASE program \in Programs
  <2>1. program \in Seq(StepsOf(program))
    BY <1>1, LoaderAssumption
  <2>2. Len(program) \in Nat /\ DOMAIN program = 1 .. Len(program)
    BY <2>1
  <2>3. \A i \in DOMAIN program : program[i] \in StepsOf(program)
    BY DEF StepsOf
  <2>. QED  BY <1>1, <2>2, <2>3 DEF Steps
<1>2. CASE program = <<>>
  BY <1>2
<1>. QED  BY <1>1, <1>2 DEF TypeOK

\* The job goes on to the next step.
LEMMA GoesOn ==
  ASSUME TypeOK, at > 0, Advance
  PROVE  /\ program' = program /\ searched' = FALSE
         /\ at \in DOMAIN program /\ at \in Nat /\ Reached = at /\ Reached' = at + 1
         /\ Behind' = Behind \cup {at} /\ \A i \in Behind : i \in Nat /\ i < at
<1>1. Len(program) \in Nat /\ DOMAIN program = 1 .. Len(program) /\ at \in 1 .. Len(program)
  BY ProgramFacts, NowIsStep
<1>2. program' = program /\ searched' = FALSE
  BY DEF Advance
<1>3. Reached = at
  BY DEF Reached
<1>4. Reached' = at + 1
  <2>1. CASE at = Len(program)
    <3>1. at' = 0 /\ outcome' = "done"
      BY <2>1 DEF Advance
    <3>. QED  BY <1>1, <1>2, <2>1, <3>1 DEF Reached
  <2>2. CASE at # Len(program)
    <3>1. at' = at + 1
      BY <2>2 DEF Advance
    <3>. QED  BY <1>1, <3>1 DEF Reached
  <2>. QED  BY <2>1, <2>2
<1>5. Behind' = Behind \cup {at}
  BY <1>1, <1>2, <1>3, <1>4 DEF Behind
<1>6. \A i \in Behind : i \in Nat /\ i < at
  BY <1>1, <1>3 DEF Behind
<1>. QED  BY <1>1, <1>2, <1>3, <1>4, <1>5, <1>6

\* It is still at the same step.
LEMMA StaysOn ==
  ASSUME TypeOK, at > 0, UNCHANGED <<program, at>>
  PROVE  /\ at \in DOMAIN program /\ at \in Nat /\ Reached = at /\ Reached' = Reached
         /\ Behind' = Behind /\ Now' = Now /\ \A i \in Behind : i \in Nat /\ i < at
<1>1. Len(program) \in Nat /\ DOMAIN program = 1 .. Len(program) /\ at \in 1 .. Len(program)
  BY ProgramFacts, NowIsStep
<1>2. Reached = at /\ Reached' = at
  BY DEF Reached
<1>. QED  BY <1>1, <1>2 DEF Behind, Now

\* Nothing is behind a job that has just started, or died.
LEMMA NothingBehind ==
  ASSUME TypeOK', Reached' = 1
  PROVE  CleanInv'
<1>1. Behind' = {}
  <2>1. DOMAIN program' \subseteq Nat \ {0}
    <3>1. CASE program' \in Programs
      <4>1. program' \in Seq(StepsOf(program'))
        BY <3>1, LoaderAssumption
      <4>. QED  BY <4>1
    <3>2. CASE program' = <<>>
      BY <3>2
    <3>. QED  BY <3>1, <3>2 DEF TypeOK
  <2>. QED  BY <2>1 DEF Behind
<1>. QED  BY <1>1 DEF CleanInv, MadeInv, KeptInv, RanInv, AttachedInv, ListedInv, LinkedInv
-----------------------------------------------------------------------------
(* What a step has to show for each part, and what it need not look at.    *)

\* A request concerns the objects of one name, if any.
Elsewhere ==
  \A o : Now.op \notin Making \/ o.kind # Now.kind \/ o.name # Now.name =>
          (o \in objects' <=> o \in objects)

LEMMA NamedElsewhere ==
  ASSUME Elsewhere, NEW kind, NEW name,
         Now.op \notin Making \/ kind # Now.kind \/ name # Now.name
  PROVE  Named(kind, name)' = Named(kind, name)
BY DEF Elsewhere, Named

Follows ==
  /\ program' = program /\ at \in DOMAIN program /\ at \in Nat
  /\ Reached = at /\ Reached' \in {at, at + 1}
  /\ Behind \subseteq Behind' /\ Behind' \subseteq Behind \cup {at}
  /\ \A i \in Behind : i \in Nat /\ i < at

LEMMA MadeFrame ==
  ASSUME TypeOK, MadeInv, Follows, Elsewhere, UNCHANGED loads,
         \A i \in Behind' : i = at /\ Now.op \in Making => Made(i)'
  PROVE  MadeInv'
<1>. SUFFICES ASSUME NEW i \in Behind', program'[i].op \in Making,
                     \A j \in DOMAIN program' :
                       i < j /\ j <= Reached' => ~Concerns(j, program[i].kind, program[i].name)'
              PROVE  Made(i)'
  BY DEF MadeInv, Follows
<1>1. CASE i = at
  BY <1>1 DEF Follows, Now
<1>2. CASE i # at
  <2>1. i \in Behind /\ i < at /\ i \in Nat /\ at <= Reached' /\ at \in DOMAIN program'
    BY <1>2 DEF Follows
  <2>2. \A j \in DOMAIN program :
          i < j /\ j <= Reached => ~Concerns(j, program[i].kind, program[i].name)
    <3>. SUFFICES ASSUME NEW j \in DOMAIN program, i < j, j <= Reached
                  PROVE  ~Concerns(j, program[i].kind, program[i].name)
      OBVIOUS
    <3>1. j \in Nat /\ j <= Reached'
      BY ProgramFacts DEF Follows
    <3>. QED  BY <3>1 DEF Concerns, Follows
  <2>3. Made(i)
    BY <2>1, <2>2 DEF MadeInv, Follows
  <2>4. ~Concerns(at, program[i].kind, program[i].name)
    BY <2>1, <2>2 DEF Follows
  <2>5. Now.op \notin Making \/ program[i].kind # Now.kind \/ program[i].name # Now.name
    BY <2>4 DEF Concerns, Now, Making
  <2>6. Named(program[i].kind, program[i].name)' = Named(program[i].kind, program[i].name)
    BY <2>5 DEF Elsewhere, Follows, Named
  <2>. QED  BY <2>3, <2>6 DEF Made, Follows
<1>. QED  BY <1>1, <1>2

LEMMA SingleElsewhere ==
  ASSUME Elsewhere, NEW kind, NEW name, NEW op,
         Now.op \notin Making \/ kind # Now.kind \/ name # Now.name, Single(kind, name, op)
  PROVE  Single(kind, name, op)'
<1>1. Named(kind, name)' = Named(kind, name)
  BY NamedElsewhere
<1>. QED  BY <1>1 DEF Single

LEMMA KeptFrame ==
  ASSUME TypeOK, RequestInv, KeptInv, Follows, Elsewhere,
         Now.op \in Making =>
           \/ searched' /\ Now' = Now
           \/ \A kind, name, op : kind = Now.kind /\ name = Now.name /\ op = Now.op =>
                                   Single(kind, name, op)'
  PROVE  KeptInv'
<1>. SUFFICES ASSUME NEW i \in Behind', program[i].op \in Making
              PROVE  \/ (searched /\ Now.kind = program[i].kind /\ Now.name = program[i].name)'
                     \/ Single(program[i].kind, program[i].name, program[i].op)'
  BY DEF KeptInv, Follows
<1>1. i \in DOMAIN program /\ (i # at => i \in Behind)
  BY DEF Follows, Behind
<1>2. CASE Now.op \in Making /\ Now.kind = program[i].kind /\ Now.name = program[i].name
  <2>1. program[i] \in Steps /\ Now \in Steps
    BY <1>1, ProgramFacts DEF Now, Follows
  <2>2. program[i].op # "post" => Now.op # "post"
    BY <1>2, <2>1, StepKinds DEF Searched, Making
  <2>3. CASE searched' /\ Now' = Now
    BY <1>2, <2>3 DEF Follows
  <2>4. CASE \A kind, name, op : kind = Now.kind /\ name = Now.name /\ op = Now.op =>
                                  Single(kind, name, op)'
    <3>. DEFINE kind == program[i].kind
                name == program[i].name
    <3>1. \A op : op = Now.op => Single(kind, name, op)'
      <4>1. kind' = kind /\ name' = name
        BY DEF Follows
      <4>. QED  BY <1>2, <2>4, <4>1 DEF Single, Named
    <3>. QED  BY <2>2, <3>1 DEF Single, Follows
  <2>. QED  BY <1>2, <2>3, <2>4
<1>3. CASE Now.op \notin Making \/ program[i].kind # Now.kind \/ program[i].name # Now.name
  <2>1. i \in Behind
    BY <1>1, <1>3 DEF Now
  <2>2. Single(program[i].kind, program[i].name, program[i].op)
    BY <1>3, <2>1 DEF KeptInv, RequestInv, Making
  <2>3. Single(program[i].kind, program[i].name, program[i].op)'
    <3>. DEFINE kind == program[i].kind
                name == program[i].name
                op == program[i].op
    <3>1. kind' = kind /\ name' = name /\ op' = op
      BY DEF Follows
    <3>2. Named(kind, name)' = Named(kind, name)
      BY <1>3, <3>1 DEF Elsewhere, Named
    <3>. QED  BY <2>2, <3>1, <3>2 DEF Single
  <2>. QED  BY <2>3
<1>. QED  BY <1>2, <1>3

LEMMA RanFrame ==
  ASSUME RanInv, Follows, UNCHANGED ran, Now.op # "run"
  PROVE  RanInv'
<1>. SUFFICES ASSUME NEW j \in Behind', program[j].op = "run",
                     \A k \in Behind' : k > j => program[k].op # "run",
                     NEW i \in Behind', i < j, program[i].kind = "workflow",
                     program[i].name = program[j].name
              PROVE  ran
  BY DEF RanInv, Follows
<1>1. j \in Behind
  BY DEF Follows, Now
<1>2. i \in Behind
  BY <1>1 DEF Follows
<1>. QED  BY <1>1, <1>2 DEF RanInv, Follows

LEMMA AttachedFrame ==
  ASSUME TypeOK, AttachedInv, Follows, Now.op \notin {"attach", "merge"},
         \A q \in Pairs : ~Forgets(Now, q[1], q[2]) => attached'[q] = attached[q]
  PROVE  AttachedInv'
<1>. SUFFICES ASSUME NEW i \in Behind', NEW q \in Pairs, Attaches(program[i], q[1], q[2]),
                     \A k \in DOMAIN program : i < k /\ k <= Reached' => ~Forgets(program[k], q[1], q[2])
              PROVE  /\ attached'[q] >= 1
                     /\ \A j \in Behind' :
                          /\ i < j /\ program[j].op = "merge" /\ program[j].to = q[1]
                          /\ \A k \in Behind' : j < k => ~Attaches(program[k], q[1], q[2])
                          => attached'[q] = 1
  BY DEF AttachedInv, Follows
<1>1. i \in Behind /\ i < at /\ i \in Nat
  BY DEF Follows, Attaches, Now
<1>2. ~Forgets(Now, q[1], q[2])
  BY <1>1 DEF Follows, Now
<1>3. attached'[q] = attached[q]
  BY <1>2
<1>4. \A k \in DOMAIN program : i < k /\ k <= Reached => ~Forgets(program[k], q[1], q[2])
  <2>. SUFFICES ASSUME NEW k \in DOMAIN program, i < k, k <= Reached
                PROVE  ~Forgets(program[k], q[1], q[2])
    OBVIOUS
  <2>1. k \in Nat /\ k <= Reached'
    BY ProgramFacts DEF Follows
  <2>. QED  BY <2>1
<1>5. ASSUME NEW j \in Behind', i < j, program[j].op = "merge", program[j].to = q[1],
             \A k \in Behind' : j < k => ~Attaches(program[k], q[1], q[2])
      PROVE  attached[q] = 1
  <2>1. j \in Behind
    BY <1>5 DEF Follows, Now
  <2>2. \A k \in Behind : j < k => ~Attaches(program[k], q[1], q[2])
    BY <1>5 DEF Follows
  <2>. QED  BY <1>1, <1>4, <1>5, <2>1, <2>2 DEF AttachedInv
<1>6. attached[q] >= 1
  BY <1>1, <1>4 DEF AttachedInv
<1>. QED  BY <1>3, <1>5, <1>6

\* After the list has been read no workflow of the name changes.
LEMMA WorkflowsSettled ==
  ASSUME Follows, Elsewhere, NEW l \in Behind, NEW n, WorkflowsBefore(l, n)
  PROVE  Named("workflow", n)' = Named("workflow", n)
<1>1. l < at /\ l \in Nat /\ at \in Nat
  BY DEF Follows
<1>2. Now.kind # "workflow" \/ Now.name # n
  BY <1>1 DEF WorkflowsBefore, Follows, Now
<1>. QED  BY <1>2, NamedElsewhere

LEMMA ListedFrame ==
  ASSUME ListedInv, Follows, Elsewhere, UNCHANGED listed, Now.op # "list"
  PROVE  ListedInv'
<1>. SUFFICES ASSUME NEW l \in Behind', NEW n \in Names, program[l].op = "list", WorkflowsBefore(l, n)
              PROVE  {o \in listed : o.name = n} = Named("workflow", n)'
  BY DEF ListedInv, Follows, WorkflowsBefore
<1>1. l \in Behind
  BY DEF Follows, Now
<1>2. Named("workflow", n)' = Named("workflow", n)
  BY <1>1, WorkflowsSettled
<1>. QED  BY <1>1, <1>2 DEF ListedInv

LEMMA LinkedFrame ==
  ASSUME TypeOK, LinkedInv, Follows, Elsewhere,
         LoadsTool(Now, Now.name) =>
           \/ at \notin Behind' /\ objects' \subseteq objects
           \/ \A l \in Behind : \A name :
                name = Now.name /\ program[l].op = "list" /\ WorkflowsBefore(l, name) => Linked(name)'
  PROVE  LinkedInv'
<1>. SUFFICES ASSUME NEW l \in Behind', NEW j \in Behind', l < j, program[l].op = "list",
                     LoadsTool(program[j], program[j].name), WorkflowsBefore(l, program[j].name)
              PROVE  Linked(program[j].name)'
  BY DEF LinkedInv, Follows, WorkflowsBefore
<1>. DEFINE n == program[j].name
<1>1. l \in Behind
  BY DEF Follows
<1>2. n' = n
  BY DEF Follows
<1>3. Now \in Steps
  BY ProgramFacts DEF Now, Follows
<1>4. j \in Behind => Linked(n)
  BY <1>1 DEF LinkedInv
<1>. HIDE DEF n
<1>5. Named("workflow", n)' = Named("workflow", n)
  <2>1. \A m : WorkflowsBefore(l, m) => Named("workflow", m)' = Named("workflow", m)
    BY <1>1, WorkflowsSettled
  <2>. QED  BY <1>2, <2>1 DEF Named, n
<1>6. CASE LoadsTool(Now, n)
  <2>1. Now.name = n
    BY <1>6 DEF LoadsTool
  <2>2. CASE at \notin Behind' /\ objects' \subseteq objects
    <3>1. j \in Behind
      BY <2>2 DEF Follows
    <3>2. Named("tool", n)' \subseteq Named("tool", n)
      BY <1>2, <2>2 DEF Named
    <3>. QED  BY <1>2, <1>4, <1>5, <3>1, <3>2 DEF Linked, n
  <2>3. CASE \A k \in Behind : \A name :
               name = Now.name /\ program[k].op = "list" /\ WorkflowsBefore(k, name) => Linked(name)'
    <3>1. \A name : name = n => Linked(name)'
      BY <1>1, <2>1, <2>3 DEF n
    <3>. QED  BY <1>2, <3>1 DEF Linked, Named, n
  <2>. QED  BY <1>6, <2>1, <2>2, <2>3
<1>7. CASE ~LoadsTool(Now, n)
  <2>1. j \in Behind
    BY <1>7 DEF Follows, Now, n
  <2>2. Now.op \notin Making \/ Now.kind # "tool" \/ Now.name # n
    BY <1>3, <1>7, StepKinds DEF LoadsTool, Making, Searched
  <2>3. Named("tool", n)' = Named("tool", n)
    BY <1>2, <2>2 DEF Elsewhere, Named
  <2>. QED  BY <1>2, <1>4, <1>5, <2>1, <2>3 DEF Linked, n
<1>. QED  BY <1>6, <1>7

LEMMA OriginFrame ==
  ASSUME TypeOK, OriginInv, at > 0, UNCHANGED <<program, loads>>, Now.op \in Making, NEW link,
         objects' \subseteq objects \cup {Object(Now.kind, Now.name, link, loads, at)}
  PROVE  OriginInv'
<1>. SUFFICES ASSUME NEW o \in objects'
              PROVE  /\ o.id[1] <= loads
                     /\ o.id[1] = loads => \/ o.kind = "agent"
                                           \/ \E i \in DOMAIN program :
                                                program[i].kind = o.kind /\ program[i].name = o.name
                     /\ o.kind = "tool" => \E x \in Steps : LoadsTool(x, o.name)
  BY DEF OriginInv
<1>1. CASE o \in objects
  BY <1>1 DEF OriginInv
<1>2. CASE o = Object(Now.kind, Now.name, link, loads, at)
  <2>1. o.kind = Now.kind /\ o.name = Now.name /\ o.id[1] = loads /\ loads \in Nat
    BY <1>2 DEF Object, TypeOK
  <2>2. at \in DOMAIN program /\ Now \in Steps
    BY ProgramFacts, NowIsStep
  <2>3. o.kind = "tool" => LoadsTool(Now, o.name)
    BY <2>1, <2>2, StepKinds DEF LoadsTool, Making, Searched
  <2>. QED  BY <2>1, <2>2, <2>3 DEF Now
<1>. QED  BY <1>1, <1>2
-----------------------------------------------------------------------------
(* The steps.                                                              *)

LEMMA LoadInit == Init => LoadInv
<1>. SUFFICES ASSUME Init PROVE LoadInv
  OBVIOUS
<1>1. RequestInv
  BY DEF Init, RequestInv
<1>2. OriginInv
  <2>1. \A o \in objects : \E x : o = Object("agent", x, {}, 0, 0)
    BY DEF Init
  <2>2. \A o \in objects : o.kind = "agent" /\ o.id[1] = 0
    BY <2>1 DEF Object
  <2>. QED  BY <2>2 DEF Init, OriginInv
<1>3. CleanInv
  <2>1. Behind = {}
    BY DEF Init, Behind
  <2>. QED  BY <2>1 DEF CleanInv, MadeInv, KeptInv, RanInv, AttachedInv, ListedInv, LinkedInv
<1>. QED  BY <1>1, <1>2, <1>3 DEF LoadInv

LEMMA StartLoad ==
  ASSUME IndInv, IndInv', LoadInv, Start
  PROVE  LoadInv'
<1>1. RequestInv'
  BY DEF Start, IndInv, SearchInv, TypeOK, RequestInv
<1>2. OriginInv'
  <2>1. loads \in Nat /\ loads' = loads + 1 /\ objects' = objects
    BY DEF Start, kibana, IndInv, TypeOK
  <2>2. \A o \in objects : o.id[1] \in Nat
    BY DEF IndInv, TypeOK, Objects, Ids
  <2>. QED  BY <2>1, <2>2 DEF LoadInv, OriginInv
<1>3. CleanInv'
  <2>1. Reached' = 1
    BY DEF Start, Reached
  <2>. QED  BY <2>1, NothingBehind DEF IndInv
<1>. QED  BY <1>1, <1>2, <1>3 DEF LoadInv

\* The job ends before its time.
LEMMA DiesLoad ==
  ASSUME IndInv', LoadInv, Dies, UNCHANGED <<objects, loads>>
  PROVE  LoadInv'
<1>1. at' = 0 /\ searched' = FALSE /\ outcome' = "died" /\ program' = program
  BY DEF Dies
<1>2. RequestInv'
  BY <1>1 DEF RequestInv
<1>3. OriginInv'
  BY <1>1 DEF LoadInv, OriginInv
<1>4. CleanInv'
  <2>1. Reached' = 1
    BY <1>1 DEF Reached
  <2>. QED  BY <2>1, NothingBehind DEF IndInv
<1>. QED  BY <1>2, <1>3, <1>4 DEF LoadInv

LEMMA FollowsAdvance ==
  ASSUME TypeOK, at > 0, Advance
  PROVE  Follows /\ at \in Behind'
BY GoesOn DEF Follows

LEMMA FollowsStay ==
  ASSUME TypeOK, at > 0, UNCHANGED <<program, at>>
  PROVE  Follows /\ at \notin Behind'
BY StaysOn DEF Follows

LEMMA RequestAdvance ==
  ASSUME RequestInv, at > 0, Advance
  PROVE  RequestInv'
BY DEF Advance, RequestInv

\* A request within a step.
LEMMA WithinStep ==
  ASSUME IndInv, LoadInv, RequestInv', at > 0, Now.op \in {"replace", "renew"},
         UNCHANGED <<program, at, listed, ran, loads>>, searched' = TRUE, clean' => clean,
         objects' \subseteq objects, Elsewhere,
         clean' => \A q \in Pairs : ~Forgets(Now, q[1], q[2]) => attached'[q] = attached[q]
  PROVE  LoadInv'
<1>1. Follows /\ at \notin Behind' /\ Now' = Now
  BY FollowsStay, StaysOn DEF IndInv
<1>2. OriginInv'
  BY DEF LoadInv, OriginInv
<1>3. ASSUME clean' PROVE CleanInv'
  <2>1. CleanInv /\ RequestInv /\ TypeOK
    BY <1>3 DEF LoadInv, IndInv
  <2>2. MadeInv'
    BY <1>1, <2>1, MadeFrame DEF CleanInv
  <2>3. KeptInv'
    BY <1>1, <2>1, KeptFrame DEF CleanInv
  <2>4. RanInv'
    BY <1>1, <2>1, RanFrame DEF CleanInv
  <2>5. AttachedInv'
    BY <1>1, <1>3, <2>1, AttachedFrame DEF CleanInv
  <2>6. ListedInv'
    BY <1>1, <2>1, ListedFrame DEF CleanInv
  <2>7. LinkedInv'
    BY <1>1, <2>1, LinkedFrame DEF CleanInv
  <2>. QED  BY <2>2, <2>3, <2>4, <2>5, <2>6, <2>7 DEF CleanInv
<1>. QED  BY <1>2, <1>3 DEF LoadInv

LEMMA SearchLoad == ASSUME IndInv, LoadInv, Search PROVE LoadInv'
<1>1. at > 0 /\ Now.op = "replace" /\ searched' = TRUE
      /\ UNCHANGED <<objects, attached, program, at, listed, ran, loads, outcome>>
  BY DEF Search, Makes, Now, kibana, reading
<1>2. PICK p \in PagesOf(Now.kind) :
        /\ found' = p \cap Old
        /\ clean' = (clean /\ Old \subseteq p)
  BY DEF Search
<1>3. Now' = Now /\ Old' = Old
  BY <1>1 DEF Now, Old, Named
<1>4. RequestInv'
  BY <1>1, <1>2, <1>3 DEF LoadInv, RequestInv
<1>5. Elsewhere
  BY <1>1 DEF Elsewhere
<1>. QED  BY <1>1, <1>2, <1>4, <1>5, WithinStep

LEMMA DeleteLoad == ASSUME IndInv, LoadInv, Delete PROVE LoadInv'
<1>1. PICK o \in found :
        /\ found' = found \ {o}
        /\ \/ objects' = objects \ {o} /\ Works /\ UNCHANGED spoilt
           \/ Fails /\ spoilt' = spoilt \cup {<<o.kind, o.name>>} /\ UNCHANGED objects
        /\ UNCHANGED <<attached, program, at, searched, reading, outcome, loads>>
  BY DEF Delete
<1>2. at > 0 /\ searched /\ Now.op = "replace" /\ found \subseteq Old /\ Now' = Now
  BY <1>1 DEF IndInv, SearchInv, Now
<1>3. o.kind = Now.kind /\ o.name = Now.name
  BY <1>1, <1>2 DEF Old, Named
<1>4. clean' => clean /\ objects' = objects \ {o}
  BY <1>1 DEF Fails, Works
<1>5. RequestInv'
  <2>1. clean' => Old' \subseteq found'
    <3>. SUFFICES ASSUME clean' PROVE Old' \subseteq found'
      OBVIOUS
    <3>1. Old \subseteq found
      BY <1>2, <1>4 DEF LoadInv, RequestInv
    <3>2. Old' = Old \ {o}
      BY <1>2, <1>4 DEF Old, Named
    <3>. QED  BY <1>1, <3>1, <3>2
  <2>. QED  BY <1>1, <1>2, <2>1 DEF LoadInv, RequestInv
<1>6. Elsewhere
  BY <1>1, <1>2, <1>3 DEF Elsewhere, Making
<1>7. searched' = TRUE /\ objects' \subseteq objects /\ UNCHANGED <<listed, ran>>
  BY <1>1, <1>2 DEF reading, IndInv, TypeOK
<1>. QED  BY <1>1, <1>2, <1>4, <1>5, <1>6, <1>7, WithinStep

LEMMA RemoveLoad == ASSUME IndInv, LoadInv, Remove PROVE LoadInv'
<1>1. at > 0 /\ Now.op = "renew" /\ found = {} /\ searched' = TRUE
      /\ UNCHANGED <<program, at, found, listed, ran, outcome, loads>>
  BY DEF Remove, Makes, Now, IndInv, SearchInv, reading
<1>2. \/ /\ objects' = objects \ Old
         /\ \E keep \in BOOLEAN : attached' = Forgotten(Now.kind, Now.name, keep)
         /\ Works
      \/ Fails /\ UNCHANGED <<objects, attached>>
  BY DEF Remove, kibana
<1>3. Now' = Now
  BY <1>1 DEF Now
<1>4. clean' => clean /\ objects' = objects \ Old
                /\ \E keep \in BOOLEAN : attached' = Forgotten(Now.kind, Now.name, keep)
  BY <1>2 DEF Fails, Works
<1>5. RequestInv'
  <2>1. clean' => Old' = {}
    BY <1>3, <1>4 DEF Old, Named
  <2>. QED  BY <1>1, <1>3, <2>1 DEF LoadInv, RequestInv
<1>6. Elsewhere /\ objects' \subseteq objects
  BY <1>1, <1>2 DEF Elsewhere, Old, Named, Making
<1>7. clean' => \A q \in Pairs : ~Forgets(Now, q[1], q[2]) => attached'[q] = attached[q]
  BY <1>1, <1>4 DEF Forgotten, Forgets
<1>. QED  BY <1>1, <1>4, <1>5, <1>6, <1>7, WithinStep

\* The object of a step is in its place, and no other of its name.
LEMMA InPlace ==
  ASSUME TypeOK, at > 0, Now.op \in Making, NEW link, UNCHANGED <<program, loads>>,
         objects' = (objects \ Old) \cup {Object(Now.kind, Now.name, link, loads, at)}
  PROVE  /\ Elsewhere
         /\ \A kind, name : kind = Now.kind /\ name = Now.name =>
              Named(kind, name)' = {Object(kind, name, link, loads, at)}
         /\ \A kind, name, op : kind = Now.kind /\ name = Now.name => Single(kind, name, op)'
         /\ \A i : i = at => Made(i)'
<1>. DEFINE new == Object(Now.kind, Now.name, link, loads, at)
<1>1. new.kind = Now.kind /\ new.name = Now.name /\ new.id = <<loads, at>>
  BY DEF Object
<1>. HIDE DEF new
<1>2. objects' = (objects \ Old) \cup {new}
  BY DEF new
<1>3. Elsewhere
  BY <1>1, <1>2 DEF Elsewhere, Old, Named
<1>4. \A kind, name : kind = Now.kind /\ name = Now.name => Named(kind, name)' = {new}
  BY <1>1, <1>2 DEF Old, Named
<1>5. \A kind, name, op : kind = Now.kind /\ name = Now.name => Single(kind, name, op)'
  BY <1>4 DEF Single
<1>6. ASSUME NEW i, i = at PROVE Made(i)'
  <2>1. program'[i] = Now
    BY <1>6 DEF Now
  <2>2. Named(program[i].kind, program[i].name)' = {new}
    BY <1>1, <1>2, <2>1 DEF Old, Named
  <2>3. {o.id : o \in {new}} = {<<loads', i>>}
    BY <1>1, <1>6
  <2>. QED  BY <2>2, <2>3 DEF Made
<1>. QED  BY <1>3, <1>4, <1>5, <1>6 DEF new

\* The end of a step that makes an object.
LEMMA PastMaking ==
  ASSUME IndInv, LoadInv, at > 0, Advance, Now.op \in Making,
         UNCHANGED <<attached, listed, ran, loads>>, clean' => clean, Elsewhere, NEW link,
         objects' \subseteq objects \cup {Object(Now.kind, Now.name, link, loads, at)},
         clean' => \A i : i = at => Made(i)',
         clean' => \A kind, name, op : kind = Now.kind /\ name = Now.name /\ op = Now.op =>
                                         Single(kind, name, op)',
         clean' /\ LoadsTool(Now, Now.name) =>
           \A l \in Behind : \A name :
             name = Now.name /\ program[l].op = "list" /\ WorkflowsBefore(l, name) => Linked(name)',
         Now.op = "renew" => found = {}
  PROVE  LoadInv'
<1>1. Follows /\ program' = program
  BY FollowsAdvance DEF IndInv, Advance
<1>2. OriginInv'
  BY <1>1, OriginFrame DEF LoadInv, IndInv
<1>3. RequestInv'
  BY RequestAdvance DEF LoadInv
<1>4. ASSUME clean' PROVE CleanInv'
  <2>1. CleanInv /\ RequestInv /\ TypeOK
    BY <1>4 DEF LoadInv, IndInv
  <2>2. MadeInv'
    BY <1>1, <1>4, <2>1, MadeFrame DEF CleanInv
  <2>3. KeptInv'
    BY <1>1, <1>4, <2>1, KeptFrame DEF CleanInv
  <2>4. RanInv'
    BY <1>1, <2>1, RanFrame DEF CleanInv, Making
  <2>5. AttachedInv'
    BY <1>1, <2>1, AttachedFrame DEF CleanInv, Making
  <2>6. ListedInv'
    BY <1>1, <2>1, ListedFrame DEF CleanInv, Making
  <2>7. LinkedInv'
    BY <1>1, <1>4, <2>1, LinkedFrame DEF CleanInv
  <2>. QED  BY <2>2, <2>3, <2>4, <2>5, <2>6, <2>7 DEF CleanInv
<1>. QED  BY <1>2, <1>3, <1>4 DEF LoadInv

LEMMA PostLoad == ASSUME IndInv, LoadInv, Post PROVE LoadInv'
<1>1. /\ at > 0 /\ found = {} /\ Now.op \in {"replace", "renew", "post"}
      /\ Now.op \in {"replace", "renew"} => searched
  BY DEF Post, Makes, Now, IndInv, SearchInv
<1>2. Advance /\ program' = program /\ UNCHANGED <<attached, listed, ran, loads>>
  BY DEF Post, reading, Advance
<1>3. clean' => clean
  BY DEF Post, Works, Fails
<1>4. Now \in Steps
  BY <1>1, NowIsStep DEF IndInv
\* Whatever the answer, only objects of the name are concerned.
<1>5. Elsewhere /\ \E link : objects' \subseteq objects \cup {Object(Now.kind, Now.name, link, loads, at)}
  <2>1. CASE UNCHANGED objects
    BY <2>1 DEF Elsewhere
  <2>2. CASE \E link \in Links : objects' = objects \cup {Object(Now.kind, Now.name, link, loads, at)}
    BY <1>1, <2>2 DEF Elsewhere, Object, Making
  <2>. QED  BY <2>1, <2>2 DEF Post
<1>6. PICK some : objects' \subseteq objects \cup {Object(Now.kind, Now.name, some, loads, at)}
  BY <1>5
\* A request that was granted, in a load that went well so far.
<1>7. CASE clean' /\ Now.op # "post"
  <2>1. Old = {}
    BY <1>1, <1>3, <1>7 DEF LoadInv, RequestInv
  <2>2. PICK link \in Links : objects' = objects \cup {Object(Now.kind, Now.name, link, loads, at)}
    BY <1>7, <2>1 DEF Post, Fails
  <2>3. objects' = (objects \ Old) \cup {Object(Now.kind, Now.name, link, loads, at)}
    BY <2>1, <2>2
  <2>4. /\ \A kind, name : kind = Now.kind /\ name = Now.name =>
             Named(kind, name)' = {Object(kind, name, link, loads, at)}
        /\ \A kind, name, op : kind = Now.kind /\ name = Now.name => Single(kind, name, op)'
        /\ \A i : i = at => Made(i)'
    BY <1>1, <1>2, <2>3, InPlace DEF IndInv, Making
  <2>5. ASSUME LoadsTool(Now, Now.name), NEW l \in Behind, NEW name, name = Now.name,
               program[l].op = "list", WorkflowsBefore(l, name)
        PROVE  Linked(name)'
    <3>1. name \in Names /\ Now.kind = "tool"
      BY <1>4, <2>5 DEF Names, LoadsTool
    <3>2. {o \in listed : o.name = name} = Named("workflow", name)
      BY <1>3, <1>7, <2>5, <3>1 DEF LoadInv, CleanInv, ListedInv
    <3>3. Named("workflow", name)' = Named("workflow", name)
      BY <2>5, <3>1, <1>5, NamedElsewhere
    <3>4. Named("tool", name)' = {Object("tool", name, link, loads, at)}
      BY <2>4, <2>5, <3>1
    <3>5. Named("workflow", name) # {} => \E w \in Named("workflow", name) : link = {w.id}
      BY <2>2, <2>5, <3>1, <3>2 DEF Links
    <3>. QED  BY <3>3, <3>4, <3>5 DEF Linked, Object
  <2>. QED
    BY <1>1, <1>2, <1>3, <1>5, <1>6, <2>4, <2>5, PastMaking DEF Making
<1>8. CASE clean' /\ Now.op = "post"
  <2>1. \A kind, name : kind = Now.kind /\ name = Now.name => Named(kind, name)' # {}
    <3>1. CASE UNCHANGED objects /\ Old # {}
      BY <3>1 DEF Old, Named
    <3>2. CASE \E link \in Links : objects' = objects \cup {Object(Now.kind, Now.name, link, loads, at)}
      BY <3>2 DEF Object, Named
    <3>. QED  BY <1>8, <3>1, <3>2 DEF Post, Fails
  <2>2. \A kind, name, op : kind = Now.kind /\ name = Now.name /\ op = Now.op => Single(kind, name, op)'
    BY <1>8, <2>1 DEF Single
  <2>3. \A i : i = at => Made(i)'
    <3>1. \A i : i = at => program'[i] = Now
      BY <1>2 DEF Now
    <3>2. \A i : i = at => Named(program[i].kind, program[i].name)' # {}
      BY <2>1, <3>1 DEF Named
    <3>. QED  BY <1>8, <3>1, <3>2 DEF Made
  <2>. QED
    BY <1>1, <1>2, <1>3, <1>5, <1>6, <1>8, <2>2, <2>3, PastMaking DEF Making, LoadsTool
<1>9. CASE ~clean'
  BY <1>1, <1>2, <1>5, <1>6, <1>9, PastMaking DEF Making
<1>. QED  BY <1>7, <1>8, <1>9

LEMMA PutLoad == ASSUME IndInv, IndInv', LoadInv, Put \/ Refresh PROVE LoadInv'
<1>1. at > 0 /\ Now.op \in {"put", "refresh"} /\ UNCHANGED <<attached, listed, ran, loads>>
  BY DEF Put, Refresh, Makes, Now, reading
<1>2. clean' => clean
  BY DEF Put, Refresh, Works, Fails
<1>3. CASE Dies /\ UNCHANGED objects
  BY <1>1, <1>3, DiesLoad
<1>4. CASE Advance /\ objects' = (objects \ Old) \cup {Object(Now.kind, Now.name, {}, loads, at)}
  <2>1. program' = program
    BY <1>4 DEF Advance
  <2>2. /\ Elsewhere
        /\ \A kind, name, op : kind = Now.kind /\ name = Now.name => Single(kind, name, op)'
        /\ \A i : i = at => Made(i)'
    BY <1>1, <1>4, <2>1, InPlace DEF IndInv, Making
  <2>3. objects' \subseteq objects \cup {Object(Now.kind, Now.name, {}, loads, at)}
    BY <1>4
  <2>. QED  BY <1>1, <1>2, <1>4, <2>2, <2>3, PastMaking DEF Making, LoadsTool
<1>5. CASE Advance /\ UNCHANGED objects /\ Fails
  <2>1. Elsewhere /\ ~clean'
    BY <1>5 DEF Elsewhere, Fails
  <2>. QED  BY <1>1, <1>5, <2>1, PastMaking DEF Making
<1>. QED  BY <1>3, <1>4, <1>5 DEF Put, Refresh

\* The end of a step that makes no object: what it may have changed is left to show.
LEMMA PastReading ==
  ASSUME IndInv, LoadInv, at > 0, Advance, Now.op \notin Making,
         UNCHANGED <<objects, loads>>, clean' => clean,
         clean' => RanInv' /\ AttachedInv' /\ ListedInv'
  PROVE  LoadInv'
<1>1. Follows /\ program' = program
  BY FollowsAdvance DEF IndInv, Advance
<1>2. OriginInv'
  BY <1>1 DEF LoadInv, OriginInv
<1>3. RequestInv'
  BY RequestAdvance DEF LoadInv
<1>4. Elsewhere
  BY DEF Elsewhere
<1>5. ASSUME clean' PROVE CleanInv'
  <2>1. CleanInv /\ RequestInv /\ TypeOK
    BY <1>5 DEF LoadInv, IndInv
  <2>2. MadeInv'
    BY <1>1, <1>4, <2>1, MadeFrame DEF CleanInv
  <2>3. KeptInv'
    BY <1>1, <1>4, <2>1, KeptFrame DEF CleanInv
  <2>4. LinkedInv'
    BY <1>1, <1>4, <2>1, LinkedFrame DEF CleanInv, LoadsTool, Making
  <2>. QED  BY <1>5, <2>2, <2>3, <2>4 DEF CleanInv
<1>. QED  BY <1>2, <1>3, <1>5 DEF LoadInv

\* A step that leaves the agents' lists alone.
LEMMA AttachedKept ==
  ASSUME TypeOK, CleanInv, Follows, Now.op \notin {"attach", "merge"}, UNCHANGED attached
  PROVE  AttachedInv'
BY AttachedFrame DEF CleanInv

LEMMA ListLoad == ASSUME IndInv, LoadInv, List PROVE LoadInv'
<1>1. at > 0 /\ Now.op = "list" /\ Advance /\ UNCHANGED <<objects, attached, ran, loads>>
  BY DEF List, Makes, Now, kibana
<1>2. clean' => clean /\ listed' = {o \in objects : o.kind = "workflow"}
  BY DEF List
<1>3. Follows
  BY <1>1, FollowsAdvance DEF IndInv
<1>4. ASSUME clean' PROVE RanInv' /\ AttachedInv' /\ ListedInv'
  <2>1. CleanInv
    BY <1>2, <1>4 DEF LoadInv
  <2>2. RanInv'
    BY <1>1, <1>3, <2>1, RanFrame DEF CleanInv
  <2>3. AttachedInv'
    BY <1>1, <1>3, <2>1, AttachedKept DEF IndInv
  <2>4. ListedInv'
    <3>1. \A n : {o \in listed' : o.name = n} = Named("workflow", n)'
      BY <1>1, <1>2, <1>4 DEF Named
    <3>. QED  BY <3>1 DEF ListedInv
  <2>. QED  BY <2>2, <2>3, <2>4
<1>. QED  BY <1>1, <1>2, <1>4, PastReading DEF Making

LEMMA RunLoad == ASSUME IndInv, LoadInv, Run PROVE LoadInv'
<1>1. at > 0 /\ Now.op = "run" /\ Advance /\ UNCHANGED <<objects, attached, listed, loads>>
  BY DEF Run, Makes, Now, kibana
<1>2. PICK p \in PagesOf("workflow") :
        /\ ran' = \E o \in p : o.name = Now.name
        /\ clean' = (clean /\ Named("workflow", Now.name) \subseteq p)
  BY DEF Run
<1>3. Follows /\ Behind' = Behind \cup {at} /\ at \in Nat
  BY <1>1, FollowsAdvance, GoesOn DEF IndInv
<1>4. ASSUME clean' PROVE RanInv' /\ AttachedInv' /\ ListedInv'
  <2>1. CleanInv /\ RequestInv
    BY <1>2, <1>4 DEF LoadInv
  <2>2. RanInv'
    <3>. SUFFICES ASSUME NEW j \in Behind', program[j].op = "run",
                         \A k \in Behind' : k > j => program[k].op # "run",
                         NEW i \in Behind', i < j, program[i].kind = "workflow",
                         program[i].name = program[j].name
                  PROVE  ran'
      BY <1>3 DEF RanInv, Follows
    <3>1. j = at
      BY <1>1, <1>3 DEF Follows, Now
    <3>2. i \in Behind /\ i \in DOMAIN program
      BY <1>3, <3>1 DEF Behind
    <3>3. program[i].op \in Making /\ program[i].op # "post"
      <4>1. program[i] \in Steps
        BY <3>2, ProgramFacts DEF IndInv
      <4>2. program[i].op \in OpsOf("workflow")
        BY <4>1, LoaderAssumption
      <4>. QED  BY <4>2 DEF OpsOf, Searched, Making
    <3>4. Single("workflow", Now.name, program[i].op)
      <4>1. ~searched
        BY <1>1, <2>1 DEF RequestInv
      <4>. QED  BY <2>1, <3>1, <3>2, <3>3, <4>1 DEF CleanInv, KeptInv, Now
    <3>5. PICK o \in Named("workflow", Now.name) : TRUE
      BY <3>4 DEF Single
    <3>6. o \in p /\ o.name = Now.name
      BY <1>2, <1>4, <3>5 DEF Named
    <3>. QED  BY <1>2, <3>6
  <2>3. AttachedInv'
    BY <1>1, <1>3, <2>1, AttachedKept DEF IndInv
  <2>4. ListedInv'
    <3>1. Elsewhere
      BY <1>1 DEF Elsewhere
    <3>. QED  BY <1>1, <1>3, <2>1, <3>1, ListedFrame DEF CleanInv
  <2>. QED  BY <2>2, <2>3, <2>4
<1>. QED  BY <1>1, <1>2, <1>4, PastReading DEF Making

\* What AttachedInv asks for an item and an agent is known of the state before, unless the
\* step is the one that adds the item.
LEMMA AttachedBefore ==
  ASSUME TypeOK, AttachedInv, Follows, Behind' = Behind \cup {at}, Reached' = at + 1,
         NEW i \in Behind, NEW q \in Pairs, Attaches(program[i], q[1], q[2]),
         \A k \in DOMAIN program : i < k /\ k <= Reached' => ~Forgets(program[k], q[1], q[2])
  PROVE  /\ attached[q] >= 1
         /\ \A j \in Behind :
              /\ i < j /\ program[j].op = "merge" /\ program[j].to = q[1]
              /\ \A k \in Behind' : j < k => ~Attaches(program[k], q[1], q[2])
              => attached[q] = 1
<1>1. \A k \in DOMAIN program : i < k /\ k <= Reached => ~Forgets(program[k], q[1], q[2])
  <2>. SUFFICES ASSUME NEW k \in DOMAIN program, i < k, k <= Reached
                PROVE  ~Forgets(program[k], q[1], q[2])
    OBVIOUS
  <2>1. k \in Nat /\ k <= Reached'
    BY ProgramFacts DEF Follows
  <2>. QED  BY <2>1
<1>2. attached[q] >= 1
  BY <1>1 DEF AttachedInv
<1>3. \A j \in Behind :
        /\ i < j /\ program[j].op = "merge" /\ program[j].to = q[1]
        /\ \A k \in Behind' : j < k => ~Attaches(program[k], q[1], q[2])
        => attached[q] = 1
  BY <1>1 DEF AttachedInv
<1>. QED  BY <1>2, <1>3

LEMMA AttachLoad == ASSUME IndInv, IndInv', LoadInv, Attach PROVE LoadInv'
<1>1. at > 0 /\ Now.op = "attach" /\ UNCHANGED <<objects, listed, ran, loads>>
  BY DEF Attach, Makes, Now, reading
<1>2. CASE Dies
  BY <1>1, <1>2, DiesLoad
<1>3. CASE Advance /\ Fails
  BY <1>1, <1>3, PastReading DEF Making, Fails
<1>4. CASE Advance /\ Works /\ attached' = [attached EXCEPT ![<<Now.to, Now.name>>] = @ + 1]
  <2>1. Follows /\ Behind' = Behind \cup {at} /\ Reached' = at + 1 /\ at \in Nat
    BY <1>1, <1>4, FollowsAdvance, GoesOn DEF IndInv
  <2>2. clean' = clean
    BY <1>4 DEF Works
  <2>3. <<Now.to, Now.name>> \in Pairs /\ attached \in [Pairs -> Nat]
    BY <1>1, NowIsStep, StepKinds DEF IndInv, TypeOK
  <2>4. ASSUME clean' PROVE RanInv' /\ AttachedInv' /\ ListedInv'
    <3>1. CleanInv /\ TypeOK
      BY <2>2, <2>4 DEF LoadInv, IndInv
    <3>2. RanInv'
      BY <1>1, <2>1, <3>1, RanFrame DEF CleanInv
    <3>3. ListedInv'
      <4>1. Elsewhere
        BY <1>1 DEF Elsewhere
      <4>. QED  BY <1>1, <2>1, <3>1, <4>1, ListedFrame DEF CleanInv
    <3>4. AttachedInv'
      <4>. SUFFICES ASSUME NEW i \in Behind', NEW q \in Pairs, Attaches(program[i], q[1], q[2]),
                           \A k \in DOMAIN program :
                             i < k /\ k <= Reached' => ~Forgets(program[k], q[1], q[2])
                    PROVE  /\ attached'[q] >= 1
                           /\ \A j \in Behind' :
                                /\ i < j /\ program[j].op = "merge" /\ program[j].to = q[1]
                                /\ \A k \in Behind' : j < k => ~Attaches(program[k], q[1], q[2])
                                => attached'[q] = 1
        BY <2>1 DEF AttachedInv, Follows
      <4>1. q = <<q[1], q[2]>>
        BY DEF Pairs
      <4>2. \A j \in Behind' : i < j /\ program[j].op = "merge" => j \in Behind /\ i \in Behind /\ j < at
        BY <1>1, <2>1 DEF Follows, Now
      <4>3. CASE q = <<Now.to, Now.name>>
        <5>1. attached'[q] >= 1
          BY <1>4, <2>3, <4>3
        <5>2. Attaches(program[at], q[1], q[2]) /\ at \in Behind'
          BY <1>1, <2>1, <4>3 DEF Attaches, Now
        <5>. QED  BY <4>2, <5>1, <5>2
      <4>4. CASE q # <<Now.to, Now.name>>
        <5>1. attached'[q] = attached[q]
          BY <1>4, <2>3, <4>4
        <5>2. i \in Behind
          BY <2>1, <4>1, <4>4 DEF Attaches, Now
        <5>. QED  BY <2>1, <3>1, <4>2, <5>1, <5>2, AttachedBefore DEF CleanInv
      <4>. QED  BY <4>3, <4>4
    <3>. QED  BY <3>2, <3>3, <3>4
  <2>. QED  BY <1>1, <1>4, <2>2, <2>4, PastReading DEF Making
<1>. QED  BY <1>2, <1>3, <1>4 DEF Attach

LEMMA MergeLoad == ASSUME IndInv, IndInv', LoadInv, Merge PROVE LoadInv'
<1>1. at > 0 /\ Now.op = "merge" /\ UNCHANGED <<objects, listed, ran, loads>>
  BY DEF Merge, Makes, Now, reading
<1>2. CASE Dies
  BY <1>1, <1>2, DiesLoad
<1>3. CASE Advance /\ Fails
  BY <1>1, <1>3, PastReading DEF Making, Fails
<1>4. CASE Advance /\ Works
           /\ attached' = [p \in Pairs |-> IF p[1] = Now.to THEN United(attached[p]) ELSE attached[p]]
  <2>1. Follows /\ Behind' = Behind \cup {at} /\ Reached' = at + 1 /\ at \in Nat
    BY <1>1, <1>4, FollowsAdvance, GoesOn DEF IndInv
  <2>2. clean' = clean
    BY <1>4 DEF Works
  <2>3. ASSUME clean' PROVE RanInv' /\ AttachedInv' /\ ListedInv'
    <3>1. CleanInv /\ TypeOK
      BY <2>2, <2>3 DEF LoadInv, IndInv
    <3>2. RanInv'
      BY <1>1, <2>1, <3>1, RanFrame DEF CleanInv
    <3>3. ListedInv'
      <4>1. Elsewhere
        BY <1>1 DEF Elsewhere
      <4>. QED  BY <1>1, <2>1, <3>1, <4>1, ListedFrame DEF CleanInv
    <3>4. AttachedInv'
      <4>. SUFFICES ASSUME NEW i \in Behind', NEW q \in Pairs, Attaches(program[i], q[1], q[2]),
                           \A k \in DOMAIN program :
                             i < k /\ k <= Reached' => ~Forgets(program[k], q[1], q[2])
                    PROVE  /\ attached'[q] >= 1
                           /\ \A j \in Behind' :
                                /\ i < j /\ program[j].op = "merge" /\ program[j].to = q[1]
                                /\ \A k \in Behind' : j < k => ~Attaches(program[k], q[1], q[2])
                                => attached'[q] = 1
        BY <2>1 DEF AttachedInv, Follows
      <4>1. i \in Behind
        BY <1>1, <2>1 DEF Attaches, Now
      <4>2. /\ attached[q] >= 1
            /\ \A j \in Behind :
                 /\ i < j /\ program[j].op = "merge" /\ program[j].to = q[1]
                 /\ \A k \in Behind' : j < k => ~Attaches(program[k], q[1], q[2])
                 => attached[q] = 1
        BY <2>1, <3>1, <4>1, AttachedBefore DEF CleanInv
      <4>3. CASE q[1] = Now.to
        <5>1. attached'[q] = 1
          BY <1>4, <3>1, <4>2, <4>3 DEF United, TypeOK
        <5>. QED  BY <5>1
      <4>4. CASE q[1] # Now.to
        <5>1. attached'[q] = attached[q]
          BY <1>4, <4>4
        <5>2. \A j \in Behind' : program[j].to = q[1] => j \in Behind
          BY <2>1, <4>4 DEF Now
        <5>. QED  BY <4>2, <5>1, <5>2
      <4>. QED  BY <4>3, <4>4
    <3>. QED  BY <3>2, <3>3, <3>4
  <2>. QED  BY <1>1, <1>4, <2>2, <2>3, PastReading DEF Making
<1>. QED  BY <1>2, <1>3, <1>4 DEF Merge

LEMMA LoadStep == IndInv /\ IndInv' /\ LoadInv /\ [Next]_vars => LoadInv'
<1>. SUFFICES ASSUME IndInv, IndInv', LoadInv, [Next]_vars PROVE LoadInv'
  OBVIOUS
<1>1. CASE Raise \/ Crash
  BY <1>1, DiesLoad DEF Raise, Crash, Makes, kibana
<1>2. CASE Next /\ ~Raise /\ ~Crash
  BY <1>2, StartLoad, SearchLoad, DeleteLoad, RemoveLoad, PostLoad, PutLoad, ListLoad, AttachLoad,
     MergeLoad, RunLoad DEF Next
<1>3. CASE UNCHANGED vars
  BY <1>3 DEF vars, kibana, reading, history, LoadInv, RequestInv, OriginInv, CleanInv, MadeInv,
     KeptInv, RanInv, AttachedInv, ListedInv, LinkedInv, Linked, Single, Made, Concerns,
     WorkflowsBefore, Behind, Reached, Named, Now, Old
<1>. QED  BY <1>1, <1>2, <1>3

LEMMA LoadAlways == Spec => [](IndInv /\ LoadInv)
BY InvInit, InvStep, LoadInit, LoadStep, PTL DEF Spec

\* At its end the whole program is behind the job.
LEMMA AllBehind ==
  ASSUME IndInv, LoadInv, outcome = "done", clean
  PROVE  /\ CleanInv /\ searched = FALSE /\ Behind = DOMAIN program
         /\ Len(program) \in Nat /\ DOMAIN program = 1 .. Len(program) /\ Reached = Len(program) + 1
<1>1. CleanInv /\ at = 0 /\ searched = FALSE
  BY DEF LoadInv, RequestInv, IndInv, TypeOK, SearchInv
<1>2. Len(program) \in Nat /\ DOMAIN program = 1 .. Len(program)
  BY ProgramFacts DEF IndInv
<1>3. Reached = Len(program) + 1
  BY <1>1 DEF Reached
<1>. QED  BY <1>1, <1>2, <1>3 DEF Behind

\* The tools of a load are linked to its workflows.
LEMMA ToolsLinked ==
  ASSUME ToolsStay, IndInv, LoadInv, outcome = "done", clean,
         NEW o \in objects, o.kind = "tool", NEW w \in Named("workflow", o.name), w.id[1] = loads
  PROVE  o.link = {w.id}
<1>1. CleanInv /\ searched = FALSE /\ Behind = DOMAIN program /\ DOMAIN program = 1 .. Len(program)
  BY AllBehind
<1>2. PICK i \in DOMAIN program : program[i].kind = "workflow" /\ program[i].name = o.name
  BY DEF LoadInv, OriginInv, Named
<1>3. program \in Programs /\ program[i] \in StepsOf(program) /\ program[i] \in Steps
  BY <1>2, ProgramFacts DEF IndInv
<1>4. \E x \in Steps : LoadsTool(x, o.name)
  BY DEF LoadInv, OriginInv
<1>5. \E x \in StepsOf(program) : LoadsTool(x, o.name)
  BY <1>2, <1>3, <1>4 DEF ToolsStay
<1>6. PICK j \in DOMAIN program : LoadsTool(program[j], o.name)
  BY <1>5 DEF StepsOf
<1>7. PICK l \in DOMAIN program :
        l < j /\ program[l].op = "list" /\ \A k \in DOMAIN program : program[k].kind = "workflow" => k < l
  <2>1. InOrder(program) /\ LoadsTool(program[j], program[j].name)
    BY <1>3, <1>6, OrderAssumption DEF LoadsTool
  <2>. QED  BY <2>1 DEF InOrder
<1>8. Linked(o.name)
  <2>1. program[j].name = o.name /\ WorkflowsBefore(l, o.name)
    BY <1>6, <1>7 DEF LoadsTool, WorkflowsBefore
  <2>. QED  BY <1>1, <1>6, <1>7, <2>1 DEF CleanInv, LinkedInv
<1>9. PICK v \in Named("workflow", o.name) : o.link = {v.id}
  BY <1>8 DEF Linked, Named
<1>10. v.id = w.id
  <2>1. program[i].op \in OpsOf("workflow")
    BY <1>2, <1>3, LoaderAssumption
  <2>2. program[i].op = "replace"
    BY <2>1 DEF OpsOf, Searched
  <2>3. Single("workflow", o.name, "replace")
    BY <1>1, <1>2, <2>2 DEF CleanInv, KeptInv, Making
  <2>. QED  BY <2>3, <1>9 DEF Single
<1>. QED  BY <1>9, <1>10

\* An item that was added to an agent is in its list once after the update.
LEMMA ItemsOnce ==
  ASSUME IndInv, LoadInv, outcome = "done", clean,
         NEW i \in DOMAIN program, NEW j \in DOMAIN program, i < j,
         program[i].op = "attach", program[j].op = "merge", program[i].to = program[j].to
  PROVE  attached[<<program[i].to, program[i].name>>] = 1
<1>. DEFINE q == <<program[i].to, program[i].name>>
<1>1. CleanInv /\ Behind = DOMAIN program /\ DOMAIN program = 1 .. Len(program)
  BY AllBehind
<1>2. program \in Programs /\ q \in Pairs
  BY ProgramFacts DEF IndInv, Pairs
<1>3. InOrder(program)
  BY <1>2, OrderAssumption
<1>4. PICK k \in DOMAIN program :
        /\ k < j /\ Attaches(program[k], program[i].to, program[i].name)
        /\ \A m \in DOMAIN program : m > k => ~Forgets(program[m], program[i].to, program[i].name)
        /\ \A m \in DOMAIN program : m > j => ~Attaches(program[m], program[i].to, program[i].name)
  BY <1>3 DEF InOrder
<1>5. q[1] = program[i].to /\ q[2] = program[i].name
  OBVIOUS
<1>. HIDE DEF q
<1>6. /\ Attaches(program[k], q[1], q[2]) /\ program[j].to = q[1]
      /\ \A m \in DOMAIN program : k < m => ~Forgets(program[m], q[1], q[2])
      /\ \A m \in DOMAIN program : j < m => ~Attaches(program[m], q[1], q[2])
  BY <1>1, <1>4, <1>5
<1>7. attached[q] = 1
  BY <1>1, <1>2, <1>4, <1>6 DEF CleanInv, AttachedInv
<1>. QED  BY <1>7 DEF q

(***************************************************************************)
(* A load of which every request is granted leaves in Kibana what the      *)
(* files say, whatever the loads before it left there, refused or          *)
(* interrupted as they may have been (app.py:913-931): for every program   *)
(* in the order of main.  Of the files it takes only that a tool's is not  *)
(* removed while its workflow's stays.                                     *)
(***************************************************************************)
THEOREM LoadsComplete ==
  ASSUME ToolsStay
  PROVE  Spec => []CompleteLoad
<1>1. ASSUME IndInv, LoadInv PROVE CompleteLoad
  <2>. SUFFICES ASSUME outcome = "done", clean
                PROVE  CompleteLoad
    BY DEF CompleteLoad
  <2>1. /\ CleanInv /\ searched = FALSE /\ Behind = DOMAIN program
        /\ DOMAIN program = 1 .. Len(program) /\ Reached = Len(program) + 1
    BY <1>1, AllBehind
  <2>2. ASSUME NEW i \in DOMAIN program, Decides(i) PROVE Made(i)
    <3>1. \A j \in DOMAIN program : i < j => ~Concerns(j, program[i].kind, program[i].name)
      BY <2>1, <2>2 DEF Decides, Concerns
    <3>. QED  BY <2>1, <2>2, <3>1 DEF CleanInv, MadeInv, Decides, Making
  <2>3. \A o \in objects : o.kind = "tool" =>
          \A w \in Named("workflow", o.name) : w.id[1] = loads => o.link = {w.id}
    BY <1>1, ToolsLinked
  <2>4. \A i, j \in DOMAIN program :
          i < j /\ program[i].op = "attach" /\ program[j].op = "merge" /\ program[i].to = program[j].to
            => attached[<<program[i].to, program[i].name>>] = 1
    BY <1>1, ItemsOnce
  <2>5. ASSUME NEW i \in DOMAIN program, NEW j \in DOMAIN program, i < j, program[j].op = "run",
               program[i].kind = "workflow", program[i].name = program[j].name
        PROVE  ran
    <3>1. InOrder(program)
      BY <1>1, ProgramFacts, OrderAssumption DEF IndInv
    <3>2. \A k \in DOMAIN program : k > j => program[k].op # "run"
      BY <2>1, <2>5, <3>1 DEF InOrder
    <3>. QED  BY <2>1, <2>5, <3>2 DEF CleanInv, RanInv
  <2>. QED  BY <2>2, <2>3, <2>4, <2>5 DEF CompleteLoad, Made
<1>. QED  BY <1>1, LoadAlways, PTL
=============================================================================
