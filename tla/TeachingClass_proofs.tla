------------------------ MODULE TeachingClass_proofs ------------------------
(***************************************************************************)
(* Proofs about two modules that share no state.  TeachingClass: for every *)
(* set of classes, names, offerings and clients, imports of offerings      *)
(* included: the inductive invariant, with it that an offering's class     *)
(* stays, that the members of a class in use are frozen, and that the      *)
(* transactions implement atomic writes.  Splitter: for every sheet, every *)
(* table of regimes and every term: the files hold the lessons of the rows *)
(* and no other, and each of them can be loaded.                           *)
(***************************************************************************)
EXTENDS TeachingClass, Splitter, Bells_proofs, SequenceTheorems, TLAPS

\* What the invariant says of one client.
Client(p) == RequestOK(p) /\ PlanOK(p) /\ CheckStands(p) /\ PendingStands(p)

\* A client that holds a lock works on the class.
Holding(p) ==
  \A c \in Classes :
    lock[c] = p => /\ c \in drawn
                   /\ pc[p] \in Steps \ {"idle", "aborted"}
                   /\ req[p].kind # "import" =>
                        pc[p] \in {"check", "write", "offer"} /\ Head(req[p].plan).class = c

\* The head and the tail of a plan.
LEMMA PlanParts ==
  ASSUME TypeOK, NEW p \in Clients, req[p].plan # <<>>
  PROVE  LET s == req[p].plan IN
         /\ Head(s) \in Groups /\ Head(s) = s[1] /\ 1 \in DOMAIN s
         /\ Tail(s) \in Seq(Groups)
         /\ \A i \in DOMAIN Tail(s) :
              i + 1 \in DOMAIN s /\ i + 1 # 1 /\ Tail(s)[i] = s[i + 1]
         /\ \A i, j \in DOMAIN Tail(s) : i # j => i + 1 # j + 1
<1> DEFINE s == req[p].plan
<1>1. s \in Seq(Groups) /\ s # <<>>
  BY DEF TypeOK
<1> HIDE DEF s
<1>2. /\ Head(s) \in Groups /\ Head(s) = s[1] /\ Tail(s) \in Seq(Groups)
      /\ Len(s) \in Nat /\ DOMAIN s = 1..Len(s) /\ Len(s) # 0
  BY <1>1, HeadTailProperties, LenProperties, EmptySeq
<1>3. DOMAIN Tail(s) = 1..(Len(s) - 1) /\ \A i \in 1..(Len(s) - 1) : Tail(s)[i] = s[i + 1]
  BY <1>1, <1>2
<1>4. 1 \in DOMAIN s
  BY <1>2
<1> QED BY <1>2, <1>3, <1>4 DEF s

\* Without teaching classes the invariant holds.
LEMMA InitInductive == Init => IInv
<1> SUFFICES ASSUME Init PROVE IInv
  OBVIOUS
<1>1. TypeOK
  <2>1. <<>> \in Seq(Groups)
    OBVIOUS
  <2>2. NoRequest \in [kind : Kinds, offering : Offerings \cup {None}, plan : Seq(Groups)]
    BY <2>1 DEF NoRequest, Kinds
  <2> QED BY <2>2 DEF Init, TypeOK, Steps
<1>2. \A p \in Clients : Client(p)
  BY DEF Init, Client, RequestOK, PlanOK, CheckStands, PendingStands, NoRequest
<1>3. OfferingHasClass /\ NamesUnique /\ LockHeldInside /\ PendingApart
  BY TeachingClassAssumption
  DEF Init, OfferingHasClass, NamesUnique, LockHeldInside, PendingApart, Standing
<1> QED BY <1>1, <1>2, <1>3 DEF IInv, Client

\* The offerings that stand.
LEMMA StandingType ==
  ASSUME TypeOK
  PROVE  /\ Standing \in [Offerings -> Classes \cup {None}]
         /\ \A o \in Offerings : Standing[o] = IF o \in raced THEN None ELSE offering[o]
         /\ \A o \in Offerings : offering[o] = None => o \notin raced
BY DEF TypeOK, Standing

\* A transaction that ends brings to light what was imported behind its back.
LEMMA NoticedStep ==
  ASSUME TypeOK, NEW p \in Clients, Noticed(p), offering' = offering
  PROVE  /\ raced' \subseteq {o \in Offerings : offering'[o] # None}
         /\ Standing' \in [Offerings -> Classes \cup {None}]
         /\ \A o \in Offerings : Standing'[o] # Standing[o] =>
              /\ Standing[o] = None /\ Standing'[o] \in Classes
              /\ lock[Standing'[o]] = p /\ name'[Standing'[o]] # None
         /\ \A c \in Classes : lock[c] # p => (Referred(c)' => Referred(c))
<1>1. raced' = {o \in raced : lock[offering[o]] = p => name'[offering[o]] = None}
  BY DEF Noticed
<1>2. \A o \in Offerings : Standing[o] = IF o \in raced THEN None ELSE offering[o]
  BY DEF Standing
<1>3. \A o \in Offerings : Standing'[o] = IF o \in raced' THEN None ELSE offering[o]
  BY DEF Standing
<1>4. \A o \in raced : offering[o] \in Classes
  BY DEF TypeOK
<1>5. \A o \in Offerings : Standing'[o] # Standing[o] =>
        /\ Standing[o] = None /\ Standing'[o] \in Classes
        /\ lock[Standing'[o]] = p /\ name'[Standing'[o]] # None
  BY <1>1, <1>2, <1>3, <1>4
<1>6. Standing' \in [Offerings -> Classes \cup {None}]
  BY <1>1 DEF Standing, TypeOK
<1>7. \A c \in Classes : lock[c] # p => (Referred(c)' => Referred(c))
  BY <1>5 DEF Referred
<1>8. raced' \subseteq {o \in Offerings : offering'[o] # None}
  BY <1>1 DEF TypeOK
<1> QED BY <1>5, <1>6, <1>7, <1>8

\* What a client found and wrote survives a step of somebody else that leaves
\* alone its request, its locks and the rows it has locked, its new classes
\* and the names it wrote, and after its checks lets nobody refer to them.
LEMMA OthersStand ==
  ASSUME TypeOK, NEW q \in Clients, Client(q),
         pc'[q] = pc[q], req'[q] = req[q], pending'[q] = pending[q],
         \A c \in Classes : lock[c] = q =>
           /\ lock'[c] = q /\ name'[c] = name[c] /\ members'[c] = members[c]
           /\ Checked(q, c) /\ Referred(c)' => Referred(c),
         drawn \subseteq drawn',
         \A g \in pending[q] : g.class \in drawn' => g.class \in drawn,
         \A g \in pending[q], d \in Classes : name'[d] = g.name => name[d] = g.name
  PROVE  Client(q)'
<1>1. RequestOK(q)'
  BY DEF Client, RequestOK
<1>2. PlanOK(q)'
  BY DEF Client, PlanOK
<1>3. CheckStands(q)'
  <2> DEFINE g == Head(req[q].plan)
  <2>1. pc[q] \in {"check", "write", "offer"} /\ req[q].kind # "upsert" =>
          g.class \in Classes /\ lock[g.class] = q /\ name[g.class] # None
    BY DEF Client, RequestOK, CheckStands
  <2>2. g' = g
    OBVIOUS
  <2>3. pc[q] = "write" => Checked(q, g.class)
    BY DEF Checked
  <2> HIDE DEF g
  <2>4. pc[q] = "write" /\ Referred(g.class)' => req[q].kind # "delete" /\ SameMembers(g)'
    <3>1. pc[q] = "write" => req[q].kind # "upsert"
      BY DEF Client, RequestOK
    <3>2. SUFFICES ASSUME pc[q] = "write", Referred(g.class)'
                   PROVE  req[q].kind # "delete" /\ SameMembers(g)'
      OBVIOUS
    <3>3. members'[g.class] = members[g.class]
      BY <2>1, <3>1, <3>2
    <3>4. \A c \in Classes : c = g.class /\ Referred(c)' => Referred(c)
      BY <2>1, <2>3, <3>1, <3>2
    <3>5. Referred(g.class)
      BY <2>1, <2>2, <3>1, <3>2, <3>4 DEF Referred
    <3> QED BY <2>2, <3>2, <3>3, <3>5 DEF Client, CheckStands, SameMembers, g
  <2>5. pc[q] \in {"check", "write", "offer"} /\ req[q].kind # "upsert" =>
          lock'[g.class] = q /\ name'[g.class] # None
    BY <2>1
  <2> QED BY <2>2, <2>4, <2>5 DEF CheckStands, g
<1>4. PendingStands(q)'
  <2> SUFFICES ASSUME NEW g \in pending[q]
               PROVE  /\ req[q].kind = "import" /\ pc[q] # "aborted"
                      /\ g.class \in Classes /\ g.name \in Names /\ g.members # {}
                      /\ \A h \in pending[q] : h # g => h.class # g.class /\ h.name # g.name
                      /\ g.class \in drawn' =>
                           /\ lock'[g.class] = q /\ name'[g.class] # None
                           /\ Referred(g.class)' => SameMembers(g)'
                      /\ \A d \in Classes : name'[d] = g.name => \E h \in pending[q] : h.class = d
    BY DEF PendingStands
  <2>1. Checked(q, g.class)
    BY DEF Checked
  <2> QED BY <2>1 DEF Client, PendingStands, SameMembers
<1> QED BY <1>1, <1>2, <1>3, <1>4 DEF Client

\* A step of client p that writes no table but may end its transaction.
LEMMA QuietStep ==
  ASSUME IInv, NEW p \in Clients,
         UNCHANGED <<name, members, offering, drawn>>, raced' = raced \/ Noticed(p),
         TypeOK', Client(p)', Holding(p)',
         \A q \in Clients \ {p} :
           /\ pc'[q] = pc[q] /\ req'[q] = req[q] /\ pending'[q] = pending[q]
           /\ \A c \in Classes : lock[c] = q <=> lock'[c] = q
           /\ \A g \in pending'[p], h \in pending[q] : g.class # h.class /\ g.name # h.name
  PROVE  IInv'
<1> USE DEF IInv
<1>0. /\ \A c \in Classes : lock[c] # p => (Referred(c)' => Referred(c))
      /\ \A o \in Offerings : Standing'[o] = Standing[o] \/ name'[Standing'[o]] # None
  <2>1. CASE raced' = raced
    BY <2>1 DEF Referred, Standing
  <2>2. CASE Noticed(p)
    BY <2>2, NoticedStep
  <2> QED BY <2>1, <2>2
<1>1. \A q \in Clients : Client(q)'
  <2> SUFFICES ASSUME NEW q \in Clients \ {p} PROVE Client(q)'
    OBVIOUS
  <2> QED BY <1>0, OthersStand, ZenonT(60) DEF Client
<1>2. OfferingHasClass' /\ NamesUnique'
  BY <1>0 DEF OfferingHasClass, NamesUnique
<1>3. PendingApart'
  BY DEF PendingApart
<1>4. LockHeldInside'
  BY DEF LockHeldInside, Holding
<1> QED BY <1>1, <1>2, <1>3, <1>4 DEF Client

\* A step of client p that writes tables and ends the transaction.
LEMMA FinalStep ==
  ASSUME IInv, NEW p \in Clients, Finish(p),
         name' \in [Classes -> Names \cup {None}],
         members' \in [Classes -> SUBSET AdminClasses],
         \A c \in Classes : name'[c] = None <=> members'[c] = {},
         offering' \in [Offerings -> Classes \cup {None}],
         raced' \subseteq {o \in Offerings : offering'[o] # None},
         drawn' \subseteq Classes, drawn \subseteq drawn',
         OfferingHasClass', NamesUnique',
         \A c \in Classes, q \in Clients \ {p} : lock[c] = q =>
           /\ name'[c] = name[c] /\ members'[c] = members[c]
           /\ Checked(q, c) /\ Referred(c)' => Referred(c),
         \A q \in Clients \ {p} : \A g \in pending[q] :
           /\ g.class \in drawn' => g.class \in drawn
           /\ \A d \in Classes : name'[d] = g.name => name[d] = g.name
  PROVE  IInv'
<1> USE DEF IInv
<1>1. /\ pc' = [pc EXCEPT ![p] = "idle"] /\ req' = [req EXCEPT ![p] = NoRequest]
      /\ pending' = [pending EXCEPT ![p] = {}]
      /\ lock' = [c \in Classes |-> IF lock[c] = p THEN None ELSE lock[c]]
  BY DEF Finish
<1>2. TypeOK'
  <2>1. NoRequest \in [kind : Kinds, offering : Offerings \cup {None}, plan : Seq(Groups)]
    BY DEF NoRequest, Kinds
  <2> QED BY <1>1, <2>1 DEF TypeOK, Steps
<1>3. Client(p)'
  <2>1. pc'[p] = "idle" /\ req'[p] = NoRequest /\ pending'[p] = {}
    BY <1>1 DEF TypeOK
  <2> QED BY <2>1 DEF Client, RequestOK, PlanOK, CheckStands, PendingStands, NoRequest
<1>4. ASSUME NEW q \in Clients \ {p} PROVE Client(q)'
  <2>1. pc'[q] = pc[q] /\ req'[q] = req[q] /\ pending'[q] = pending[q]
    BY <1>1 DEF TypeOK
  <2>2. \A c \in Classes : lock[c] = q => lock'[c] = q
    BY <1>1
  <2> QED BY <2>1, <2>2, OthersStand DEF Client
<1>5. PendingApart'
  BY <1>1 DEF PendingApart, TypeOK
<1>6. LockHeldInside'
  <2> SUFFICES ASSUME NEW c \in Classes, NEW q \in Clients, lock'[c] = q
               PROVE  /\ c \in drawn'
                      /\ pc'[q] \in Steps \ {"idle", "aborted"}
                      /\ req'[q].kind # "import" =>
                           pc'[q] \in {"check", "write", "offer"} /\ Head(req'[q].plan).class = c
    BY DEF LockHeldInside
  <2>1. lock[c] = q /\ q # p
    BY <1>1, TeachingClassAssumption
  <2>2. pc'[q] = pc[q] /\ req'[q] = req[q]
    BY <1>1, <2>1 DEF TypeOK
  <2> QED BY <2>1, <2>2 DEF LockHeldInside
<1> QED BY <1>2, <1>3, <1>4, <1>5, <1>6 DEF Client

----------------------------------------------------------------------------
(* Arrivals.                                                               *)

\* A client at rest has written nothing and holds no lock.
LEMMA AtRest ==
  ASSUME IInv, NEW p \in Clients, pc[p] = "idle"
  PROVE  pending[p] = {} /\ \A c \in Classes : lock[c] # p
BY DEF IInv, RequestOK, PendingStands, LockHeldInside

\* A request begins with a plan for the step it is at.
LEMMA StartStep ==
  ASSUME IInv, NEW p \in Clients, pc[p] = "idle",
         NEW kind \in Kinds, NEW o \in Offerings \cup {None}, NEW plan \in Seq(Groups),
         NEW step \in Steps, Start(p, kind, o, plan, step),
         plan # <<>>,
         \/ step = "insert" /\ kind \in {"create", "import"} /\ plan[1].class = None
         \/ step = "lock" /\ kind \in {"edit", "delete", "import", "offer", "move"}
                          /\ plan[1].class # None
         \/ step = "offer" /\ kind = "upsert" /\ plan[1].class # None,
         kind = "move" => o \in Offerings,
         kind \in {"create", "edit", "import"} =>
           \A i \in DOMAIN plan : plan[i].name \in Names /\ plan[i].members # {},
         kind = "import" =>
           \A i \in DOMAIN plan : plan[i].class # None =>
             /\ plan[i].class \in drawn
             /\ \A j \in DOMAIN plan : j # i => plan[j].class # plan[i].class
  PROVE  IInv'
<1> DEFINE r == [kind |-> kind, offering |-> o, plan |-> plan]
<1>1. /\ UNCHANGED <<name, members, offering, drawn, raced, lock, pending>>
      /\ pc' = [pc EXCEPT ![p] = step] /\ req' = [req EXCEPT ![p] = r]
  BY DEF Start, tables
<1>2. TypeOK'
  BY <1>1 DEF IInv, TypeOK
<1>3. pending'[p] = {} /\ \A c \in Classes : lock'[c] # p
  BY <1>1, AtRest
<1>4. pc'[p] = step /\ req'[p] = r
  BY <1>1 DEF IInv, TypeOK
<1>5. Head(plan) = plan[1] /\ plan[1] \in Groups
  BY HeadTailProperties, LenProperties, EmptySeq
<1>6. Client(p)'
  <2>1. RequestOK(p)'
    BY <1>4, <1>5 DEF RequestOK, Groups
  <2>2. PlanOK(p)' /\ CheckStands(p)' /\ PendingStands(p)'
    BY <1>1, <1>3, <1>4 DEF PlanOK, CheckStands, PendingStands
  <2> QED BY <2>1, <2>2 DEF Client
<1>7. Holding(p)'
  BY <1>3 DEF Holding
<1> QED BY <1>1, <1>2, <1>3, <1>6, <1>7, QuietStep DEF IInv, TypeOK, tables

\* A plan of one group.
LEMMA OneGroup ==
  ASSUME NEW g \in Groups
  PROVE  /\ <<g>> \in Seq(Groups) /\ <<g>> # <<>> /\ <<g>>[1] = g /\ DOMAIN <<g>> = {1}
OBVIOUS

\* A group of a plan is one of Groups.
LEMMA GroupType ==
  ASSUME NEW c \in Classes \cup {None}, NEW n \in Names \cup {None},
         NEW M \in SUBSET AdminClasses
  PROVE  /\ Group(c, n, M) \in Groups
         /\ Group(c, n, M).class = c /\ Group(c, n, M).name = n /\ Group(c, n, M).members = M
BY DEF Group, Groups

\* A set of members is some admin classes.
LEMMA MembersOf ==
  ASSUME NEW M \in MemberSets PROVE M \in SUBSET AdminClasses /\ M # {}
BY DEF MemberSets

\* What the parser makes of a file.
LEMMA ParsedFile ==
  ASSUME TypeOK, NamesUnique, NEW file \in Files
  PROVE  LET plan == ParseTeachingClasses(file) IN
         /\ plan \in Seq(Groups) /\ plan # <<>>
         /\ \A i \in DOMAIN plan :
              /\ plan[i].name \in Names /\ plan[i].members # {}
              /\ plan[i].class # None =>
                   /\ plan[i].class \in drawn
                   /\ \A j \in DOMAIN plan : j # i => plan[j].class # plan[i].class
<1> DEFINE plan == ParseTeachingClasses(file)
<1>1. PICK k \in 1..MaxGroups :
        file \in [1..k -> {Group(None, n, M) : n \in Names, M \in MemberSets}]
  BY DEF Files
<1>2. \A i, j \in 1..k : i # j => file[i].name # file[j].name
  BY <1>1 DEF Files
<1>3. k \in Nat /\ k >= 1
  BY <1>1, TeachingClassAssumption
<1>4. ASSUME NEW i \in 1..k
      PROVE  /\ file[i] \in Groups /\ file[i].name \in Names /\ file[i].members # {}
  <2>1. PICK n \in Names, M \in MemberSets : file[i] = Group(None, n, M)
    BY <1>1
  <2> QED BY <2>1, GroupType, MembersOf
<1>5. plan = [i \in 1..k |-> Resolve(file[i])]
  BY <1>1 DEF ParseTeachingClasses
<1>6. ASSUME NEW i \in 1..k
      PROVE  /\ plan[i] \in Groups /\ plan[i].name = file[i].name
             /\ plan[i].members = file[i].members
             /\ plan[i].class # None => plan[i].class \in Classes /\ name[plan[i].class] = file[i].name
  <2> DEFINE c == IF \E c \in Classes : name[c] = file[i].name
                  THEN CHOOSE c \in Classes : name[c] = file[i].name ELSE None
  <2>1. plan[i] = [file[i] EXCEPT !.class = c]
    BY <1>5 DEF Resolve
  <2>2. c # None => c \in Classes /\ name[c] = file[i].name
    OBVIOUS
  <2> HIDE DEF c, plan
  <2> QED BY <1>4, <2>1, <2>2 DEF Groups
<1> HIDE DEF plan
<1>7. plan \in Seq(Groups) /\ DOMAIN plan = 1..k
  BY <1>3, <1>5, <1>6
<1>8. plan # <<>>
  BY <1>3, <1>7
<1>9. ASSUME NEW i \in 1..k, plan[i].class # None
      PROVE  /\ plan[i].class \in drawn
             /\ \A j \in 1..k : j # i => plan[j].class # plan[i].class
  <2>1. name[plan[i].class] # None /\ plan[i].class \in Classes
    BY <1>4, <1>6, <1>9, TeachingClassAssumption
  <2>2. plan[i].class \in drawn
    BY <2>1 DEF NamesUnique
  <2>3. ASSUME NEW j \in 1..k, j # i PROVE plan[j].class # plan[i].class
    BY <1>2, <1>6, <1>9, <2>3
  <2> QED BY <2>2, <2>3
<1> QED BY <1>4, <1>6, <1>7, <1>8, <1>9 DEF plan

\* A request that arrives holds no lock and has found nothing.
LEMMA ArriveStep ==
  ASSUME IInv, NEW p \in Clients, Arrive(p)
  PROVE  IInv'
<1>0. pc[p] = "idle"
  BY DEF Arrive
<1> USE DEF Kinds, Steps
<1>1. ASSUME NEW n \in Names, NEW M \in MemberSets, CreateTeachingClass(p, n, M) PROVE IInv'
  <2> DEFINE g == Group(None, n, M)
  <2>1. g \in Groups /\ g.class = None /\ g.name = n /\ g.members = M /\ M # {}
    BY GroupType, MembersOf
  <2>2. Start(p, "create", None, <<g>>, "insert")
    BY <1>1 DEF CreateTeachingClass
  <2> HIDE DEF g
  <2>3. <<g>> \in Seq(Groups) /\ <<g>> # <<>> /\ <<g>>[1] = g /\ DOMAIN <<g>> = {1}
    BY <2>1, OneGroup
  <2> HIDE DEF Kinds, Steps
  <2>4. "create" \in Kinds /\ "insert" \in Steps
    BY DEF Kinds, Steps
  <2> QED BY <1>0, <2>1, <2>2, <2>3, <2>4, StartStep
<1>2. ASSUME NEW n \in Names, NEW M \in MemberSets, NEW c \in Classes,
             UpdateTeachingClass(p, c, n, M)
      PROVE  IInv'
  <2> DEFINE g == Group(c, n, M)
  <2>1. /\ g \in Groups /\ g.class = c /\ g.name = n /\ g.members = M /\ M # {}
        /\ c # None
    BY TeachingClassAssumption, GroupType, MembersOf
  <2>2. Start(p, "edit", None, <<g>>, "lock")
    BY <1>2 DEF UpdateTeachingClass
  <2> HIDE DEF g
  <2>3. <<g>> \in Seq(Groups) /\ <<g>> # <<>> /\ <<g>>[1] = g /\ DOMAIN <<g>> = {1}
    BY <2>1, OneGroup
  <2> HIDE DEF Kinds, Steps
  <2>4. "edit" \in Kinds /\ "lock" \in Steps
    BY DEF Kinds, Steps
  <2> QED BY <1>0, <2>1, <2>2, <2>3, <2>4, StartStep
<1>3. ASSUME NEW c \in Classes, NEW o \in Offerings \cup {None},
             \/ DeleteTeachingClass(p, c) /\ o = None
             \/ CreateOffering(p, c) /\ o = None
             \/ UpdateOffering(p, o, c) /\ o \in Offerings
      PROVE  IInv'
  <2> DEFINE g == Group(c, None, {})
  <2>1. g \in Groups /\ g.class = c /\ c # None
    BY TeachingClassAssumption DEF Group, Groups
  <2>2. PICK kind \in {"delete", "offer", "move"} :
          Start(p, kind, o, <<g>>, "lock") /\ (kind = "move" => o \in Offerings)
    BY <1>3 DEF DeleteTeachingClass, CreateOffering, UpdateOffering, Only
  <2> HIDE DEF g
  <2>3. <<g>> \in Seq(Groups) /\ <<g>> # <<>> /\ <<g>>[1] = g /\ DOMAIN <<g>> = {1}
    BY <2>1, OneGroup
  <2>4. kind \in Kinds /\ "lock" \in Steps /\ kind \notin {"create", "edit", "import", "upsert"}
    OBVIOUS
  <2> HIDE DEF Kinds, Steps
  <2> QED BY <1>0, <2>1, <2>2, <2>3, <2>4, StartStep
<1>4. ASSUME NEW file \in Files, ImportTeachingClasses(p, file) PROVE IInv'
  <2> DEFINE plan == ParseTeachingClasses(file)
  <2>1. /\ plan \in Seq(Groups) /\ plan # <<>>
        /\ \A i \in DOMAIN plan :
              /\ plan[i].name \in Names /\ plan[i].members # {}
              /\ plan[i].class # None =>
                   /\ plan[i].class \in drawn
                   /\ \A j \in DOMAIN plan : j # i => plan[j].class # plan[i].class
    BY ParsedFile DEF IInv
  <2>2. Start(p, "import", None, plan, Begin(plan))
    BY <1>4 DEF ImportTeachingClasses
  <2> HIDE DEF plan
  <2>3. Head(plan) = plan[1]
    BY <2>1
  <2>4. Begin(plan) = IF plan[1].class = None THEN "insert" ELSE "lock"
    BY <2>1, <2>3 DEF Begin
  <2>5. "import" \in Kinds /\ Begin(plan) \in Steps
    BY <2>4
  <2> HIDE DEF Kinds, Steps
  <2> QED BY <1>0, <2>1, <2>2, <2>4, <2>5, StartStep
<1>5. ASSUME NEW n \in Names, ImportOfferings(p, n) PROVE IInv'
  <2>0. PICK c \in Classes : Start(p, "upsert", None, Only(c), "offer")
    BY <1>5 DEF ImportOfferings, Named
  <2> DEFINE g == Group(c, None, {})
  <2>1. g \in Groups /\ g.class = c /\ c # None
    BY TeachingClassAssumption DEF Group, Groups
  <2>2. Start(p, "upsert", None, <<g>>, "offer")
    BY <2>0 DEF Only
  <2> HIDE DEF g
  <2>3. <<g>> \in Seq(Groups) /\ <<g>> # <<>> /\ <<g>>[1] = g /\ DOMAIN <<g>> = {1}
    BY <2>1, OneGroup
  <2> HIDE DEF Kinds, Steps
  <2>4. "upsert" \in Kinds /\ "offer" \in Steps
    BY DEF Kinds, Steps
  <2> QED BY <1>0, <2>1, <2>2, <2>3, <2>4, StartStep
<1> QED BY <1>1, <1>2, <1>3, <1>4, <1>5 DEF Arrive

----------------------------------------------------------------------------
(* Statements that write no table.                                         *)

\* A request that fails leaves the tables as they were.
LEMMA RollbackStep ==
  ASSUME IInv, NEW p \in Clients, Rollback(p)
  PROVE  IInv'
<1>1. Finish(p) /\ UNCHANGED <<name, members, offering, drawn>> /\ Noticed(p)
  BY DEF Rollback
<1>2. /\ raced' \subseteq {o \in Offerings : offering'[o] # None}
      /\ \A o \in Offerings : Standing'[o] = Standing[o] \/ name'[Standing'[o]] # None
      /\ \A c \in Classes : lock[c] # p => (Referred(c)' => Referred(c))
  BY <1>1, NoticedStep DEF IInv
<1>3. OfferingHasClass' /\ NamesUnique'
  BY <1>1, <1>2 DEF IInv, OfferingHasClass, NamesUnique
<1> QED BY <1>1, <1>2, <1>3, FinalStep DEF IInv, TypeOK

\* An import goes on with the rest of its plan.
LEMMA RestOfPlan ==
  ASSUME IInv, NEW p \in Clients, req[p].kind = "import", req[p].plan # <<>>, NextGroup(p)
  PROVE  LET rest == Tail(req[p].plan) IN
         /\ pc' \in [Clients -> Steps]
         /\ req' \in [Clients -> [kind : Kinds, offering : Offerings \cup {None},
                                  plan : Seq(Groups)]]
         /\ pc'[p] \in {"commit", "insert", "lock"}
         /\ req'[p].kind = "import" /\ req'[p].plan = rest
         /\ RequestOK(p)'
         /\ \A q \in Clients \ {p} : pc'[q] = pc[q] /\ req'[q] = req[q]
         /\ \A i \in DOMAIN rest : rest[i].class # None =>
              /\ rest[i].class \in drawn
              /\ \A j \in DOMAIN rest : j # i => rest[j].class # rest[i].class
              /\ rest[i].class # Head(req[p].plan).class
              /\ \A g \in pending[p] : g.class # rest[i].class
<1> DEFINE s == req[p].plan
           rest == Tail(s)
<1>0. TypeOK /\ RequestOK(p) /\ PlanOK(p)
  BY DEF IInv
<1>1. /\ Head(s) = s[1] /\ 1 \in DOMAIN s
      /\ rest \in Seq(Groups)
      /\ \A i \in DOMAIN rest : i + 1 \in DOMAIN s /\ i + 1 # 1 /\ rest[i] = s[i + 1]
      /\ \A i, j \in DOMAIN rest : i # j => i + 1 # j + 1
  BY <1>0, PlanParts
<1>2. /\ req' = [req EXCEPT ![p].plan = rest] /\ pc' = [pc EXCEPT ![p] = Begin(rest)]
  BY DEF NextGroup
<1>3. \A i \in DOMAIN rest : rest[i].name \in Names /\ rest[i].members # {}
  BY <1>0, <1>1 DEF RequestOK
<1>4. ASSUME NEW i \in DOMAIN rest, rest[i].class # None
      PROVE  /\ rest[i].class \in drawn
             /\ \A j \in DOMAIN rest : j # i => rest[j].class # rest[i].class
             /\ rest[i].class # Head(s).class
             /\ \A g \in pending[p] : g.class # rest[i].class
  BY <1>0, <1>1, <1>4 DEF PlanOK
<1>5. rest # <<>> => Head(rest) = rest[1] /\ Head(rest) \in Groups
  BY <1>1, HeadTailProperties
<1> HIDE DEF rest
<1>6. /\ pc' \in [Clients -> Steps] /\ pc'[p] = Begin(rest)
      /\ Begin(rest) \in {"commit", "insert", "lock"}
      /\ \A q \in Clients \ {p} : pc'[q] = pc[q]
  BY <1>0, <1>2 DEF TypeOK, Begin, Steps
<1>7. /\ req' \in [Clients -> [kind : Kinds, offering : Offerings \cup {None},
                               plan : Seq(Groups)]]
      /\ req'[p].plan = rest /\ req'[p].kind = "import"
      /\ \A q \in Clients \ {p} : req'[q] = req[q]
  <2>1. req \in [Clients -> [kind : Kinds, offering : Offerings \cup {None}, plan : Seq(Groups)]]
        /\ req[p].kind = "import"
    BY <1>0 DEF TypeOK
  <2>2. [req[p] EXCEPT !.plan = rest] \in [kind : Kinds, offering : Offerings \cup {None}, plan : Seq(Groups)]
        /\ [req[p] EXCEPT !.plan = rest].kind = "import" /\ [req[p] EXCEPT !.plan = rest].plan = rest
    BY <1>1, <2>1
  <2>3. req' = [req EXCEPT ![p] = [req[p] EXCEPT !.plan = rest]]
    BY <1>2
  <2> QED BY <2>1, <2>2, <2>3
<1>8. RequestOK(p)'
  BY <1>3, <1>5, <1>6, <1>7 DEF RequestOK, Begin, Groups
<1> QED BY <1>1, <1>4, <1>6, <1>7, <1>8 DEF rest

\* An import skips a group.
LEMMA SkipGroup ==
  ASSUME IInv, NEW p \in Clients,
         req[p].kind = "import", req[p].plan # <<>>, pc[p] # "aborted",
         NextGroup(p), UNCHANGED <<tables, lock, pending>>
  PROVE  IInv'
<1> DEFINE rest == Tail(req[p].plan)
<1>1. /\ pc' \in [Clients -> Steps]
      /\ req' \in [Clients -> [kind : Kinds, offering : Offerings \cup {None},
                               plan : Seq(Groups)]]
      /\ pc'[p] \in {"commit", "insert", "lock"}
      /\ req'[p].kind = "import" /\ req'[p].plan = rest
      /\ RequestOK(p)'
      /\ \A q \in Clients \ {p} : pc'[q] = pc[q] /\ req'[q] = req[q]
      /\ \A i \in DOMAIN rest : rest[i].class # None =>
           /\ rest[i].class \in drawn
           /\ \A j \in DOMAIN rest : j # i => rest[j].class # rest[i].class
           /\ rest[i].class # Head(req[p].plan).class
           /\ \A g \in pending[p] : g.class # rest[i].class
  BY RestOfPlan
<1> HIDE DEF rest
<1>2. TypeOK'
  BY <1>1 DEF IInv, TypeOK, tables
<1>3. PlanOK(p)'
  BY <1>1 DEF PlanOK, tables
<1>4. CheckStands(p)'
  BY <1>1 DEF CheckStands
<1>5. PendingStands(p)'
  BY <1>1 DEF IInv, PendingStands, SameMembers, Referred, Standing, tables
<1>6. Holding(p)'
  BY <1>1 DEF IInv, LockHeldInside, Holding, Steps, tables
<1>7. \A q \in Clients \ {p} : \A g \in pending'[p], h \in pending[q] :
        g.class # h.class /\ g.name # h.name
  BY DEF IInv, PendingApart
<1> QED BY <1>1, <1>2, <1>3, <1>4, <1>5, <1>6, <1>7, QuietStep DEF Client, tables

\* The refusal of a group.
LEMMA RefuseStep ==
  ASSUME IInv, NEW p \in Clients,
         pc[p] \in {"lock", "check"}, Refuse(p)
  PROVE  IInv'
<1>1. req[p].plan # <<>>
  BY DEF IInv, RequestOK
<1> QED BY <1>1, SkipGroup, RollbackStep DEF Refuse

\* The row is locked; an edit, a deletion or an import checks next.
LEMMA LockStep ==
  ASSUME IInv, NEW p \in Clients, LockClass(p)
  PROVE  IInv'
<1> DEFINE c == Head(req[p].plan).class
           step == IF req[p].kind \in {"offer", "move"} THEN "offer" ELSE "check"
<1>1. CASE name[c] = None
  BY <1>1, RefuseStep DEF LockClass
<1>2. CASE name[c] # None
  <2>0. TypeOK /\ Client(p) /\ c \in Classes
    BY DEF IInv, Client, RequestOK, LockClass
  <2> HIDE DEF c
  <2>1. /\ pc[p] = "lock" /\ lock[c] = None
        /\ lock' = [lock EXCEPT ![c] = p] /\ pc' = [pc EXCEPT ![p] = step]
        /\ UNCHANGED <<name, members, offering, drawn, raced, req, pending>>
    BY <1>2 DEF LockClass, Goto, tables, c
  <2>2. pc'[p] = step /\ step \in {"offer", "check"}
    BY <2>0, <2>1 DEF TypeOK
  <2>3. TypeOK'
    BY <2>0, <2>1 DEF TypeOK, Steps
  <2>4. RequestOK(p)'
    BY <2>0, <2>1, <2>2 DEF Client, RequestOK
  <2>5. PlanOK(p)'
    BY <2>0, <2>1 DEF Client, PlanOK
  <2>6. lock'[c] = p /\ name'[c] # None
    BY <1>2, <2>0, <2>1 DEF TypeOK
  <2>7. CheckStands(p)'
    BY <2>1, <2>2, <2>6 DEF CheckStands, c
  <2>8. PendingStands(p)'
    BY <2>0, <2>1, <2>2 DEF Client, PendingStands, SameMembers, Referred, Standing, TypeOK
  <2>9. Holding(p)'
    <3>1. req[p].kind # "import" => \A d \in Classes : lock[d] # p
      BY <2>1 DEF IInv, LockHeldInside
    <3>2. c \in drawn
      BY <1>2, <2>0 DEF IInv, NamesUnique, c
    <3> QED BY <2>0, <2>1, <2>2, <3>1, <3>2 DEF IInv, LockHeldInside, Holding, TypeOK, Steps, c
  <2>10. \A q \in Clients \ {p} :
           /\ pc'[q] = pc[q] /\ req'[q] = req[q] /\ pending'[q] = pending[q]
           /\ \A d \in Classes : lock[d] = q <=> lock'[d] = q
           /\ \A g \in pending'[p], h \in pending[q] : g.class # h.class /\ g.name # h.name
    <3> SUFFICES ASSUME NEW q \in Clients \ {p}
                 PROVE  /\ pc'[q] = pc[q]
                        /\ \A d \in Classes : lock[d] = q <=> lock'[d] = q
      BY <2>1 DEF IInv, PendingApart
    <3>1. q # None
      BY TeachingClassAssumption
    <3> QED BY <2>0, <2>1, <3>1 DEF TypeOK
  <2> QED BY <2>1, <2>3, <2>4, <2>5, <2>7, <2>8, <2>9, <2>10, QuietStep DEF Client, tables
<1> QED BY <1>1, <1>2

\* What a request finds is so while it holds the lock.
LEMMA CheckStep ==
  ASSUME IInv, NEW p \in Clients, Check(p)
  PROVE  IInv'
<1> DEFINE g == Head(req[p].plan)
           refused == IF req[p].kind = "delete" THEN InUse(g.class) ELSE Frozen(g)
<1>1. CASE refused
  BY <1>1, RefuseStep DEF Check
<1>2. CASE ~refused
  <2>0. TypeOK /\ Client(p)
    BY DEF IInv, Client
  <2>1. /\ pc[p] = "check" /\ pc' = [pc EXCEPT ![p] = "write"]
        /\ UNCHANGED <<name, members, offering, drawn, raced, req, pending, lock>>
    BY <1>2 DEF Check, Goto, tables
  <2>2. pc'[p] = "write"
    BY <2>0, <2>1 DEF TypeOK
  <2>3. TypeOK'
    BY <2>0, <2>1 DEF TypeOK, Steps
  <2>4. RequestOK(p)' /\ PlanOK(p)'
    BY <2>0, <2>1, <2>2 DEF Client, RequestOK, PlanOK
  <2>5. CheckStands(p)'
    <3>1. lock[g.class] = p /\ name[g.class] # None
      BY <2>0, <2>1 DEF Client, CheckStands, RequestOK
    <3>2. Referred(g.class) => InUse(g.class)
      <4>1. g.class # None
        BY <2>0, <2>1, TeachingClassAssumption DEF Client, RequestOK
      <4> HIDE DEF g
      <4> QED BY <4>1 DEF Referred, Standing, InUse
    <3>3. Referred(g.class) => req[p].kind # "delete" /\ SameMembers(g)
      BY <1>2, <3>2 DEF Frozen, SameMembers
    <3>4. Referred(g.class)' <=> Referred(g.class)
      BY <2>1 DEF Referred, Standing
    <3> QED BY <2>1, <2>2, <3>1, <3>3, <3>4 DEF CheckStands, SameMembers
  <2>6. PendingStands(p)'
    BY <2>0, <2>1, <2>2 DEF Client, PendingStands, SameMembers, Referred, Standing
  <2>7. Holding(p)'
    BY <2>1, <2>2 DEF IInv, LockHeldInside, Holding, Steps
  <2>8. \A q \in Clients \ {p} :
           /\ pc'[q] = pc[q] /\ req'[q] = req[q] /\ pending'[q] = pending[q]
           /\ \A d \in Classes : lock[d] = q <=> lock'[d] = q
           /\ \A a \in pending'[p], h \in pending[q] : a.class # h.class /\ a.name # h.name
    BY <2>0, <2>1 DEF IInv, PendingApart, TypeOK
  <2> QED BY <2>1, <2>3, <2>4, <2>5, <2>6, <2>7, <2>8, QuietStep DEF Client, tables
<1> QED BY <1>1, <1>2

----------------------------------------------------------------------------
(* Statements that write.                                                  *)

\* The group g may be written by client p.
MayWrite(p, g) ==
  /\ g \in Groups /\ g.class \in Classes /\ g.name \in Names /\ g.members # {}
  /\ g.class \in drawn =>
       lock[g.class] = p /\ name[g.class] # None /\ (Referred(g.class) => SameMembers(g))
  /\ \A q \in Clients : \A h \in pending[q] : h.class # g.class
  /\ ~Taken(p, g.name, g.class) /\ ~Contended(p, g.name)

\* An import keeps a group for its commit.
LEMMA KeepGroup ==
  ASSUME IInv, NEW p \in Clients, NEW g, MayWrite(p, g),
         req[p].kind = "import", req[p].plan # <<>>, pc[p] # "aborted",
         g.class \in drawn => g.class = Head(req[p].plan).class,
         pending' = [pending EXCEPT ![p] = @ \cup {g}],
         NextGroup(p), UNCHANGED <<tables, lock>>
  PROVE  IInv'
<1> DEFINE rest == Tail(req[p].plan)
<1>1. /\ pc' \in [Clients -> Steps]
      /\ req' \in [Clients -> [kind : Kinds, offering : Offerings \cup {None},
                               plan : Seq(Groups)]]
      /\ pc'[p] \in {"commit", "insert", "lock"}
      /\ req'[p].kind = "import" /\ req'[p].plan = rest
      /\ RequestOK(p)'
      /\ \A q \in Clients \ {p} : pc'[q] = pc[q] /\ req'[q] = req[q]
      /\ \A i \in DOMAIN rest : rest[i].class # None =>
           /\ rest[i].class \in drawn
           /\ \A j \in DOMAIN rest : j # i => rest[j].class # rest[i].class
           /\ rest[i].class # Head(req[p].plan).class
           /\ \A h \in pending[p] : h.class # rest[i].class
  BY RestOfPlan
<1> HIDE DEF rest
<1>2. /\ pending' \in [Clients -> SUBSET Groups]
      /\ pending'[p] = pending[p] \cup {g}
      /\ \A q \in Clients \ {p} : pending'[q] = pending[q]
  BY DEF IInv, TypeOK, MayWrite
<1>3. TypeOK'
  BY <1>1, <1>2 DEF IInv, TypeOK, tables
<1>4. PlanOK(p)'
  BY <1>1, <1>2 DEF PlanOK, tables
<1>5. CheckStands(p)'
  BY <1>1 DEF CheckStands
<1>6. PendingStands(p)'
  <2>1. \A h \in pending[p] : h.class \in Classes /\ h.class # g.class /\ h.name # g.name
    BY DEF IInv, PendingStands, MayWrite, Taken
  <2>2. \A d \in Classes : name[d] = g.name => \E h \in pending'[p] : h.class = d
    BY <1>2 DEF MayWrite, Taken
  <2>3. g.class \in drawn =>
          lock[g.class] = p /\ name[g.class] # None /\ (Referred(g.class) => SameMembers(g))
    BY DEF MayWrite
  <2>4. g.class \in Classes /\ g.name \in Names /\ g.members # {}
    BY DEF MayWrite
  <2>5. req'[p].kind = "import" /\ pc'[p] # "aborted"
    BY <1>1
  <2>6. \A h \in pending'[p] :
          (Referred(h.class)' <=> Referred(h.class)) /\ (SameMembers(h)' <=> SameMembers(h))
    BY DEF SameMembers, Referred, Standing, tables
  <2>7. ASSUME NEW a \in pending'[p]
        PROVE  /\ a.class \in Classes /\ a.name \in Names /\ a.members # {}
               /\ \A h \in pending'[p] : h # a => h.class # a.class /\ h.name # a.name
               /\ a.class \in drawn =>
                    /\ lock[a.class] = p /\ name[a.class] # None
                    /\ Referred(a.class) => SameMembers(a)
               /\ \A d \in Classes : name[d] = a.name => \E h \in pending'[p] : h.class = d
    BY <1>2, <2>1, <2>2, <2>3, <2>4 DEF IInv, PendingStands
  <2> QED BY <2>5, <2>6, <2>7 DEF PendingStands, tables
<1>7. Holding(p)'
  BY <1>1 DEF IInv, LockHeldInside, Holding, Steps, tables
<1>8. \A q \in Clients \ {p} : \A a \in pending'[p], h \in pending[q] :
        a.class # h.class /\ a.name # h.name
  BY <1>2 DEF IInv, PendingApart, MayWrite, Contended
<1> QED BY <1>1, <1>2, <1>3, <1>4, <1>5, <1>6, <1>7, <1>8, QuietStep DEF Client, tables

\* The groups gs may be committed by client p.
MayApply(p, gs) ==
  \A g \in gs :
    /\ g.class \in Classes /\ g.name \in Names /\ g.members # {}
    /\ \A h \in gs : h # g => h.class # g.class /\ h.name # g.name
    /\ g.class \in drawn =>
         lock[g.class] = p /\ name[g.class] # None /\ (Referred(g.class) => SameMembers(g))
    /\ \A d \in Classes : name[d] = g.name => \E h \in gs : h.class = d
    /\ \A q \in Clients \ {p} : \A h \in pending[q] : h.class # g.class /\ h.name # g.name

\* The rows that a transaction writes when it commits.
LEMMA ApplyRows ==
  ASSUME NEW gs, Apply(gs),
         \A g, h \in gs : h # g => h.class # g.class
  PROVE  /\ \A g \in gs : g.class \in Classes =>
              name'[g.class] = g.name /\ members'[g.class] = g.members
         /\ \A c \in Classes : (\A g \in gs : g.class # c) =>
              name'[c] = name[c] /\ members'[c] = members[c]
         /\ drawn' = drawn \cup {g.class : g \in gs} /\ offering' = offering
<1>1. ASSUME NEW g \in gs PROVE (CHOOSE h \in gs : h.class = g.class) = g
  OBVIOUS
<1> QED BY <1>1 DEF Apply

\* A request at the end of its checks writes its plan.
LEMMA ApplyStep ==
  ASSUME IInv, NEW p \in Clients, NEW gs \in SUBSET Groups,
         Apply(gs), Finish(p), Noticed(p), MayApply(p, gs)
  PROVE  IInv'
<1> USE DEF MayApply
<1>1. /\ \A g \in gs : name'[g.class] = g.name /\ members'[g.class] = g.members
      /\ \A c \in Classes : (\A g \in gs : g.class # c) =>
           name'[c] = name[c] /\ members'[c] = members[c]
      /\ drawn' = drawn \cup {g.class : g \in gs} /\ offering' = offering
  BY ApplyRows
<1>0. /\ raced' \subseteq {o \in Offerings : offering'[o] # None}
      /\ \A o \in Offerings : Standing'[o] = Standing[o] \/ name'[Standing'[o]] # None
      /\ \A c \in Classes : lock[c] # p => (Referred(c)' => Referred(c))
      /\ Standing \in [Offerings -> Classes \cup {None}]
  BY <1>1, NoticedStep, StandingType DEF IInv
<1>2. name' \in [Classes -> Names \cup {None}] /\ members' \in [Classes -> SUBSET AdminClasses]
  <2>1. \A c \in Classes : name'[c] \in Names \cup {None} /\ members'[c] \in SUBSET AdminClasses
    <3> SUFFICES ASSUME NEW c \in Classes
                 PROVE  name'[c] \in Names \cup {None} /\ members'[c] \in SUBSET AdminClasses
      OBVIOUS
    <3>1. ASSUME NEW g \in gs, g.class = c
          PROVE  name'[c] \in Names \cup {None} /\ members'[c] \in SUBSET AdminClasses
      BY <1>1, <3>1 DEF Groups
    <3>2. ASSUME \A g \in gs : g.class # c
          PROVE  name'[c] \in Names \cup {None} /\ members'[c] \in SUBSET AdminClasses
      BY <1>1, <3>2 DEF IInv, TypeOK
    <3> QED BY <3>1, <3>2
  <2>2. name' = [c \in Classes |-> name'[c]] /\ members' = [c \in Classes |-> members'[c]]
    BY DEF Apply
  <2> QED BY <2>1, <2>2
<1>3. \A c \in Classes : name'[c] = None <=> members'[c] = {}
  <2> SUFFICES ASSUME NEW c \in Classes PROVE name'[c] = None <=> members'[c] = {}
    OBVIOUS
  <2>1. ASSUME NEW g \in gs, g.class = c PROVE name'[c] # None /\ members'[c] # {}
    BY <1>1, <2>1, TeachingClassAssumption
  <2>2. ASSUME \A g \in gs : g.class # c PROVE name'[c] = None <=> members'[c] = {}
    BY <1>1, <2>2 DEF IInv, TypeOK
  <2> QED BY <2>1, <2>2
<1>4. drawn' \subseteq Classes /\ drawn \subseteq drawn' /\ offering' \in [Offerings -> Classes \cup {None}]
  BY <1>1 DEF IInv, TypeOK
<1>5. OfferingHasClass'
  <2>1. \A c \in Classes : name[c] # None => name'[c] # None
    BY <1>1, TeachingClassAssumption
  <2> QED BY <1>0, <2>1 DEF IInv, OfferingHasClass
<1>6. NamesUnique'
  <2> SUFFICES ASSUME NEW c \in Classes, name'[c] # None
               PROVE  c \in drawn' /\ \A d \in Classes \ {c} : name'[c] # name'[d]
    BY DEF NamesUnique
  <2>1. CASE \E g \in gs : g.class = c
    <3>1. PICK g \in gs : g.class = c
      BY <2>1
    <3>2. c \in drawn' /\ name'[c] = g.name
      BY <1>1, <3>1
    <3>3. ASSUME NEW d \in Classes \ {c} PROVE name'[d] # g.name
      BY <1>1, <3>1, <3>3
    <3> QED BY <3>2, <3>3
  <2>2. CASE \A g \in gs : g.class # c
    <3>1. name'[c] = name[c] /\ c \in drawn
      BY <1>1, <2>2 DEF IInv, NamesUnique
    <3>2. ASSUME NEW d \in Classes \ {c} PROVE name[c] # name'[d]
      BY <1>1, <2>2, <3>1, <3>2 DEF IInv, NamesUnique
    <3> QED BY <1>4, <3>1, <3>2
  <2> QED BY <2>1, <2>2
<1>7. ASSUME NEW c \in Classes, NEW q \in Clients \ {p}, lock[c] = q
      PROVE  name'[c] = name[c] /\ members'[c] = members[c] /\ (Referred(c)' => Referred(c))
  <2>1. c \in drawn
    BY <1>7 DEF IInv, LockHeldInside
  <2> QED BY <1>0, <1>1, <1>7, <2>1
<1>8. ASSUME NEW q \in Clients \ {p}, NEW g \in pending[q]
      PROVE  /\ g.class \in drawn' => g.class \in drawn
             /\ \A d \in Classes : name'[d] = g.name => name[d] = g.name
  BY <1>1
<1> QED BY <1>0, <1>2, <1>3, <1>4, <1>5, <1>6, <1>7, <1>8, FinalStep

\* A request has one group to commit.
LEMMA OneMayApply ==
  ASSUME IInv, NEW p \in Clients, NEW g, MayWrite(p, g), req[p].kind # "import"
  PROVE  {g} \in SUBSET Groups /\ MayApply(p, {g})
<1>1. pending[p] = {}
  BY DEF IInv, PendingStands
<1>2. \A d \in Classes : name[d] = g.name => d = g.class
  BY <1>1 DEF MayWrite, Taken
<1>3. \A q \in Clients \ {p} : \A h \in pending[q] : h.class # g.class /\ h.name # g.name
  BY DEF MayWrite, Contended
<1> QED BY <1>2, <1>3 DEF MayWrite, MayApply

\* An import has kept groups it may commit.
LEMMA PendingMayApply ==
  ASSUME IInv, NEW p \in Clients
  PROVE  pending[p] \in SUBSET Groups /\ MayApply(p, pending[p])
<1>1. pending[p] \in SUBSET Groups
  BY DEF IInv, TypeOK
<1>2. ASSUME NEW g \in pending[p], NEW q \in Clients \ {p}, NEW h \in pending[q]
      PROVE  h.class # g.class /\ h.name # g.name
  BY DEF IInv, PendingApart
<1>3. ASSUME NEW g \in pending[p]
      PROVE  /\ g.class \in Classes /\ g.name \in Names /\ g.members # {}
             /\ \A h \in pending[p] : h # g => h.class # g.class /\ h.name # g.name
             /\ g.class \in drawn =>
                  /\ lock[g.class] = p /\ name[g.class] # None
                  /\ Referred(g.class) => SameMembers(g)
             /\ \A d \in Classes : name[d] = g.name => \E h \in pending[p] : h.class = d
  BY DEF IInv, PendingStands
<1> QED BY <1>1, <1>2, <1>3 DEF MayApply

\* The plan of a client that is about to write a group.
LEMMA GroupAtHand ==
  ASSUME IInv, NEW p \in Clients, pc[p] \in {"insert", "write"}, req[p].kind # "delete"
  PROVE  LET g == Head(req[p].plan) IN
         /\ req[p].plan # <<>> /\ g \in Groups /\ g.name \in Names /\ g.members # {}
         /\ req[p].kind \in {"create", "edit", "import"}
<1>1. req[p].plan # <<>> /\ req[p].kind \in {"create", "edit", "import"}
  BY DEF IInv, RequestOK
<1>2. Head(req[p].plan) \in Groups /\ Head(req[p].plan) = req[p].plan[1]
      /\ 1 \in DOMAIN req[p].plan
  BY <1>1, PlanParts DEF IInv
<1> QED BY <1>1, <1>2 DEF IInv, RequestOK

\* A transaction that fails at a statement gives up its rows and locks.
LEMMA AbandonStep ==
  ASSUME IInv, NEW p \in Clients, pc[p] = "insert",
         req[p].kind = "import", Abandon(p)
  PROVE  IInv'
<1>1. /\ pending' = [pending EXCEPT ![p] = {}] /\ req' = req
      /\ lock' = [c \in Classes |-> IF lock[c] = p THEN None ELSE lock[c]]
      /\ pc' = [pc EXCEPT ![p] = "aborted"]
      /\ UNCHANGED <<name, members, offering, drawn>> /\ Noticed(p)
  BY DEF Abandon, Goto
<1>2. TypeOK /\ RequestOK(p) /\ PlanOK(p)
  BY DEF IInv
<1>3. pc'[p] = "aborted" /\ pending'[p] = {} /\ \A c \in Classes : lock'[c] # p
  BY <1>1, <1>2, TeachingClassAssumption DEF TypeOK
<1>4. TypeOK'
  BY <1>1, <1>2, NoticedStep DEF TypeOK, Steps
<1>5. Client(p)'
  BY <1>1, <1>2, <1>3 DEF Client, RequestOK, PlanOK, CheckStands, PendingStands
<1>6. Holding(p)'
  BY <1>3 DEF Holding
<1>7. ASSUME NEW q \in Clients \ {p}
      PROVE  /\ pc'[q] = pc[q] /\ req'[q] = req[q] /\ pending'[q] = pending[q]
             /\ \A c \in Classes : lock[c] = q <=> lock'[c] = q
  BY <1>1, <1>2, TeachingClassAssumption DEF TypeOK
<1> QED BY <1>1, <1>3, <1>4, <1>5, <1>6, <1>7, QuietStep

\* An INSERT fails, or writes a group of a new class.
LEMMA InsertOutcome ==
  ASSUME IInv, NEW p \in Clients, InsertClass(p)
  PROVE  \/ Rollback(p)
         \/ pc[p] = "insert" /\ req[p].kind = "import" /\ Abandon(p)
         \/ \E g : MayWrite(p, g) /\ g.class \notin drawn /\ WriteGroup(p, g)
<1> DEFINE g == Head(req[p].plan)
<1>1. /\ pc[p] = "insert" /\ g.class = None /\ req[p].kind \in {"create", "import"}
      /\ ~Contended(p, g.name)
  BY DEF InsertClass, IInv, RequestOK
<1>2. g \in Groups /\ g.name \in Names /\ g.members # {}
  BY <1>1, GroupAtHand
<1>3. CASE Taken(p, g.name, None)
  BY <1>1, <1>3 DEF InsertClass
<1>4. CASE ~Taken(p, g.name, None)
  <2>1. PICK c \in Classes \ drawn :
          /\ \A q \in Clients : \A h \in pending[q] : h.class # c
          /\ WriteGroup(p, [g EXCEPT !.class = c])
    BY <1>4 DEF InsertClass
  <2> DEFINE n == [g EXCEPT !.class = c]
  <2>2. n \in Groups /\ n.class = c /\ n.name = g.name /\ n.members = g.members
    BY <1>2 DEF Groups
  <2>3. ~Taken(p, g.name, c)
    BY <1>4, TeachingClassAssumption DEF Taken
  <2>4. WriteGroup(p, n)
    BY <2>1
  <2> HIDE DEF n
  <2>5. MayWrite(p, n)
    BY <1>1, <1>2, <2>1, <2>2, <2>3 DEF MayWrite
  <2> QED BY <2>1, <2>2, <2>4, <2>5
<1> QED BY <1>3, <1>4

\* An UPDATE fails, or writes the group whose class is locked.
LEMMA WriteOutcome ==
  ASSUME IInv, NEW p \in Clients, WriteClass(p)
  PROVE  \/ Rollback(p)
         \/ \E g : MayWrite(p, g) /\ g = Head(req[p].plan) /\ WriteGroup(p, g)
<1> DEFINE g == Head(req[p].plan)
<1>1. pc[p] = "write" /\ req[p].kind # "delete" /\ ~Contended(p, g.name)
  BY DEF WriteClass
<1>2. /\ req[p].plan # <<>> /\ g \in Groups /\ g.name \in Names /\ g.members # {}
      /\ req[p].kind \in {"edit", "import"}
  BY <1>1, GroupAtHand DEF IInv, RequestOK
<1>3. CASE Taken(p, g.name, g.class)
  BY <1>3 DEF WriteClass
<1>4. CASE ~Taken(p, g.name, g.class)
  <2>1. /\ g.class \in Classes /\ lock[g.class] = p /\ name[g.class] # None
        /\ Referred(g.class) => SameMembers(g)
    BY <1>1, <1>2 DEF IInv, RequestOK, CheckStands
  <2>2. g.class \in drawn
    BY <2>1 DEF IInv, NamesUnique
  <2>3. ASSUME NEW q \in Clients, NEW h \in pending[q] PROVE h.class # g.class
    <3>1. CASE q = p
      <4>1. req[p].kind = "import"
        BY <3>1 DEF IInv, PendingStands
      <4>2. g = req[p].plan[1] /\ 1 \in DOMAIN req[p].plan
        BY <1>2, PlanParts DEF IInv
      <4>3. g.class # None
        BY <2>1, TeachingClassAssumption
      <4> QED BY <3>1, <4>1, <4>2, <4>3 DEF IInv, PlanOK
    <3>2. CASE q # p
      BY <2>1, <2>2, <3>2 DEF IInv, PendingStands
    <3> QED BY <3>1, <3>2
  <2>4. WriteGroup(p, g)
    BY <1>4 DEF WriteClass
  <2>5. MayWrite(p, g)
    BY <1>1, <1>2, <1>4, <2>1, <2>3 DEF MayWrite
  <2> QED BY <2>4, <2>5
<1> QED BY <1>3, <1>4

\* What INSERT, UPDATE and the commit of an import leave of the invariant.
LEMMA WriteStep ==
  ASSUME IInv, NEW p \in Clients,
         InsertClass(p) \/ WriteClass(p) \/ CommitImport(p)
  PROVE  IInv'
<1>1. ASSUME NEW g, MayWrite(p, g), WriteGroup(p, g), pc[p] \in {"insert", "write"},
             req[p].kind # "delete", g.class \in drawn => g.class = Head(req[p].plan).class
      PROVE  IInv'
  <2>1. CASE req[p].kind = "import"
    BY <1>1, <2>1, GroupAtHand, KeepGroup DEF WriteGroup
  <2>2. CASE req[p].kind # "import"
    BY <1>1, <2>2, OneMayApply, ApplyStep DEF WriteGroup
  <2> QED BY <2>1, <2>2
<1>2. CASE InsertClass(p)
  <2>1. pc[p] = "insert" /\ req[p].kind # "delete"
    BY <1>2 DEF InsertClass, IInv, RequestOK
  <2> QED BY <1>1, <1>2, <2>1, InsertOutcome, RollbackStep, AbandonStep
<1>3. CASE WriteClass(p)
  <2>1. pc[p] = "write" /\ req[p].kind # "delete"
    BY <1>3 DEF WriteClass
  <2> QED BY <1>1, <1>3, <2>1, WriteOutcome, RollbackStep
<1>4. CASE CommitImport(p)
  BY <1>4, PendingMayApply, ApplyStep DEF CommitImport
<1> QED BY <1>2, <1>3, <1>4

\* A deletion found under the lock that no offering refers to the class.
LEMMA RemoveStep ==
  ASSUME IInv, NEW p \in Clients, RemoveClass(p)
  PROVE  IInv'
<1> DEFINE c == Head(req[p].plan).class
<1>1. /\ pc[p] = "write" /\ req[p].kind = "delete"
      /\ name' = [name EXCEPT ![c] = None] /\ members' = [members EXCEPT ![c] = {}]
      /\ offering' = offering /\ drawn' = drawn /\ Finish(p) /\ Noticed(p)
  BY DEF RemoveClass
<1>2. c \in Classes /\ lock[c] = p /\ ~Referred(c)
  BY <1>1 DEF IInv, RequestOK, CheckStands
<1> HIDE DEF c
<1>3. /\ name' \in [Classes -> Names \cup {None}] /\ members' \in [Classes -> SUBSET AdminClasses]
      /\ \A d \in Classes : name'[d] = None <=> members'[d] = {}
      /\ offering' \in [Offerings -> Classes \cup {None}]
      /\ drawn' \subseteq Classes /\ drawn \subseteq drawn'
  BY <1>1, <1>2 DEF IInv, TypeOK
<1>9. /\ raced' \subseteq {o \in Offerings : offering'[o] # None}
      /\ \A o \in Offerings : Standing'[o] = Standing[o] \/ name'[Standing'[o]] # None
      /\ \A d \in Classes : lock[d] # p => (Referred(d)' => Referred(d))
      /\ Standing \in [Offerings -> Classes \cup {None}]
  BY <1>1, NoticedStep, StandingType DEF IInv
<1>4. OfferingHasClass'
  BY <1>1, <1>2, <1>9 DEF IInv, TypeOK, OfferingHasClass, Referred
<1>5. NamesUnique'
  BY <1>1, <1>2 DEF IInv, TypeOK, NamesUnique
<1>6. ASSUME NEW d \in Classes, NEW q \in Clients \ {p}, lock[d] = q
      PROVE  name'[d] = name[d] /\ members'[d] = members[d] /\ (Referred(d)' => Referred(d))
  BY <1>1, <1>2, <1>6, <1>9 DEF IInv, TypeOK
<1>7. ASSUME NEW q \in Clients \ {p}, NEW g \in pending[q]
      PROVE  /\ g.class \in drawn' => g.class \in drawn
             /\ \A d \in Classes : name'[d] = g.name => name[d] = g.name
  <2>1. g.name # None
    BY TeachingClassAssumption DEF IInv, PendingStands
  <2> QED BY <1>1, <1>2, <2>1 DEF IInv, TypeOK
<1> QED BY <1>1, <1>3, <1>4, <1>5, <1>6, <1>7, <1>9, FinalStep

\* An offering comes to refer to a class that is locked, or that nobody has
\* checked; or it is imported behind somebody's back.
LEMMA OfferingOutcome ==
  ASSUME IInv, NEW p \in Clients, WriteOffering(p)
  PROVE  LET c == Head(req[p].plan).class IN
         /\ c \in Classes
         /\ offering' \in [Offerings -> Classes \cup {None}]
         /\ raced' \subseteq {o \in Offerings : offering'[o] # None}
         /\ \/ Standing' = Standing
            \/ /\ \E o \in Offerings : Standing' = [Standing EXCEPT ![o] = c]
               /\ name[c] # None
               /\ lock[c] = p \/ \A q \in Clients : ~Checked(q, c)
<1> DEFINE c == Head(req[p].plan).class
<1>0. TypeOK /\ RequestOK(p) /\ CheckStands(p)
  BY DEF IInv
<1>1. pc[p] = "offer" /\ c \in Classes
  BY <1>0 DEF WriteOffering, RequestOK
<1>2. req[p].kind # "upsert" => lock[c] = p /\ name[c] # None
  BY <1>0, <1>1 DEF CheckStands
<1> HIDE DEF c
<1>3. /\ Standing \in [Offerings -> Classes \cup {None}]
      /\ \A o \in Offerings : Standing[o] = IF o \in raced THEN None ELSE offering[o]
      /\ \A o \in Offerings : offering[o] = None => o \notin raced
  BY <1>0, StandingType
<1>4. offering \in [Offerings -> Classes \cup {None}] /\ raced \subseteq {o \in Offerings : offering[o] # None}
  BY <1>0 DEF TypeOK
<1>5. ASSUME NEW o \in Offerings, offering' = [offering EXCEPT ![o] = c], raced' = raced \ {o}
      PROVE  /\ offering' \in [Offerings -> Classes \cup {None}]
             /\ raced' \subseteq {a \in Offerings : offering'[a] # None}
             /\ Standing' = [Standing EXCEPT ![o] = c]
  <2>1. \A a \in Offerings : (IF a \in raced' THEN None ELSE offering'[a])
                             = IF a = o THEN c ELSE Standing[a]
    BY <1>1, <1>3, <1>4, <1>5
  <2>2. Standing' = [a \in Offerings |-> IF a = o THEN c ELSE Standing[a]]
    BY <2>1 DEF Standing
  <2> QED BY <1>1, <1>3, <1>4, <1>5, <2>2
<1>6. CASE req[p].kind = "offer"
  <2>1. PICK o \in Offerings : InsertOffering(o, c)
    BY <1>6 DEF WriteOffering, c
  <2>2. raced' = raced \ {o} /\ offering' = [offering EXCEPT ![o] = c]
    BY <1>3, <1>6, <2>1 DEF WriteOffering, InsertOffering, Free
  <2> QED BY <1>1, <1>2, <1>5, <1>6, <2>2 DEF c
<1>7. CASE req[p].kind = "move"
  <2> DEFINE o == req[p].offering
  <2>1. o \in Offerings /\ MoveOffering(o, c)
    BY <1>0, <1>7 DEF WriteOffering, RequestOK, c
  <2> HIDE DEF o
  <2>2. CASE Free(o)
    BY <1>1, <1>3, <1>4, <2>1, <2>2 DEF MoveOffering, Free, Standing, c
  <2>3. CASE ~Free(o)
    <3>1. offering' = [offering EXCEPT ![o] = c] /\ raced' = raced \ {o}
      BY <2>1, <2>3 DEF MoveOffering
    <3> QED BY <1>1, <1>2, <1>5, <1>7, <2>1, <3>1 DEF c
  <2> QED BY <2>2, <2>3
<1>8. CASE req[p].kind = "upsert"
  <2>0. UpsertOffering(c)
    BY <1>8 DEF WriteOffering, c
  <2>1. CASE UNCHANGED <<offering, raced>>
    BY <1>1, <1>4, <2>1 DEF Standing, c
  <2>2. ASSUME NEW o \in Offerings, InsertOffering(o, c),
               raced' = IF Unsafe(c) THEN raced \cup {o} ELSE raced
        PROVE  /\ offering' \in [Offerings -> Classes \cup {None}]
               /\ raced' \subseteq {a \in Offerings : offering'[a] # None}
               /\ \/ Standing' = Standing
                  \/ /\ Standing' = [Standing EXCEPT ![o] = c]
                     /\ name[c] # None /\ \A q \in Clients : ~Checked(q, c)
    <3>1. offering' = [offering EXCEPT ![o] = c] /\ offering[o] = None /\ o \notin raced
      BY <1>3, <2>2 DEF InsertOffering, Free
    <3>2. CASE Unsafe(c)
      <4>1. \A a \in Offerings : (IF a \in raced' THEN None ELSE offering'[a]) = Standing[a]
        BY <1>3, <1>4, <2>2, <3>1, <3>2
      <4>2. Standing' = [a \in Offerings |-> Standing[a]]
        BY <4>1 DEF Standing
      <4> QED BY <1>1, <1>3, <1>4, <2>2, <3>1, <3>2, <4>2, TeachingClassAssumption
    <3>3. CASE ~Unsafe(c)
      <4>1. raced' = raced \ {o}
        BY <2>2, <3>1, <3>3
      <4> QED BY <1>5, <3>1, <3>3, <4>1 DEF Unsafe
    <3> QED BY <3>2, <3>3
  <2> QED BY <1>1, <2>0, <2>1, <2>2 DEF UpsertOffering, c
<1> QED BY <1>6, <1>7, <1>8 DEF WriteOffering

\* Who holds another class, and has checked it, finds it as it was.
LEMMA OfferStep ==
  ASSUME IInv, NEW p \in Clients, WriteOffering(p)
  PROVE  IInv'
<1> DEFINE c == Head(req[p].plan).class
<1>1. UNCHANGED <<name, members, drawn>> /\ Finish(p)
  BY DEF WriteOffering
<1>2. /\ c \in Classes
      /\ offering' \in [Offerings -> Classes \cup {None}]
      /\ raced' \subseteq {o \in Offerings : offering'[o] # None}
      /\ \/ Standing' = Standing
         \/ /\ \E o \in Offerings : Standing' = [Standing EXCEPT ![o] = c]
            /\ name[c] # None
            /\ lock[c] = p \/ \A q \in Clients : ~Checked(q, c)
  BY OfferingOutcome
<1> HIDE DEF c
<1>3. Standing \in [Offerings -> Classes \cup {None}]
  BY StandingType DEF IInv
<1>4. \A o \in Offerings : Standing'[o] # Standing[o] => Standing'[o] = c /\ name[c] # None
  BY <1>2, <1>3
<1>5. OfferingHasClass'
  BY <1>1, <1>4 DEF IInv, OfferingHasClass
<1>6. NamesUnique'
  BY <1>1 DEF IInv, NamesUnique
<1>7. ASSUME NEW d \in Classes, NEW q \in Clients \ {p}, lock[d] = q, Checked(q, d), Referred(d)'
      PROVE  Referred(d)
  <2>1. PICK o \in Offerings : Standing'[o] = d
    BY <1>7 DEF Referred
  <2>2. Standing' = Standing \/ c # d
    BY <1>2, <1>7
  <2>3. Standing[o] = d
    BY <1>4, <2>1, <2>2
  <2> QED BY <2>3 DEF Referred
<1> QED BY <1>1, <1>2, <1>5, <1>6, <1>7, FinalStep DEF IInv, TypeOK

\* A deleted offering frees its class and disturbs nobody.
LEMMA WithdrawStep ==
  ASSUME IInv, NEW o \in Offerings, DeleteOffering(o)
  PROVE  IInv'
<1>1. /\ offering' = [offering EXCEPT ![o] = None] /\ raced' = raced \ {o}
      /\ UNCHANGED <<name, members, drawn, lock, pc, req, pending>>
  BY DEF DeleteOffering
<1>2. TypeOK'
  BY <1>1 DEF IInv, TypeOK
<1>3. \A a \in Offerings : Standing'[a] = IF a = o THEN None ELSE Standing[a]
  BY <1>1 DEF IInv, TypeOK, Standing
<1>4. \A d \in Classes : Referred(d)' => Referred(d)
  BY <1>3, TeachingClassAssumption DEF Referred
<1>5. \A q \in Clients : Client(q)'
  BY <1>1, <1>4, OthersStand DEF IInv, Client
<1>6. OfferingHasClass'
  BY <1>1, <1>3 DEF IInv, OfferingHasClass
<1>7. NamesUnique' /\ LockHeldInside' /\ PendingApart'
  BY <1>1 DEF IInv, NamesUnique, LockHeldInside, PendingApart
<1> QED BY <1>2, <1>5, <1>6, <1>7 DEF IInv, Client

\* Every step keeps the invariant.
LEMMA NextInductive == IInv /\ [Next]_vars => IInv'
<1> SUFFICES ASSUME IInv, [Next]_vars PROVE IInv'
  OBVIOUS
<1>1. ASSUME NEW p \in Clients, Arrive(p) \/ Proceed(p) \/ Wait(p) \/ Abort(p) PROVE IInv'
  <2>1. CASE Proceed(p)
    BY <2>1, CheckStep, RemoveStep, OfferStep, WriteStep, RollbackStep
    DEF Proceed, AbortedStatement, BreakDeadlock, NoIdLeft
  <2>2. CASE Wait(p)
    BY <2>2, LockStep, WriteStep DEF Wait
  <2> QED BY <1>1, <2>1, <2>2, ArriveStep, RollbackStep DEF Abort
<1>2. CASE UNCHANGED vars
  <2> USE <1>2 DEF vars, tables
  <2>1. \A q \in Clients : Client(q)'
    BY OthersStand DEF IInv, Client, Referred, Standing
  <2>2. TypeOK' /\ OfferingHasClass' /\ NamesUnique' /\ LockHeldInside' /\ PendingApart'
    BY DEF IInv, TypeOK, OfferingHasClass, Standing, NamesUnique, LockHeldInside, PendingApart
  <2> QED BY <2>1, <2>2 DEF IInv, Client
<1> QED BY <1>1, <1>2, WithdrawStep DEF Next

\* The inductive invariant, of any number of requests and imports of teaching
\* classes and offerings (user/org_store.go, course/store.go, importer/).
THEOREM Invariance == Spec => []IInv
BY InitInductive, NextInductive, PTL DEF Spec

\* An offering refers to a teaching class that exists, though a deletion and
\* the creation of an offering race (course/store.go lockTeachingClass), unless
\* it was imported for a class whose deletion had been checked or was done
\* (importer/offerings.go).
THEOREM OfferingsHaveClasses == Spec => []OfferingHasClass
<1>1. IInv => OfferingHasClass
  BY DEF IInv
<1> QED BY <1>1, Invariance, PTL

----------------------------------------------------------------------------
(* The abstract specification.                                             *)

\* Groups that may be committed make one atomic write of whole classes.
LEMMA ApplyRefines ==
  ASSUME IInv, NEW p \in Clients, NEW gs \in SUBSET Groups, Apply(gs), MayApply(p, gs), Noticed(p)
  PROVE  Promised!WriteClasses
<1>1. /\ \A g \in gs : name'[g.class] = g.name /\ members'[g.class] = g.members
      /\ \A c \in Classes : (\A g \in gs : g.class # c) =>
           name'[c] = name[c] /\ members'[c] = members[c]
      /\ offering' = offering
  BY ApplyRows DEF MayApply
<1>2. ASSUME NEW c \in Classes, NEW g \in gs, g.class = c
      PROVE  /\ name'[c] \in Names /\ members'[c] \in MemberSets
             /\ Referred(c) => members'[c] = members[c]
             /\ \A d \in Classes \ {c} : name'[d] # name'[c]
  <2>1. name'[c] = g.name /\ g.name \in Names
    BY <1>1, <1>2 DEF MayApply
  <2>2. members'[c] = g.members /\ g.members # {} /\ g.members \in SUBSET AdminClasses
    BY <1>1, <1>2 DEF MayApply, Groups
  <2>3. ASSUME Referred(c) PROVE members[c] = g.members
    <3>1. name[c] # None
      BY <2>3, TeachingClassAssumption DEF IInv, OfferingHasClass, Referred
    <3>2. c \in drawn
      BY <3>1 DEF IInv, NamesUnique
    <3> QED BY <1>2, <2>3, <3>2 DEF MayApply, SameMembers
  <2>4. ASSUME NEW d \in Classes \ {c} PROVE name'[d] # g.name
    <3>1. CASE \E h \in gs : h.class = d
      BY <1>1, <1>2, <3>1 DEF MayApply
    <3>2. CASE \A h \in gs : h.class # d
      BY <1>1, <1>2, <3>2 DEF MayApply
    <3> QED BY <3>1, <3>2
  <2>5. members'[c] \in MemberSets
    BY <2>2 DEF MemberSets
  <2> QED BY <2>1, <2>2, <2>3, <2>4, <2>5
<1>3. ASSUME NEW c \in Classes, \A g \in gs : g.class # c
      PROVE  /\ name'[c] = name[c] /\ members'[c] = members[c]
             /\ name[c] \in Names \cup {None} /\ members[c] \in MemberSets \cup {{}}
             /\ name[c] = None <=> members[c] = {}
  <2>1. members[c] \in SUBSET AdminClasses
    BY DEF IInv, TypeOK
  <2>2. members[c] \in MemberSets \cup {{}}
    BY <2>1 DEF MemberSets
  <2> QED BY <1>1, <1>3, <2>2 DEF IInv, TypeOK
<1>4. name' = [c \in Classes |-> name'[c]] /\ members' = [c \in Classes |-> members'[c]]
  BY DEF Apply
<1>5. \A c \in Classes : name'[c] \in Names \cup {None} /\ members'[c] \in MemberSets \cup {{}}
  BY <1>2, <1>3
<1>6. name' \in [Classes -> Names \cup {None}] /\ members' \in [Classes -> MemberSets \cup {{}}]
  BY <1>4, <1>5
<1>7. ASSUME NEW c \in Classes
      PROVE  /\ name'[c] = None => name[c] = None
             /\ name'[c] # None => members'[c] # {}
             /\ Referred(c) => members'[c] = members[c]
  <2>1. CASE \E g \in gs : g.class = c
    <3>1. name'[c] \in Names /\ members'[c] \in MemberSets /\ (Referred(c) => members'[c] = members[c])
      BY <1>2, <2>1
    <3>2. members'[c] # {}
      BY <3>1 DEF MemberSets
    <3> QED BY <3>1, <3>2, TeachingClassAssumption
  <2>2. CASE \A g \in gs : g.class # c
    BY <1>3, <2>2
  <2> QED BY <2>1, <2>2
<1>8. ASSUME NEW c \in Classes, NEW d \in Classes \ {c}, name'[c] # None
      PROVE  name'[d] # name'[c]
  <2>1. CASE \E g \in gs : g.class = c
    BY <1>2, <2>1
  <2>2. CASE \E g \in gs : g.class = d
    BY <1>2, <2>2
  <2>3. CASE \A g \in gs : g.class # c /\ g.class # d
    BY <1>3, <1>8, <2>3 DEF IInv, NamesUnique
  <2> QED BY <2>1, <2>2, <2>3
<1>9. Promised!MemberSets = MemberSets /\ \A c : Promised!InUse(c) <=> Referred(c)
  BY DEF Promised!MemberSets, MemberSets, Promised!InUse, Referred
<1>10. Promised!Join
  BY <1>1, NoticedStep DEF Promised!Join, IInv
<1> QED BY <1>6, <1>7, <1>8, <1>9, <1>10 DEF Promised!WriteClasses

\* A transaction that fails makes no write.
LEMMA FailureRefines ==
  ASSUME IInv, NEW p \in Clients, UNCHANGED <<name, members, offering, drawn>>, Noticed(p)
  PROVE  Promised!WriteClasses
<1>1. \A c \in Classes : members[c] \in MemberSets \cup {{}}
  BY DEF IInv, TypeOK, MemberSets
<1>2. members \in [Classes -> MemberSets \cup {{}}] /\ name \in [Classes -> Names \cup {None}]
  BY <1>1 DEF IInv, TypeOK
<1>3. Promised!MemberSets = MemberSets
  BY DEF Promised!MemberSets, MemberSets
<1>4. Promised!Join
  BY NoticedStep DEF Promised!Join, IInv
<1>5. ASSUME NEW c \in Classes
      PROVE  /\ name[c] # None => members[c] # {}
             /\ \A d \in Classes \ {c} : name[c] # None => name[d] # name[c]
  BY DEF IInv, TypeOK, NamesUnique
<1> QED BY <1>2, <1>3, <1>4, <1>5 DEF Promised!WriteClasses

\* Every statement is an atomic step of the abstract specification, or none.
LEMMA NextRefines ==
  ASSUME IInv, [Next]_vars
  PROVE  [Promised!Next]_<<name, members, Standing>>
<1> DEFINE Same == UNCHANGED <<name, members, Standing>>
<1>1. ASSUME UNCHANGED tables PROVE Same
  BY <1>1 DEF tables, Standing
<1>0. ASSUME NEW p \in Clients, Rollback(p) \/ Abandon(p) PROVE Promised!WriteClasses
  BY <1>0, FailureRefines DEF Rollback, Abandon
<1>2. ASSUME NEW p \in Clients, InsertClass(p) \/ WriteClass(p) \/ CommitImport(p)
      PROVE  Promised!WriteClasses \/ Same
  <2>1. ASSUME NEW g, MayWrite(p, g), WriteGroup(p, g) PROVE Promised!WriteClasses \/ Same
    <3>1. CASE req[p].kind = "import"
      BY <1>1, <2>1, <3>1 DEF WriteGroup
    <3>2. CASE req[p].kind # "import"
      BY <2>1, <3>2, OneMayApply, ApplyRefines DEF WriteGroup
    <3> QED BY <3>1, <3>2
  <2>2. CASE InsertClass(p)
    BY <1>0, <2>1, <2>2, InsertOutcome
  <2>3. CASE WriteClass(p)
    BY <1>0, <2>1, <2>3, WriteOutcome
  <2>4. CASE CommitImport(p)
    BY <2>4, PendingMayApply, ApplyRefines DEF CommitImport
  <2> QED BY <1>2, <2>2, <2>3, <2>4
<1>3. ASSUME NEW p \in Clients, RemoveClass(p)
      PROVE  \E c \in Classes : Promised!DeleteClass(c)
  <2> DEFINE c == Head(req[p].plan).class
  <2>1. c \in Classes /\ name[c] # None /\ ~Referred(c)
    BY <1>3 DEF RemoveClass, IInv, RequestOK, CheckStands
  <2>2. /\ name' = [name EXCEPT ![c] = None] /\ members' = [members EXCEPT ![c] = {}]
        /\ offering' = offering /\ Noticed(p)
    BY <1>3 DEF RemoveClass
  <2>3. \A d \in Classes : lock[d] = p => d = c
    BY <1>3 DEF RemoveClass, IInv, LockHeldInside
  <2> HIDE DEF c
  <2>4. \A o \in Offerings : Standing'[o] = Standing[o]
    <3>1. name'[c] = None
      BY <2>1, <2>2 DEF IInv, TypeOK
    <3> QED BY <2>2, <2>3, <3>1, NoticedStep DEF IInv
  <2>5. Standing' = Standing
    BY <2>4 DEF Standing
  <2> QED BY <2>1, <2>2, <2>5 DEF Promised!DeleteClass, Promised!InUse, Referred
<1>4. ASSUME NEW p \in Clients, WriteOffering(p)
      PROVE  Same \/ \E c \in Classes, o \in Offerings : Promised!Offer(o, c)
  <2>1. UNCHANGED <<name, members>>
    BY <1>4 DEF WriteOffering
  <2> QED BY <1>4, <2>1, OfferingOutcome DEF Promised!Offer
<1>5. ASSUME NEW o \in Offerings, DeleteOffering(o) PROVE Promised!Withdraw(o)
  <2>1. offering' = [offering EXCEPT ![o] = None] /\ raced' = raced \ {o}
    BY <1>5 DEF DeleteOffering
  <2>2. Standing' = [Standing EXCEPT ![o] = None]
    BY <2>1 DEF IInv, TypeOK, Standing
  <2> QED BY <1>5, <2>2 DEF DeleteOffering, Promised!Withdraw
<1>6. ASSUME NEW p \in Clients, Arrive(p) PROVE Same
  BY <1>1, <1>6
  DEF Arrive, ImportOfferings, CreateTeachingClass, UpdateTeachingClass, DeleteTeachingClass,
      CreateOffering, UpdateOffering, ImportTeachingClasses, Start
<1>7. ASSUME NEW p \in Clients, LockClass(p) \/ Check(p) PROVE Promised!WriteClasses \/ Same
  BY <1>0, <1>1, <1>7 DEF LockClass, Check, Refuse
<1>8. ASSUME NEW p \in Clients,
             AbortedStatement(p) \/ BreakDeadlock(p) \/ NoIdLeft(p) \/ Abort(p)
      PROVE  Promised!WriteClasses
  BY <1>0, <1>8 DEF AbortedStatement, BreakDeadlock, NoIdLeft, Abort
<1>9. CASE UNCHANGED vars
  BY <1>1, <1>9 DEF vars
<1> QED BY <1>2, <1>3, <1>4, <1>5, <1>6, <1>7, <1>8, <1>9
        DEF Next, Proceed, Wait, Promised!Next

\* The transactions implement the atomic writes of Rosters, for every instance;
\* an offering that was imported behind the back of one takes effect after it,
\* and never if that one deleted its class: RefinesRosters.
THEOREM Refinement == Spec => RefinesRosters
<1>1. Init => Promised!Init
  BY DEF Init, Promised!Init, Standing
<1>2. IInv /\ [Next]_vars => [Promised!Next]_<<name, members, Standing>>
  BY NextRefines
<1> QED BY <1>1, <1>2, Invariance, PTL DEF Spec, RefinesRosters, Promised!Spec

\* The class list of an offering never changes behind it, for every instance,
\* unless it was imported after the transaction that changes it had made its
\* check: MembersFrozen (user/org_store.go UpdateTeachingClass).
THEOREM Frozenness == Spec => MembersFrozen
<1>1. ASSUME IInv, [Next]_vars
      PROVE  \A c \in Classes : members'[c] # members[c] => ~Referred(c)
  <2> SUFFICES ASSUME NEW c \in Classes, members'[c] # members[c] PROVE ~Referred(c)
    OBVIOUS
  <2>1. Promised!WriteClasses \/ \E d \in Classes : Promised!DeleteClass(d)
    BY <1>1, NextRefines DEF Promised!Next, Promised!Offer, Promised!Withdraw
  <2>2. CASE Promised!WriteClasses
    BY <2>2 DEF Promised!WriteClasses, Promised!InUse, Referred
  <2>3. ASSUME NEW d \in Classes, Promised!DeleteClass(d) PROVE ~Referred(c)
    BY <1>1, <2>3 DEF Promised!DeleteClass, Promised!InUse, Referred, IInv, TypeOK
  <2> QED BY <2>1, <2>2, <2>3
<1>2. IInv /\ [Next]_vars => [\A c \in Classes : members'[c] # members[c] => ~Referred(c)]_vars
  BY <1>1
<1> QED BY <1>2, Invariance, PTL DEF Spec, MembersFrozen

----------------------------------------------------------------------------
(* The splitter: what its folds and tables compute.                        *)

\* The members of a list that got one more.
LEMMA RangeOfAppend ==
  ASSUME NEW T, NEW v \in Seq(T), NEW e \in T
  PROVE  Append(v, e) \in Seq(T) /\ ToSet(Append(v, e)) = ToSet(v) \cup {e}
<1>1. /\ DOMAIN v = 1 .. Len(v) /\ Len(v) \in Nat
      /\ DOMAIN Append(v, e) = 1 .. Len(v) + 1
      /\ \A i \in 1 .. Len(v) : Append(v, e)[i] = v[i]
      /\ Append(v, e)[Len(v) + 1] = e
  OBVIOUS
<1>2. Append(v, e) \in Seq(T)
  OBVIOUS
<1>3. ToSet(Append(v, e)) \subseteq ToSet(v) \cup {e}
  <2> SUFFICES ASSUME NEW i \in 1 .. Len(v) + 1 PROVE Append(v, e)[i] \in ToSet(v) \cup {e}
    BY <1>1 DEF ToSet
  <2>1. CASE i = Len(v) + 1
    BY <1>1, <2>1
  <2>2. CASE i # Len(v) + 1
    <3>1. i \in 1 .. Len(v)
      BY <1>1, <2>2
    <3> QED BY <1>1, <3>1 DEF ToSet
  <2> QED BY <2>1, <2>2
<1>4. ToSet(v) \cup {e} \subseteq ToSet(Append(v, e))
  <2>1. Len(v) + 1 \in 1 .. Len(v) + 1 /\ 1 .. Len(v) \subseteq 1 .. Len(v) + 1
    BY <1>1
  <2> QED BY <1>1, <2>1 DEF ToSet
<1> QED BY <1>2, <1>3, <1>4

\* parseAdminSet drops repeated members and nothing else.
LEMMA ParseKeepsMembers ==
  ASSUME NEW cell, cell \in Seq(ToSet(cell))
  PROVE  ToSet(ParseAdminSet(cell)) = ToSet(cell)
<1> DEFINE T == ToSet(cell)
           V == Seq(T)
           Put(v, a) == IF Contains(v, a) THEN v ELSE Append(v, a)
<1>1. PICK n \in Nat : n = Len(cell) /\ DOMAIN cell = 1 .. n /\ \A i \in 1 .. n : cell[i] \in T
  BY DEF ToSet
<1> DEFINE g == [p \in (1 .. n) \X V |-> Put(p[2], cell[p[1]])]
           Folded(f) == [s \in SUBSET (1 .. n) |->
                           IF s = {} THEN <<>> ELSE Put(f[s \ {Max(s)}], cell[Max(s)])]
           F == CHOOSE f : f = Folded(f)
<1>2. ParseAdminSet(cell) = F[1 .. n]
  BY <1>1 DEF ParseAdminSet, FoldLeft, MapThenFoldSet
<1>3. ASSUME NEW v \in V, NEW i \in 1 .. n PROVE Put(v, cell[i]) \in V /\ ToSet(Put(v, cell[i])) = ToSet(v) \cup {cell[i]}
  <2>1. cell[i] \in T
    BY <1>1
  <2>2. CASE Contains(v, cell[i])
    BY <2>1, <2>2, SMTT(60) DEF Contains, ToSet
  <2>3. CASE ~Contains(v, cell[i])
    <3> HIDE DEF T
    <3> QED BY <2>1, <2>3, RangeOfAppend
  <2> QED BY <2>2, <2>3
<1> HIDE DEF Put
<1>4. F = Folded(F)
  <2>1. g \in [(1 .. n) \X V -> V]
    BY <1>3
  <2>2. PICK f \in [SUBSET (1 .. n) -> V] : IsFold(f, n, <<>>, g)
    <3>1. <<>> \in V /\ n \in Nat
      OBVIOUS
    <3> HIDE DEF g, V
    <3> QED BY <2>1, <3>1, FoldExists, Zenon
  <2>3. ASSUME NEW s \in SUBSET (1 .. n), s # {}
        PROVE  Max(s) \in 1 .. n /\ f[s \ {Max(s)}] \in V
    <3>1. Max(s) \in s
      BY <2>3, MaxOfPositions
    <3> QED BY <3>1
  <2>4. f = Folded(f)
    <3>1. \A s \in SUBSET (1 .. n) : f[s] = Folded(f)[s]
      BY <2>2, <2>3 DEF IsFold
    <3> QED BY <3>1
  <2> HIDE DEF Folded
  <2> QED BY <2>4
<1> DEFINE A(i) == F[1 .. i]
<1>5. A(0) = <<>>
  <2>1. 1 .. 0 = {} /\ 1 .. 0 \in SUBSET (1 .. n)
    OBVIOUS
  <2> HIDE DEF F
  <2> QED BY <1>4, <2>1
<1>6. ASSUME NEW i \in 1 .. n PROVE A(i) = Put(A(i - 1), cell[i])
  <2>1. 1 .. i \in SUBSET (1 .. n) /\ 1 .. i # {} /\ (1 .. i) \ {i} = 1 .. i - 1 /\ Max(1 .. i) = i
    BY MaxOfPrefix
  <2> HIDE DEF F
  <2> QED BY <1>4, <2>1
<1> HIDE DEF A
<1> DEFINE Good(i) == A(i) \in V /\ ToSet(A(i)) = {cell[j] : j \in 1 .. i}
           S == {i \in Nat : i <= n => Good(i)}
<1>7. 0 \in S
  <2>1. <<>> \in V
    OBVIOUS
  <2>2. ToSet(<<>>) = {} /\ {cell[j] : j \in 1 .. 0} = {}
    BY DEF ToSet
  <2> HIDE DEF V
  <2> QED BY <1>5, <2>1, <2>2
<1>8. ASSUME NEW i \in Nat, i \in S PROVE i + 1 \in S
  <2> SUFFICES ASSUME i + 1 <= n PROVE Good(i + 1)
    OBVIOUS
  <2>1. Good(i)
    BY <1>8
  <2>2. A(i + 1) = Put(A(i), cell[i + 1]) /\ i + 1 \in 1 .. n
    BY <1>6
  <2>3. A(i + 1) \in V /\ ToSet(A(i + 1)) = {cell[j] : j \in 1 .. i} \cup {cell[i + 1]}
    BY <1>3, <2>1, <2>2
  <2>4. 1 .. i + 1 = (1 .. i) \cup {i + 1}
    OBVIOUS
  <2> QED BY <2>3, <2>4
<1>9. Good(n)
  <2>1. Nat \subseteq S
    <3> HIDE DEF S
    <3> QED BY <1>7, <1>8, NaturalSteps
  <2> QED BY <2>1
<1>10. ToSet(ParseAdminSet(cell)) = {cell[j] : j \in 1 .. n}
  <2> HIDE DEF V
  <2> QED BY <1>2, <1>9 DEF A
<1>11. ToSet(cell) = {cell[j] : j \in 1 .. n}
  BY <1>1 DEF ToSet
<1> QED BY <1>10, <1>11

\* The least of some positions.
LEMMA FirstRowIs ==
  ASSUME NEW rows, rows \subseteq Nat, rows # {}
  PROVE  FirstRow(rows) \in rows /\ \A j \in rows : FirstRow(rows) <= j
<1>1. \E i \in rows : \A j \in rows : i <= j
  BY LeastNatural
<1> QED BY <1>1 DEF FirstRow

----------------------------------------------------------------------------
(* The splitter: the groups.                                               *)

\* A group, field by field.
SeqGroup(c, k, ms, ts, se, sl) ==
  [course |-> c, code |-> k, members |-> ms, teachers |-> ts, seen |-> se, slots |-> sl]

\* The fields of a group.
LEMMA GroupFields ==
  ASSUME NEW c, NEW k, NEW ms, NEW ts, NEW se, NEW sl
  PROVE  LET g == SeqGroup(c, k, ms, ts, se, sl) IN
         /\ g.course = c /\ g.code = k /\ g.members = ms
         /\ g.teachers = ts /\ g.seen = se /\ g.slots = sl
BY DEF SeqGroup

\* The slot that the row at nextRow gives.
SlotHere(r) == [room |-> r.room, weekday |-> r.weekday, periods |-> r.periods,
                weeks |-> WeeksOf(r.weeks), row |-> nextRow]

\* What a row adds to a group: its teacher, its cells and, if its cells are new and can be
\* read, a slot.
LEMMA AddRowIs ==
  ASSUME NEW c, NEW k, NEW ms, NEW ts, NEW se, NEW sl, NEW r
  PROVE  \E tn, sn, ln :
           /\ AddRow(SeqGroup(c, k, ms, ts, se, sl), r) = SeqGroup(c, k, ms, tn, sn, ln)
           /\ tn = ts \cup ({r.teacher} \ {Empty}) /\ sn = se \cup {CellsOf(r)}
           /\ ln = IF CellsOf(r) \notin se /\ Teaches(r) THEN sl \cup {SlotHere(r)} ELSE sl
<1> PICK slot : slot = SlotHere(r)
  OBVIOUS
<1>1. PICK ts1 : ts1 = ts \cup ({r.teacher} \ {Empty})
  OBVIOUS
<1>2. PICK se1 : se1 = se \cup {CellsOf(r)}
  OBVIOUS
<1>3. PICK sl1 : sl1 = IF Teaches(r) THEN sl \cup {slot} ELSE sl
  OBVIOUS
<1>4. AddTeacher(SeqGroup(c, k, ms, ts, se, sl), r) = SeqGroup(c, k, ms, ts1, se, sl)
  <2>1. PICK g : g = SeqGroup(c, k, ms, ts, se, sl) /\ g.teachers = ts
    BY GroupFields
  <2>2. AddTeacher(g, r) = [g EXCEPT !.teachers = ts1]
    BY <1>1, <2>1 DEF AddTeacher
  <2> QED BY <2>1, <2>2 DEF SeqGroup
<1> DEFINE h == SeqGroup(c, k, ms, ts1, se, sl)
<1>5. CASE CellsOf(r) \in se
  <2>1. h.seen = se
    BY GroupFields
  <2>2. AddSlot(h, r) = h /\ se1 = se
    BY <1>2, <1>5, <2>1 DEF AddSlot
  <2> QED BY <1>1, <1>2, <1>4, <1>5, <2>2 DEF AddRow
<1>6. CASE CellsOf(r) \notin se
  <2>1. h.seen = se /\ h.slots = sl
    BY GroupFields
  <2>2. AddSlot(h, r) = [h EXCEPT !.seen = se1, !.slots = sl1]
    <3> HIDE DEF h
    <3> QED BY <1>2, <1>3, <1>6, <2>1 DEF AddSlot, SlotHere
  <2>3. [h EXCEPT !.seen = se1, !.slots = sl1] = [[h EXCEPT !.seen = se1] EXCEPT !.slots = sl1]
    OBVIOUS
  <2>4. AddSlot(h, r) = SeqGroup(c, k, ms, ts1, se1, sl1)
    <3>1. [h EXCEPT !.seen = se1] = SeqGroup(c, k, ms, ts1, se1, sl)
      BY DEF SeqGroup
    <3>2. [SeqGroup(c, k, ms, ts1, se1, sl) EXCEPT !.slots = sl1] = SeqGroup(c, k, ms, ts1, se1, sl1)
      BY DEF SeqGroup
    <3> HIDE DEF h
    <3> QED BY <2>2, <2>3, <3>1, <3>2
  <2> QED BY <1>1, <1>2, <1>3, <1>4, <1>6, <2>4 DEF AddRow
<1> QED BY <1>5, <1>6

\* Rows with the same cells teach alike.
LEMMA SameCells ==
  ASSUME NEW a, NEW b, CellsOf(a) = CellsOf(b)
  PROVE  /\ a.room = b.room /\ a.weekday = b.weekday /\ a.periods = b.periods /\ a.weeks = b.weeks
         /\ Teaches(a) => Teaches(b)
<1>1. a.room = b.room /\ a.weekday = b.weekday /\ a.periods = b.periods /\ a.weeks = b.weeks
  BY DEF CellsOf
<1> QED BY <1>1 DEF Teaches

\* What is said of a sheet stays while the sheet does.
LEMMA SheetStays ==
  ASSUME sheet' = sheet, NEW s
  PROVE  /\ LinesOf(s)' = LinesOf(s) /\ FirstOf(s)' = FirstOf(s)
         /\ AdminsOf(s)' = AdminsOf(s) /\ CodeOf(s)' = CodeOf(s)
<1>1. LinesOf(s)' = LinesOf(s)
  BY DEF LinesOf
<1>2. FirstOf(s)' = FirstOf(s)
  BY <1>1 DEF FirstOf
<1> QED BY <1>1, <1>2 DEF AdminsOf, CodeOf

\* A sheet is a list of rows, and the next row is one of them or past the end.
LEMMA SheetIs ==
  ASSUME ArgumentsOK
  PROVE  /\ Len(sheet) \in Nat /\ DOMAIN sheet = 1 .. Len(sheet)
         /\ nextRow \in Nat \ {0} /\ nextRow <= Len(sheet) + 1
         /\ \A i \in DOMAIN sheet : sheet[i] \in ToSet(sheet)
<1>1. sheet \in Seq(ToSet(sheet)) /\ nextRow \in 1 .. Len(sheet) + 1
  BY SplitterAssumption DEF ArgumentsOK
<1>2. Len(sheet) \in Nat /\ DOMAIN sheet = 1 .. Len(sheet)
  BY <1>1
<1> QED BY <1>1, <1>2 DEF ToSet

\* One more row read is one more row of its course number.
LEMMA LinesGrow ==
  ASSUME ArgumentsOK, nextRow <= Len(sheet), nextRow' = nextRow + 1, sheet' = sheet, NEW s
  PROVE  LinesDone(s)' = IF sheet[nextRow].seq = s THEN LinesDone(s) \cup {nextRow} ELSE LinesDone(s)
<1>1. 1 .. nextRow' - 1 = (1 .. nextRow - 1) \cup {nextRow}
  BY SheetIs
<1> QED BY <1>1 DEF LinesDone

\* The rows read before nextRow and the row there.
LEMMA GroupTakesRow ==
  ASSUME ArgumentsOK, nextRow <= Len(sheet), nextRow' = nextRow + 1, sheet' = sheet,
         NEW s, s = sheet[nextRow].seq, NEW g, GroupOK(s, g),
         NEW h, h = AddRow(g, sheet[nextRow])
  PROVE  GroupOK(s, h)'
<1>1. PICK n, r, slot : n = nextRow /\ r = sheet[n] /\ slot = SlotAt(n)
  OBVIOUS
<1>2. PICK L : L = LinesDone(s) /\ LinesDone(s)' = L \cup {n}
  BY <1>1, LinesGrow
<1>3. PICK c, k, ms, ts, se, sl :
        /\ g = SeqGroup(c, k, ms, ts, se, sl)
        /\ c = sheet[FirstOf(s)].course /\ k = CodeOf(s) /\ ToSet(ms) = AdminsOf(s)
        /\ ts = {sheet[i].teacher : i \in L} \ {Empty} /\ se = {CellsOf(sheet[i]) : i \in L}
        /\ SlotsOK(s, sl)
  BY <1>2 DEF GroupOK, SeqGroup
<1>4. PICK tn, sn, new : /\ h = SeqGroup(c, k, ms, tn, sn, new)
                         /\ tn = ts \cup ({r.teacher} \ {Empty}) /\ sn = se \cup {CellsOf(r)}
                         /\ new = IF CellsOf(r) \notin se /\ Teaches(r) THEN sl \cup {slot} ELSE sl
  <2>1. slot = SlotHere(r)
    BY <1>1 DEF SlotAt, SlotHere
  <2>2. h = AddRow(SeqGroup(c, k, ms, ts, se, sl), r)
    BY <1>1, <1>3
  <2> QED BY <2>1, <2>2, AddRowIs
<1>5. tn = {sheet'[i].teacher : i \in L \cup {n}} \ {Empty}
  BY <1>1, <1>3, <1>4
<1>6. sn = {CellsOf(sheet'[i]) : i \in L \cup {n}}
  BY <1>1, <1>3, <1>4
<1>7. slot.row = n
  BY <1>1 DEF SlotAt
<1>8. \A i : SlotAt(i)' = SlotAt(i)
  BY DEF SlotAt
<1>9. \A t \in sl : t.row \in L /\ Teaches(sheet[t.row]) /\ t = SlotAt(t.row)
  <2>1. \A i : SlotAt(i).row = i
    BY DEF SlotAt
  <2> QED BY <1>2, <1>3, <2>1 DEF SlotsOK
<1>10. SlotsOK(s, new)'
  <2>1. \A t \in new : \E i \in L \cup {n} : Teaches(sheet[i]) /\ t = SlotAt(i)
    BY <1>1, <1>4, <1>9
  <2>2. ASSUME NEW i \in L \cup {n}, Teaches(sheet[i])
        PROVE  \E t \in new : CellsOf(sheet[t.row]) = CellsOf(sheet[i])
    <3>1. \A j \in L : Teaches(sheet[j]) => \E t \in new : CellsOf(sheet[t.row]) = CellsOf(sheet[j])
      BY <1>2, <1>3, <1>4 DEF SlotsOK
    <3>2. CASE i \in L
      BY <2>2, <3>1, <3>2
    <3>3. CASE i = n /\ CellsOf(r) \notin se
      BY <1>1, <1>4, <1>7, <2>2, <3>3
    <3>4. CASE i = n /\ CellsOf(r) \in se
      <4>1. PICK j \in L : CellsOf(sheet[j]) = CellsOf(r)
        BY <1>3, <3>4
      <4>2. Teaches(sheet[j])
        BY <1>1, <2>2, <3>4, <4>1, SameCells
      <4> QED BY <1>1, <3>1, <3>4, <4>1, <4>2
    <3> QED BY <2>2, <3>2, <3>3, <3>4
  <2>3. ASSUME NEW t \in new, NEW u \in new, CellsOf(sheet[t.row]) = CellsOf(sheet[u.row])
        PROVE  t = u
    <3>1. CASE t \in sl /\ u \in sl
      BY <1>3, <2>3, <3>1 DEF SlotsOK
    <3>2. \A x \in sl : CellsOf(sheet[x.row]) \in se
      BY <1>3, <1>9
    <3>3. CASE t \notin sl \/ u \notin sl
      <4>1. /\ CellsOf(r) \notin se /\ CellsOf(sheet[slot.row]) = CellsOf(r)
            /\ t \in sl \cup {slot} /\ u \in sl \cup {slot}
        BY <1>1, <1>4, <1>7, <3>3
      <4> QED BY <2>3, <3>2, <3>3, <4>1
    <3> QED BY <3>1, <3>3
  <2>4. new \subseteq {SlotAt(i)' : i \in {j \in LinesDone(s)' : Teaches(sheet'[j])}}
    BY <1>2, <1>8, <2>1
  <2>5. \A i \in LinesDone(s)' : Teaches(sheet'[i]) => \E t \in new : CellsOf(sheet'[t.row]) = CellsOf(sheet'[i])
    BY <1>2, <2>2
  <2>6. \A t, u \in new : CellsOf(sheet'[t.row]) = CellsOf(sheet'[u.row]) => t = u
    BY <2>3
  <2> QED BY <2>4, <2>5, <2>6 DEF SlotsOK
<1>11. c = sheet'[FirstOf(s)'].course /\ k = CodeOf(s)' /\ ToSet(ms) = AdminsOf(s)'
  BY <1>3, SheetStays
<1>12. h = SeqGroup(sheet'[FirstOf(s)'].course, CodeOf(s)', ms, {sheet'[i].teacher : i \in LinesDone(s)'} \ {Empty},
                 {CellsOf(sheet'[i]) : i \in LinesDone(s)'}, new)
  BY <1>2, <1>4, <1>5, <1>6, <1>11
<1>13. h.members = ms /\ h.slots = new
  BY <1>4, GroupFields
<1> QED BY <1>10, <1>11, <1>12, <1>13 DEF GroupOK, SeqGroup

\* A group that no row was read for stays right.
LEMMA GroupStays ==
  ASSUME sheet' = sheet, NEW s, NEW g, GroupOK(s, g), LinesDone(s)' = LinesDone(s)
  PROVE  GroupOK(s, g)'
<1>1. PICK L : L = LinesDone(s) /\ L = LinesDone(s)'
  OBVIOUS
<1>2. SlotsOK(s, g.slots)'
  <2>1. \A i : SlotAt(i)' = SlotAt(i)
    BY DEF SlotAt
  <2>2. PICK sl : sl = g.slots
    OBVIOUS
  <2>3. /\ sl \subseteq {SlotAt(i)' : i \in {j \in L : Teaches(sheet'[j])}}
        /\ \A i \in L : Teaches(sheet'[i]) => \E t \in sl : CellsOf(sheet'[t.row]) = CellsOf(sheet'[i])
        /\ \A t, u \in sl : CellsOf(sheet'[t.row]) = CellsOf(sheet'[u.row]) => t = u
    BY <1>1, <2>1, <2>2 DEF GroupOK, SlotsOK
  <2> QED BY <1>1, <2>2, <2>3 DEF SlotsOK
<1>3. /\ {sheet'[i].teacher : i \in L} = {sheet[i].teacher : i \in L}
      /\ {CellsOf(sheet'[i]) : i \in L} = {CellsOf(sheet[i]) : i \in L}
      /\ sheet'[FirstOf(s)'].course = sheet[FirstOf(s)].course
  BY SheetStays
<1>4. ToSet(g.members) = AdminsOf(s)' /\ CodeOf(s)' = CodeOf(s)
  BY SheetStays DEF GroupOK
<1>5. g = SeqGroup(sheet[FirstOf(s)].course, CodeOf(s), g.members, {sheet[i].teacher : i \in L} \ {Empty},
                {CellsOf(sheet[i]) : i \in L}, g.slots)
  BY <1>1 DEF GroupOK, SeqGroup
<1>6. g = SeqGroup(sheet'[FirstOf(s)'].course, CodeOf(s)', g.members,
                {sheet'[i].teacher : i \in LinesDone(s)'} \ {Empty},
                {CellsOf(sheet'[i]) : i \in LinesDone(s)'}, g.slots)
  BY <1>1, <1>3, <1>4, <1>5
<1> QED BY <1>2, <1>4, <1>6 DEF GroupOK, SeqGroup

\* Groups stay right while no row is read.
LEMMA GroupsStay ==
  ASSUME GroupsOK, UNCHANGED <<sheet, nextRow, seqGroups>>
  PROVE  GroupsOK'
<1>1. DOMAIN seqGroups' = {sheet'[i].seq : i \in 1 .. nextRow' - 1} \ {NoSeq}
  BY DEF GroupsOK
<1>2. ASSUME NEW s \in DOMAIN seqGroups' PROVE GroupOK(s, seqGroups[s])'
  <2>1. PICK g : g = seqGroups[s] /\ g = seqGroups'[s]
    OBVIOUS
  <2>2. LinesDone(s)' = LinesDone(s)
    BY DEF LinesDone
  <2>3. GroupOK(s, g)'
    BY <2>1, <2>2, GroupStays DEF GroupsOK
  <2> QED BY <2>1, <2>3
<1> QED BY <1>1, <1>2 DEF GroupsOK

\* A course number whose first row comes has no row before it.
LEMMA NewGroupOK ==
  ASSUME ArgumentsOK, nextRow <= Len(sheet), NEW s, s = sheet[nextRow].seq,
         \A i \in 1 .. nextRow - 1 : sheet[i].seq # s
  PROVE  GroupOK(s, NewSeqGroup(sheet[nextRow]))
<1>1. LinesDone(s) = {}
  BY DEF LinesDone
<1>2. FirstOf(s) = nextRow
  <2>1. LinesOf(s) \subseteq Nat /\ nextRow \in LinesOf(s) /\ \A i \in LinesOf(s) : nextRow <= i
    BY SheetIs DEF LinesOf
  <2>2. FirstRow(LinesOf(s)) \in LinesOf(s) /\ FirstRow(LinesOf(s)) <= nextRow
    BY <2>1, FirstRowIs
  <2>3. nextRow \in Nat /\ FirstRow(LinesOf(s)) \in Nat
    BY <2>1, <2>2
  <2> QED BY <2>1, <2>2, <2>3 DEF FirstOf
<1>3. PICK r : r = sheet[nextRow] /\ r \in ToSet(sheet) /\ r.admins \in Seq(ToSet(r.admins))
  BY SplitterAssumption, SheetIs DEF ArgumentsOK
<1>4. NewSeqGroup(r) = SeqGroup(r.course, r.code, ParseAdminSet(r.admins), {}, {}, {})
  BY DEF NewSeqGroup, SeqGroup
<1>5. PICK g : g = NewSeqGroup(r) /\ g.members = ParseAdminSet(r.admins) /\ g.slots = {}
  BY <1>4, GroupFields
<1>6. ToSet(g.members) = AdminsOf(s)
  BY <1>2, <1>3, <1>5, ParseKeepsMembers DEF AdminsOf
<1>7. {sheet[i].teacher : i \in LinesDone(s)} \ {Empty} = {} /\ {CellsOf(sheet[i]) : i \in LinesDone(s)} = {}
  BY <1>1
<1>8. SlotsOK(s, {})
  BY <1>1 DEF SlotsOK
<1>9. g = SeqGroup(sheet[FirstOf(s)].course, CodeOf(s), g.members, {}, {}, {})
  BY <1>2, <1>3, <1>4, <1>5 DEF CodeOf
<1> QED BY <1>3, <1>5, <1>6, <1>7, <1>8, <1>9 DEF GroupOK, SeqGroup

\* One row of the sheet.
LEMMA RowGrouped ==
  ASSUME ArgumentsOK, GroupsOK, nextRow <= Len(sheet), GroupRow(sheet[nextRow]),
         nextRow' = nextRow + 1, sheet' = sheet
  PROVE  GroupsOK'
<1>1. PICK n, r : n = nextRow /\ r = sheet[n]
  OBVIOUS
<1>2. {sheet'[i].seq : i \in 1 .. nextRow' - 1} = {sheet[i].seq : i \in 1 .. nextRow - 1} \cup {r.seq}
  <2>1. 1 .. nextRow' - 1 = (1 .. nextRow - 1) \cup {n}
    BY <1>1, SheetIs
  <2> QED BY <1>1, <2>1
<1>3. CASE r.seq = NoSeq
  <2>1. seqGroups' = seqGroups
    BY <1>1, <1>3 DEF GroupRow
  <2>2. DOMAIN seqGroups' = {sheet'[i].seq : i \in 1 .. nextRow' - 1} \ {NoSeq}
    BY <1>2, <1>3, <2>1 DEF GroupsOK
  <2>3. ASSUME NEW s \in DOMAIN seqGroups' PROVE GroupOK(s, seqGroups[s])'
    <3>1. PICK g : g = seqGroups[s] /\ g = seqGroups'[s]
      BY <2>1
    <3>2. s # r.seq
      BY <1>3, <2>1 DEF GroupsOK
    <3>3. LinesDone(s)' = LinesDone(s)
      BY <1>1, <3>2, LinesGrow
    <3>4. GroupOK(s, g)'
      BY <2>1, <3>1, <3>3, GroupStays DEF GroupsOK
    <3> QED BY <3>1, <3>4
  <2> QED BY <2>2, <2>3 DEF GroupsOK
<1>4. CASE r.seq # NoSeq
  <2>1. PICK g : g = IF r.seq \in DOMAIN seqGroups THEN seqGroups[r.seq] ELSE NewSeqGroup(r)
    OBVIOUS
  <2>2. GroupOK(r.seq, g)
    <3>1. CASE r.seq \in DOMAIN seqGroups
      BY <2>1, <3>1 DEF GroupsOK
    <3>2. CASE r.seq \notin DOMAIN seqGroups
      <4>1. \A i \in 1 .. nextRow - 1 : sheet[i].seq # r.seq
        BY <1>4, <3>2 DEF GroupsOK
      <4> QED BY <1>1, <2>1, <3>2, <4>1, NewGroupOK
    <3> QED BY <3>1, <3>2
  <2>3. PICK h : h = AddRow(g, r)
    OBVIOUS
  <2>4. GroupOK(r.seq, h)'
    BY <1>1, <2>2, <2>3, GroupTakesRow
  <2>5. /\ DOMAIN seqGroups' = DOMAIN seqGroups \cup {r.seq}
        /\ seqGroups'[r.seq] = h
        /\ \A s \in DOMAIN seqGroups \ {r.seq} : seqGroups'[s] = seqGroups[s]
    <3>1. AddRow(GroupAt(r), r) = h
      BY <2>1, <2>3 DEF GroupAt
    <3>2. seqGroups' = [s \in DOMAIN seqGroups \cup {r.seq} |->
                          IF s = r.seq THEN h ELSE seqGroups[s]]
      BY <1>1, <1>4, <3>1 DEF GroupRow
    <3> QED BY <3>2
  <2>6. DOMAIN seqGroups' = {sheet'[i].seq : i \in 1 .. nextRow' - 1} \ {NoSeq}
    BY <1>2, <1>4, <2>5 DEF GroupsOK
  <2>7. ASSUME NEW s \in DOMAIN seqGroups' PROVE GroupOK(s, seqGroups[s])'
    <3>1. CASE s = r.seq
      BY <2>4, <2>5, <3>1
    <3>2. CASE s # r.seq
      <4>1. PICK f : f = seqGroups[s] /\ f = seqGroups'[s] /\ s \in DOMAIN seqGroups
        BY <2>5, <3>2
      <4>2. LinesDone(s)' = LinesDone(s)
        BY <1>1, <3>2, LinesGrow
      <4>3. GroupOK(s, f)'
        BY <4>1, <4>2, GroupStays DEF GroupsOK
      <4> QED BY <4>1, <4>3
    <3> QED BY <3>1, <3>2
  <2> QED BY <2>6, <2>7 DEF GroupsOK
<1> QED BY <1>3, <1>4

----------------------------------------------------------------------------
(* The splitter: what a step that leaves its arguments alone keeps.        *)

\* A call after the rows leaves the arguments as they are.
LEMMA ArgumentsStay ==
  ASSUME ArgumentsOK, UNCHANGED <<sheet, regimens, nextRow>>, stage' \in Stages \ {"rows"}, stage # "rows"
  PROVE  ArgumentsOK'
BY DEF ArgumentsOK

\* The tables depend on the sheet alone.
LEMMA TablesStay ==
  ASSUME UNCHANGED sheet
  PROVE  BuildClassrooms' = BuildClassrooms /\ BuildCatalog' = BuildCatalog
         /\ BuildAdminGrades' = BuildAdminGrades
<1>1. BuildClassrooms' = BuildClassrooms
  BY DEF BuildClassrooms
<1>2. BuildCatalog' = BuildCatalog
  BY DEF BuildCatalog
<1>3. BuildAdminGrades' = BuildAdminGrades
  BY DEF BuildAdminGrades
<1> QED BY <1>1, <1>2, <1>3

\* Which classes are parallel depends on the groups alone.
LEMMA ParallelStays ==
  ASSUME UNCHANGED seqGroups
  PROVE  Parallel' = Parallel
BY DEF Parallel, KeyOf

\* The loops over the groups may end in the same ways while the groups stay.
LEMMA LoopsStay ==
  ASSUME UNCHANGED <<seqGroups, skipped>>
  PROVE  /\ FirstMet' = FirstMet
         /\ \A pick : OfferingsBy(pick)' = OfferingsBy(pick) /\ SessionsBy(pick)' = SessionsBy(pick)
<1>1. \A s : KeyOf(s)' = KeyOf(s)
  BY DEF KeyOf
<1>2. Kept' = Kept
  BY <1>1 DEF Kept
<1>3. AdminKeys' = AdminKeys
  BY <1>1, <1>2 DEF AdminKeys
<1>4. FirstMet' = FirstMet
  BY <1>1, <1>2, <1>3 DEF FirstMet
<1>5. ASSUME NEW pick
      PROVE  OfferingsBy(pick)' = OfferingsBy(pick) /\ SessionsBy(pick)' = SessionsBy(pick)
  <2>1. \A s : NameBy(pick, s)' = NameBy(pick, s) /\ JoinTeachers(s)' = JoinTeachers(s)
    BY <1>1 DEF NameBy, JoinTeachers
  <2>2. \A c : SessionOf(c, pick)' = SessionOf(c, pick)
    BY <2>1 DEF SessionOf
  <2>3. OfferingsBy(pick)' = OfferingsBy(pick)
    BY <1>2, <2>1 DEF OfferingsBy
  <2>4. SessionsBy(pick)' = SessionsBy(pick)
    BY <1>2, <2>2 DEF SessionsBy
  <2> QED BY <2>3, <2>4
<1> QED BY <1>4, <1>5

\* The files depend on what they are written from.
LEMMA WorkbooksStay ==
  ASSUME UNCHANGED <<sheet, tableVars, classes, offerings, lessons>>
  PROVE  Workbooks' = Workbooks
<1>1. EmitClassrooms' = EmitClassrooms /\ EmitCatalog' = EmitCatalog
  BY DEF EmitClassrooms, EmitCatalog, tableVars
<1>2. EmitAdminClasses' = EmitAdminClasses /\ EmitTeachingClasses' = EmitTeachingClasses
  BY DEF EmitAdminClasses, EmitTeachingClasses, tableVars
<1>3. EmitOfferings' = EmitOfferings /\ EmitSessions' = EmitSessions
  BY DEF EmitOfferings, EmitSessions
<1> QED BY <1>1, <1>2, <1>3 DEF Workbooks

----------------------------------------------------------------------------
(* The splitter: the steps.                                                *)

\* Before the first row there is no group.
LEMMA SplitInitInductive == SplitInit => SplitIInv
<1> SUFFICES ASSUME SplitInit PROVE SplitIInv
  OBVIOUS
<1>1. sheet \in Sheets /\ regimens \in Regimens /\ stage = "rows" /\ nextRow = 1 /\ seqGroups = <<>>
  BY DEF SplitInit
<1>2. Len(sheet) \in Nat
  BY <1>1, SplitterAssumption
<1>3. ArgumentsOK
  BY <1>1, <1>2 DEF ArgumentsOK, Stages
<1>4. GroupsOK
  <2>1. 1 .. nextRow - 1 = {} /\ DOMAIN seqGroups = {}
    BY <1>1
  <2> QED BY <2>1 DEF GroupsOK
<1> QED BY <1>1, <1>3, <1>4 DEF SplitIInv

\* A row joins the group of its course number, or opens it.
LEMMA GroupBySeqStep == SplitIInv /\ GroupBySeq => SplitIInv'
<1> SUFFICES ASSUME SplitIInv, GroupBySeq PROVE SplitIInv'
  OBVIOUS
<1>1. sheet' = sheet /\ regimens' = regimens /\ stage = "rows" /\ ArgumentsOK /\ GroupsOK
  BY DEF GroupBySeq, argVars, SplitIInv
<1>2. CASE nextRow > Len(sheet)
  <2>1. stage' = "tables" /\ nextRow' = nextRow /\ seqGroups' = seqGroups
    BY <1>2 DEF GroupBySeq
  <2>2. ArgumentsOK'
    <3>1. nextRow = Len(sheet) + 1
      BY <1>1, <1>2, SheetIs
    <3> QED BY <1>1, <2>1, <3>1 DEF ArgumentsOK, Stages
  <2>3. GroupsOK'
    BY <1>1, <2>1, GroupsStay
  <2> QED BY <2>1, <2>2, <2>3 DEF SplitIInv
<1>3. CASE ~(nextRow > Len(sheet))
  <2>1. stage' = "rows" /\ nextRow' = nextRow + 1 /\ GroupRow(sheet[nextRow])
    BY <1>1, <1>3 DEF GroupBySeq
  <2>2. nextRow <= Len(sheet)
    BY <1>1, <1>3, SheetIs
  <2>3. ArgumentsOK'
    <3>1. nextRow + 1 \in 1 .. Len(sheet) + 1
      BY <1>1, <2>2, SheetIs
    <3> QED BY <1>1, <2>1, <3>1 DEF ArgumentsOK, Stages
  <2>4. GroupsOK'
    BY <1>1, <2>1, <2>2, RowGrouped
  <2> QED BY <2>1, <2>3, <2>4 DEF SplitIInv
<1> QED BY <1>2, <1>3

\* Every call keeps the invariant.
LEMMA SplitStepInductive == SplitIInv /\ [SplitNext]_splitVars => SplitIInv'
<1> SUFFICES ASSUME SplitIInv, [SplitNext]_splitVars PROVE SplitIInv'
  OBVIOUS
<1>1. CASE GroupBySeq
  BY <1>1, GroupBySeqStep
<1>2. CASE BuildTables
  <2>1. /\ stage = "tables" /\ stage' = "parallel" /\ UNCHANGED <<sheet, regimens, nextRow, seqGroups>>
        /\ rooms' = BuildClassrooms /\ catalog' = BuildCatalog /\ grades' = BuildAdminGrades
    BY <1>2 DEF BuildTables, argVars
  <2>2. ArgumentsOK' /\ GroupsOK'
    BY <2>1, ArgumentsStay, GroupsStay DEF SplitIInv, Stages
  <2>3. TablesOK'
    BY <2>1, TablesStay DEF TablesOK
  <2> QED BY <2>1, <2>2, <2>3 DEF SplitIInv
<1>3. CASE MarkParallel
  <2>1. /\ stage = "parallel" /\ stage' = "classes" /\ skipped' = Parallel
        /\ UNCHANGED <<sheet, regimens, nextRow, seqGroups, rooms, catalog, grades>>
    BY <1>3 DEF MarkParallel, argVars, tableVars
  <2>2. ArgumentsOK' /\ GroupsOK'
    BY <2>1, ArgumentsStay, GroupsStay DEF SplitIInv, Stages
  <2>3. TablesOK' /\ skipped' = Parallel'
    BY <2>1, TablesStay, ParallelStays DEF TablesOK, SplitIInv
  <2> QED BY <2>1, <2>2, <2>3 DEF SplitIInv
<1>4. CASE BuildTeachingClasses
  <2>1. /\ stage = "classes" /\ stage' = "offerings"
        /\ UNCHANGED <<sheet, regimens, nextRow, seqGroups, rooms, catalog, grades, skipped>>
    BY <1>4 DEF BuildTeachingClasses, argVars, tableVars
  <2>2. ArgumentsOK' /\ GroupsOK'
    BY <2>1, ArgumentsStay, GroupsStay DEF SplitIInv, Stages
  <2>3. TablesOK' /\ skipped' = Parallel'
    BY <2>1, TablesStay, ParallelStays DEF TablesOK, SplitIInv
  <2> QED BY <2>1, <2>2, <2>3 DEF SplitIInv
<1>5. CASE BuildOfferingsSessions
  <2>1. /\ stage = "offerings" /\ stage' = "validate"
        /\ UNCHANGED <<sheet, regimens, nextRow, seqGroups, rooms, catalog, grades, skipped>>
        /\ \E pick \in FirstMet : offerings' = OfferingsBy(pick) /\ lessons' = SessionsBy(pick)
    BY <1>5 DEF BuildOfferingsSessions, argVars, tableVars
  <2>2. ArgumentsOK' /\ GroupsOK'
    BY <2>1, ArgumentsStay, GroupsStay DEF SplitIInv, Stages
  <2>3. TablesOK' /\ skipped' = Parallel'
    BY <2>1, TablesStay, ParallelStays DEF TablesOK, SplitIInv
  <2>4. WrittenOK'
    BY <2>1, LoopsStay DEF WrittenOK
  <2> QED BY <2>1, <2>2, <2>3, <2>4 DEF SplitIInv
<1>6. CASE ValidateRegimes
  <2>1. /\ stage = "validate"
        /\ stage' = "refused" \/ (stage' = "files" /\ \A l \in lessons : Rings(l))
        /\ UNCHANGED <<sheet, regimens, nextRow, seqGroups, rooms, catalog, grades, skipped, offerings, lessons>>
    BY <1>6 DEF ValidateRegimes, argVars, tableVars
  <2>2. ArgumentsOK' /\ GroupsOK'
    BY <2>1, ArgumentsStay, GroupsStay DEF SplitIInv, Stages
  <2>3. TablesOK' /\ skipped' = Parallel'
    BY <2>1, TablesStay, ParallelStays DEF TablesOK, SplitIInv
  <2>4. WrittenOK'
    BY <2>1, LoopsStay DEF WrittenOK, SplitIInv
  <2>5. stage' = "files" => \A l \in lessons' : Rings(l)'
    BY <2>1 DEF Rings
  <2> QED BY <2>1, <2>2, <2>3, <2>4, <2>5 DEF SplitIInv
<1>7. CASE BuildFiles
  <2>1. /\ stage = "files"
        /\ stage' = "refused" \/ (stage' = "split" /\ files' = Workbooks)
        /\ UNCHANGED <<sheet, regimens, nextRow, seqGroups, rooms, catalog, grades, skipped, classes,
                       offerings, lessons>>
    BY <1>7 DEF BuildFiles, argVars, tableVars
  <2>2. ArgumentsOK' /\ GroupsOK'
    BY <2>1, ArgumentsStay, GroupsStay DEF SplitIInv, Stages
  <2>3. TablesOK' /\ skipped' = Parallel'
    BY <2>1, TablesStay, ParallelStays DEF TablesOK, SplitIInv
  <2>4. WrittenOK'
    BY <2>1, LoopsStay DEF WrittenOK, SplitIInv
  <2>5. \A l \in lessons' : Rings(l)'
    BY <2>1 DEF Rings, SplitIInv
  <2>6. stage' = "split" => files' = Workbooks'
    BY <2>1, WorkbooksStay DEF tableVars
  <2> QED BY <2>1, <2>2, <2>3, <2>4, <2>5, <2>6 DEF SplitIInv
<1>8. CASE UNCHANGED splitVars
  <2>1. UNCHANGED <<sheet, regimens, stage, nextRow, seqGroups, rooms, catalog, grades, skipped, classes,
                    offerings, lessons, files>>
    BY <1>8 DEF splitVars, argVars, tableVars
  <2>2. ArgumentsOK' /\ GroupsOK'
    BY <2>1, GroupsStay DEF SplitIInv, ArgumentsOK
  <2>3. (TablesOK => TablesOK') /\ (skipped = Parallel => skipped' = Parallel')
    BY <2>1, TablesStay, ParallelStays DEF TablesOK
  <2>4. WrittenOK => WrittenOK'
    BY <2>1, LoopsStay DEF WrittenOK
  <2>5. (\A l \in lessons : Rings(l)) => \A l \in lessons' : Rings(l)'
    BY <2>1 DEF Rings
  <2>6. Workbooks' = Workbooks
    BY <2>1, WorkbooksStay DEF tableVars
  <2> QED BY <2>1, <2>2, <2>3, <2>4, <2>5, <2>6 DEF SplitIInv
<1> QED BY <1>1, <1>2, <1>3, <1>4, <1>5, <1>6, <1>7, <1>8 DEF SplitNext

\* It holds of every reachable state.
LEMMA SplitInvariance == SplitSpec => []SplitIInv
BY SplitInitInductive, SplitStepInductive, PTL DEF SplitSpec

----------------------------------------------------------------------------
(* The splitter: the files that result.                                    *)

\* Once every row is read the groups are what the rows of each number say.
LEMMA GroupsComplete ==
  ASSUME SplitIInv, stage # "rows"
  PROVE  /\ DOMAIN seqGroups = Numbers
         /\ \A s \in Numbers :
              /\ FirstOf(s) \in LinesOf(s) /\ LinesOf(s) \subseteq DOMAIN sheet
              /\ LinesDone(s) = LinesOf(s) /\ KeyOf(s) = AdminsOf(s)
              /\ seqGroups[s].code = CodeOf(s) /\ seqGroups[s].course = sheet[FirstOf(s)].course
              /\ seqGroups[s].teachers = {sheet[i].teacher : i \in LinesOf(s)} \ {Empty}
              /\ SlotsOK(s, seqGroups[s].slots)
<1>1. 1 .. nextRow - 1 = DOMAIN sheet /\ DOMAIN sheet \subseteq Nat
  <2>1. nextRow = Len(sheet) + 1 /\ ArgumentsOK
    BY DEF SplitIInv, ArgumentsOK
  <2> QED BY <2>1, SheetIs
<1>2. DOMAIN seqGroups = Numbers
  BY <1>1 DEF SplitIInv, GroupsOK, Numbers
<1>3. ASSUME NEW s \in Numbers
      PROVE  /\ FirstOf(s) \in LinesOf(s) /\ LinesOf(s) \subseteq DOMAIN sheet
             /\ LinesDone(s) = LinesOf(s) /\ KeyOf(s) = AdminsOf(s)
             /\ seqGroups[s].code = CodeOf(s) /\ seqGroups[s].course = sheet[FirstOf(s)].course
             /\ seqGroups[s].teachers = {sheet[i].teacher : i \in LinesOf(s)} \ {Empty}
             /\ SlotsOK(s, seqGroups[s].slots)
  <2>1. LinesDone(s) = LinesOf(s) /\ LinesOf(s) \subseteq DOMAIN sheet
    BY <1>1 DEF LinesDone, LinesOf
  <2>2. LinesOf(s) # {} /\ LinesOf(s) \subseteq Nat
    BY <1>1 DEF Numbers, LinesOf
  <2>3. FirstOf(s) \in LinesOf(s)
    BY <2>2, FirstRowIs DEF FirstOf
  <2>4. PICK g : g = seqGroups[s] /\ GroupOK(s, g)
    BY <1>2 DEF SplitIInv, GroupsOK
  <2>5. g = SeqGroup(sheet[FirstOf(s)].course, CodeOf(s), g.members,
                  {sheet[i].teacher : i \in LinesDone(s)} \ {Empty},
                  {CellsOf(sheet[i]) : i \in LinesDone(s)}, g.slots)
    BY <2>4 DEF GroupOK, SeqGroup
  <2>6. /\ g.code = CodeOf(s) /\ g.course = sheet[FirstOf(s)].course
        /\ g.teachers = {sheet[i].teacher : i \in LinesDone(s)} \ {Empty}
    BY <2>5, GroupFields
  <2>7. KeyOf(s) = AdminsOf(s) /\ SlotsOK(s, g.slots)
    BY <2>4 DEF GroupOK, KeyOf
  <2> QED BY <2>1, <2>3, <2>4, <2>6, <2>7
<1> QED BY <1>2, <1>3

\* What is left out: numbers without classes, and those of one course and the same
\* classes as another.
LEMMA KeptAre ==
  ASSUME SplitIInv, stage = "split"
  PROVE  \A s : s \in Kept <=> s \in Numbers /\ AdminsOf(s) # {} /\ Alone(s)
<1>1. skipped = Parallel
  BY DEF SplitIInv
<1>2. /\ DOMAIN seqGroups = Numbers
      /\ \A s \in Numbers : KeyOf(s) = AdminsOf(s) /\ seqGroups[s].code = CodeOf(s)
  BY GroupsComplete
<1> QED BY <1>1, <1>2 DEF Kept, Parallel, Alone

\* Where a lesson comes from.
Made(l, pick, s, i, w) ==
  /\ s \in Kept /\ i \in LinesOf(s) /\ Teaches(sheet[i]) /\ w \in WeeksOf(sheet[i].weeks)
  /\ l = [seq |-> s, row |-> i, date |-> DayOf(w, sheet[i].weekday), periods |-> sheet[i].periods,
          room |-> sheet[i].room, course |-> seqGroups[s].course, code |-> seqGroups[s].code,
          class |-> NameBy(pick, s)]

\* The lesson of a week of a slot.
LEMMA SlotExpands ==
  ASSUME NEW s, NEW i, NEW w \in SlotAt(i).weeks, NEW pick, NEW c,
         c = [seq |-> s, row |-> SlotAt(i).row, date |-> DayOf(w, SlotAt(i).weekday),
              periods |-> SlotAt(i).periods, room |-> SlotAt(i).room]
  PROVE  /\ w \in WeeksOf(sheet[i].weeks) /\ SlotAt(i).row = i
         /\ SessionOf(c, pick)
              = [seq |-> s, row |-> i, date |-> DayOf(w, sheet[i].weekday), periods |-> sheet[i].periods,
                 room |-> sheet[i].room, course |-> seqGroups[s].course, code |-> seqGroups[s].code,
                 class |-> NameBy(pick, s)]
<1>1. /\ SlotAt(i).row = i /\ SlotAt(i).weekday = sheet[i].weekday /\ SlotAt(i).periods = sheet[i].periods
      /\ SlotAt(i).room = sheet[i].room /\ SlotAt(i).weeks = WeeksOf(sheet[i].weeks)
  BY DEF SlotAt
<1>2. /\ c.seq = s /\ c.row = i /\ c.date = DayOf(w, sheet[i].weekday) /\ c.periods = sheet[i].periods
      /\ c.room = sheet[i].room
  BY <1>1
<1> QED BY <1>1, <1>2 DEF SessionOf

\* Every lesson is a week of a slot of a group, and both came from one order of the groups.
LEMMA LessonsAreMade ==
  ASSUME SplitIInv, stage = "split"
  PROVE  \E pick :
           /\ offerings = OfferingsBy(pick)
           /\ \A l \in lessons : \E s, i, w : Made(l, pick, s, i, w) /\ SlotAt(i) \in seqGroups[s].slots
           /\ \A s \in Kept : \A i : SlotAt(i) \in seqGroups[s].slots =>
                \A w \in WeeksOf(sheet[i].weeks) : \E l \in lessons : Made(l, pick, s, i, w)
<1>1. PICK pick : offerings = OfferingsBy(pick) /\ lessons = SessionsBy(pick)
  BY DEF SplitIInv, WrittenOK
<1>2. \A s \in Kept : /\ s \in Numbers
                     /\ \A t \in seqGroups[s].slots : \E i \in LinesOf(s) : Teaches(sheet[i]) /\ t = SlotAt(i)
  BY GroupsComplete DEF SlotsOK, Kept
<1>3. ASSUME NEW l \in lessons
      PROVE  \E s, i, w : Made(l, pick, s, i, w) /\ SlotAt(i) \in seqGroups[s].slots
  <2>1. PICK s \in Kept : \E t \in seqGroups[s].slots : \E c \in ExpandSlot(s, t) : l = SessionOf(c, pick)
    BY <1>1 DEF SessionsBy
  <2>2. PICK t \in seqGroups[s].slots : \E c \in ExpandSlot(s, t) : l = SessionOf(c, pick)
    BY <2>1
  <2>3. PICK i \in LinesOf(s) : Teaches(sheet[i]) /\ t = SlotAt(i)
    BY <1>2, <2>2
  <2>4. PICK w \in SlotAt(i).weeks, c \in ExpandSlot(s, SlotAt(i)) :
          /\ l = SessionOf(c, pick)
          /\ c = [seq |-> s, row |-> SlotAt(i).row, date |-> DayOf(w, SlotAt(i).weekday),
                  periods |-> SlotAt(i).periods, room |-> SlotAt(i).room]
    BY <2>2, <2>3 DEF ExpandSlot
  <2>5. /\ w \in WeeksOf(sheet[i].weeks)
        /\ l = [seq |-> s, row |-> i, date |-> DayOf(w, sheet[i].weekday), periods |-> sheet[i].periods,
                room |-> sheet[i].room, course |-> seqGroups[s].course, code |-> seqGroups[s].code,
                class |-> NameBy(pick, s)]
    BY <2>4, SlotExpands, ZenonT(60)
  <2>6. Made(l, pick, s, i, w)
    BY <2>1, <2>3, <2>5 DEF Made
  <2> QED BY <2>2, <2>3, <2>6
<1>4. ASSUME NEW s \in Kept, NEW i, SlotAt(i) \in seqGroups[s].slots, NEW w \in WeeksOf(sheet[i].weeks)
      PROVE  \E l \in lessons : Made(l, pick, s, i, w)
  <2>1. w \in SlotAt(i).weeks
    BY DEF SlotAt
  <2>2. PICK c : c = [seq |-> s, row |-> SlotAt(i).row, date |-> DayOf(w, SlotAt(i).weekday),
                      periods |-> SlotAt(i).periods, room |-> SlotAt(i).room]
    OBVIOUS
  <2>3. c \in ExpandSlot(s, SlotAt(i))
    BY <2>1, <2>2 DEF ExpandSlot
  <2>4. SessionOf(c, pick) \in lessons
    BY <1>1, <1>4, <2>3 DEF SessionsBy
  <2>5. i \in LinesOf(s) /\ Teaches(sheet[i])
    <3>1. \A j : SlotAt(j).row = j
      BY DEF SlotAt
    <3> QED BY <1>2, <1>4, <3>1
  <2>6. Made(SessionOf(c, pick), pick, s, i, w)
    BY <2>1, <2>2, <2>5, SlotExpands, ZenonT(60) DEF Made
  <2> QED BY <2>4, <2>6
<1> QED BY <1>1, <1>3, <1>4

\* The files of a finished split.
LEMMA FilesAre ==
  ASSUME SplitIInv, stage = "split"
  PROVE  /\ files.classrooms = EmitClassrooms /\ files.catalog = EmitCatalog
         /\ files.adminClasses = EmitAdminClasses /\ files.offerings = EmitOfferings
         /\ files.sessions = lessons
<1>1. files = Workbooks
  BY DEF SplitIInv
<1> QED BY <1>1 DEF Workbooks, EmitSessions

\* The offering of a course number, as the file has it.
LEMMA OfferingOf ==
  ASSUME NEW pick, offerings = OfferingsBy(pick), NEW s \in Kept
  PROVE  \E o \in EmitOfferings :
           o.seq = s /\ o.code = seqGroups[s].code /\ o.class = NameBy(pick, s)
<1> DEFINE o == [seq |-> s, course |-> seqGroups[s].course, code |-> seqGroups[s].code,
                 class |-> NameBy(pick, s), teachers |-> JoinTeachers(s)]
           e == [o EXCEPT !.teachers = IF @ = {} THEN {"unassigned"} ELSE @]
<1>1. o \in offerings
  BY DEF OfferingsBy
<1>2. e \in EmitOfferings
  BY <1>1 DEF EmitOfferings
<1>3. e.seq = s /\ e.code = seqGroups[s].code /\ e.class = NameBy(pick, s)
  OBVIOUS
<1> QED BY <1>2, <1>3

\* An offering is of a group that is kept, and names its teachers.
LEMMA OfferingsAre ==
  ASSUME NEW pick, offerings = OfferingsBy(pick), NEW e \in EmitOfferings
  PROVE  /\ e.seq \in Kept
         /\ e.teachers = IF JoinTeachers(e.seq) = {} THEN {"unassigned"} ELSE JoinTeachers(e.seq)
<1>1. PICK o \in offerings : e = [o EXCEPT !.teachers = IF @ = {} THEN {"unassigned"} ELSE @]
  BY DEF EmitOfferings
<1>2. PICK s \in Kept : o = [seq |-> s, course |-> seqGroups[s].course, code |-> seqGroups[s].code,
                            class |-> NameBy(pick, s), teachers |-> JoinTeachers(s)]
  BY <1>1 DEF OfferingsBy
<1>3. o.teachers = JoinTeachers(s) /\ o.seq = s /\ DOMAIN o = {"seq", "course", "code", "class", "teachers"}
  BY <1>2
<1>4. e.seq = s /\ e.teachers = IF JoinTeachers(s) = {} THEN {"unassigned"} ELSE JoinTeachers(s)
  BY <1>1, <1>3
<1> QED BY <1>4

\* A lesson falls on a date of the term.
LEMMA LessonDate ==
  ASSUME ArgumentsOK, NEW i \in DOMAIN sheet, Teaches(sheet[i]), NEW w \in WeeksOf(sheet[i].weeks)
  PROVE  DayOf(w, sheet[i].weekday) \in 101 .. 1231
<1>1. w \in Nat \ {0} /\ 7 * w <= Len(Calendar) /\ Calendar \in Seq(101 .. 1231)
  <2>1. sheet \in Sheets /\ sheet[i] \in ToSet(sheet)
    BY SheetIs DEF ArgumentsOK
  <2> QED BY <2>1, SplitterAssumption
<1>2. PICK d \in 1 .. 7 : d = sheet[i].weekday
  BY DEF Teaches, WeekdayRead
<1>3. Len(Calendar) \in Nat
  BY <1>1
<1>4. PICK m \in 1 .. Len(Calendar) : m = (w - 1) * 7 + d
  BY <1>1, <1>3
<1>5. Calendar[m] \in 101 .. 1231
  <2>1. PICK T : T = 101 .. 1231
    BY ZenonT(60)
  <2>2. Calendar \in Seq(T)
    BY <1>1, <2>1
  <2>3. Calendar[m] \in T
    BY <2>2, ElementOfSeq
  <2> QED BY <2>1, <2>3
<1> QED BY <1>2, <1>4, <1>5 DEF DayOf

\* The invariant says that lessons ring, and finds their room and offering in the other files.
LEMMA LoadsAtTheEnd == SplitIInv => FilesFitTogether
<1> SUFFICES ASSUME SplitIInv, stage = "split", NEW l \in files.sessions
             PROVE  /\ \E c \in files.classrooms : c.name = l.room
                    /\ l.course = Empty \/ \E c \in files.catalog : CatalogKey(c) = CatalogKey(l)
                    /\ \E o \in files.offerings : o.code = l.code /\ o.class = l.class /\ o.seq = l.seq
                    /\ \A a \in AdminsOf(l.seq) : \E c \in files.adminClasses :
                         /\ c.name = a
                         /\ \E i \in DOMAIN sheet :
                              /\ a \in ToSet(sheet[i].admins)
                              /\ c.grade = IF sheet[i].grade = Empty THEN YearOf[a.num] ELSE sheet[i].grade
                    /\ \E r \in regimens :
                         /\ l.periods[1] .. l.periods[2] \subseteq r.periods
                         /\ \A o \in regimens : Since(r, l.date) <= Since(o, l.date)
  BY DEF FilesFitTogether
<1>1. /\ ArgumentsOK /\ l \in lessons /\ Rings(l)
      /\ rooms = BuildClassrooms /\ catalog = BuildCatalog /\ grades = BuildAdminGrades
  BY FilesAre DEF SplitIInv, TablesOK
<1>2. PICK pick : /\ offerings = OfferingsBy(pick)
                  /\ \A x \in lessons : \E s, i, w : Made(x, pick, s, i, w)
  BY LessonsAreMade
<1>3. PICK s, i, w : Made(l, pick, s, i, w)
  BY <1>1, <1>2
<1>4. /\ l.seq = s /\ l.row = i /\ l.date = DayOf(w, sheet[i].weekday) /\ l.periods = sheet[i].periods
      /\ l.room = sheet[i].room /\ l.course = seqGroups[s].course /\ l.code = seqGroups[s].code
      /\ l.class = NameBy(pick, s)
  BY <1>3 DEF Made
<1>5. s \in Kept /\ i \in LinesOf(s) /\ Teaches(sheet[i]) /\ w \in WeeksOf(sheet[i].weeks)
  BY <1>3 DEF Made
<1>6. s \in Numbers
  BY <1>5, KeptAre
<1>7. PICK f : f = FirstOf(s) /\ f \in DOMAIN sheet /\ i \in DOMAIN sheet /\ f \in LinesOf(s)
  BY <1>5, <1>6, GroupsComplete
<1>8. l.course = sheet[f].course /\ l.code = sheet[f].code
  BY <1>4, <1>6, <1>7, GroupsComplete DEF CodeOf
<1>9. DOMAIN sheet \subseteq Nat /\ \A j \in DOMAIN sheet : sheet[j] \in ToSet(sheet)
  BY <1>1, SheetIs
<1>10. \E c \in files.classrooms : c.name = l.room
  <2>1. l.room \in {r.room : r \in ToSet(sheet)} \ {NoSpot, Suspended}
    BY <1>4, <1>5, <1>7, <1>9 DEF Teaches
  <2>2. l.room \in DOMAIN rooms
    BY <1>1, <2>1 DEF BuildClassrooms
  <2>3. [name |-> l.room, row |-> rooms[l.room]] \in files.classrooms
    BY <2>2, FilesAre DEF EmitClassrooms
  <2> QED BY <2>3
<1>11. ASSUME l.course # Empty PROVE \E c \in files.catalog : CatalogKey(c) = CatalogKey(l)
  <2>1. PICK named : named = {j \in DOMAIN sheet : sheet[j].course # Empty}
    OBVIOUS
  <2>2. PICK k : k = CatalogKey(sheet[f])
    OBVIOUS
  <2>3. f \in named /\ CatalogKey(l) = k
    BY <1>7, <1>8, <1>11, <2>1, <2>2 DEF CatalogKey
  <2>4. PICK rows : rows = {j \in named : CatalogKey(sheet[j]) = k}
    OBVIOUS
  <2>5. rows \subseteq Nat /\ rows # {}
    BY <1>9, <2>1, <2>2, <2>3, <2>4
  <2>6. PICK j : j = FirstRow(rows) /\ j \in named /\ CatalogKey(sheet[j]) = k
    BY <2>4, <2>5, FirstRowIs
  <2>7. k \in DOMAIN catalog /\ catalog[k] = j
    BY <1>1, <2>1, <2>2, <2>3, <2>4, <2>6 DEF BuildCatalog
  <2>8. PICK c : c = [course |-> sheet[j].course, code |-> sheet[j].code] /\ c \in files.catalog
    BY <2>7, FilesAre DEF EmitCatalog
  <2>9. CatalogKey(c) = k
    BY <2>6, <2>8 DEF CatalogKey
  <2> QED BY <2>3, <2>8, <2>9
<1>12. \E o \in files.offerings : o.code = l.code /\ o.class = l.class /\ o.seq = l.seq
  BY <1>2, <1>4, <1>5, FilesAre, OfferingOf
<1>13. ASSUME NEW a \in AdminsOf(l.seq)
       PROVE  \E c \in files.adminClasses :
                /\ c.name = a
                /\ \E j \in DOMAIN sheet :
                     /\ a \in ToSet(sheet[j].admins)
                     /\ c.grade = IF sheet[j].grade = Empty THEN YearOf[a.num] ELSE sheet[j].grade
  <2>1. PICK rows : rows = {j \in DOMAIN sheet : a \in ToSet(sheet[j].admins)}
    OBVIOUS
  <2>2. f \in rows /\ rows \subseteq Nat
    BY <1>4, <1>7, <1>9, <2>1 DEF AdminsOf
  <2>3. PICK j : j = FirstRow(rows) /\ j \in rows /\ \A k \in rows : j <= k
    BY <2>2, FirstRowIs
  <2>4. a \in UNION {ToSet(r.admins) : r \in ToSet(sheet)}
    BY <1>9, <2>1, <2>2
  <2>5. a \in DOMAIN grades /\ grades[a] = GradeFor(a, sheet[j].grade)
    BY <1>1, <2>1, <2>3, <2>4 DEF BuildAdminGrades
  <2>6. PICK c : c = [name |-> a, grade |-> grades[a]] /\ c \in files.adminClasses
    BY <2>5, FilesAre DEF EmitAdminClasses
  <2>7. c.name = a /\ c.grade = IF sheet[j].grade = Empty THEN YearOf[a.num] ELSE sheet[j].grade
    BY <2>5, <2>6 DEF GradeFor
  <2> QED BY <2>1, <2>3, <2>6, <2>7
<1>14. \E r \in regimens :
         /\ l.periods[1] .. l.periods[2] \subseteq r.periods
         /\ \A o \in regimens : Since(r, l.date) <= Since(o, l.date)
  <2>1. l.date \in 101 .. 1231
    <3>1. DayOf(w, sheet[i].weekday) \in 101 .. 1231
      BY <1>1, <1>5, <1>7, LessonDate, ZenonT(60)
    <3> QED BY <1>4, <3>1, ZenonT(60)
  <2>2. AreRegimes(regimens) /\ regimens # {}
    BY <1>1, SplitterAssumption DEF ArgumentsOK, Rings
  <2>3. PICK r \in regimens : /\ r = ActiveFor(regimens, l.date)
                             /\ \A o \in regimens : Since(r, l.date) <= Since(o, l.date)
    BY <2>1, <2>2, ActiveForBeganLast, ZenonT(60)
  <2> QED BY <1>1, <2>3 DEF Rings
<1> QED BY <1>10, <1>11, <1>12, <1>13, <1>14

\* The room, course, offering and admin classes of every lesson of a sheet that is
\* split are in the other files, for any sheets, regimes and terms, and the lesson
\* rings (jwc/split.go buildOfferingsSessions, validateRegimes).
THEOREM LessonsLoad == SplitSpec => []FilesFitTogether
BY SplitInvariance, LoadsAtTheEnd, PTL

\* What a lesson and a row are compared by.
LessonOf(s, i, w) == <<s, DayOf(w, sheet[i].weekday), sheet[i].periods, sheet[i].room>>

\* The lessons are the readable rows' weeks: no row is lost, none is invented.
LEMMA LessonsAreTheRows ==
  ASSUME SplitIInv, stage = "split"
  PROVE  {<<l.seq, l.date, l.periods, l.room>> : l \in lessons}
           = UNION {{LessonOf(sheet[i].seq, i, w) : w \in WeeksOf(sheet[i].weeks)} : i \in LinesToTeach}
<1>1. PICK pick :
        /\ \A l \in lessons : \E s, i, w : Made(l, pick, s, i, w)
        /\ \A s \in Kept : \A i : SlotAt(i) \in seqGroups[s].slots =>
             \A w \in WeeksOf(sheet[i].weeks) : \E l \in lessons : Made(l, pick, s, i, w)
  BY LessonsAreMade
<1>2. \A l, s, i, w : Made(l, pick, s, i, w) => <<l.seq, l.date, l.periods, l.room>> = LessonOf(s, i, w)
  BY DEF Made, LessonOf
<1>3. ASSUME NEW l \in lessons
      PROVE  \E i \in LinesToTeach : \E w \in WeeksOf(sheet[i].weeks) :
               <<l.seq, l.date, l.periods, l.room>> = LessonOf(sheet[i].seq, i, w)
  <2>1. PICK s, i, w : Made(l, pick, s, i, w)
    BY <1>1
  <2>2. s \in Kept /\ i \in LinesOf(s) /\ Teaches(sheet[i]) /\ w \in WeeksOf(sheet[i].weeks)
    BY <2>1 DEF Made
  <2>3. s \in Numbers /\ AdminsOf(s) # {} /\ Alone(s) /\ s # NoSeq
    BY <2>2, KeptAre DEF Numbers
  <2>4. sheet[i].seq = s /\ i \in DOMAIN sheet
    BY <2>2 DEF LinesOf
  <2>5. i \in LinesToTeach
    BY <2>2, <2>3, <2>4 DEF LinesToTeach
  <2> QED BY <1>2, <2>1, <2>2, <2>4, <2>5
<1>4. ASSUME NEW i \in LinesToTeach, NEW w \in WeeksOf(sheet[i].weeks)
      PROVE  \E l \in lessons :
               <<l.seq, l.date, l.periods, l.room>> = LessonOf(sheet[i].seq, i, w)
  <2>1. PICK s : s = sheet[i].seq /\ s \in Numbers /\ i \in LinesOf(s) /\ Teaches(sheet[i])
                /\ AdminsOf(s) # {} /\ Alone(s)
    BY DEF LinesToTeach, Numbers, LinesOf
  <2>2. s \in Kept /\ LinesDone(s) = LinesOf(s) /\ SlotsOK(s, seqGroups[s].slots)
    BY <2>1, KeptAre, GroupsComplete
  <2>3. PICK t \in seqGroups[s].slots : CellsOf(sheet[t.row]) = CellsOf(sheet[i])
    BY <2>1, <2>2 DEF SlotsOK
  <2>4. PICK j : t = SlotAt(j) /\ j = t.row
    <3>1. \A x : SlotAt(x).row = x
      BY DEF SlotAt
    <3> QED BY <2>2, <3>1 DEF SlotsOK
  <2>5. /\ sheet[j].room = sheet[i].room /\ sheet[j].weekday = sheet[i].weekday
        /\ sheet[j].periods = sheet[i].periods /\ sheet[j].weeks = sheet[i].weeks
    BY <2>3, <2>4, SameCells
  <2>6. PICK l \in lessons : Made(l, pick, s, j, w)
    BY <1>1, <2>2, <2>4, <2>5
  <2>7. LessonOf(s, j, w) = LessonOf(s, i, w)
    BY <2>5 DEF LessonOf
  <2> QED BY <1>2, <2>1, <2>6, <2>7
<1> QED BY <1>3, <1>4

\* Two lessons of one course number at one place and time come from different cells.
LEMMA LessonsAreApart ==
  ASSUME SplitIInv, stage = "split", NEW l \in lessons, NEW k \in lessons,
         l.seq = k.seq, l.date = k.date, l.periods = k.periods, l.room = k.room, l # k
  PROVE  CellsOf(sheet[l.row]) # CellsOf(sheet[k.row])
<1> SUFFICES ASSUME CellsOf(sheet[l.row]) = CellsOf(sheet[k.row]) PROVE FALSE
  OBVIOUS
<1>1. PICK pick : \A x \in lessons : \E s, i, w : Made(x, pick, s, i, w) /\ SlotAt(i) \in seqGroups[s].slots
  BY LessonsAreMade
<1>2. PICK s, i, w : Made(l, pick, s, i, w) /\ SlotAt(i) \in seqGroups[s].slots
  BY <1>1
<1>3. PICK s1, j, v : Made(k, pick, s1, j, v) /\ SlotAt(j) \in seqGroups[s1].slots
  BY <1>1
<1>4. /\ l = [seq |-> s, row |-> i, date |-> l.date, periods |-> l.periods, room |-> l.room,
              course |-> seqGroups[s].course, code |-> seqGroups[s].code, class |-> NameBy(pick, s)]
      /\ l.seq = s /\ l.row = i
  BY <1>2 DEF Made
<1>5. /\ k = [seq |-> s1, row |-> j, date |-> k.date, periods |-> k.periods, room |-> k.room,
              course |-> seqGroups[s1].course, code |-> seqGroups[s1].code, class |-> NameBy(pick, s1)]
      /\ k.seq = s1 /\ k.row = j
  BY <1>3 DEF Made
<1>6. s1 = s
  BY <1>4, <1>5
<1>7. SlotsOK(s, seqGroups[s].slots)
  <2>1. s \in Numbers
    BY <1>2, KeptAre DEF Made
  <2> QED BY <2>1, GroupsComplete
<1>8. i = j
  <2>1. SlotAt(i).row = i /\ SlotAt(j).row = j
    BY DEF SlotAt
  <2>2. SlotAt(i) = SlotAt(j)
    BY <1>2, <1>3, <1>4, <1>5, <1>6, <1>7, <2>1 DEF SlotsOK
  <2> QED BY <2>1, <2>2
<1> QED BY <1>4, <1>5, <1>6, <1>8

\* The invariant at the last call is what a finished split promises.
LEMMA SplitsAtTheEnd == SplitIInv => SplitsTheSheet
<1> SUFFICES ASSUME SplitIInv, stage = "split" PROVE SplitsTheSheet
  BY DEF SplitsTheSheet
<1>1. files.sessions = lessons /\ files.offerings = EmitOfferings
  BY FilesAre
<1>2. {<<l.seq, l.date, l.periods, l.room>> : l \in files.sessions}
        = UNION {{<<sheet[i].seq, DayOf(w, sheet[i].weekday), sheet[i].periods, sheet[i].room>> :
                    w \in WeeksOf(sheet[i].weeks)} : i \in LinesToTeach}
  BY <1>1, LessonsAreTheRows DEF LessonOf
<1>3. \A l \in files.sessions, k \in files.sessions :
        (l.seq = k.seq /\ l.date = k.date /\ l.periods = k.periods /\ l.room = k.room /\ l # k) =>
          CellsOf(sheet[l.row]) # CellsOf(sheet[k.row])
  BY <1>1, LessonsAreApart
<1>4. ASSUME NEW o \in files.offerings,
             NEW named, named = {sheet[i].teacher : i \in LinesOf(o.seq)} \ {Empty}
      PROVE  o.teachers = IF named = {} THEN {"unassigned"} ELSE named
  <2>1. PICK pick : offerings = OfferingsBy(pick)
    BY LessonsAreMade
  <2>2. /\ o.seq \in Kept
        /\ o.teachers = IF JoinTeachers(o.seq) = {} THEN {"unassigned"} ELSE JoinTeachers(o.seq)
    BY <1>1, <2>1, OfferingsAre
  <2>3. JoinTeachers(o.seq) = named
    BY <1>4, <2>2, KeptAre, GroupsComplete DEF JoinTeachers
  <2> QED BY <2>2, <2>3
<1> QED BY <1>2, <1>3, <1>4 DEF SplitsTheSheet

\* A sheet that is split gives the lessons its rows say and no other, each once,
\* and offerings with their teachers, for any sheets, regimes and terms.
THEOREM SheetIsSplit == SplitSpec => []SplitsTheSheet
BY SplitInvariance, SplitsAtTheEnd, PTL
=============================================================================
