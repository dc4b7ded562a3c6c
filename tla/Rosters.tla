------------------------------ MODULE Rosters ------------------------------
(***************************************************************************)
(* What the people and course modules promise about teaching classes, with *)
(* no transactions: a class that an offering refers to keeps its members   *)
(* and is not deleted, and an offering refers to a class that exists.      *)
(***************************************************************************)
CONSTANTS Classes, Names, AdminClasses, Offerings, None

VARIABLES
  name,       \* of each teaching class; None when there is no such row
  members,    \* the admin classes of each teaching class
  offering    \* the teaching class of each course offering

MemberSets == (SUBSET AdminClasses) \ {{}}
InUse(c) == \E o \in Offerings : offering[o] = c

Init ==
  /\ name = [c \in Classes |-> None]
  /\ members = [c \in Classes |-> {}]
  /\ offering = [o \in Offerings |-> None]

\* Offerings that were imported meanwhile join after a transaction.
Join ==
  /\ offering' \in [Offerings -> Classes \cup {None}]
  /\ \A o \in Offerings : offering'[o] # offering[o] =>
                            offering[o] = None /\ name'[offering'[o]] # None

\* Some classes get a name and members: new ones, or existing ones, whose
\* members change only while nobody refers to them; or none does, and a
\* transaction failed.  Names stay unique.
WriteClasses ==
  /\ name' \in [Classes -> Names \cup {None}]
  /\ members' \in [Classes -> MemberSets \cup {{}}]
  /\ \A c \in Classes :
       /\ name'[c] = None => name[c] = None
       /\ name'[c] # None => members'[c] # {}
       /\ InUse(c) => members'[c] = members[c]
       /\ \A d \in Classes \ {c} : name'[c] # None => name'[d] # name'[c]
  /\ Join

DeleteClass(c) ==
  /\ name[c] # None /\ ~InUse(c)
  /\ name' = [name EXCEPT ![c] = None]
  /\ members' = [members EXCEPT ![c] = {}]
  /\ UNCHANGED offering

Offer(o, c) ==
  /\ name[c] # None
  /\ offering' = [offering EXCEPT ![o] = c]
  /\ UNCHANGED <<name, members>>

Withdraw(o) ==
  /\ offering' = [offering EXCEPT ![o] = None]
  /\ UNCHANGED <<name, members>>

Next ==
  \/ WriteClasses
  \/ \E c \in Classes : DeleteClass(c) \/ \E o \in Offerings : Offer(o, c)
  \/ \E o \in Offerings : Withdraw(o)

Spec == Init /\ [][Next]_<<name, members, offering>>
=============================================================================
