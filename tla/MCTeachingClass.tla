-------------------------- MODULE MCTeachingClass --------------------------
(***************************************************************************)
(* Teaching classes, and the splitter that makes the files of teaching     *)
(* classes and offerings out of a timetable: a behaviour exercises one of  *)
(* the two, chosen once.  The sets of TeachingClass are of interchangeable *)
(* values, which no sheet has.                                             *)
(***************************************************************************)
EXTENDS TeachingClass, MCSplitter

VARIABLE focus

MCInit ==
  /\ focus \in {"classes", "splitter"}
  /\ Init /\ SplitInit
  /\ focus = "splitter" \/ (sheet = <<>> /\ regimens = {})

MCNext ==
  \/ focus = "classes" /\ Next /\ UNCHANGED <<focus, splitVars>>
  \/ focus = "splitter" /\ SplitNext /\ UNCHANGED <<focus, vars>>

MCSpec == MCInit /\ [][MCNext]_<<focus, vars, splitVars>>

Symmetry == Permutations(Classes) \cup Permutations(Names) \cup Permutations(AdminClasses)
              \cup Permutations(Offerings) \cup Permutations(Clients)
=============================================================================
