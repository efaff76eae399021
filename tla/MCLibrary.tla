------------------------------- MODULE MCLibrary -------------------------------
(* Model-checking instance of what keeps the library: naming the files (Naming)  *)
(* and scanning them (Library).  They meet only in constants, Library's keys     *)
(* being Naming's, so a behaviour exercises one and leaves the other at rest.    *)
EXTENDS Naming, Library, TLC

CONSTANTS Parts, f1, f2, t1, t2

VARIABLE part

(* Two copies of one title in one folder; the second starts the better one and *)
(* the first becomes it when it is replaced.                                   *)
MCKey == [f \in File |-> "k"]
MCTitle == [f \in File |-> t1]
MCDir == [f \in File |-> "d"]
MCGrade == (f1 :> <<1, 4>>) @@ (f2 :> <<2, 3>>)

Nowhere == [name |-> <<>>, folders |-> <<>>]

LibraryInit ==
  /\ part \in Parts
  /\ \/ part = "naming" /\ NamingInit
     \/ part # "naming" /\ nKind = "movie" /\ nPath = Nowhere
  /\ LibInit

LibraryNext == part = "library" /\ LibNext /\ UNCHANGED <<part, nVars>>

libraryVars == <<part, nVars, libVars>>

LibrarySpec == LibraryInit /\ [][LibraryNext]_libraryVars /\ LibFairness
=============================================================================
