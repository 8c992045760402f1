--------------------------- MODULE MCMemoryAccess ---------------------------
(***************************************************************************)
(* Small instances of MemoryAccess.                                          *)
(***************************************************************************)
EXTENDS MemoryAccess, TLC

CONSTANTS r1, p1, i1

\* One run of one project.
OneRun == r1 :> p1

\* A pull of the run, and one that found nothing and that nobody could place.
TwoPulls ==
  {[run |-> r1, project |-> p1, item |-> i1],
   [run |-> None, project |-> None, item |-> None]}
=============================================================================
