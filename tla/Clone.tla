-------------------------------- MODULE Clone --------------------------------
(***************************************************************************)
(* What Output::clone promises (include/block/qoutputs.hpp): the caller    *)
(* gets, in one step, an output equal to the one it asked to copy, and the *)
(* source is not touched.  The caller may go on with the copy alone and    *)
(* clone that.                                                             *)
(***************************************************************************)
CONSTANT nullptr
VARIABLES source, copy

Init == copy = nullptr
Copy == copy = nullptr /\ copy' = source /\ UNCHANGED source
Again == copy # nullptr /\ source' = copy /\ copy' = nullptr
Spec == Init /\ [][Copy \/ Again]_<< source, copy >> /\ WF_<< source, copy >>(Copy)
=============================================================================
