---------------------------- MODULE MCCowCommit ----------------------------
(* Instances of CowCommit for TLC. *)
EXTENDS CowCommit

\* hasty is never reset, and nothing is claimed of a hasty state: its
\* successors need no exploring.
NotHasty == ~hasty
=============================================================================
